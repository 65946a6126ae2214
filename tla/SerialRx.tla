------------------------------ MODULE SerialRx ------------------------------
(***************************************************************************)
(* How the receive task of the gateway gets a frame from the UART:         *)
(*                                                                         *)
(*   modem -> RX FIFO -> interrupt handler -> ring buffer or the buffer of *)
(*   the read in progress -> serial_read -> the framing of                 *)
(*   apicmdgw_recvtask,                                                    *)
(*                                                                         *)
(* and how another task aborts the read (apicmdgw_recvagain, apicmdgw_fin).*)
(*                                                                         *)
(* A byte is its frame and its place in it; the bytes of a magic number    *)
(* are equal in all frames, and no other byte is equal to one of them.     *)
(* Frames with line errors are not modelled.                               *)
(***************************************************************************)
EXTENDS Integers, Sequences, FiniteSets

CONSTANTS
  NFrames,    \* the frames the modem sends are 1..NFrames
  DataLen,    \* the data length of each
  Magic,      \* APICMDGW_MAGICNUMBER_LENGTH
  Header,     \* APICMDGW_APICMDHDR_LEN, with the magic number
  BuffMax,    \* APICMDGW_BUFF_SIZE_MAX
  RingSize,   \* the size of the ring buffer, which holds a byte less
  FifoSize,   \* the RX FIFO of the UART; RTS stops the modem when it is full
  Preempting, \* whether the aborting task may preempt the receive task
  MaxAgain    \* bound: the calls of apicmdgw_recvagain

Frames == 1..NFrames

ASSUME SerialAssumption ==
  /\ NFrames \in Nat
  /\ DataLen \in [Frames -> Nat]
  /\ Magic \in Nat \ {0} /\ Header \in Nat /\ Header > Magic
  /\ BuffMax \in Nat /\ Header <= BuffMax
  /\ \A f \in Frames : Header + DataLen[f] <= BuffMax
  /\ RingSize \in Nat /\ RingSize > 1
  /\ FifoSize \in Nat \ {0}
  /\ Preempting \in BOOLEAN
  /\ MaxAgain \in Nat

FrameLen(f) == Header + DataLen[f]
Junk == [frame |-> 0, pos |-> 0]
Bytes == [frame : Frames, pos : Nat \ {0}] \cup {Junk}

\* The number of bytes in the frames before f + 1.
End[f \in 0..NFrames] == IF f = 0 THEN 0 ELSE End[f - 1] + FrameLen(f)
Total == End[NFrames]

FrameOf(i) == CHOOSE f \in Frames : End[f - 1] < i /\ i <= End[f]
Wire == [i \in 1..Total |-> [frame |-> FrameOf(i), pos |-> i - End[FrameOf(i) - 1]]]

VARIABLES
  sent,      \* the bytes the modem has sent
  fifo,      \* RX FIFO
  ring,      \* the ring buffer from tail to head
  intOn,     \* the RX interrupts are enabled
  line,      \* rx_line_state
  requested, \* rx_data_length_requested
  remaining, \* rx_data_remaining_byte
  dest,      \* rx_data, as an index into rcvbuff
  flags,     \* the task flags of the receive task
  received,  \* received_length of the serial resource
  abort,     \* g_abort_type
  apc,       \* where the aborting task is
  again,     \* the calls of apicmdgw_recvagain so far
  rxpc,      \* where the receive task is
  rcvbuff,   \* its buffer
  recvsts,   \* the state of its framing
  rcvptr,    \* where in the buffer it reads to
  rcvlen,    \* how many bytes it reads
  totallen,  \* how many it has
  datalen,   \* the data length in the header
  got,       \* the frames it has recognized
  consumed,  \* ghost: the bytes that serial_read has returned
  split      \* ghost: the frames with an abort in the middle of the magic number

uartVars   == <<intOn, line, requested, remaining, dest, ring>>
abortVars  == <<abort, apc, again, received>>
frameVars  == <<recvsts, rcvptr, rcvlen, totallen, datalen>>
readerVars == <<rxpc, frameVars, got, consumed, split>>
vars == <<sent, fifo, uartVars, flags, abortVars, readerVars, rcvbuff>>

\* After serial_open, with the receive task at its loop.
Init ==
  /\ sent = 0 /\ fifo = <<>> /\ ring = <<>> /\ intOn = TRUE
  /\ line = "idle" /\ requested = 0 /\ remaining = 0 /\ dest = 0
  /\ flags = {} /\ received = 0
  /\ abort = "none" /\ apc = "off" /\ again = 0
  /\ rxpc = "recv"
  /\ rcvbuff = [i \in 0..BuffMax - 1 |-> Junk]
  /\ recvsts = "idle" /\ rcvptr = 0 /\ rcvlen = 1 /\ totallen = 0 /\ datalen = 0
  /\ got = <<>> /\ consumed = 0 /\ split = {}

Minimum(a, b) == IF a < b THEN a ELSE b

\* The buffer with the bytes of s from index i.
Put(i, s) ==
  [k \in DOMAIN rcvbuff |-> IF k - i + 1 \in DOMAIN s THEN s[k - i + 1] ELSE rcvbuff[k]]

-----------------------------------------------------------------------------
(* The modem and the interrupt handler *)

\* RTS lets the modem send while there is room.
ModemSends ==
  /\ sent < Total /\ Len(fifo) < FifoSize
  /\ sent' = sent + 1
  /\ fifo' = Append(fifo, Wire[sent + 1])
  /\ UNCHANGED <<uartVars, flags, abortVars, readerVars, rcvbuff>>

\* A byte for the read in progress; the last one completes it.
IsrDirect ==
  /\ intOn /\ fifo # <<>> /\ remaining > 0
  /\ rcvbuff' = Put(dest, <<Head(fifo)>>)
  /\ fifo' = Tail(fifo)
  /\ dest' = dest + 1
  /\ remaining' = remaining - 1
  /\ line' = IF remaining = 1 THEN "idle" ELSE line
  /\ flags' = IF remaining = 1 THEN flags \cup {"complete"} ELSE flags
  /\ UNCHANGED <<sent, intOn, requested, ring, abortVars, readerVars>>

\* A byte nobody waits for.
IsrStore ==
  /\ intOn /\ fifo # <<>> /\ remaining = 0
  /\ Len(ring) < RingSize - 1
  /\ ring' = Append(ring, Head(fifo))
  /\ fifo' = Tail(fifo)
  /\ UNCHANGED <<sent, intOn, line, requested, remaining, dest, flags, abortVars,
                 readerVars, rcvbuff>>

\* The ring buffer is full.
IsrFull ==
  /\ intOn /\ fifo # <<>> /\ remaining = 0
  /\ Len(ring) = RingSize - 1
  /\ intOn' = FALSE
  /\ UNCHANGED <<sent, fifo, line, requested, remaining, dest, ring, flags, abortVars,
                 readerVars, rcvbuff>>

Isr == IsrDirect \/ IsrStore \/ IsrFull

-----------------------------------------------------------------------------
(* The framing of apicmdgw_recvtask: b is the buffer after the read, total   *)
(* the bytes the task then has, n those of this read.                        *)

\* APICMDGW_RECV_STATUS_INIT
RcvInit == recvsts' = "idle" /\ rcvptr' = 0 /\ rcvlen' = 1 /\ totallen' = 0

MagicAt(b, i) == \A k \in 1..Magic : b[i + k - 1].pos = k

\* The bytes from place first to place last belong to one frame, in order.
IsFrame(b, first, last) ==
  \E f \in Frames : \A k \in first..last : b[k - 1] = [frame |-> f, pos |-> k]

\* memmove of the magic number to the front, memset of as many bytes behind it.
Moved(b, i) ==
  [k \in DOMAIN b |-> IF k < Magic THEN b[i + k] ELSE IF k < Magic + i THEN Junk ELSE b[k]]

MagicFound(b, total) ==
  \E i \in 0..(total - Magic) :
    /\ MagicAt(b, i) /\ \A j \in 0..(i - 1) : ~MagicAt(b, j)
    /\ rcvbuff' = Moved(b, i)
    /\ recvsts' = "header" /\ rcvptr' = Magic /\ rcvlen' = Header - Magic
    /\ totallen' = Magic
    /\ UNCHANGED datalen

\* No magic number yet: the next byte goes to the next place.
MagicMissing(b, total) ==
  /\ \A i \in 0..(total - Magic) : ~MagicAt(b, i)
  /\ rcvbuff' = b
  /\ recvsts' = "magic" /\ rcvptr' = rcvptr + 1 /\ rcvlen' = 1
  /\ totallen' = total
  /\ UNCHANGED datalen

HeaderComplete(b, total) ==
  /\ total = Header
  /\ IsFrame(b, Magic + 1, Header)
  /\ recvsts' = "data" /\ rcvptr' = Header /\ totallen' = total
  /\ datalen' = DataLen[b[Header - 1].frame]
  /\ rcvlen' = datalen'

HeaderBad(b, total) ==
  /\ total = Header
  /\ ~IsFrame(b, Magic + 1, Header)
  /\ RcvInit
  /\ UNCHANGED datalen

DataComplete(total) == recvsts = "data" /\ total = Header + datalen

\* Mutant of PartRead: the rest is read over the first part.
PartReadInPlace(total, n) ==
  /\ total < Header + (IF recvsts = "data" THEN datalen ELSE 0)
  /\ totallen' = total
  /\ rcvlen' = Header + (IF recvsts = "data" THEN datalen ELSE 0) - total
  /\ UNCHANGED <<recvsts, rcvptr, datalen>>

\* A read of the header or the data that was aborted goes on.
PartRead(total, n) ==
  /\ total < Header + (IF recvsts = "data" THEN datalen ELSE 0)
  /\ rcvptr' = rcvptr + n /\ totallen' = total
  /\ rcvlen' = Header + (IF recvsts = "data" THEN datalen ELSE 0) - total
  /\ UNCHANGED <<recvsts, datalen>>

\* What the task does with the n bytes that a read put into the buffer b.
Parse(b, n) ==
  LET total == totallen + n IN
  /\ consumed' = consumed + n
  /\ rxpc' = "recv"
  /\ got' = IF DataComplete(total) /\ IsFrame(b, Magic + 1, total)
              THEN Append(got, b[Header - 1].frame) ELSE got
  /\ \/ recvsts = "idle" /\ n = 0 /\ RcvInit /\ rcvbuff' = b /\ UNCHANGED datalen
     \/ /\ recvsts = "magic" \/ (recvsts = "idle" /\ n > 0)
        /\ MagicFound(b, total) \/ MagicMissing(b, total)
     \/ /\ recvsts = "header" /\ rcvbuff' = b
        /\ HeaderComplete(b, total) \/ HeaderBad(b, total) \/ PartRead(total, n)
     \/ /\ recvsts = "data" /\ rcvbuff' = b
        /\ (DataComplete(total) /\ RcvInit /\ UNCHANGED datalen) \/ PartRead(total, n)

-----------------------------------------------------------------------------
(* The receive task *)

\* No data to read: the frame is complete with its header.
RxNoData ==
  /\ rxpc = "recv" /\ rcvlen = 0
  /\ Parse(rcvbuff, 0)
  /\ UNCHANGED <<sent, fifo, uartVars, flags, abortVars, split>>

\* A frame that does not fit is given up; HAL_RECV_ABORT_CHECK.
RxCheck ==
  /\ rxpc = "recv" /\ rcvlen > 0
  /\ IF totallen + rcvlen <= BuffMax
       THEN UNCHANGED <<frameVars, rcvbuff>>
       ELSE RcvInit /\ UNCHANGED datalen /\ rcvbuff' = [i \in DOMAIN rcvbuff |-> Junk]
  /\ rxpc' = CASE abort = "none" -> "checked"
               [] abort = "again" -> "recv"
               [] abort = "terminate" -> "gone"
  /\ abort' = IF abort = "again" THEN "none" ELSE abort
  /\ UNCHANGED <<sent, fifo, uartVars, flags, apc, again, received, got, consumed, split>>

Copied == Minimum(rcvlen, Len(ring))

\* Mutant of Drain: the interrupts stay off after a full ring buffer.
DrainIntOff ==
  /\ ring' = SubSeq(ring, Copied + 1, Len(ring))
  /\ requested' = rcvlen
  /\ remaining' = rcvlen - Copied
  /\ dest' = rcvptr + Copied
  /\ UNCHANGED intOn

\* What DRV_UART_Receive_Nonblock does, whose drain of the ring buffer runs with
\* the interrupts off.
Drain ==
  /\ ring' = SubSeq(ring, Copied + 1, Len(ring))
  /\ requested' = rcvlen
  /\ remaining' = rcvlen - Copied
  /\ dest' = rcvptr + Copied
  /\ intOn' = TRUE

\* The ring buffer has all the bytes of the read.
RxReadAll ==
  /\ rxpc = "checked" /\ line = "idle" /\ Copied = rcvlen
  /\ Drain
  /\ Parse(Put(rcvptr, SubSeq(ring, 1, Copied)), rcvlen)
  /\ UNCHANGED <<sent, fifo, line, flags, abortVars, split>>

\* The interrupt handler has to fetch the rest.
RxReadWait ==
  /\ rxpc = "checked" /\ line = "idle" /\ Copied < rcvlen
  /\ Drain
  /\ line' = "busy"
  /\ rcvbuff' = Put(rcvptr, SubSeq(ring, 1, Copied))
  /\ rxpc' = "wait"
  /\ UNCHANGED <<sent, fifo, flags, abortVars, frameVars, got, consumed, split>>

\* The length serial_read returns when it is woken.
ReadSize == IF "complete" \in flags THEN requested - remaining ELSE received

RxWake ==
  /\ rxpc = "wait" /\ flags # {}
  /\ flags' = {}
  /\ Parse(rcvbuff, ReadSize)
  /\ split' = IF recvsts = "magic" /\ ReadSize = 0
                THEN split \cup {Wire[consumed].frame} ELSE split
  /\ UNCHANGED <<sent, fifo, uartVars, abortVars>>

RxStep == RxNoData \/ RxCheck \/ RxReadAll \/ RxReadWait \/ RxWake

-----------------------------------------------------------------------------
(* The task that aborts the read *)

\* The receive task has the higher priority: the aborting task does not run
\* between the check of the abort request and the start of the read.
Runs == Preempting \/ rxpc # "checked"

Ask(type) ==
  /\ apc = "off" /\ Runs
  /\ abort' = type
  /\ apc' = "asked"
  /\ UNCHANGED <<sent, fifo, uartVars, flags, received, readerVars, rcvbuff>>

\* apicmdgw_recvagain
AskAgain ==
  /\ again < MaxAgain /\ abort # "terminate"
  /\ again' = again + 1
  /\ Ask("again")

\* apicmdgw_fin
AskTerminate ==
  /\ abort # "terminate"
  /\ Ask("terminate")
  /\ UNCHANGED again

\* DRV_UART_Abort_Receive: no read in progress.
AbortIdle ==
  /\ apc = "asked" /\ Runs /\ line = "idle"
  /\ apc' = "off"
  /\ intOn' = TRUE
  /\ UNCHANGED <<sent, fifo, line, requested, remaining, dest, ring, flags, abort, again,
                 received, readerVars, rcvbuff>>

\* Mutant of AbortRead: the bytes received so far are not reported.
AbortReadEmpty ==
  /\ apc = "asked" /\ Runs /\ line = "busy"
  /\ received' = 0
  /\ requested' = 0 /\ remaining' = 0
  /\ line' = "idle"
  /\ intOn' = TRUE
  /\ apc' = "tell"
  /\ UNCHANGED <<sent, fifo, dest, ring, flags, abort, again, readerVars, rcvbuff>>

\* Mutant of AbortRead: the interrupt handler keeps the address of the read.
AbortReadKeeps ==
  /\ apc = "asked" /\ Runs /\ line = "busy"
  /\ received' = requested - remaining
  /\ line' = "idle"
  /\ intOn' = TRUE
  /\ apc' = "tell"
  /\ UNCHANGED <<sent, fifo, requested, remaining, dest, ring, flags, abort, again,
                 readerVars, rcvbuff>>

AbortRead ==
  /\ apc = "asked" /\ Runs /\ line = "busy"
  /\ received' = requested - remaining
  /\ requested' = 0 /\ remaining' = 0
  /\ line' = "idle"
  /\ intOn' = TRUE
  /\ apc' = "tell"
  /\ UNCHANGED <<sent, fifo, dest, ring, flags, abort, again, readerVars, rcvbuff>>

\* Mutant of AbortTell: the reader is not woken.
AbortTellNot ==
  /\ apc = "tell" /\ Runs
  /\ apc' = "off"
  /\ UNCHANGED <<sent, fifo, uartVars, flags, abort, again, received, readerVars, rcvbuff>>

AbortTell ==
  /\ apc = "tell" /\ Runs
  /\ flags' = flags \cup {"abort"}
  /\ apc' = "off"
  /\ UNCHANGED <<sent, fifo, uartVars, abort, again, received, readerVars, rcvbuff>>

AbortStep == AbortIdle \/ AbortRead \/ AbortTell

-----------------------------------------------------------------------------
Next == ModemSends \/ Isr \/ RxStep \/ AskAgain \/ AskTerminate \/ AbortStep

\* An enabled interrupt is served, and the tasks run.
Fairness == WF_vars(Isr) /\ WF_vars(RxStep) /\ WF_vars(AbortStep)

Spec == Init /\ [][Next]_vars /\ Fairness

-----------------------------------------------------------------------------
(* Safety *)

\* The bytes of the read in progress, or of one that ended and whose reader has
\* not run yet.
InBuffer ==
  LET n == CASE rxpc # "wait" -> 0
             [] line = "busy" \/ "complete" \in flags -> requested - remaining
             [] OTHER -> received
  IN [k \in 1..n |-> rcvbuff[rcvptr + k - 1]]

\* The bytes go through the FIFO and either the ring buffer or straight to the
\* reader's buffer, with reads that start, complete and are aborted in between:
\* none is lost, doubled, or overtaken by a later one.
BytesInOrder ==
  [i \in 1..(sent - consumed) |-> Wire[consumed + i]] = InBuffer \o ring \o fifo

\* A read that completes has all its bytes (the CONTAINER_ASSERT of serial_read)
\* and was not aborted, and one starts with the line idle and no old flag, which
\* would end it at once.
ReadProtocol ==
  /\ "complete" \in flags => rxpc = "wait" /\ requested - remaining = rcvlen /\ "abort" \notin flags
  /\ rxpc = "wait" <=> line = "busy" \/ flags # {} \/ apc = "tell"

\* The frame was not recognized because an abort split its magic number or that
\* of the frame before, whose end the receive task then takes for the header of
\* this one; a frame without data passes the damage on to the next.
Damaged(f) ==
  \/ f \in split
  \/ f - 1 \in split
  \/ f - 2 \in split /\ DataLen[f - 1] = 0

\* The receive task recognizes every frame it has read, once and in order, and
\* finds the next frame again after an abort that made it lose one.
FramesRecognized ==
  /\ \A i \in 1..(Len(got) - 1) : got[i] < got[i + 1]
  /\ \A f \in Frames : End[f] <= consumed /\ rcvlen > 0 => (\E i \in DOMAIN got : got[i] = f) \/ Damaged(f)

-----------------------------------------------------------------------------
(* Liveness *)

\* Every byte of the modem reaches the buffer of the receive task, although the
\* interrupts go off while the ring buffer is full and nobody but the task's next
\* read turns them on again.
AllBytesRead ==
  \A n \in 1..Total :
    (sent = n) ~> (consumed + Len(InBuffer) >= n \/ abort = "terminate")

\* A request to terminate ends the receive task, whatever it does at that
\* moment: no wait of serial_read misses it, and apicmdgw_fin, which waits for
\* the task, gets on.
TerminateEnds == (abort = "terminate") ~> (rxpc = "gone")

=============================================================================
