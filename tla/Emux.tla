--------------------------------- MODULE Emux ---------------------------------
(***************************************************************************)
(* The multiplexer of serial channels and two users of it:                 *)
(*                                                                         *)
(*   modem -> serial_read -> muxReceiveCallback -> MUX_PortReceiveCallback *)
(*                                                                         *)
(* and from there either, on the port "hal", to the receive buffer of      *)
(* hal_emux_alt125x, or, on the port "app", to the read in progress of an  *)
(* application or the ring buffer of the port.  The receive task of emux   *)
(* does all this, byte by byte; the receive task of the gateway, tasks     *)
(* that send, abort or delete the HAL, and the application run besides.    *)
(*                                                                         *)
(* A frame is: flag, address, control, one or two bytes of length, data,   *)
(* checksum, flag.  A byte is its frame and its place in it.  The U-Boot   *)
(* mode is not modelled.                                                   *)
(***************************************************************************)
EXTENDS Integers, Sequences, FiniteSets

CONSTANTS
  NFrames,    \* the frames the modem sends are 1..NFrames
  Port,       \* the port each is for
  Prefix,     \* the bytes before its data: 4, or 5 with a length of two bytes
  DataLen,    \* the bytes of its data
  FlagLike,   \* the bytes inside of frames that have the value of the flag
  MaxMisread, \* bound: the length that is read from bytes that are no length
  RingSize,   \* the size of the ring buffer of "app", which holds a byte less
  BuffSize,   \* HAL_EMUX_ALT125X_MAXPACKETSIZE
  HalLens,    \* the lengths the gateway reads
  MaxSends,   \* bound: the frames the gateway sends
  Uses        \* the ports in use, with the lengths the application reads and the
              \* bounds on damaged frames, escape sequences and apicmdgw_recvagain

Ports == {"hal", "app"}
Frames == 1..NFrames

ASSUME EmuxAssumption ==
  /\ NFrames \in Nat
  /\ Port \in [Frames -> Ports]
  /\ Prefix \in [Frames -> {4, 5}]
  /\ DataLen \in [Frames -> Nat \ {0}]
  /\ FlagLike \subseteq [frame : Frames, pos : Nat]
  /\ \A b \in FlagLike : b.pos # 2 \* no address has the value of the flag
  /\ MaxMisread \in Nat
  /\ RingSize \in Nat \ {0} /\ BuffSize \in Nat \ {0}
  /\ HalLens \subseteq Nat \ {0}
  /\ MaxSends \in Nat
  /\ Uses \subseteq [ports : SUBSET Ports, wanted : SUBSET (Nat \ {0}),
                     damaged : Nat, escapes : Nat, again : Nat]

Postfix == 2 \* HEADER_POSTFIX_SIZE
FrameLen(f) == Prefix[f] + DataLen[f] + Postfix
Byte(f, p) == [frame |-> f, pos |-> p]
Bytes == UNION {{Byte(f, p) : p \in 1..FrameLen(f)} : f \in Frames}

\* The number of bytes in the frames before f + 1.
End[f \in 0..NFrames] == IF f = 0 THEN 0 ELSE End[f - 1] + FrameLen(f)
FrameOf(i) == CHOOSE f \in Frames : End[f - 1] < i /\ i <= End[f]
Wire == [i \in 1..End[NFrames] |-> Byte(FrameOf(i), i - End[FrameOf(i) - 1])]

IsFlag(b) == b.pos = 1 \/ b.pos = FrameLen(b.frame) \/ b \in FlagLike
SameValue(b, c) == b = c \/ (IsFlag(b) /\ IsFlag(c))

VARIABLES
  use,      \* the member of Uses
  sent,     \* the bytes of the wire that have arrived or were lost
  damaged,  \* ghost: the frames that lost bytes
  escapes,  \* the frames before which the modem sent the escape sequence
  preamble, \* preambleFound
  header,   \* the bytes of the header after the flag
  toRead,   \* dataToRead
  data,     \* dataBuffer
  rxpc,     \* where the receive task of emux is
  port,     \* the port it delivers to, whose rxSem it holds
  found,    \* the frames it recognized
  blind,    \* ghost: the frames that began inside of what it took for another
  ring,     \* "app": rxRingBuffer
  dest,     \* "app": the bytes the read in progress has
  dataSize, \* "app": the bytes it lacks
  rxState,  \* "app": whether a read is in progress
  doneCB,   \* "app": whether it is one with a callback
  complete, \* "app": EMUX_RX_COMPLETE of the event flag
  rpc,      \* "app": where the task is that reads
  ended,    \* ghost: how the last read ended, and what it lacked then
  unread,   \* ghost: for each port the accepted bytes that no read has returned
  buff,     \* recvbuff of the HAL up to writeptr
  rp,       \* readptr
  sem,      \* objsem
  mtx,      \* whether the sending task holds objintmtx
  sends,    \* the frames sent so far
  abort,    \* g_abort_type
  apc,      \* where the aborting task is
  again,    \* the calls of apicmdgw_recvagain so far
  hpc,      \* where the receive task of the gateway is
  evCB,     \* rxEventCB of "hal" is set
  bound,    \* the ports whose serialRxProcessFp is set
  dpc       \* how far hal_emux_alt125x_delete is

lineVars  == <<use, sent, damaged, escapes>>
parseVars == <<preamble, header, toRead, data>>
rxVars    == <<rxpc, port, found, blind>>
appVars   == <<ring, dest, dataSize, rxState, doneCB, complete, rpc, ended>>
buffVars  == <<buff, rp, sem>>
abortVars == <<abort, apc, again>>
delVars   == <<evCB, bound, dpc>>
halVars   == <<buffVars, mtx, sends, abortVars, hpc, delVars>>
vars == <<lineVars, parseVars, rxVars, appVars, unread, halVars>>

TypeOK ==
  /\ use \in Uses /\ sent \in 0..End[NFrames]
  /\ damaged \subseteq Frames /\ escapes \subseteq Frames
  /\ preamble \in BOOLEAN
  /\ header \in Seq(Bytes) /\ Len(header) <= 4
  /\ toRead \in Nat
  /\ data \in Seq(Bytes)
  /\ rxpc \in {"parse", "deliver", "callback"}
  /\ port \in Ports
  /\ found \in Seq(Frames) /\ blind \subseteq Frames
  /\ ring \in Seq(Bytes) /\ Len(ring) < RingSize
  /\ dest \in Seq(Bytes) /\ dataSize \in Nat
  /\ rxState \in {"idle", "busy"} /\ doneCB \in BOOLEAN /\ complete \in BOOLEAN
  /\ rpc \in {"idle", "wait", "woken", "late"}
  /\ ended \in [result : {"none", "success", "timeout"}, lacks : Nat]
  /\ unread \in [Ports -> Seq(Bytes)]
  /\ buff \in Seq(Bytes) /\ Len(buff) <= BuffSize /\ rp \in 0..Len(buff) /\ sem \in 0..1
  /\ mtx \in BOOLEAN /\ sends \in 0..MaxSends
  /\ abort \in {"none", "again", "terminate"} /\ apc \in {"off", "post"} /\ again \in 0..use.again
  /\ hpc \in {"check", "look", "wait", "copy", "gone"}
  /\ evCB \in BOOLEAN /\ bound \subseteq Ports
  /\ dpc \in {"none", "stopped", "unbound", "freed"}

\* After MUX_Init of "app", hal_emux_alt125x_create or both, with the tasks running.
Init ==
  /\ use \in Uses /\ sent = 0 /\ damaged = {} /\ escapes = {}
  /\ preamble = FALSE /\ header = <<>> /\ toRead = 0 /\ data = <<>>
  /\ rxpc = "parse" /\ port = "app" /\ found = <<>> /\ blind = {}
  /\ ring = <<>> /\ dest = <<>> /\ dataSize = 0 /\ rxState = "idle" /\ doneCB = FALSE
  /\ complete = FALSE /\ rpc = "idle" /\ ended = [result |-> "none", lacks |-> 0]
  /\ unread = [p \in Ports |-> <<>>]
  /\ buff = <<>> /\ rp = 0 /\ sem = 0
  /\ mtx = FALSE /\ sends = 0
  /\ abort = "none" /\ apc = "off" /\ again = 0
  /\ bound = use.ports /\ evCB = ("hal" \in bound)
  /\ hpc = IF evCB THEN "check" ELSE "gone"
  /\ dpc = IF evCB THEN "none" ELSE "freed"

-----------------------------------------------------------------------------
(* The line and the parser of mux_util *)

LineLoses ==
  /\ sent < End[NFrames]
  /\ sent' = sent + 1
  /\ damaged' = damaged \cup {FrameOf(sent + 1)}
  /\ Cardinality(damaged') <= use.damaged
  /\ UNCHANGED <<use, escapes, parseVars, rxVars, appVars, unread, halVars>>

\* The parser at the start, looking for a flag.
Research == preamble' = FALSE /\ header' = <<>> /\ toRead' = 0 /\ data' = <<>>

\* The modem sends the escape sequence between two frames.
Escape ==
  /\ rxpc = "parse"
  /\ \E f \in 0..NFrames - 1 : sent = End[f] /\ escapes' = escapes \cup {f + 1}
  /\ Cardinality(escapes') <= use.escapes
  /\ Research
  /\ UNCHANGED <<use, sent, damaged, rxVars, appVars, unread, halVars>>

\* The bytes from the second on of a frame, as far as s goes.
StartOf(f, s) ==
  /\ Len(s) < FrameLen(f)
  /\ \A k \in DOMAIN s : SameValue(s[k], Byte(f, k + 1))

\* The length in a header: what its sender meant, or what bytes of something else
\* happen to say.
LengthIn(h) ==
  IF \E f \in Frames : StartOf(f, h)
    THEN {DataLen[f] : f \in {g \in Frames : StartOf(g, h)}}
    ELSE 0..MaxMisread

\* Whether a fourth byte of the header makes it complete.
ShortHeader(h) ==
  IF \E f \in Frames : StartOf(f, h)
    THEN {Prefix[f] = 4 : f \in {g \in Frames : StartOf(g, h)}}
    ELSE BOOLEAN

ReadHeader(b) ==
  LET h == Append(header, b) IN
  /\ UNCHANGED <<data, rxpc, port, found>>
  /\ \/ Len(h) < 3 /\ header' = h /\ UNCHANGED <<preamble, toRead>>
     \/ Len(h) = 3 /\ FALSE \in ShortHeader(h) /\ header' = h /\ UNCHANGED <<preamble, toRead>>
     \/ /\ Len(h) = 4 \/ (Len(h) = 3 /\ TRUE \in ShortHeader(h))
        /\ \E n \in LengthIn(h) :
             /\ toRead' = n
             /\ preamble' = (n > 0)
             /\ header' = IF n > 0 THEN h ELSE <<>>

\* The checksum and the flag are those of the frame that the header began.
IsFrame(f, s) == StartOf(f, s) /\ Len(s) = FrameLen(f) - 1

\* The frame is complete; the port's rxSem is taken, and its function looked at.
Complete(s) ==
  \/ \E f \in Frames :
       /\ IsFrame(f, s)
       /\ found' = Append(found, f)
       /\ port' = Port[f]
       /\ IF Port[f] \in bound
            THEN /\ rxpc' = "deliver" /\ data' = SubSeq(s, Prefix[f], Prefix[f] + DataLen[f] - 1)
                 /\ preamble' = FALSE /\ header' = <<>> /\ toRead' = 0
            ELSE rxpc' = "parse" /\ Research
  \/ /\ \A f \in Frames : ~IsFrame(f, s)
     /\ Research
     /\ UNCHANGED <<rxpc, port, found>>

ReadData(b) ==
  IF Len(data) + 1 < toRead + Postfix
    THEN data' = Append(data, b) /\ UNCHANGED <<preamble, header, toRead, rxpc, port, found>>
    ELSE Complete(header \o Append(data, b))

FindFlag(b) ==
  /\ preamble' = IsFlag(b) /\ header' = <<>>
  /\ UNCHANGED <<toRead, data, rxpc, port, found>>

\* Mutant of SkipFlag: the second of two flags is taken for the address.
SkipFlagNever(b) == FALSE

\* A flag after the flag: what came first was the end of another frame.
SkipFlag(b) == preamble /\ header = <<>> /\ IsFlag(b)

\* emuxRxTask gets the next byte.
RxByte ==
  /\ rxpc = "parse" /\ sent < End[NFrames]
  /\ sent' = sent + 1
  /\ LET b == Wire[sent + 1] IN
     /\ blind' = IF b.pos = 1 /\ (toRead > 0 \/ header # <<>>) THEN blind \cup {b.frame} ELSE blind
     /\ \/ toRead > 0 /\ ReadData(b)
        \/ toRead = 0 /\ SkipFlag(b) /\ UNCHANGED <<parseVars, rxpc, port, found>>
        \/ toRead = 0 /\ ~SkipFlag(b) /\ preamble /\ ReadHeader(b)
        \/ toRead = 0 /\ ~preamble /\ FindFlag(b)
  /\ UNCHANGED <<use, damaged, escapes, appVars, unread, halVars>>

\* The byte is dealt with; after the last one rxSem is given back.
NextByte ==
  /\ data' = Tail(data)
  /\ rxpc' = IF Len(data) = 1 THEN "parse" ELSE "deliver"
  /\ UNCHANGED <<lineVars, preamble, header, toRead, port, found, blind>>

-----------------------------------------------------------------------------
(* The port "app": MUX_PortReceiveCallback and the reads *)

Accept(p, b) == unread' = [unread EXCEPT ![p] = Append(@, b)]

\* A byte for the read in progress; the last one ends a read with a callback, and
\* wakes the task of the other.
AppFill ==
  /\ rxpc = "deliver" /\ port = "app" /\ dataSize > 0
  /\ NextByte
  /\ dataSize' = dataSize - 1
  /\ IF dataSize = 1 /\ doneCB
       THEN /\ rxState' = "idle" /\ doneCB' = FALSE /\ dest' = <<>>
            /\ ended' = [result |-> "success", lacks |-> 0]
            /\ unread' = [unread EXCEPT !["app"] = SubSeq(@, Len(dest) + 1, Len(@))]
            /\ UNCHANGED complete
       ELSE /\ dest' = Append(dest, Head(data)) /\ Accept("app", Head(data))
            /\ complete' = (complete \/ dataSize = 1)
            /\ UNCHANGED <<rxState, doneCB, ended>>
  /\ UNCHANGED <<ring, rpc, halVars>>

\* Mutant of AppStore: a full ring buffer loses its oldest byte.
AppStoreOver ==
  /\ rxpc = "deliver" /\ port = "app" /\ dataSize = 0
  /\ NextByte
  /\ ring' = Append(IF Len(ring) < RingSize - 1 THEN ring ELSE Tail(ring), Head(data))
  /\ Accept("app", Head(data))
  /\ UNCHANGED <<dest, dataSize, rxState, doneCB, complete, rpc, ended, halVars>>

\* A byte that no read waits for; a full ring buffer does not take it.
AppStore ==
  /\ rxpc = "deliver" /\ port = "app" /\ dataSize = 0
  /\ NextByte
  /\ IF Len(ring) < RingSize - 1
       THEN ring' = Append(ring, Head(data)) /\ Accept("app", Head(data))
       ELSE UNCHANGED <<ring, unread>>
  /\ UNCHANGED <<dest, dataSize, rxState, doneCB, complete, rpc, ended, halVars>>

\* MUX_ReceiveTimeout up to its wait, or MUX_Receive_NonBlock with a callback; while
\* a read is in progress both return at once.
AppRead(n, callback) ==
  LET k == IF Len(ring) < n THEN Len(ring) ELSE n IN
  /\ "app" \in bound /\ rpc = "idle" /\ rxState = "idle"
  /\ ring' = SubSeq(ring, k + 1, Len(ring))
  /\ IF k = n
       THEN /\ ended' = [result |-> "success", lacks |-> 0]
            /\ unread' = [unread EXCEPT !["app"] = SubSeq(@, n + 1, Len(@))]
            /\ UNCHANGED <<dest, dataSize, rxState, doneCB, rpc>>
       ELSE /\ dest' = SubSeq(ring, 1, k) /\ dataSize' = n - k
            /\ rxState' = "busy" /\ doneCB' = callback
            /\ rpc' = IF callback THEN "idle" ELSE "wait"
            /\ UNCHANGED <<ended, unread>>
  /\ UNCHANGED <<lineVars, parseVars, rxVars, complete, halVars>>

\* The event flag wakes the task and is cleared by that.
AppWoken ==
  /\ rpc = "wait" /\ complete
  /\ complete' = FALSE
  /\ rpc' = "woken"
  /\ UNCHANGED <<lineVars, parseVars, rxVars, ring, dest, dataSize, rxState, doneCB, ended,
                 unread, halVars>>

AppTimeout ==
  /\ rpc = "wait" /\ ~complete
  /\ rpc' = "late"
  /\ UNCHANGED <<lineVars, parseVars, rxVars, ring, dest, dataSize, rxState, doneCB, complete,
                 ended, unread, halVars>>

EndRead ==
  /\ rpc \in {"woken", "late"}
  /\ ended' = [result |-> IF rpc = "woken" THEN "success" ELSE "timeout", lacks |-> dataSize]
  /\ unread' = [unread EXCEPT !["app"] = SubSeq(@, Len(dest) + 1, Len(@))]
  /\ dest' = <<>> /\ dataSize' = 0 /\ rxState' = "idle"
  /\ rpc' = "idle"
  /\ UNCHANGED <<lineVars, parseVars, rxVars, ring, doneCB, halVars>>

\* Mutant of AppEnd: the flag of a byte that came after the time-out stays set.
AppEndFlagged == EndRead /\ UNCHANGED complete

\* MUX_ReceiveTimeout after its wait.
AppEnd == EndRead /\ complete' = FALSE

-----------------------------------------------------------------------------
(* The port "hal": hal_emux_alt125x *)

\* The callback is called, or there is none and no ring buffer either.
HalByte ==
  /\ rxpc = "deliver" /\ port = "hal"
  /\ IF evCB
       THEN rxpc' = "callback" /\ UNCHANGED <<lineVars, parseVars, port, found, blind>>
       ELSE NextByte
  /\ UNCHANGED <<appVars, unread, halVars>>

\* Mutant of Full: the buffer takes a byte more than it has.
FullLate == Len(buff) > BuffSize

Full == Len(buff) = BuffSize

\* The bytes between readptr and writeptr.
Unspent == SubSeq(buff, rp + 1, Len(buff))

\* A full buffer of which nothing was read does not take the byte.
HalDiscard ==
  /\ rxpc = "callback" /\ ~mtx /\ Full /\ rp = 0
  /\ NextByte
  /\ UNCHANGED <<appVars, unread, halVars>>

HalStored(post) ==
  /\ rxpc = "callback" /\ ~mtx /\ ~(Full /\ rp = 0)
  /\ NextByte
  /\ buff' = Append(IF Full THEN Unspent ELSE buff, Head(data))
  /\ rp' = IF Full THEN 0 ELSE rp
  /\ sem' = IF post THEN 1 ELSE sem
  /\ Accept("hal", Head(data))
  /\ UNCHANGED <<appVars, mtx, sends, abortVars, hpc, delVars>>

\* Mutant of HalStore: only a byte that finds the buffer without bytes is told.
HalStoreQuiet == HalStored(buff = <<>>)

\* A full buffer is shifted first.
HalStore == HalStored(TRUE)

\* HAL_RECV_ABORT_CHECK, before the first look at the buffer and after every wait.
HalCheck ==
  /\ hpc = "check" /\ ~mtx
  /\ hpc' = CASE abort = "none" -> "look" [] abort = "again" -> "check" [] abort = "terminate" -> "gone"
  /\ abort' = IF abort = "again" THEN "none" ELSE abort
  /\ UNCHANGED <<lineVars, parseVars, rxVars, appVars, unread, buffVars, mtx, sends, apc, again, delVars>>

HalLook ==
  /\ hpc = "look" /\ ~mtx
  /\ hpc' = IF Unspent = <<>> THEN "wait" ELSE "copy"
  /\ UNCHANGED <<lineVars, parseVars, rxVars, appVars, unread, buffVars, mtx, sends, abortVars, delVars>>

HalWake ==
  /\ hpc = "wait" /\ sem = 1
  /\ sem' = 0
  /\ hpc' = "check"
  /\ UNCHANGED <<lineVars, parseVars, rxVars, appVars, unread, buff, rp, mtx, sends, abortVars, delVars>>

\* The bytes are returned, and the gateway reads again.
HalCopy ==
  /\ hpc = "copy" /\ ~mtx
  /\ \E n \in HalLens :
       LET k == IF Len(Unspent) < n THEN Len(Unspent) ELSE n IN
       /\ rp' = rp + k
       /\ unread' = [unread EXCEPT !["hal"] = SubSeq(@, k + 1, Len(@))]
  /\ hpc' = "check"
  /\ UNCHANGED <<lineVars, parseVars, rxVars, appVars, buff, sem, mtx, sends, abortVars, delVars>>

HalRecv == HalCheck \/ HalLook \/ HalWake \/ HalCopy

\* hal_emux_alt125x_send holds objintmtx while serial_write blocks.
SendStart ==
  /\ ~mtx /\ sends < MaxSends /\ dpc = "none"
  /\ mtx' = TRUE /\ sends' = sends + 1
  /\ UNCHANGED <<lineVars, parseVars, rxVars, appVars, unread, buffVars, abortVars, hpc, delVars>>

SendEnd ==
  /\ mtx /\ mtx' = FALSE
  /\ UNCHANGED <<lineVars, parseVars, rxVars, appVars, unread, buffVars, sends, abortVars, hpc, delVars>>

\* hal_emux_alt125x_abortrecv for apicmdgw_recvagain and apicmdgw_fin.
AbortAsk(type) ==
  /\ apc = "off" /\ ~mtx /\ abort # "terminate" /\ dpc = "none"
  /\ abort' = type
  /\ apc' = "post"
  /\ again' = IF type = "again" THEN again + 1 ELSE again
  /\ again' <= use.again
  /\ UNCHANGED <<lineVars, parseVars, rxVars, appVars, unread, buffVars, mtx, sends, hpc, delVars>>

AbortPost ==
  /\ apc = "post"
  /\ sem' = 1
  /\ apc' = "off"
  /\ UNCHANGED <<lineVars, parseVars, rxVars, appVars, unread, buff, rp, mtx, sends, abort, again, hpc, delVars>>

\* hal_emux_alt125x_delete, after apicmdgw_fin joined the receive task:
\* MUX_StopRxDataEventCallback,
DelStop ==
  /\ dpc = "none" /\ hpc = "gone" /\ apc = "off"
  /\ evCB' = FALSE
  /\ dpc' = "stopped"
  /\ UNCHANGED <<lineVars, parseVars, rxVars, appVars, unread, buffVars, mtx, sends, abortVars, hpc, bound>>

Unbound ==
  /\ dpc = "stopped"
  /\ bound' = bound \ {"hal"}
  /\ dpc' = "unbound"
  /\ UNCHANGED <<lineVars, parseVars, rxVars, appVars, unread, buffVars, mtx, sends, abortVars, hpc, evCB>>

\* Mutant of DelUnbind: rxSem is not taken.
DelUnbindUnlocked == Unbound

\* MUX_DeInit up to the unlock of rxSem, which the receive task of emux holds as
\* long as it delivers a frame,
DelUnbind == Unbound /\ (rxpc = "parse" \/ port # "hal")

\* and the rest of it, with the objects of the HAL.
DelFree ==
  /\ dpc = "unbound" /\ ~mtx
  /\ dpc' = "freed"
  /\ UNCHANGED <<lineVars, parseVars, rxVars, appVars, unread, buffVars, mtx, sends, abortVars, hpc, evCB, bound>>

-----------------------------------------------------------------------------
Deliver == AppFill \/ AppStore \/ HalByte \/ HalDiscard \/ HalStore

Next ==
  \/ LineLoses \/ Escape \/ RxByte \/ Deliver
  \/ \E n \in use.wanted, callback \in BOOLEAN : AppRead(n, callback)
  \/ AppWoken \/ AppTimeout \/ AppEnd
  \/ HalRecv \/ SendStart \/ SendEnd
  \/ AbortAsk("again") \/ AbortAsk("terminate") \/ AbortPost
  \/ DelStop \/ DelUnbind \/ DelFree

\* The tasks run, and serial_write ends.
Fairness == WF_vars(Deliver) /\ WF_vars(HalRecv) /\ WF_vars(SendEnd) /\ WF_vars(AbortPost)

Spec == Init /\ [][Next]_vars /\ Fairness

-----------------------------------------------------------------------------
(* Safety *)

\* Each port is one stream: bytes that go straight to a read and bytes that wait
\* in the ring buffer, in the buffer of the HAL before and after a shift, with
\* reads that end, time out and are aborted in between, come out once and in the
\* order in which the port accepted them.
StreamsInOrder ==
  /\ unread["app"] = dest \o ring
  /\ unread["hal"] = Unspent

\* A read that reports success has all its bytes, although the last one may come
\* between the time-out of the read before and its end, and is told by the same
\* event flag.
SuccessIsWhole == ended.result = "success" => ended.lacks = 0

\* A frame that lost no byte, and whose first flag did not fall into what the
\* parser took for another frame, is recognized, once and in order: after a
\* damaged frame, and after the end of one taken for the start of the next.  Only
\* after a damaged frame is the parser in the wrong place, and it is not any more
\* after an escape sequence.
FramesDelivered ==
  /\ \A i \in 1..(Len(found) - 1) : found[i] < found[i + 1]
  /\ \A f \in Frames :
       End[f] <= sent =>
         (\E i \in DOMAIN found : found[i] = f) \/ f \in damaged \cup (blind \ escapes)
  /\ \A f \in blind : \E g \in damaged : g < f

\* The receive task of emux uses nothing of a HAL that was deleted, not even when
\* the deletion began while it was held up in the callback.
DeletedUnused == dpc = "freed" => rxpc = "parse" \/ port # "hal"

-----------------------------------------------------------------------------
(* Liveness *)

\* The semaphore has one token for bytes and aborts together, and the receive task
\* looks at either without it: still no byte and no request to terminate is missed.
RecvWakes ==
  /\ (Unspent # <<>>) ~> (Unspent = <<>> \/ abort = "terminate")
  /\ (abort = "terminate") ~> (hpc = "gone")

=============================================================================
