-------------------------- MODULE SerialRx_proofs --------------------------
(***************************************************************************)
(* Theorems about the UART reception, proved for every ring buffer, FIFO,  *)
(* frame and number of aborts, and also for an aborting task that preempts *)
(* the receive task: the handshake of serial_read, the interrupt handler   *)
(* and abort_read, the order of the bytes, and the framing.                *)
(***************************************************************************)
EXTENDS SerialRx, SequenceTheorems, WellFoundedInduction, TLAPS

\* What a byte of the wire may be; nothing is said of it.
Value == {Wire[i] : i \in Int}

Types ==
  /\ sent \in Int
  /\ fifo \in Seq(Value) /\ ring \in Seq(Value)
  /\ requested \in Int /\ remaining \in Int
  /\ line \in {"idle", "busy"}
  /\ flags \subseteq {"complete", "abort"}
  /\ received \in Int
  /\ abort \in {"none", "again", "terminate"}
  /\ rcvlen \in Int /\ totallen \in Int /\ datalen \in Int

\* The reader waits exactly while its read is in progress, has completed, is
\* being aborted or has been aborted, and these exclude each other.
Handshake ==
  /\ line = "busy" => rxpc = "wait" /\ flags = {} /\ apc # "tell"
                      /\ remaining > 0 /\ requested = rcvlen
  /\ line = "idle" => remaining = 0
  /\ apc = "tell" => rxpc = "wait" /\ flags = {}
  /\ "complete" \in flags => rxpc = "wait" /\ requested = rcvlen /\ "abort" \notin flags
  /\ "abort" \in flags => rxpc = "wait"
  /\ rxpc = "wait" => line = "busy" \/ flags # {} \/ apc = "tell"
  /\ rxpc = "checked" => rcvlen > 0

IInv == Types /\ Handshake

-----------------------------------------------------------------------------
\* The framing keeps the types of its state and goes back to the loop.
LEMMA ParseType ==
  ASSUME Types, NEW b, NEW n \in Int, Parse(b, n)
  PROVE  rxpc' = "recv" /\ rcvlen' \in Int /\ totallen' \in Int /\ datalen' \in Int
<1> DEFINE total == totallen + n
<1>1. total \in Int /\ Magic \in Int /\ Header \in Int BY SerialAssumption DEF Types
<1>0. rxpc' = "recv" BY DEF Parse
<1>2. CASE RcvInit /\ UNCHANGED datalen BY <1>0, <1>2 DEF Types, RcvInit
<1>3. CASE MagicFound(b, total)
  <2>1. rcvlen' = Header - Magic /\ totallen' = Magic /\ datalen' = datalen
        BY <1>3, Zenon DEF MagicFound
  <2> QED BY <1>0, <1>1, <2>1 DEF Types
<1>4. CASE MagicMissing(b, total) BY <1>0, <1>1, <1>4 DEF Types, MagicMissing
<1>5. CASE HeaderComplete(b, total)
  <2>1. PICK f \in Frames :
          \A k \in (Magic + 1)..Header : b[k - 1] = [frame |-> f, pos |-> k]
        BY <1>5 DEF HeaderComplete, IsFrame
  <2>2. Header \in (Magic + 1)..Header BY SerialAssumption
  <2>3. b[Header - 1].frame = f
    <3>1. b[Header - 1] = [frame |-> f, pos |-> Header] BY <2>1, <2>2, Zenon
    <3> QED BY <3>1
  <2>4. DataLen[f] \in Int BY SerialAssumption
  <2> QED BY <1>0, <1>1, <1>5, <2>3, <2>4 DEF HeaderComplete
<1>6. CASE HeaderBad(b, total) BY <1>0, <1>6 DEF Types, HeaderBad, RcvInit
<1>7. CASE PartRead(total, n) BY <1>0, <1>1, <1>7 DEF Types, PartRead
<1> QED BY <1>2, <1>3, <1>4, <1>5, <1>6, <1>7 DEF Parse

\* What a read takes from the ring buffer.
LEMMA DrainType ==
  ASSUME Types, rcvlen > 0
  PROVE  /\ Copied \in Int /\ Copied <= rcvlen
         /\ Drain => /\ ring' \in Seq(Value)
                     /\ requested' = rcvlen /\ remaining' = rcvlen - Copied
                     /\ requested' \in Int /\ remaining' \in Int
<1>1. Len(ring) \in Nat /\ rcvlen \in Int BY DEF Types
<1>2. Copied \in 0..Len(ring) /\ Copied <= rcvlen BY <1>1 DEF Copied, Minimum
<1>3. SubSeq(ring, Copied + 1, Len(ring)) \in Seq(Value)
  <2>1. \A i \in (Copied + 1)..Len(ring) : ring[i] \in Value BY <1>2 DEF Types
  <2>2. Copied + 1 \in Int /\ Len(ring) \in Int BY <1>1, <1>2
  <2> QED BY <2>1, <2>2, SubSeqProperties, Zenon
<1>4. Copied \in Int /\ rcvlen - Copied \in Int /\ rcvlen \in Int BY <1>1, <1>2
<1> QED BY <1>2, <1>3, <1>4, Zenon DEF Drain

-----------------------------------------------------------------------------
LEMMA InitIInv == Init => IInv
<1> SUFFICES ASSUME Init PROVE IInv OBVIOUS
<1>1. Types BY DEF Init, Types
<1>2. Handshake BY DEF Init, Handshake
<1> QED BY <1>1, <1>2 DEF IInv

\* The first byte of a sequence and the rest.
LEMMA TakeFirst == ASSUME NEW s \in Seq(Value), s # <<>>
  PROVE Head(s) \in Value /\ Tail(s) \in Seq(Value)
BY HeadTailProperties

LEMMA ModemStep == ASSUME IInv, ModemSends PROVE IInv'
<1>1. Wire[sent + 1] \in Value BY DEF IInv, Types, Value
<1>2. fifo' \in Seq(Value) /\ sent' \in Int
  <2>1. fifo \in Seq(Value) /\ sent \in Int BY DEF IInv, Types
  <2> QED BY <1>1, <2>1, AppendProperties DEF ModemSends
<1>3. Types' BY <1>2 DEF ModemSends, IInv, Types, uartVars, abortVars, readerVars, frameVars
<1>4. Handshake' BY DEF ModemSends, IInv, Handshake, uartVars, abortVars, readerVars, frameVars
<1> QED BY <1>3, <1>4 DEF IInv

LEMMA IsrInv == ASSUME IInv, Isr PROVE IInv'
<1>1. CASE IsrDirect
  <2>1. fifo' \in Seq(Value) BY <1>1, TakeFirst DEF IsrDirect, IInv, Types
  <2>2. Types' BY <1>1, <2>1 DEF IsrDirect, IInv, Types, abortVars, readerVars, frameVars
  <2>3. line = "busy" /\ flags = {} BY <1>1 DEF IsrDirect, IInv, Types, Handshake
  <2>4. CASE remaining = 1
    <3>1. /\ line' = "idle" /\ flags' = {"complete"} /\ remaining' = 0
          /\ rxpc' = "wait" /\ requested' = rcvlen' /\ apc' # "tell"
          BY <1>1, <2>3, <2>4 DEF IsrDirect, IInv, Handshake, abortVars, readerVars, frameVars
    <3> QED BY <3>1, <2>2 DEF Handshake, IInv
  <2>5. CASE remaining # 1
        BY <1>1, <2>3, <2>5
        DEF IsrDirect, IInv, Types, Handshake, abortVars, readerVars, frameVars
  <2> QED BY <2>2, <2>4, <2>5 DEF IInv
<1>2. CASE IsrStore
  <2>1. fifo' \in Seq(Value) /\ ring' \in Seq(Value)
        BY <1>2, TakeFirst, AppendProperties DEF IsrStore, IInv, Types
  <2>2. Types' BY <1>2, <2>1 DEF IsrStore, IInv, Types, abortVars, readerVars, frameVars
  <2>3. Handshake' BY <1>2 DEF IsrStore, IInv, Handshake, abortVars, readerVars, frameVars
  <2> QED BY <2>2, <2>3 DEF IInv
<1>3. CASE IsrFull
      BY <1>3 DEF IsrFull, IInv, Types, Handshake, abortVars, readerVars, frameVars
<1> QED BY <1>1, <1>2, <1>3 DEF Isr

LEMMA RxNoDataInv == ASSUME IInv, RxNoData PROVE IInv'
<1>1. Types' BY ParseType DEF RxNoData, IInv, Types, uartVars, abortVars
<1>2. rxpc' = "recv" BY DEF RxNoData, Parse
<1>3. Handshake' BY <1>2 DEF RxNoData, IInv, Types, Handshake, uartVars, abortVars
<1> QED BY <1>1, <1>3 DEF IInv

LEMMA RxCheckInv == ASSUME IInv, RxCheck PROVE IInv'
<1>1. rcvlen' \in Int /\ totallen' \in Int /\ datalen' \in Int /\ rcvlen' > 0
      BY DEF RxCheck, IInv, Types, RcvInit, frameVars
<1>2. Types' BY <1>1 DEF RxCheck, IInv, Types, uartVars
<1>3. line = "idle" /\ flags = {} /\ apc # "tell"
      BY DEF RxCheck, IInv, Types, Handshake
<1>4. Handshake'
  <2>1. line' = "idle" /\ flags' = {} /\ apc' # "tell" /\ remaining' = 0
        BY <1>3 DEF RxCheck, uartVars, IInv, Handshake
  <2>2. rxpc' # "wait" BY DEF RxCheck, IInv, Types
  <2> QED BY <1>1, <2>1, <2>2 DEF Handshake
<1> QED BY <1>2, <1>4 DEF IInv

LEMMA RxReadInv == ASSUME IInv, RxReadAll \/ RxReadWait PROVE IInv'
<1>1. rcvlen > 0 /\ rcvlen \in Int /\ rxpc = "checked"
      BY DEF IInv, Types, Handshake, RxReadAll, RxReadWait
<1>2. Types /\ flags = {} /\ apc # "tell" /\ line = "idle"
      BY <1>1 DEF IInv, Types, Handshake
<1>3. /\ Copied \in Int /\ Copied <= rcvlen /\ ring' \in Seq(Value)
      /\ requested' = rcvlen /\ remaining' = rcvlen - Copied
      /\ requested' \in Int /\ remaining' \in Int
      BY <1>1, <1>2, DrainType DEF RxReadAll, RxReadWait
<1>4. CASE RxReadAll
  <2>1. rxpc' = "recv" /\ rcvlen' \in Int /\ totallen' \in Int /\ datalen' \in Int
        BY <1>1, <1>2, <1>4, ParseType DEF RxReadAll
  <2>2. remaining' = 0 BY <1>1, <1>3, <1>4 DEF RxReadAll
  <2>3. Types' BY <1>2, <1>3, <1>4, <2>1 DEF RxReadAll, Types, abortVars
  <2>4. Handshake' BY <1>2, <1>4, <2>1, <2>2 DEF RxReadAll, Handshake, abortVars
  <2> QED BY <2>3, <2>4 DEF IInv
<1>5. CASE RxReadWait
  <2>1. remaining' > 0 BY <1>1, <1>3, <1>5 DEF RxReadWait
  <2>2. Types' BY <1>2, <1>3, <1>5 DEF RxReadWait, Types, abortVars, frameVars
  <2>3. Handshake'
        BY <1>2, <1>3, <1>5, <2>1 DEF RxReadWait, Handshake, abortVars, frameVars
  <2> QED BY <2>2, <2>3 DEF IInv
<1> QED BY <1>4, <1>5

LEMMA RxWakeInv == ASSUME IInv, RxWake PROVE IInv'
<1>1. ReadSize \in Int BY DEF ReadSize, IInv, Types
<1>2. rxpc' = "recv" /\ rcvlen' \in Int /\ totallen' \in Int /\ datalen' \in Int
      BY <1>1, ParseType DEF RxWake, IInv
<1>3. Types' BY <1>2 DEF RxWake, IInv, Types, uartVars, abortVars
<1>4. line = "idle" /\ apc # "tell" BY DEF RxWake, IInv, Types, Handshake
<1>5. Handshake' BY <1>2, <1>4 DEF RxWake, IInv, Handshake, uartVars, abortVars
<1> QED BY <1>3, <1>5 DEF IInv

LEMMA AskInv == ASSUME IInv, AskAgain \/ AskTerminate PROVE IInv'
<1>1. \E type \in {"again", "terminate"} : Ask(type) BY DEF AskAgain, AskTerminate
<1> QED BY <1>1 DEF Ask, IInv, Types, Handshake, uartVars, readerVars, frameVars

LEMMA AbortInv == ASSUME IInv, AbortStep PROVE IInv'
<1>1. CASE AbortIdle
      BY <1>1 DEF AbortIdle, IInv, Types, Handshake, readerVars, frameVars
<1>2. CASE AbortRead
      BY <1>2 DEF AbortRead, IInv, Types, Handshake, readerVars, frameVars
<1>3. CASE AbortTell
      BY <1>3 DEF AbortTell, IInv, Types, Handshake, uartVars, readerVars, frameVars
<1> QED BY <1>1, <1>2, <1>3 DEF AbortStep

LEMMA Invariance == Spec => []IInv
<1>1. IInv /\ [Next]_vars => IInv'
  <2> SUFFICES ASSUME IInv, [Next]_vars PROVE IInv' OBVIOUS
  <2>1. CASE ModemSends BY <2>1, ModemStep
  <2>2. CASE Isr BY <2>2, IsrInv
  <2>3. CASE RxStep BY <2>3, RxNoDataInv, RxCheckInv, RxReadInv, RxWakeInv DEF RxStep
  <2>4. CASE AskAgain \/ AskTerminate BY <2>4, AskInv
  <2>5. CASE AbortStep BY <2>5, AbortInv
  <2>6. CASE UNCHANGED vars
        BY <2>6 DEF vars, uartVars, abortVars, readerVars, frameVars, IInv, Types, Handshake
  <2> QED BY <2>1, <2>2, <2>3, <2>4, <2>5, <2>6 DEF Next
<1> QED BY InitIInv, <1>1, PTL DEF Spec

\* For every ring buffer, FIFO, sequence of frames and number of aborts a read
\* completes with all its bytes and starts with the line idle and no old flag.
THEOREM ReadProtocolCorrect == Spec => []ReadProtocol
<1>1. IInv => ReadProtocol
  <2> SUFFICES ASSUME IInv PROVE ReadProtocol OBVIOUS
  <2>1. "complete" \in flags => line = "idle" /\ remaining = 0
        BY DEF IInv, Types, Handshake
  <2>2. "complete" \in flags => requested - remaining = rcvlen
        BY <2>1 DEF IInv, Types, Handshake
  <2>3. flags # {} => rxpc = "wait" BY DEF IInv, Types, Handshake
  <2> QED BY <2>2, <2>3 DEF IInv, Handshake, ReadProtocol
<1> QED BY Invariance, <1>1, PTL

-----------------------------------------------------------------------------
(* Induction on numbers, for facts about all frames *)

LEMMA Least ==
  ASSUME NEW T \in SUBSET Nat, T # {}
  PROVE  \E x \in T : \A y \in T : x <= y
<1>1. IsWellFoundedOn({ss \in Nat \X Nat : ss[1] < ss[2]}, Nat)
  BY NatLessThanWellFounded DEF OpToRel
<1>2. PICK x \in T : \A y \in T : <<y, x>> \notin {ss \in Nat \X Nat : ss[1] < ss[2]}
  BY <1>1, WFMin
<1>3. \A y \in T : ~(y < x)  BY <1>2
<1> QED  BY <1>3

LEMMA SetInduction ==
  ASSUME NEW S, 0 \in S, \A n \in Nat : n \in S => n + 1 \in S
  PROVE  Nat \subseteq S
<1> DEFINE T == Nat \ S
<1>1. SUFFICES ASSUME T # {} PROVE FALSE  OBVIOUS
<1>2. PICK x \in T : \A y \in T : x <= y  BY <1>1, Least
<1>3. x # 0 /\ x - 1 \in Nat /\ x - 1 \notin T  BY <1>2
<1> QED  BY <1>3

\* The recursive definition of End has a solution.
LEMMA EndEquation ==
  End = [f \in 0..NFrames |-> IF f = 0 THEN 0 ELSE End[f - 1] + FrameLen(f)]
<1> DEFINE Table(e, n) == e = [f \in 0..n |-> IF f = 0 THEN 0 ELSE e[f - 1] + FrameLen(f)]
           S == {n \in Nat : \E e : Table(e, n)}
<1>1. 0 \in S
  <2>1. Table([f \in 0..0 |-> 0], 0)  OBVIOUS
  <2> QED  BY <2>1
<1>2. ASSUME NEW n \in Nat, n \in S PROVE n + 1 \in S
  <2>1. PICK e : Table(e, n)  BY <1>2
  <2> DEFINE d == [f \in 0..(n + 1) |-> IF f = n + 1 THEN e[n] + FrameLen(n + 1) ELSE e[f]]
  <2>2. \A f \in 0..(n + 1) : d[f] = IF f = 0 THEN 0 ELSE d[f - 1] + FrameLen(f)
    <3> TAKE f \in 0..(n + 1)
    <3>1. CASE f = n + 1  BY <3>1
    <3>2. CASE f # n + 1
      <4>1. f \in 0..n /\ (f # 0 => f - 1 \in 0..n)  BY <3>2
      <4>2. e[f] = IF f = 0 THEN 0 ELSE e[f - 1] + FrameLen(f)  BY <2>1, <4>1
      <4> QED  BY <4>1, <4>2
    <3> QED  BY <3>1, <3>2
  <2>3. d = [f \in 0..(n + 1) |-> d[f]]  OBVIOUS
  <2> HIDE DEF d
  <2>4. Table(d, n + 1)  BY <2>2, <2>3
  <2>5. \E t : Table(t, n + 1)  BY <2>4, Zenon
  <2> QED  BY <2>5
<1>3. NFrames \in S  BY <1>1, <1>2, SetInduction, SerialAssumption
<1>4. \E e : Table(e, NFrames)  BY <1>3
<1> HIDE DEF S
<1> QED  BY <1>4 DEF End

LEMMA FrameLenType ==
  ASSUME NEW f \in Frames
  PROVE  DataLen[f] \in Nat /\ FrameLen(f) \in Nat /\ FrameLen(f) = Header + DataLen[f]
BY SerialAssumption DEF FrameLen

LEMMA EndStep ==
  /\ End[0] = 0
  /\ \A f \in Frames : f - 1 \in 0..NFrames /\ End[f] = End[f - 1] + FrameLen(f)
<1>1. NFrames \in Nat  BY SerialAssumption
<1>2. \A f \in 0..NFrames : End[f] = IF f = 0 THEN 0 ELSE End[f - 1] + FrameLen(f)
  BY EndEquation
<1>3. 0 \in 0..NFrames /\ \A f \in Frames : f \in 0..NFrames /\ f # 0 /\ f - 1 \in 0..NFrames
  BY <1>1 DEF Frames
<1> QED  BY <1>2, <1>3, Zenon

LEMMA EndType == \A f \in 0..NFrames : End[f] \in Nat
<1> DEFINE S == {n \in Nat : n <= NFrames => End[n] \in Nat}
<1>1. 0 \in S  BY EndStep
<1>2. ASSUME NEW n \in Nat, n \in S PROVE n + 1 \in S
  <2>1. SUFFICES ASSUME n + 1 <= NFrames PROVE End[n + 1] \in Nat  OBVIOUS
  <2>2. n + 1 \in Frames /\ End[n] \in Nat /\ (n + 1) - 1 = n
    BY <1>2, <2>1, SerialAssumption DEF Frames
  <2>3. End[n + 1] = End[n] + FrameLen(n + 1)  BY <2>2, EndStep
  <2> QED  BY <2>2, <2>3, FrameLenType
<1>3. Nat \subseteq S  BY <1>1, <1>2, SetInduction
<1>4. \A f \in 0..NFrames : f \in Nat /\ f <= NFrames  BY SerialAssumption
<1> QED  BY <1>3, <1>4

LEMMA EndOrder ==
  ASSUME NEW f \in 0..NFrames, NEW g \in 0..NFrames, f <= g
  PROVE  End[f] <= End[g]
<1> DEFINE S == {n \in Nat : f + n <= NFrames => End[f] <= End[f + n]}
<1>0. f \in Nat /\ g \in Nat /\ NFrames \in Nat  BY SerialAssumption
<1>1. 0 \in S  BY <1>0, EndType
<1>2. ASSUME NEW n \in Nat, n \in S PROVE n + 1 \in S
  <2>1. SUFFICES ASSUME f + (n + 1) <= NFrames PROVE End[f] <= End[f + (n + 1)]  OBVIOUS
  <2> DEFINE h == f + n
  <2>2. /\ h + 1 \in Frames /\ (h + 1) - 1 = h /\ End[f] <= End[h]
        /\ h \in 0..NFrames /\ f + (n + 1) = h + 1
    BY <1>0, <1>2, <2>1 DEF Frames
  <2> HIDE DEF h
  <2>3. End[h + 1] = End[h] + FrameLen(h + 1)  BY <2>2, EndStep
  <2>4. End[f] \in Nat /\ End[h] \in Nat /\ FrameLen(h + 1) \in Nat
    BY <2>2, EndType, FrameLenType
  <2>5. End[f] <= End[h + 1]  BY <2>2, <2>3, <2>4
  <2> QED  BY <2>2, <2>5
<1>3. Nat \subseteq S
  <2> HIDE DEF S
  <2> QED  BY <1>1, <1>2, SetInduction
<1>4. g - f \in Nat /\ f + (g - f) = g  BY <1>0
<1>5. f + (g - f) <= NFrames => End[f] <= End[f + (g - f)]  BY <1>3, <1>4
<1> QED  BY <1>4, <1>5, <1>0

\* Byte p of frame f of the wire.
LEMMA WireAt ==
  ASSUME NEW f \in Frames, NEW p \in 1..FrameLen(f)
  PROVE  /\ End[f - 1] + p \in 1..Total
         /\ Wire[End[f - 1] + p] = [frame |-> f, pos |-> p]
<1> DEFINE i == End[f - 1] + p
<1>1. /\ f \in 0..NFrames /\ f - 1 \in 0..NFrames /\ NFrames \in 0..NFrames /\ f <= NFrames
      /\ f \in Nat /\ NFrames \in Nat
  BY SerialAssumption DEF Frames
<1>2. End[f - 1] \in Nat /\ End[f] \in Nat /\ Total \in Nat /\ FrameLen(f) \in Nat /\ p \in Nat
  BY <1>1, EndType, FrameLenType DEF Total
<1>3. End[f] = End[f - 1] + FrameLen(f) /\ End[f] <= Total  BY <1>1, EndStep, EndOrder DEF Total
<1>4. i \in 1..Total /\ End[f - 1] < i /\ i <= End[f]  BY <1>2, <1>3
<1>5. ASSUME NEW g \in Frames, End[g - 1] < i, i <= End[g] PROVE g = f
  <2>1. g \in 0..NFrames /\ g - 1 \in 0..NFrames /\ g \in Nat  BY SerialAssumption DEF Frames
  <2>2. End[g - 1] \in Nat /\ End[g] \in Nat  BY <2>1, EndType
  <2>3. ~(g <= f - 1)
    <3>1. SUFFICES ASSUME g <= f - 1 PROVE FALSE  OBVIOUS
    <3>2. End[g] <= End[f - 1]  BY <3>1, <1>1, <2>1, EndOrder
    <3> QED  BY <3>2, <1>2, <1>4, <1>5, <2>2
  <2>4. ~(f <= g - 1)
    <3>1. SUFFICES ASSUME f <= g - 1 PROVE FALSE  OBVIOUS
    <3>2. End[f] <= End[g - 1]  BY <3>1, <1>1, <2>1, EndOrder
    <3> QED  BY <3>2, <1>2, <1>4, <1>5, <2>2
  <2> QED  BY <1>1, <2>1, <2>3, <2>4
<1> HIDE DEF i
<1>6. FrameOf(i) = f  BY <1>4, <1>5 DEF FrameOf
<1>7. Wire[i] = [frame |-> f, pos |-> i - End[f - 1]]  BY <1>4, <1>6 DEF Wire
<1>8. i - End[f - 1] = p  BY <1>2 DEF i
<1> QED  BY <1>4, <1>7, <1>8 DEF i

-----------------------------------------------------------------------------
(* The bytes are in order *)

\* How many bytes the read in progress has put into the buffer, or one that ended
\* and whose reader has not run yet.
InLen ==
  IF rxpc # "wait" THEN 0
  ELSE IF line = "busy" \/ "complete" \in flags THEN requested - remaining
  ELSE received

Numbers ==
  /\ sent \in Nat /\ consumed \in Nat /\ sent <= Total
  /\ rcvptr \in Nat /\ totallen \in Nat /\ rcvlen \in Nat
  /\ requested \in Nat /\ remaining \in 0..requested /\ received \in Nat
  /\ DOMAIN rcvbuff = 0..BuffMax - 1

\* Where the bytes of a read go; while it lacks some, the ring buffer is empty, so
\* that no byte overtakes another.
Reading ==
  /\ line = "busy" => dest = rcvptr + (requested - remaining)
  /\ remaining > 0 => ring = <<>>
  /\ rxpc = "wait" => rcvptr + rcvlen <= BuffMax
  /\ InLen \in 0..rcvlen

\* BytesInOrder, byte by byte.
InPlace ==
  /\ sent = consumed + InLen + Len(ring) + Len(fifo)
  /\ \A k \in 1..InLen : rcvbuff[rcvptr + k - 1] = Wire[consumed + k]
  /\ \A k \in 1..Len(ring) : ring[k] = Wire[consumed + InLen + k]
  /\ \A k \in 1..Len(fifo) : fifo[k] = Wire[consumed + InLen + Len(ring) + k]

BytesInv == Numbers /\ Reading /\ InPlace

\* No read is started beyond the end of the buffer: apicmdgw_recvtask compares
\* totallen with the size, not rcvptr, which aborts in magic numbers move ahead of it.
ReadFits == rxpc = "checked" => rcvptr + rcvlen <= BuffMax

LEMMA BytesInit == Init => BytesInv
<1> SUFFICES ASSUME Init PROVE BytesInv  OBVIOUS
<1>1. InLen = 0  BY DEF Init, InLen
<1>2. Total \in Nat  BY EndType, SerialAssumption DEF Total
<1>3. Numbers  BY <1>2 DEF Init, Numbers
<1>4. Reading  BY <1>1 DEF Init, Reading
<1>5. InPlace  BY <1>1 DEF Init, InPlace
<1> QED  BY <1>3, <1>4, <1>5 DEF BytesInv

LEMMA TakeFirstBytes ==
  ASSUME NEW s \in Seq(Value), s # <<>>
  PROVE  /\ Len(s) \in Nat \ {0} /\ Len(Tail(s)) = Len(s) - 1
         /\ Head(s) = s[1] /\ \A k \in 1..Len(Tail(s)) : Tail(s)[k] = s[k + 1]
BY HeadTailProperties, LenProperties, EmptySeq

LEMMA AddLast ==
  ASSUME NEW s \in Seq(Value), NEW e \in Value
  PROVE  /\ Len(s) \in Nat /\ Len(Append(s, e)) = Len(s) + 1
         /\ \A k \in 1..Len(s) : Append(s, e)[k] = s[k]
         /\ Append(s, e)[Len(s) + 1] = e
BY AppendProperties, LenProperties

LEMMA BytesModem == ASSUME IInv, BytesInv, ModemSends PROVE BytesInv'
<1>1. /\ sent < Total /\ sent' = sent + 1 /\ fifo' = Append(fifo, Wire[sent + 1])
      /\ UNCHANGED <<intOn, line, requested, remaining, dest, ring, flags, received,
                     rxpc, rcvptr, rcvlen, totallen, consumed, rcvbuff>>
  BY DEF ModemSends, uartVars, abortVars, readerVars, frameVars
<1>2. Total \in Nat  BY EndType, SerialAssumption DEF Total
<1>3. InLen' = InLen  BY <1>1 DEF InLen
<1>4. Numbers'  BY <1>1, <1>2 DEF BytesInv, Numbers
<1>5. Reading'  BY <1>1, <1>3 DEF BytesInv, Reading
<1>6. InLen \in Nat /\ Len(ring) \in Nat /\ consumed \in Nat
  BY DEF BytesInv, Numbers, Reading, IInv, Types
<1>7. Wire[sent + 1] \in Value /\ fifo \in Seq(Value)
  BY DEF IInv, Types, Value
<1>8. /\ Len(fifo) \in Nat /\ Len(fifo') = Len(fifo) + 1
      /\ \A k \in 1..Len(fifo) : fifo'[k] = fifo[k]
      /\ fifo'[Len(fifo) + 1] = Wire[sent + 1]
  BY <1>1, <1>7, AddLast
<1>9. sent = consumed + InLen + Len(ring) + Len(fifo)  BY DEF BytesInv, InPlace
<1>10. \A k \in 1..Len(fifo') : fifo'[k] = Wire[consumed + InLen + Len(ring) + k]
  <2> TAKE k \in 1..Len(fifo')
  <2>1. CASE k = Len(fifo) + 1
    <3>1. consumed + InLen + Len(ring) + k = sent + 1  BY <2>1, <1>6, <1>8, <1>9
    <3> QED  BY <3>1, <2>1, <1>8
  <2>2. CASE k # Len(fifo) + 1
    <3>1. k \in 1..Len(fifo)  BY <2>2, <1>8
    <3> QED  BY <3>1, <1>8 DEF BytesInv, InPlace
  <2> QED  BY <2>1, <2>2
<1>11. InPlace'
  <2>1. sent' = consumed' + InLen' + Len(ring') + Len(fifo')  BY <1>1, <1>3, <1>6, <1>8, <1>9
  <2> QED  BY <2>1, <1>1, <1>3, <1>10 DEF BytesInv, InPlace
<1> QED  BY <1>4, <1>5, <1>11 DEF BytesInv

\* What a write into the buffer leaves there.
LEMMA PutOne ==
  ASSUME NEW i \in Nat, NEW e, DOMAIN rcvbuff = 0..BuffMax - 1
  PROVE  /\ DOMAIN Put(i, <<e>>) = 0..BuffMax - 1
         /\ i <= BuffMax - 1 => Put(i, <<e>>)[i] = e
         /\ \A k \in 0..BuffMax - 1 : k # i => Put(i, <<e>>)[k] = rcvbuff[k]
<1>1. Len(<<e>>) = 1 /\ <<e>>[1] = e /\ DOMAIN <<e>> = 1..1  OBVIOUS
<1>2. BuffMax \in Nat  BY SerialAssumption
<1> QED  BY <1>1, <1>2 DEF Put

LEMMA PutSeq ==
  ASSUME NEW i \in Nat, NEW s \in Seq(Value), DOMAIN rcvbuff = 0..BuffMax - 1
  PROVE  /\ DOMAIN Put(i, s) = 0..BuffMax - 1
         /\ \A k \in 1..Len(s) : i + k <= BuffMax => Put(i, s)[i + k - 1] = s[k]
         /\ \A k \in 0..BuffMax - 1 : k < i => Put(i, s)[k] = rcvbuff[k]
<1>1. DOMAIN s = 1..Len(s) /\ Len(s) \in Nat  BY LenProperties
<1>2. BuffMax \in Nat  BY SerialAssumption
<1>3. \A k \in 0..BuffMax - 1 : Put(i, s)[k] = IF k - i + 1 \in 1..Len(s) THEN s[k - i + 1] ELSE rcvbuff[k]
  BY <1>1 DEF Put
<1>4. ASSUME NEW k \in 1..Len(s), i + k <= BuffMax PROVE Put(i, s)[i + k - 1] = s[k]
  <2>1. i + k - 1 \in 0..BuffMax - 1 /\ (i + k - 1) - i + 1 = k  BY <1>1, <1>2, <1>4
  <2> QED  BY <1>3, <2>1
<1>5. ASSUME NEW k \in 0..BuffMax - 1, k < i PROVE Put(i, s)[k] = rcvbuff[k]
  <2>1. ~(k - i + 1 \in 1..Len(s))  BY <1>1, <1>2, <1>5
  <2> QED  BY <1>3, <2>1
<1>6. DOMAIN Put(i, s) = 0..BuffMax - 1  BY DEF Put
<1> QED  BY <1>4, <1>5, <1>6

LEMMA BytesDirect == ASSUME IInv, BytesInv, IsrDirect PROVE BytesInv'
<1>1. /\ fifo # <<>> /\ remaining > 0
      /\ rcvbuff' = Put(dest, <<Head(fifo)>>) /\ fifo' = Tail(fifo)
      /\ dest' = dest + 1 /\ remaining' = remaining - 1
      /\ line' = (IF remaining = 1 THEN "idle" ELSE line)
      /\ flags' = (IF remaining = 1 THEN flags \cup {"complete"} ELSE flags)
      /\ UNCHANGED <<sent, requested, ring, received, rxpc, rcvptr, rcvlen, totallen, consumed>>
  BY DEF IsrDirect, abortVars, readerVars, frameVars
<1>2. line = "busy" /\ flags = {} /\ rxpc = "wait" /\ requested = rcvlen
  BY <1>1 DEF IInv, Types, Handshake
<1>3. /\ InLen = requested - remaining /\ dest = rcvptr + InLen /\ ring = <<>>
      /\ rcvptr + rcvlen <= BuffMax /\ Len(ring) = 0
  BY <1>1, <1>2 DEF InLen, BytesInv, Reading
<1>4. /\ sent \in Nat /\ consumed \in Nat /\ rcvptr \in Nat /\ requested \in Nat /\ remaining \in Nat
      /\ rcvlen \in Nat /\ remaining <= requested /\ DOMAIN rcvbuff = 0..BuffMax - 1 /\ BuffMax \in Nat
  BY SerialAssumption DEF BytesInv, Numbers
<1>5. InLen' = InLen + 1
  <2>1. InLen' = requested' - remaining'
    BY <1>1, <1>2 DEF InLen
  <2> QED  BY <2>1, <1>1, <1>3, <1>4
<1>6. InLen \in Nat /\ InLen < rcvlen /\ dest \in Nat /\ dest <= BuffMax - 1
  <2>1. InLen \in Nat /\ InLen < rcvlen
    <3>1. InLen = rcvlen - remaining /\ remaining <= rcvlen  BY <1>2, <1>3, <1>4
    <3> QED  BY <3>1, <1>1, <1>4
  <2> QED  BY <2>1, <1>3, <1>4
<1>7. /\ Len(fifo) \in Nat \ {0} /\ Len(fifo') = Len(fifo) - 1 /\ Head(fifo) = fifo[1]
      /\ \A k \in 1..Len(fifo') : fifo'[k] = fifo[k + 1]
  <2>1. fifo \in Seq(Value)  BY DEF IInv, Types
  <2> QED  BY <1>1, <2>1, TakeFirstBytes
<1>8. /\ DOMAIN rcvbuff' = 0..BuffMax - 1 /\ rcvbuff'[dest] = fifo[1]
      /\ \A k \in 0..BuffMax - 1 : k # dest => rcvbuff'[k] = rcvbuff[k]
  BY <1>1, <1>4, <1>6, <1>7, PutOne
<1>9. Numbers'  BY <1>1, <1>4, <1>8 DEF BytesInv, Numbers
<1>10. Reading'
  <2>1. dest' = rcvptr' + (requested' - remaining')  BY <1>1, <1>3, <1>4
  <2>2. InLen' \in 0..rcvlen'  BY <1>1, <1>5, <1>6, <1>4
  <2> QED  BY <2>1, <2>2, <1>1, <1>3 DEF Reading
<1>11. InPlace'
  <2>1. \A k \in 1..Len(fifo) : fifo[k] = Wire[consumed + InLen + k]
    <3>1. \A k \in 1..Len(fifo) : consumed + InLen + Len(ring) + k = consumed + InLen + k
      BY <1>3, <1>4, <1>6, <1>7
    <3> QED  BY <3>1 DEF BytesInv, InPlace
  <2>2. sent' = consumed' + InLen' + Len(ring') + Len(fifo')
    BY <1>1, <1>3, <1>4, <1>5, <1>6, <1>7 DEF BytesInv, InPlace
  <2>3. ASSUME NEW k \in 1..InLen' PROVE rcvbuff'[rcvptr' + k - 1] = Wire[consumed' + k]
    <3>1. CASE k = InLen + 1
      <4>1. rcvptr' + k - 1 = dest /\ fifo[1] = Wire[consumed + InLen + 1]
            /\ consumed' + k = consumed + InLen + 1
        BY <3>1, <2>1, <1>1, <1>3, <1>4, <1>6, <1>7
      <4> QED  BY <4>1, <1>8
    <3>2. CASE k # InLen + 1
      <4>1. k \in 1..InLen /\ rcvptr + k - 1 \in 0..BuffMax - 1 /\ rcvptr + k - 1 # dest
        BY <3>2, <1>3, <1>4, <1>5, <1>6
      <4> QED  BY <4>1, <1>1, <1>8 DEF BytesInv, InPlace
    <3> QED  BY <3>1, <3>2
  <2>4. ASSUME NEW k \in 1..Len(fifo')
        PROVE  fifo'[k] = Wire[consumed' + InLen' + Len(ring') + k]
    <3>1. k + 1 \in 1..Len(fifo) /\ consumed' + InLen' + Len(ring') + k = consumed + InLen + (k + 1)
      BY <1>1, <1>3, <1>4, <1>5, <1>6, <1>7
    <3> QED  BY <3>1, <2>1, <1>7
  <2>5. \A k \in 1..Len(ring') : ring'[k] = Wire[consumed' + InLen' + k]  BY <1>1, <1>3
  <2> QED  BY <2>2, <2>3, <2>4, <2>5 DEF InPlace
<1> QED  BY <1>9, <1>10, <1>11 DEF BytesInv

LEMMA BytesStore == ASSUME IInv, BytesInv, IsrStore PROVE BytesInv'
<1>1. /\ fifo # <<>> /\ remaining = 0
      /\ ring' = Append(ring, Head(fifo)) /\ fifo' = Tail(fifo)
      /\ UNCHANGED <<sent, line, flags, remaining, dest, rcvbuff, requested, received, rxpc,
                     rcvptr, rcvlen, totallen, consumed>>
  BY DEF IsrStore, abortVars, readerVars, frameVars
<1>2. /\ fifo \in Seq(Value) /\ ring \in Seq(Value) /\ consumed \in Nat /\ InLen \in Nat
      /\ sent = consumed + InLen + Len(ring) + Len(fifo)
  BY DEF IInv, Types, BytesInv, Numbers, Reading, InPlace
<1>3. /\ Len(fifo) \in Nat \ {0} /\ Len(fifo') = Len(fifo) - 1 /\ Head(fifo) = fifo[1]
      /\ \A k \in 1..Len(fifo') : fifo'[k] = fifo[k + 1]
  BY <1>1, <1>2, TakeFirstBytes
<1>4. /\ Len(ring) \in Nat /\ Len(ring') = Len(ring) + 1
      /\ \A k \in 1..Len(ring) : ring'[k] = ring[k]
      /\ ring'[Len(ring) + 1] = fifo[1]
  <2>1. Head(fifo) \in Value  BY <1>1, <1>2, TakeFirst
  <2> QED  BY <2>1, <1>1, <1>2, <1>3, AddLast
<1>5. InLen' = InLen  BY <1>1 DEF InLen
<1>6. Numbers'  BY <1>1 DEF BytesInv, Numbers
<1>7. Reading'  BY <1>1, <1>5 DEF BytesInv, Reading
<1>8. InPlace'
  <2>1. sent' = consumed' + InLen' + Len(ring') + Len(fifo')  BY <1>1, <1>2, <1>3, <1>4, <1>5
  <2>2. ASSUME NEW k \in 1..Len(ring') PROVE ring'[k] = Wire[consumed' + InLen' + k]
    <3>1. CASE k = Len(ring) + 1
      <4>1. fifo[1] = Wire[consumed + InLen + Len(ring) + 1]
        BY <1>3 DEF BytesInv, InPlace
      <4>2. consumed + InLen + Len(ring) + 1 = consumed' + InLen' + k
        BY <3>1, <1>1, <1>2, <1>4, <1>5
      <4> QED  BY <4>1, <4>2, <3>1, <1>4
    <3>2. CASE k # Len(ring) + 1
      <4>1. k \in 1..Len(ring)  BY <3>2, <1>4
      <4> QED  BY <4>1, <1>1, <1>4, <1>5 DEF BytesInv, InPlace
    <3> QED  BY <3>1, <3>2
  <2>3. ASSUME NEW k \in 1..Len(fifo')
        PROVE  fifo'[k] = Wire[consumed' + InLen' + Len(ring') + k]
    <3>1. /\ k + 1 \in 1..Len(fifo)
          /\ consumed' + InLen' + Len(ring') + k = consumed + InLen + Len(ring) + (k + 1)
      BY <1>1, <1>2, <1>3, <1>4, <1>5
    <3> QED  BY <3>1, <1>3 DEF BytesInv, InPlace
  <2>4. \A k \in 1..InLen' : rcvbuff'[rcvptr' + k - 1] = Wire[consumed' + k]
    BY <1>1, <1>5 DEF BytesInv, InPlace
  <2> QED  BY <2>1, <2>2, <2>3, <2>4 DEF InPlace
<1> QED  BY <1>6, <1>7, <1>8 DEF BytesInv

\* The framing keeps what it counts within the numbers.
LEMMA ParseNumbers ==
  ASSUME Types, Numbers, NEW b, DOMAIN b = 0..BuffMax - 1, NEW n \in Nat, Parse(b, n)
  PROVE  /\ rcvptr' \in Nat /\ totallen' \in Nat /\ rcvlen' \in Nat
         /\ DOMAIN rcvbuff' = 0..BuffMax - 1
         /\ consumed' = consumed + n /\ rxpc' = "recv"
<1> DEFINE total == totallen + n
<1>1. /\ total \in Nat /\ Magic \in Nat /\ Header \in Nat /\ Header > Magic
      /\ rcvptr \in Nat /\ datalen \in Int
  BY SerialAssumption DEF Types, Numbers
<1>2. consumed' = consumed + n /\ rxpc' = "recv"  BY DEF Parse
<1>3. CASE RcvInit /\ UNCHANGED datalen /\ rcvbuff' = b
  <2>1. rcvptr' = 0 /\ totallen' = 0 /\ rcvlen' = 1  BY <1>3 DEF RcvInit
  <2> QED  BY <1>2, <1>3, <2>1
<1>4. CASE MagicFound(b, total)
  <2>1. PICK i \in 0..(total - Magic) :
          rcvbuff' = Moved(b, i) /\ rcvptr' = Magic /\ rcvlen' = Header - Magic /\ totallen' = Magic
    BY <1>4 DEF MagicFound
  <2>2. DOMAIN Moved(b, i) = DOMAIN b  BY DEF Moved
  <2> QED  BY <1>1, <1>2, <2>1, <2>2
<1>5. CASE MagicMissing(b, total)
  <2>1. rcvbuff' = b /\ rcvptr' = rcvptr + 1 /\ rcvlen' = 1 /\ totallen' = total
    BY <1>5 DEF MagicMissing
  <2> QED  BY <1>1, <1>2, <2>1
<1>6. CASE HeaderComplete(b, total) /\ rcvbuff' = b
  <2>1. PICK f \in Frames : \A k \in (Magic + 1)..Header : b[k - 1] = [frame |-> f, pos |-> k]
    BY <1>6 DEF HeaderComplete, IsFrame
  <2>2. Header \in (Magic + 1)..Header  BY SerialAssumption
  <2>3. b[Header - 1] = [frame |-> f, pos |-> Header]  BY <2>1, <2>2, Zenon
  <2>4. b[Header - 1].frame = f /\ DataLen[f] \in Nat  BY <2>3, SerialAssumption
  <2>5. rcvptr' = Header /\ totallen' = total /\ rcvlen' = DataLen[f]  BY <1>6, <2>4 DEF HeaderComplete
  <2> QED  BY <1>1, <1>2, <1>6, <2>4, <2>5
<1>7. CASE PartRead(total, n) /\ rcvbuff' = b
  <2>1. rcvptr' = rcvptr + n /\ totallen' = total  BY <1>7 DEF PartRead
  <2>2. rcvlen' \in Nat
    <3>1. CASE recvsts = "data"  BY <1>1, <1>7, <3>1 DEF PartRead
    <3>2. CASE recvsts # "data"
      <4>1. total < Header + 0 /\ rcvlen' = Header + 0 - total  BY <1>7, <3>2 DEF PartRead
      <4> QED  BY <1>1, <4>1
    <3> QED  BY <3>1, <3>2
  <2> QED  BY <1>1, <1>2, <1>7, <2>1, <2>2
<1>8. CASE HeaderBad(b, total) /\ rcvbuff' = b  BY <1>3, <1>8 DEF HeaderBad
<1> QED  BY <1>3, <1>4, <1>5, <1>6, <1>7, <1>8 DEF Parse

\* A read that ends hands its bytes on.
LEMMA BytesParsed ==
  ASSUME IInv, IInv', BytesInv, NEW b, NEW n \in Nat, Parse(b, n), DOMAIN b = 0..BuffMax - 1,
         n = InLen,
         UNCHANGED <<sent, fifo, ring, requested, remaining, received>>
  PROVE  BytesInv'
<1>1. /\ rcvptr' \in Nat /\ totallen' \in Nat /\ rcvlen' \in Nat
      /\ DOMAIN rcvbuff' = 0..BuffMax - 1
      /\ consumed' = consumed + n /\ rxpc' = "recv"
  BY ParseNumbers DEF IInv, BytesInv
<1>2. InLen' = 0  BY <1>1 DEF InLen
<1>3. Numbers'  BY <1>1 DEF BytesInv, Numbers
<1>4. line' # "busy"  BY <1>1 DEF IInv, Handshake
<1>5. Reading'  BY <1>1, <1>2, <1>4 DEF BytesInv, Reading
<1>6. Len(ring) \in Nat /\ Len(fifo) \in Nat /\ consumed \in Nat
  BY DEF IInv, Types, BytesInv, Numbers
<1>7. InPlace'
  <2>1. sent' = consumed' + InLen' + Len(ring') + Len(fifo')
    BY <1>1, <1>2, <1>6 DEF BytesInv, InPlace
  <2>2. \A k \in 1..Len(ring') : consumed' + InLen' + k = consumed + InLen + k
    BY <1>1, <1>2, <1>6
  <2>3. \A k \in 1..Len(fifo') : consumed' + InLen' + Len(ring') + k = consumed + InLen + Len(ring) + k
    BY <1>1, <1>2, <1>6
  <2>4. \A k \in 1..InLen' : rcvbuff'[rcvptr' + k - 1] = Wire[consumed' + k]  BY <1>2
  <2> QED  BY <2>1, <2>2, <2>3, <2>4 DEF BytesInv, InPlace
<1> QED  BY <1>3, <1>5, <1>7 DEF BytesInv

LEMMA BytesNoData == ASSUME IInv, IInv', BytesInv, RxNoData PROVE BytesInv'
<1>1. /\ Parse(rcvbuff, 0) /\ rxpc = "recv"
      /\ UNCHANGED <<sent, fifo, ring, requested, remaining, received>>
  BY DEF RxNoData, uartVars, abortVars
<1>2. InLen = 0  BY <1>1 DEF InLen
<1>3. DOMAIN rcvbuff = 0..BuffMax - 1  BY DEF BytesInv, Numbers
<1> QED  BY <1>1, <1>2, <1>3, BytesParsed

LEMMA BytesWake == ASSUME IInv, IInv', BytesInv, RxWake PROVE BytesInv'
<1>1. /\ Parse(rcvbuff, ReadSize) /\ rxpc = "wait" /\ flags # {}
      /\ UNCHANGED <<sent, fifo, ring, requested, remaining, received>>
  BY DEF RxWake, uartVars, abortVars
<1>2. line # "busy"  BY <1>1 DEF IInv, Handshake
<1>3. ReadSize = InLen  BY <1>1, <1>2 DEF InLen, ReadSize
<1>4. DOMAIN rcvbuff = 0..BuffMax - 1 /\ InLen \in Nat  BY DEF BytesInv, Numbers, Reading
<1> QED  BY <1>1, <1>3, <1>4, BytesParsed

\* Nothing of the bytes changes while no read is in progress.
LEMMA BytesSame ==
  ASSUME IInv, IInv', BytesInv, rxpc # "wait", rxpc' # "wait",
         UNCHANGED <<sent, fifo, ring, consumed>>,
         rcvptr' \in Nat, totallen' \in Nat, rcvlen' \in Nat, received' \in Nat,
         requested' \in Nat, remaining' \in 0..requested', remaining' = 0 \/ remaining' = remaining,
         DOMAIN rcvbuff' = 0..BuffMax - 1
  PROVE  BytesInv'
<1>1. InLen = 0 /\ InLen' = 0  BY DEF InLen
<1>2. line' # "busy"  BY DEF IInv, Handshake
<1>3. Numbers'  BY DEF BytesInv, Numbers
<1>4. Reading'  BY <1>1, <1>2 DEF BytesInv, Reading
<1>5. InPlace'  BY <1>1 DEF BytesInv, InPlace
<1> QED  BY <1>3, <1>4, <1>5 DEF BytesInv

LEMMA BytesCheck == ASSUME IInv, IInv', BytesInv, RxCheck PROVE BytesInv'
<1>1. /\ rxpc = "recv" /\ rxpc' # "wait"
      /\ UNCHANGED <<sent, fifo, ring, consumed, requested, remaining, received>>
  BY DEF RxCheck, uartVars, IInv, Types
<1>2. Numbers /\ BuffMax \in Nat  BY SerialAssumption DEF BytesInv
<1>3. /\ rcvptr' \in Nat /\ totallen' \in Nat /\ rcvlen' \in Nat
      /\ DOMAIN rcvbuff' = 0..BuffMax - 1
  <2>1. CASE totallen + rcvlen <= BuffMax
    <3>1. UNCHANGED <<frameVars, rcvbuff>>  BY <2>1 DEF RxCheck
    <3> QED  BY <3>1, <1>2 DEF frameVars, Numbers
  <2>2. CASE ~(totallen + rcvlen <= BuffMax)
    <3>1. RcvInit /\ rcvbuff' = [i \in DOMAIN rcvbuff |-> Junk]  BY <2>2 DEF RxCheck
    <3> QED  BY <3>1, <1>2 DEF RcvInit, Numbers
  <2> QED  BY <2>1, <2>2
<1>4. received' \in Nat /\ requested' \in Nat /\ remaining' \in 0..requested' /\ remaining' = remaining
  BY <1>1, <1>2 DEF Numbers
<1> QED  BY <1>1, <1>3, <1>4, BytesSame

\* What the drain of the ring buffer does.
LEMMA DrainBytes ==
  ASSUME IInv, BytesInv, rcvlen > 0, Drain
  PROVE  /\ Copied \in Nat /\ Copied <= rcvlen /\ Copied <= Len(ring)
         /\ Copied = rcvlen \/ Copied = Len(ring)
         /\ requested' = rcvlen /\ remaining' = rcvlen - Copied /\ dest' = rcvptr + Copied
         /\ SubSeq(ring, 1, Copied) \in Seq(Value) /\ Len(SubSeq(ring, 1, Copied)) = Copied
         /\ \A k \in 1..Copied : SubSeq(ring, 1, Copied)[k] = ring[k]
         /\ ring' \in Seq(Value) /\ Len(ring') = Len(ring) - Copied
         /\ \A k \in 1..Len(ring') : ring'[k] = ring[Copied + k]
<1>1. ring \in Seq(Value) /\ Len(ring) \in Nat /\ rcvlen \in Nat
  BY DEF IInv, Types, BytesInv, Numbers
<1>2. /\ Copied \in Nat /\ Copied <= rcvlen /\ Copied <= Len(ring)
      /\ Copied = rcvlen \/ Copied = Len(ring)
  BY <1>1 DEF Copied, Minimum
<1>3. requested' = rcvlen /\ remaining' = rcvlen - Copied /\ dest' = rcvptr + Copied
      /\ ring' = SubSeq(ring, Copied + 1, Len(ring))
  BY DEF Drain
<1>4. \A k \in 1..Len(ring) : ring[k] \in Value  BY <1>1, ElementOfSeq
<1>5. /\ SubSeq(ring, 1, Copied) \in Seq(Value) /\ Len(SubSeq(ring, 1, Copied)) = Copied
      /\ \A k \in 1..Copied : SubSeq(ring, 1, Copied)[k] = ring[k]
  <2>1. \A i \in 1..Copied : ring[i] \in Value  BY <1>1, <1>2, <1>4
  <2>2. 1 \in Int /\ Copied \in Int /\ 1 <= Copied + 1  BY <1>2
  <2>3. /\ SubSeq(ring, 1, Copied) \in Seq(Value)
        /\ Len(SubSeq(ring, 1, Copied)) = IF 1 <= Copied THEN Copied - 1 + 1 ELSE 0
        /\ \A k \in 1..(Copied - 1 + 1) : SubSeq(ring, 1, Copied)[k] = ring[1 + k - 1]
    BY <2>1, <2>2, SubSeqProperties
  <2> QED  BY <2>3, <1>2
<1>6. /\ ring' \in Seq(Value) /\ Len(ring') = Len(ring) - Copied
      /\ \A k \in 1..Len(ring') : ring'[k] = ring[Copied + k]
  <2>1. \A i \in (Copied + 1)..Len(ring) : ring[i] \in Value  BY <1>1, <1>2, <1>4
  <2>2. Copied + 1 \in Int /\ Len(ring) \in Int  BY <1>1, <1>2
  <2>3. /\ ring' \in Seq(Value)
        /\ Len(ring') = IF Copied + 1 <= Len(ring) THEN Len(ring) - (Copied + 1) + 1 ELSE 0
        /\ \A k \in 1..(Len(ring) - (Copied + 1) + 1) : ring'[k] = ring[(Copied + 1) + k - 1]
    BY <2>1, <2>2, <1>3, SubSeqProperties
  <2>4. Len(ring') = Len(ring) - Copied  BY <2>3, <1>1, <1>2
  <2>5. ASSUME NEW k \in 1..Len(ring') PROVE ring'[k] = ring[Copied + k]
    <3>1. k \in 1..(Len(ring) - (Copied + 1) + 1) /\ (Copied + 1) + k - 1 = Copied + k
      BY <2>4, <1>1, <1>2
    <3> QED  BY <3>1, <2>3
  <2> QED  BY <2>3, <2>4, <2>5
<1> QED  BY <1>2, <1>3, <1>5, <1>6

LEMMA BytesReadAll == ASSUME IInv, IInv', BytesInv, RxReadAll PROVE BytesInv'
<1>1. /\ rxpc = "checked" /\ Copied = rcvlen /\ Drain
      /\ Parse(Put(rcvptr, SubSeq(ring, 1, Copied)), rcvlen)
      /\ UNCHANGED <<sent, fifo, received>>
  BY DEF RxReadAll, abortVars
<1>2. rcvlen > 0  BY <1>1 DEF IInv, Handshake
<1>3. /\ Copied \in Nat /\ requested' = rcvlen /\ remaining' = rcvlen - Copied
      /\ SubSeq(ring, 1, Copied) \in Seq(Value)
      /\ Copied <= Len(ring) /\ Len(ring') = Len(ring) - Copied
      /\ \A k \in 1..Len(ring') : ring'[k] = ring[Copied + k]
  BY <1>1, <1>2, DrainBytes
<1>4. Numbers /\ Len(ring) \in Nat /\ Len(fifo) \in Nat  BY DEF IInv, Types, BytesInv
<1>5. DOMAIN Put(rcvptr, SubSeq(ring, 1, Copied)) = 0..BuffMax - 1
  BY <1>4 DEF Put, Numbers
<1>6. /\ rcvptr' \in Nat /\ totallen' \in Nat /\ rcvlen' \in Nat
      /\ DOMAIN rcvbuff' = 0..BuffMax - 1
      /\ consumed' = consumed + rcvlen /\ rxpc' = "recv"
  <2>1. rcvlen \in Nat /\ Types  BY <1>4 DEF Numbers, IInv
  <2> QED  BY <1>1, <1>4, <1>5, <2>1, ParseNumbers
<1>7. InLen = 0 /\ InLen' = 0  BY <1>1, <1>6 DEF InLen
<1>8. remaining' = 0 /\ requested' \in Nat  BY <1>1, <1>3, <1>4 DEF Numbers
<1>9. Numbers'  BY <1>1, <1>4, <1>6, <1>8 DEF Numbers
<1>10. line' # "busy"  BY <1>6 DEF IInv, Handshake
<1>11. Reading'  BY <1>6, <1>7, <1>8, <1>10 DEF Reading
<1>12. InPlace'
  <2>0. consumed \in Nat /\ rcvlen \in Nat  BY <1>4 DEF Numbers
  <2>1. sent' = consumed' + InLen' + Len(ring') + Len(fifo')
    BY <1>1, <1>3, <1>4, <1>6, <1>7, <2>0 DEF BytesInv, InPlace
  <2>2. ASSUME NEW k \in 1..Len(ring') PROVE ring'[k] = Wire[consumed' + InLen' + k]
    <3>1. Copied + k \in 1..Len(ring) /\ consumed' + InLen' + k = consumed + InLen + (Copied + k)
      BY <1>1, <1>3, <1>4, <1>6, <1>7, <2>0
    <3> QED  BY <3>1, <1>3 DEF BytesInv, InPlace
  <2>3. ASSUME NEW k \in 1..Len(fifo')
        PROVE  fifo'[k] = Wire[consumed' + InLen' + Len(ring') + k]
    <3>1. consumed' + InLen' + Len(ring') + k = consumed + InLen + Len(ring) + k
      BY <1>1, <1>3, <1>4, <1>6, <1>7, <2>0
    <3> QED  BY <3>1, <1>1 DEF BytesInv, InPlace
  <2>4. \A k \in 1..InLen' : rcvbuff'[rcvptr' + k - 1] = Wire[consumed' + k]  BY <1>7
  <2> QED  BY <2>1, <2>2, <2>3, <2>4 DEF InPlace
<1> QED  BY <1>9, <1>11, <1>12 DEF BytesInv

LEMMA BytesReadWait == ASSUME IInv, IInv', BytesInv, ReadFits, RxReadWait PROVE BytesInv'
<1>1. /\ rxpc = "checked" /\ Copied < rcvlen /\ Drain /\ line' = "busy" /\ rxpc' = "wait"
      /\ rcvbuff' = Put(rcvptr, SubSeq(ring, 1, Copied))
      /\ UNCHANGED <<sent, fifo, received, rcvptr, rcvlen, totallen, consumed>>
  BY DEF RxReadWait, abortVars, frameVars
<1>2. rcvlen > 0 /\ rcvptr + rcvlen <= BuffMax  BY <1>1 DEF IInv, Handshake, ReadFits
<1>3. /\ Copied \in Nat /\ requested' = rcvlen /\ remaining' = rcvlen - Copied
      /\ dest' = rcvptr + Copied
      /\ SubSeq(ring, 1, Copied) \in Seq(Value) /\ Len(SubSeq(ring, 1, Copied)) = Copied
      /\ \A k \in 1..Copied : SubSeq(ring, 1, Copied)[k] = ring[k]
      /\ Copied = Len(ring) /\ Len(ring') = 0 /\ ring' \in Seq(Value)
  BY <1>1, <1>2, DrainBytes
<1>4. /\ sent \in Nat /\ consumed \in Nat /\ rcvptr \in Nat /\ totallen \in Nat /\ rcvlen \in Nat
      /\ received \in Nat /\ Len(ring) \in Nat /\ Len(fifo) \in Nat
      /\ DOMAIN rcvbuff = 0..BuffMax - 1 /\ sent <= Total /\ BuffMax \in Nat
  BY SerialAssumption DEF IInv, Types, BytesInv, Numbers
<1>5. /\ DOMAIN rcvbuff' = 0..BuffMax - 1
      /\ \A k \in 1..Copied : rcvbuff'[rcvptr + k - 1] = ring[k]
  <2> DEFINE s == SubSeq(ring, 1, Copied)
  <2>1. \A k \in 1..Copied : rcvptr + k <= BuffMax  BY <1>1, <1>2, <1>3, <1>4
  <2>2. s \in Seq(Value) /\ Len(s) = Copied /\ rcvbuff' = Put(rcvptr, s)
        /\ \A k \in 1..Copied : s[k] = ring[k]
    BY <1>1, <1>3
  <2> HIDE DEF s
  <2>3. /\ DOMAIN Put(rcvptr, s) = 0..BuffMax - 1
        /\ \A k \in 1..Len(s) : rcvptr + k <= BuffMax => Put(rcvptr, s)[rcvptr + k - 1] = s[k]
    BY <2>2, <1>4, PutSeq
  <2> QED  BY <2>1, <2>2, <2>3
<1>6. InLen = 0  BY <1>1 DEF InLen
<1>7. InLen' = Copied
  <2>1. InLen' = requested' - remaining'  BY <1>1 DEF InLen
  <2> QED  BY <2>1, <1>3, <1>4
<1>8. Numbers'  BY <1>1, <1>3, <1>4, <1>5 DEF Numbers
<1>9. Reading'
  <2>1. dest' = rcvptr' + (requested' - remaining')  BY <1>1, <1>3, <1>4
  <2>2. ring' = <<>>  BY <1>3, EmptySeq
  <2>3. InLen' \in 0..rcvlen'  BY <1>1, <1>3, <1>4, <1>7
  <2> QED  BY <2>1, <2>2, <2>3, <1>1, <1>2 DEF Reading
<1>10. InPlace'
  <2>1. sent' = consumed' + InLen' + Len(ring') + Len(fifo')
    BY <1>1, <1>3, <1>4, <1>6, <1>7 DEF BytesInv, InPlace
  <2>2. ASSUME NEW k \in 1..InLen' PROVE rcvbuff'[rcvptr' + k - 1] = Wire[consumed' + k]
    <3>1. k \in 1..Len(ring) /\ consumed + InLen + k = consumed' + k
      BY <1>1, <1>3, <1>4, <1>6, <1>7
    <3>2. rcvbuff'[rcvptr' + k - 1] = ring[k]  BY <1>1, <1>3, <1>5, <3>1
    <3> QED  BY <3>1, <3>2 DEF BytesInv, InPlace
  <2>3. ASSUME NEW k \in 1..Len(fifo')
        PROVE  fifo'[k] = Wire[consumed' + InLen' + Len(ring') + k]
    <3>1. consumed' + InLen' + Len(ring') + k = consumed + InLen + Len(ring) + k
      BY <1>1, <1>3, <1>4, <1>6, <1>7
    <3> QED  BY <3>1, <1>1 DEF BytesInv, InPlace
  <2>4. \A k \in 1..Len(ring') : ring'[k] = Wire[consumed' + InLen' + k]  BY <1>3
  <2> QED  BY <2>1, <2>2, <2>3, <2>4 DEF InPlace
<1> QED  BY <1>8, <1>9, <1>10 DEF BytesInv

\* What the aborting task leaves alone.
LEMMA BytesKept ==
  ASSUME BytesInv, InLen' = InLen,
         UNCHANGED <<sent, fifo, ring, consumed, rcvptr, rcvlen, totallen, rcvbuff, rxpc>>,
         received' \in Nat, requested' \in Nat, remaining' \in 0..requested',
         remaining' = 0 \/ remaining' = remaining,
         line' = "busy" => dest' = rcvptr + (requested' - remaining')
  PROVE  BytesInv'
<1>1. Numbers'  BY DEF BytesInv, Numbers
<1>2. Reading'  BY DEF BytesInv, Reading
<1>3. InPlace'  BY DEF BytesInv, InPlace
<1> QED  BY <1>1, <1>2, <1>3 DEF BytesInv

LEMMA BytesAsk == ASSUME BytesInv, AskAgain \/ AskTerminate PROVE BytesInv'
<1>1. /\ UNCHANGED <<sent, fifo, ring, consumed, rcvptr, rcvlen, totallen, rcvbuff, rxpc>>
      /\ UNCHANGED <<line, flags, requested, remaining, received, dest>>
  BY DEF AskAgain, AskTerminate, Ask, uartVars, readerVars, frameVars
<1>2. InLen' = InLen  BY <1>1 DEF InLen
<1>3. received' \in Nat /\ requested' \in Nat /\ remaining' \in 0..requested'
  BY <1>1 DEF BytesInv, Numbers
<1>4. line' = "busy" => dest' = rcvptr + (requested' - remaining')
  BY <1>1 DEF BytesInv, Reading
<1> QED  BY <1>1, <1>2, <1>3, <1>4, BytesKept

LEMMA BytesAbort == ASSUME IInv, IInv', BytesInv, AbortStep PROVE BytesInv'
<1>1. /\ UNCHANGED <<sent, fifo, ring, consumed, rcvptr, rcvlen, totallen, rcvbuff, rxpc, dest>>
  BY DEF AbortStep, AbortIdle, AbortRead, AbortTell, uartVars, readerVars, frameVars
<1>2. /\ received \in Nat /\ requested \in Nat /\ remaining \in 0..requested
      /\ line = "busy" => dest = rcvptr + (requested - remaining)
  BY DEF BytesInv, Numbers, Reading
<1>3. CASE AbortIdle
  <2>1. UNCHANGED <<line, flags, requested, remaining, received>>  BY <1>3 DEF AbortIdle
  <2>2. InLen' = InLen  BY <1>1, <2>1 DEF InLen
  <2> QED  BY <1>1, <1>2, <2>1, <2>2, BytesKept
<1>4. CASE AbortRead
  <2>1. /\ line = "busy" /\ received' = requested - remaining /\ requested' = 0
        /\ remaining' = 0 /\ line' = "idle" /\ flags' = flags
    BY <1>4 DEF AbortRead
  <2>2. rxpc = "wait" /\ flags = {}  BY <2>1 DEF IInv, Handshake
  <2>3. InLen' = InLen  BY <1>1, <2>1, <2>2 DEF InLen
  <2>4. received' \in Nat  BY <1>2, <2>1
  <2> QED  BY <1>1, <2>1, <2>3, <2>4, BytesKept
<1>5. CASE AbortTell
  <2>1. /\ apc = "tell" /\ flags' = flags \cup {"abort"}
        /\ UNCHANGED <<line, requested, remaining, received>>
    BY <1>5 DEF AbortTell, uartVars
  <2>2. "complete" \in flags' <=> "complete" \in flags  BY <2>1
  <2>3. InLen' = InLen  BY <1>1, <2>1, <2>2 DEF InLen
  <2> QED  BY <1>1, <1>2, <2>1, <2>3, BytesKept
<1> QED  BY <1>3, <1>4, <1>5 DEF AbortStep

LEMMA BytesStep == IInv /\ IInv' /\ BytesInv /\ ReadFits /\ [Next]_vars => BytesInv'
<1> SUFFICES ASSUME IInv, IInv', BytesInv, ReadFits, [Next]_vars PROVE BytesInv'  OBVIOUS
<1>1. CASE ModemSends  BY <1>1, BytesModem
<1>2. CASE Isr
  <2>1. CASE IsrDirect  BY <2>1, BytesDirect
  <2>2. CASE IsrStore  BY <2>2, BytesStore
  <2>3. CASE IsrFull
    <3>1. /\ UNCHANGED <<sent, fifo, ring, consumed, rcvptr, rcvlen, totallen, rcvbuff, rxpc>>
          /\ UNCHANGED <<line, flags, requested, remaining, received, dest>>
      BY <2>3 DEF IsrFull, abortVars, readerVars, frameVars
    <3>2. InLen' = InLen  BY <3>1 DEF InLen
    <3>3. received' \in Nat /\ requested' \in Nat /\ remaining' \in 0..requested'
      BY <3>1 DEF BytesInv, Numbers
    <3>4. line' = "busy" => dest' = rcvptr + (requested' - remaining')
      BY <3>1 DEF BytesInv, Reading
    <3> QED  BY <3>1, <3>2, <3>3, <3>4, BytesKept
  <2> QED  BY <1>2, <2>1, <2>2, <2>3 DEF Isr
<1>3. CASE RxStep
  BY <1>3, BytesNoData, BytesCheck, BytesReadAll, BytesReadWait, BytesWake DEF RxStep
<1>4. CASE AskAgain \/ AskTerminate  BY <1>4, BytesAsk
<1>5. CASE AbortStep  BY <1>5, BytesAbort
<1>6. CASE UNCHANGED vars
  <2>1. UNCHANGED <<sent, fifo, ring, consumed, rcvptr, rcvlen, totallen, rcvbuff, rxpc,
                    line, flags, requested, remaining, received, dest>>
    BY <1>6 DEF vars, uartVars, abortVars, readerVars, frameVars
  <2>2. InLen' = InLen  BY <2>1 DEF InLen
  <2> QED  BY <2>1, <2>2 DEF BytesInv, Numbers, Reading, InPlace
<1> QED  BY <1>1, <1>2, <1>3, <1>4, <1>5, <1>6 DEF Next

\* BytesInOrder says the same of sequences.
LEMMA BytesOrdered == IInv /\ BytesInv => BytesInOrder
<1> SUFFICES ASSUME IInv, BytesInv PROVE BytesInOrder  OBVIOUS
<1>1. InBuffer = [k \in 1..InLen |-> rcvbuff[rcvptr + k - 1]]
  <2>1. CASE rxpc # "wait"
    <3>1. InLen = 0  BY <2>1 DEF InLen
    <3>2. ~(line = "busy" \/ "complete" \in flags)  BY <2>1 DEF IInv, Handshake
    <3> QED  BY <3>1, <3>2, <2>1 DEF InBuffer
  <2>2. CASE rxpc = "wait" /\ (line = "busy" \/ "complete" \in flags)  BY <2>2 DEF InBuffer, InLen
  <2>3. CASE rxpc = "wait" /\ ~(line = "busy" \/ "complete" \in flags)
    <3>1. InLen = received  BY <2>3 DEF InLen
    <3> QED  BY <3>1, <2>3, Zenon DEF InBuffer
  <2> QED  BY <2>1, <2>2, <2>3
<1>2. /\ InLen \in Nat /\ ring \in Seq(Value) /\ fifo \in Seq(Value) /\ consumed \in Nat
      /\ Len(ring) \in Nat /\ Len(fifo) \in Nat /\ sent \in Nat
      /\ sent = consumed + InLen + Len(ring) + Len(fifo)
  BY DEF BytesInv, Numbers, Reading, InPlace, IInv, Types
<1>3. \A k \in 1..InLen : rcvbuff[rcvptr + k - 1] = Wire[consumed + k] /\ Wire[consumed + k] \in Value
  BY <1>2 DEF BytesInv, InPlace, Value
<1>4. InBuffer \in Seq(Value) /\ Len(InBuffer) = InLen
      /\ \A k \in 1..InLen : InBuffer[k] = Wire[consumed + k]
  <2>1. InBuffer \in [1..InLen -> Value]  BY <1>1, <1>3
  <2>2. InBuffer \in Seq(Value)  BY <2>1, <1>2, SeqDef
  <2>3. Len(InBuffer) = InLen  BY <2>1, <2>2, <1>2, LenProperties
  <2> QED  BY <1>1, <1>3, <2>2, <2>3
<1> DEFINE both == InBuffer \o ring
           all == both \o fifo
           stream == [i \in 1..(sent - consumed) |-> Wire[consumed + i]]
<1>5. /\ both \in Seq(Value) /\ Len(both) = InLen + Len(ring)
      /\ \A k \in 1..(InLen + Len(ring)) :
           both[k] = IF k <= InLen THEN InBuffer[k] ELSE ring[k - InLen]
  BY <1>2, <1>4, ConcatProperties
<1> HIDE DEF both
<1>6. /\ all \in Seq(Value) /\ Len(all) = InLen + Len(ring) + Len(fifo)
      /\ \A k \in 1..(InLen + Len(ring) + Len(fifo)) :
           all[k] = IF k <= InLen + Len(ring) THEN both[k] ELSE fifo[k - (InLen + Len(ring))]
  BY <1>2, <1>5, ConcatProperties
<1> HIDE DEF all
<1>7. ASSUME NEW k \in 1..(sent - consumed) PROVE all[k] = Wire[consumed + k]
  <2>1. CASE k <= InLen
    <3>1. k \in 1..InLen /\ all[k] = InBuffer[k]  BY <1>2, <1>5, <1>6, <1>7, <2>1
    <3> QED  BY <3>1, <1>4
  <2>2. CASE InLen < k /\ k <= InLen + Len(ring)
    <3>1. k - InLen \in 1..Len(ring) /\ all[k] = ring[k - InLen]
      BY <1>2, <1>5, <1>6, <1>7, <2>2
    <3>2. consumed + InLen + (k - InLen) = consumed + k  BY <1>2
    <3> QED  BY <3>1, <3>2 DEF BytesInv, InPlace
  <2>3. CASE InLen + Len(ring) < k
    <3>1. k - (InLen + Len(ring)) \in 1..Len(fifo) /\ all[k] = fifo[k - (InLen + Len(ring))]
      BY <1>2, <1>5, <1>6, <1>7, <2>3
    <3>2. consumed + InLen + Len(ring) + (k - (InLen + Len(ring))) = consumed + k  BY <1>2
    <3> QED  BY <3>1, <3>2 DEF BytesInv, InPlace
  <2> QED  BY <1>2, <2>1, <2>2, <2>3
<1>8. /\ sent - consumed \in Nat /\ Len(all) = sent - consumed
      /\ \A k \in 1..(sent - consumed) : Wire[consumed + k] \in Value
  BY <1>2, <1>6 DEF Value
<1>9. stream \in Seq(Value) /\ Len(stream) = sent - consumed
  <2>1. stream \in [1..(sent - consumed) -> Value]  BY <1>8
  <2> HIDE DEF stream
  <2>2. stream \in Seq(Value)  BY <2>1, <1>8, SeqDef
  <2> QED  BY <2>1, <2>2, <1>8, LenProperties
<1>10. \A k \in 1..Len(stream) : stream[k] = all[k]
  <2>1. \A k \in 1..(sent - consumed) : stream[k] = Wire[consumed + k]  OBVIOUS
  <2> HIDE DEF stream
  <2> QED  BY <2>1, <1>7, <1>9
<1> HIDE DEF stream
<1>11. stream = all  BY <1>6, <1>8, <1>9, <1>10, SeqEqual
<1> QED  BY <1>11 DEF BytesInOrder, stream, all, both

-----------------------------------------------------------------------------
(* The frames are recognized, as long as no abort splits a magic number *)

\* The first k frames are recognized, and the buffer holds the start of the next.
Parsing(k) ==
  /\ consumed = End[k] + totallen
  /\ got = [i \in 1..k |-> i]
  /\ rcvptr = totallen
  /\ \A j \in 1..totallen : rcvbuff[j - 1] = [frame |-> k + 1, pos |-> j]
  /\ \/ recvsts = "idle" /\ totallen = 0 /\ rcvlen = 1
     \/ /\ recvsts = "magic" /\ k < NFrames
        /\ totallen \in 1..Magic - 1 /\ rcvlen = 1
     \/ /\ recvsts = "header" /\ k < NFrames
        /\ totallen \in Magic..Header - 1 /\ rcvlen = Header - totallen
     \/ /\ recvsts = "data" /\ k < NFrames /\ datalen = DataLen[k + 1]
        /\ totallen \in Header..(Header + datalen) /\ rcvlen = Header + datalen - totallen

ParseInv == \E k \in 0..NFrames : Parsing(k)

\* A read stays within the frame and the frame within the buffer.
LEMMA ParsingFits ==
  ASSUME NEW k \in 0..NFrames, Parsing(k)
  PROVE  /\ k \in Nat /\ totallen \in Nat /\ rcvlen \in Nat
         /\ rcvptr = totallen /\ totallen + rcvlen <= BuffMax
         /\ k < NFrames => k + 1 \in Frames /\ totallen + rcvlen <= FrameLen(k + 1)
<1>1. /\ NFrames \in Nat /\ Magic \in Nat \ {0} /\ Header \in Nat /\ Header > Magic
      /\ BuffMax \in Nat /\ Header <= BuffMax /\ k \in Nat
  BY SerialAssumption
<1>2. ASSUME k < NFrames
      PROVE  /\ k + 1 \in Frames /\ DataLen[k + 1] \in Nat
             /\ FrameLen(k + 1) = Header + DataLen[k + 1] /\ Header + DataLen[k + 1] <= BuffMax
  <2>1. k + 1 \in Frames  BY <1>1, <1>2 DEF Frames
  <2> QED  BY <2>1, FrameLenType, SerialAssumption
<1>3. rcvptr = totallen  BY DEF Parsing
<1>4. CASE recvsts = "idle" /\ totallen = 0 /\ rcvlen = 1  BY <1>1, <1>2, <1>3, <1>4
<1>5. CASE k < NFrames /\ totallen \in 1..Magic - 1 /\ rcvlen = 1  BY <1>1, <1>2, <1>3, <1>5
<1>6. CASE k < NFrames /\ totallen \in Magic..Header - 1 /\ rcvlen = Header - totallen
  BY <1>1, <1>2, <1>3, <1>6
<1>7. CASE /\ k < NFrames /\ datalen = DataLen[k + 1]
           /\ totallen \in Header..(Header + datalen) /\ rcvlen = Header + datalen - totallen
  BY <1>1, <1>2, <1>3, <1>7
<1> QED  BY <1>4, <1>5, <1>6, <1>7 DEF Parsing

\* What the framing makes of the next n bytes of the wire.
LEMMA ParseFrame ==
  ASSUME NEW k \in 0..NFrames, Parsing(k), consumed \in Nat,
         NEW b, DOMAIN b = 0..BuffMax - 1,
         NEW n \in 0..rcvlen, recvsts = "magic" => n > 0, consumed + n <= Total,
         \A j \in 1..totallen : b[j - 1] = [frame |-> k + 1, pos |-> j],
         \A j \in 1..n : b[rcvptr + j - 1] = Wire[consumed + j],
         Parse(b, n)
  PROVE  ParseInv'
<1> DEFINE total == totallen + n
<1>1. /\ NFrames \in Nat /\ Magic \in Nat \ {0} /\ Header \in Nat /\ Header > Magic
      /\ BuffMax \in Nat /\ Header <= BuffMax
  BY SerialAssumption
<1>2. /\ k \in Nat /\ totallen \in Nat /\ rcvlen \in Nat /\ rcvptr = totallen
      /\ k < NFrames => k + 1 \in Frames /\ totallen + rcvlen <= FrameLen(k + 1)
      /\ consumed = End[k] + totallen /\ got = [i \in 1..k |-> i]
  BY ParsingFits DEF Parsing
<1>3. /\ consumed' = consumed + n
      /\ got' = (IF DataComplete(total) /\ IsFrame(b, Magic + 1, total)
                   THEN Append(got, b[Header - 1].frame) ELSE got)
  BY DEF Parse
<1>4. End[k] \in Nat /\ n \in Nat /\ total \in Nat  BY <1>2, EndType
<1>5. ASSUME k < NFrames
      PROVE  \A j \in 1..total : b[j - 1] = [frame |-> k + 1, pos |-> j]
  <2> SUFFICES ASSUME NEW j \in 1..total PROVE b[j - 1] = [frame |-> k + 1, pos |-> j]  OBVIOUS
  <2>1. CASE j <= totallen
    <3>1. j \in 1..totallen  BY <1>2, <1>4, <2>1
    <3> QED  BY <3>1
  <2>2. CASE j > totallen
    <3>1. j - totallen \in 1..n /\ rcvptr + (j - totallen) - 1 = j - 1
          /\ consumed + (j - totallen) = End[k] + j
      BY <1>2, <1>4, <2>2
    <3>2. k + 1 \in Frames /\ (k + 1) - 1 = k /\ FrameLen(k + 1) \in Nat
      BY <1>2, <1>5, FrameLenType
    <3>3. j \in 1..FrameLen(k + 1)  BY <1>2, <1>4, <1>5, <3>2
    <3>4. Wire[End[k] + j] = [frame |-> k + 1, pos |-> j]  BY <3>2, <3>3, WireAt
    <3> QED  BY <3>1, <3>4
  <2> QED  BY <1>2, <2>1, <2>2
<1>6. total <= totallen + rcvlen  BY <1>2, <1>4
<1> HIDE DEF total
<1>7. ASSUME got' = got, rcvptr' = totallen', totallen' \in 0..total,
             consumed' = End[k] + totallen',
             \A j \in 1..totallen' : rcvbuff'[j - 1] = [frame |-> k + 1, pos |-> j],
             \/ recvsts' = "idle" /\ totallen' = 0 /\ rcvlen' = 1
             \/ /\ recvsts' = "magic" /\ k < NFrames
                /\ totallen' \in 1..Magic - 1 /\ rcvlen' = 1
             \/ /\ recvsts' = "header" /\ k < NFrames
                /\ totallen' \in Magic..Header - 1 /\ rcvlen' = Header - totallen'
             \/ /\ recvsts' = "data" /\ k < NFrames /\ datalen' = DataLen[k + 1]
                /\ totallen' \in Header..(Header + datalen') /\ rcvlen' = Header + datalen' - totallen'
      PROVE  ParseInv'
  <2>1. Parsing(k)'  BY <1>2, <1>7 DEF Parsing
  <2> QED  BY <2>1 DEF ParseInv
<1>8. ASSUME recvsts # "data" PROVE got' = got  BY <1>3, <1>8 DEF DataComplete
<1>9. CASE recvsts = "idle" /\ n = 0
  <2>1. RcvInit /\ rcvbuff' = b  BY <1>9, <1>2 DEF Parse
  <2>2. recvsts' = "idle" /\ rcvptr' = 0 /\ rcvlen' = 1 /\ totallen' = 0  BY <2>1 DEF RcvInit
  <2>3. totallen = 0  BY <1>9 DEF Parsing
  <2>4. consumed' = End[k] + totallen' /\ totallen' \in 0..total
    BY <2>2, <2>3, <1>2, <1>3, <1>4, <1>9
  <2>5. \A j \in 1..totallen' : rcvbuff'[j - 1] = [frame |-> k + 1, pos |-> j]  BY <2>2
  <2>6. got' = got  BY <1>8, <1>9
  <2> QED  BY <1>7, <2>2, <2>4, <2>5, <2>6
<1>10. CASE (recvsts = "idle" /\ n > 0) \/ recvsts = "magic"
  <2>1. n = 1 /\ total = totallen + 1 /\ total \in 1..Magic
    BY <1>1, <1>2, <1>4, <1>10 DEF Parsing, total
  <2>2. k < NFrames
    <3>1. CASE recvsts = "magic"  BY <3>1 DEF Parsing
    <3>2. CASE recvsts = "idle" /\ k = NFrames
      <4>1. consumed = Total  BY <3>2, <1>2, <1>4 DEF Parsing, Total
      <4> QED  BY <4>1, <2>1
    <3> QED  BY <3>1, <3>2, <1>1, <1>2, <1>10
  <2>3. \A j \in 1..total : b[j - 1] = [frame |-> k + 1, pos |-> j]  BY <1>5, <2>2
  <2>4. MagicFound(b, total) \/ MagicMissing(b, total)  BY <1>10 DEF Parse, total
  <2>5. got' = got  BY <1>8, <1>10
  <2>6. consumed' = End[k] + total  BY <1>2, <1>3, <1>4, <2>1
  <2>7. CASE total < Magic
    <3>1. ~MagicFound(b, total)
      <4>1. \A i \in 0..(total - Magic) : FALSE  BY <2>7, <2>1, <1>1
      <4> QED  BY <4>1 DEF MagicFound
    <3>2. /\ rcvbuff' = b /\ recvsts' = "magic" /\ rcvptr' = rcvptr + 1 /\ rcvlen' = 1
          /\ totallen' = total
      BY <2>4, <3>1 DEF MagicMissing
    <3>3. rcvptr' = totallen' /\ totallen' \in 0..total /\ totallen' \in 1..Magic - 1
      BY <3>2, <2>1, <2>7, <1>1, <1>2
    <3> QED  BY <3>2, <3>3, <2>2, <2>3, <2>5, <2>6, <1>7
  <2>8. CASE total = Magic
    <3>1. total - Magic = 0 /\ 0 \in 0..(total - Magic)  BY <2>8, <1>1
    <3>2. MagicAt(b, 0)
      <4>1. ASSUME NEW j \in 1..Magic PROVE b[0 + j - 1].pos = j
        <5>1. 0 + j - 1 = j - 1  BY <1>1
        <5>2. b[j - 1] = [frame |-> k + 1, pos |-> j]  BY <2>3, <2>8
        <5> QED  BY <5>1, <5>2
      <4> QED  BY <4>1 DEF MagicAt
    <3>3. ~MagicMissing(b, total)  BY <3>1, <3>2 DEF MagicMissing
    <3>4. PICK i \in 0..(total - Magic) :
            /\ rcvbuff' = Moved(b, i) /\ recvsts' = "header" /\ rcvptr' = Magic
            /\ rcvlen' = Header - Magic /\ totallen' = Magic
      BY <2>4, <3>3 DEF MagicFound
    <3>5. i = 0  BY <3>1
    <3>6. \A j \in 1..totallen' : rcvbuff'[j - 1] = [frame |-> k + 1, pos |-> j]
      <4>1. ASSUME NEW j \in 1..Magic PROVE rcvbuff'[j - 1] = b[j - 1]
        <5>1. j - 1 \in 0..BuffMax - 1 /\ j - 1 < Magic /\ 0 + (j - 1) = j - 1  BY <1>1
        <5>2. Moved(b, 0)[j - 1] = b[0 + (j - 1)]  BY <5>1 DEF Moved
        <5> QED  BY <5>1, <5>2, <3>4, <3>5
      <4> QED  BY <4>1, <3>4, <2>3, <2>8
    <3>7. totallen' \in 0..total /\ totallen' \in Magic..Header - 1 /\ rcvlen' = Header - totallen'
          /\ consumed' = End[k] + totallen' /\ rcvptr' = totallen'
      BY <3>4, <2>6, <2>8, <1>1
    <3> QED  BY <3>4, <3>6, <3>7, <2>2, <2>5, <1>7
  <2> QED  BY <2>1, <2>7, <2>8, <1>1
<1>11. CASE recvsts = "header"
  <2>1. k < NFrames /\ totallen \in Magic..Header - 1 /\ rcvlen = Header - totallen
    BY <1>11 DEF Parsing
  <2>2. \A j \in 1..total : b[j - 1] = [frame |-> k + 1, pos |-> j]  BY <1>5, <2>1
  <2>3. /\ rcvbuff' = b
        /\ HeaderComplete(b, total) \/ HeaderBad(b, total) \/ PartRead(total, n)
    BY <1>11 DEF Parse, total
  <2>4. got' = got  BY <1>8, <1>11
  <2>5. /\ consumed' = End[k] + total /\ total \in Magic..Header /\ total = totallen + n
        /\ total \in 0..total
    BY <1>1, <1>2, <1>3, <1>4, <1>6, <2>1 DEF total
  <2>6. CASE total = Header
    <3>1. Header \in (Magic + 1)..Header /\ Header \in 1..total  BY <1>1, <2>6
    <3>2. \A j \in (Magic + 1)..Header : b[j - 1] = [frame |-> k + 1, pos |-> j]
      BY <1>1, <2>2, <2>6
    <3>3. IsFrame(b, Magic + 1, Header)  BY <3>2, <2>1, <1>2 DEF IsFrame
    <3>4. ~PartRead(total, n)  BY <1>1, <1>11, <2>6 DEF PartRead
    <3>5. HeaderComplete(b, total)  BY <2>3, <3>3, <3>4 DEF HeaderBad
    <3>6. b[Header - 1].frame = k + 1
      <4>1. b[Header - 1] = [frame |-> k + 1, pos |-> Header]  BY <3>1, <2>2
      <4> QED  BY <4>1
    <3>7. /\ recvsts' = "data" /\ rcvptr' = Header /\ totallen' = total
          /\ datalen' = DataLen[k + 1] /\ rcvlen' = datalen'
      BY <3>5, <3>6 DEF HeaderComplete
    <3>8. DataLen[k + 1] \in Nat  BY <1>2, <2>1, FrameLenType
    <3>9. totallen' \in Header..(Header + datalen') /\ rcvlen' = Header + datalen' - totallen'
      BY <3>7, <3>8, <2>6, <1>1
    <3>10. /\ rcvptr' = totallen' /\ totallen' \in 0..total /\ consumed' = End[k] + totallen'
           /\ \A j \in 1..totallen' : rcvbuff'[j - 1] = [frame |-> k + 1, pos |-> j]
      BY <3>7, <2>2, <2>3, <2>5, <2>6
    <3> QED  BY <3>7, <3>9, <3>10, <2>1, <2>4, <1>7
  <2>7. CASE total # Header
    <3>1. PartRead(total, n)  BY <2>3, <2>7 DEF HeaderComplete, HeaderBad
    <3>2. /\ rcvptr' = rcvptr + n /\ totallen' = total /\ rcvlen' = Header + 0 - total
          /\ recvsts' = "header"
      BY <3>1, <1>11 DEF PartRead
    <3>3. /\ rcvptr' = totallen' /\ totallen' \in 0..total /\ totallen' \in Magic..Header - 1
          /\ rcvlen' = Header - totallen' /\ consumed' = End[k] + totallen'
      BY <3>2, <2>5, <2>7, <1>1, <1>2
    <3> QED  BY <3>2, <3>3, <2>1, <2>2, <2>3, <2>4, <1>7
  <2> QED  BY <2>6, <2>7
<1>12. CASE recvsts = "data"
  <2>1. /\ k < NFrames /\ datalen = DataLen[k + 1]
        /\ totallen \in Header..(Header + datalen) /\ rcvlen = Header + datalen - totallen
    BY <1>12 DEF Parsing
  <2>2. \A j \in 1..total : b[j - 1] = [frame |-> k + 1, pos |-> j]  BY <1>5, <2>1
  <2>3. /\ rcvbuff' = b
        /\ (DataComplete(total) /\ RcvInit /\ UNCHANGED datalen) \/ PartRead(total, n)
    BY <1>12 DEF Parse, total
  <2>4. datalen \in Nat /\ FrameLen(k + 1) = Header + datalen /\ k + 1 \in Frames
    BY <1>2, <2>1, FrameLenType
  <2>5. /\ consumed' = End[k] + total /\ total \in Header..(Header + datalen)
        /\ total = totallen + n /\ total \in 0..total
    <3>1. total = totallen + n  BY DEF total
    <3>2. consumed' = End[k] + total  BY <3>1, <1>2, <1>3, <1>4
    <3>3. totallen + rcvlen = Header + datalen /\ Header <= totallen
      BY <1>1, <1>2, <2>1, <2>4
    <3>4. Header <= total /\ total <= Header + datalen  BY <3>1, <3>3, <1>1, <1>2, <1>4, <1>6
    <3>5. total \in Header..(Header + datalen)  BY <3>4, <1>1, <1>4, <2>4
    <3> QED  BY <3>1, <3>2, <3>5, <1>1, <1>4
  <2>6. CASE total = Header + datalen
    <3>1. ~PartRead(total, n)  BY <1>1, <1>12, <2>4, <2>6 DEF PartRead
    <3>2. RcvInit /\ DataComplete(total)  BY <2>3, <3>1
    <3>3. recvsts' = "idle" /\ rcvptr' = 0 /\ rcvlen' = 1 /\ totallen' = 0  BY <3>2 DEF RcvInit
    <3>4. \A j \in (Magic + 1)..total : b[j - 1] = [frame |-> k + 1, pos |-> j]
      BY <1>1, <2>2, <2>5
    <3>5. IsFrame(b, Magic + 1, total)  BY <3>4, <2>4 DEF IsFrame
    <3>6. Header \in 1..total  BY <1>1, <2>4, <2>6
    <3>7. b[Header - 1].frame = k + 1
      <4>1. b[Header - 1] = [frame |-> k + 1, pos |-> Header]  BY <3>6, <2>2
      <4> QED  BY <4>1
    <3>8. got' = Append([i \in 1..k |-> i], k + 1)  BY <1>2, <1>3, <3>2, <3>5, <3>7
    <3>9. got' = [i \in 1..(k + 1) |-> i]
      <4>1. [i \in 1..k |-> i] \in Seq(Nat) /\ Len([i \in 1..k |-> i]) = k
        <5> DEFINE s == [i \in 1..k |-> i]
        <5>1. s \in [1..k -> Nat]  OBVIOUS
        <5> HIDE DEF s
        <5>2. s \in Seq(Nat)  BY <5>1, <1>2, SeqDef
        <5>3. Len(s) = k  BY <5>1, <5>2, <1>2, LenProperties
        <5> QED  BY <5>2, <5>3 DEF s
      <4> DEFINE s == [i \in 1..k |-> i]
      <4>2. \A i \in 1..k : s[i] = i  OBVIOUS
      <4>3. s \in Seq(Nat) /\ Len(s) = k  BY <4>1
      <4>4. got' = Append(s, k + 1)  BY <3>8
      <4> HIDE DEF s
      <4>5. /\ Append(s, k + 1) \in Seq(Nat) /\ Len(Append(s, k + 1)) = k + 1
            /\ \A i \in 1..k : Append(s, k + 1)[i] = s[i]
            /\ Append(s, k + 1)[k + 1] = k + 1
        BY <4>3, <1>2, AppendProperties
      <4>6. ASSUME NEW i \in 1..(k + 1) PROVE Append(s, k + 1)[i] = i
        <5>1. CASE i = k + 1  BY <5>1, <4>5
        <5>2. CASE i # k + 1
          <6>1. i \in 1..k  BY <5>2, <1>2
          <6> QED  BY <6>1, <4>2, <4>5
        <5> QED  BY <5>1, <5>2
      <4>7. Append(s, k + 1) \in [1..(k + 1) -> Nat]
        BY <4>5, <1>2, LenProperties
      <4>8. Append(s, k + 1) = [i \in 1..(k + 1) |-> i]  BY <4>6, <4>7
      <4> QED  BY <4>4, <4>8
    <3>10. (k + 1) - 1 = k /\ End[k + 1] = End[k] + FrameLen(k + 1) /\ k + 1 \in 0..NFrames
           /\ End[k + 1] \in Nat
      <4>1. k + 1 \in 0..NFrames /\ (k + 1) - 1 = k  BY <1>1, <1>2, <2>1
      <4> QED  BY <4>1, <2>4, EndStep, EndType
    <3>11. consumed' = End[k + 1] + totallen'  BY <3>3, <3>10, <2>4, <2>5, <2>6
    <3>12. \A j \in 1..totallen' : rcvbuff'[j - 1] = [frame |-> (k + 1) + 1, pos |-> j]  BY <3>3
    <3>13. Parsing(k + 1)'  BY <3>3, <3>9, <3>11, <3>12 DEF Parsing
    <3> QED  BY <3>10, <3>13 DEF ParseInv
  <2>7. CASE total # Header + datalen
    <3>1. PartRead(total, n)  BY <2>3, <2>7, <1>12 DEF DataComplete
    <3>2. /\ rcvptr' = rcvptr + n /\ totallen' = total /\ rcvlen' = Header + datalen - total
          /\ recvsts' = "data" /\ datalen' = datalen
      BY <3>1, <1>12 DEF PartRead
    <3>3. got' = got  BY <1>3, <2>7 DEF DataComplete
    <3>4. /\ rcvptr' = totallen' /\ totallen' \in 0..total /\ consumed' = End[k] + totallen'
          /\ totallen' \in Header..(Header + datalen') /\ rcvlen' = Header + datalen' - totallen'
      BY <3>2, <2>5, <1>2
    <3> QED  BY <3>2, <3>3, <3>4, <2>1, <2>2, <2>3, <1>7
  <2> QED  BY <2>6, <2>7
<1> QED  BY <1>4, <1>9, <1>10, <1>11, <1>12 DEF Parsing

\* A step that leaves alone what the framing has.
LEMMA ParsingSame ==
  ASSUME ParseInv, UNCHANGED <<consumed, got, frameVars>>,
         \A i \in 0..BuffMax - 1 : i < rcvptr => rcvbuff'[i] = rcvbuff[i]
  PROVE  ParseInv'
<1>1. PICK k \in 0..NFrames : Parsing(k)  BY DEF ParseInv
<1>2. /\ totallen \in Nat /\ rcvlen \in Nat /\ rcvptr = totallen
      /\ totallen + rcvlen <= BuffMax /\ BuffMax \in Nat
  BY <1>1, ParsingFits, SerialAssumption
<1>3. ASSUME NEW j \in 1..totallen PROVE rcvbuff'[j - 1] = rcvbuff[j - 1]
  <2>1. j - 1 \in 0..BuffMax - 1 /\ j - 1 < rcvptr  BY <1>2
  <2> QED  BY <2>1
<1>4. Parsing(k)'  BY <1>1, <1>3 DEF Parsing, frameVars
<1> QED  BY <1>4 DEF ParseInv

LEMMA ParsingReadFits == ASSUME ParseInv PROVE rcvptr + rcvlen <= BuffMax
<1>1. PICK k \in 0..NFrames : Parsing(k)  BY DEF ParseInv
<1> QED  BY <1>1, ParsingFits

\* A read of n bytes that the buffer b holds ends.
LEMMA ParsingRead ==
  ASSUME ParseInv, consumed \in Nat, NEW b, DOMAIN b = 0..BuffMax - 1,
         NEW n \in 0..rcvlen, recvsts = "magic" => n > 0, consumed + n <= Total,
         \A i \in 0..BuffMax - 1 : i < rcvptr => b[i] = rcvbuff[i],
         \A j \in 1..n : b[rcvptr + j - 1] = Wire[consumed + j],
         Parse(b, n)
  PROVE  ParseInv'
<1>1. PICK k \in 0..NFrames : Parsing(k)  BY DEF ParseInv
<1>2. /\ totallen \in Nat /\ rcvlen \in Nat /\ rcvptr = totallen
      /\ totallen + rcvlen <= BuffMax /\ BuffMax \in Nat
  BY <1>1, ParsingFits, SerialAssumption
<1>3. ASSUME NEW j \in 1..totallen PROVE b[j - 1] = [frame |-> k + 1, pos |-> j]
  <2>1. j - 1 \in 0..BuffMax - 1 /\ j - 1 < rcvptr  BY <1>2
  <2>2. rcvbuff[j - 1] = [frame |-> k + 1, pos |-> j]  BY <1>1 DEF Parsing
  <2> QED  BY <2>1, <2>2
<1> QED  BY <1>1, <1>3, ParseFrame

Unsplit == split = {} => BytesInv /\ ParseInv

LEMMA UnsplitInit == Init => Unsplit
<1> SUFFICES ASSUME Init PROVE ParseInv  BY BytesInit DEF Unsplit
<1>1. 0 \in 0..NFrames  BY SerialAssumption
<1>2. Parsing(0)
  <2>1. got = [i \in 1..0 |-> i]
    <3>1. <<>> = [i \in 1..0 |-> i]  OBVIOUS
    <3> QED  BY <3>1 DEF Init
  <2>2. consumed = End[0] + totallen  BY EndStep DEF Init
  <2>3. \A j \in 1..totallen : rcvbuff[j - 1] = [frame |-> 0 + 1, pos |-> j]  BY DEF Init
  <2> QED  BY <2>1, <2>2, <2>3 DEF Init, Parsing
<1> QED  BY <1>1, <1>2 DEF ParseInv

LEMMA UnsplitStep == IInv /\ IInv' /\ Unsplit /\ [Next]_vars => Unsplit'
<1> SUFFICES ASSUME IInv, IInv', Unsplit, [Next]_vars, split' = {} PROVE BytesInv' /\ ParseInv'
  BY DEF Unsplit
<1>1. split = {}
  <2>1. CASE RxWake  BY <2>1 DEF RxWake
  <2>2. CASE ~RxWake
    <3>1. UNCHANGED split
      BY <2>2 DEF Next, Isr, RxStep, AbortStep, ModemSends, IsrDirect, IsrStore, IsrFull, RxNoData,
         RxCheck, RxReadAll, RxReadWait, AskAgain, AskTerminate, Ask, AbortIdle, AbortRead, AbortTell,
         vars, readerVars
    <3> QED  BY <3>1
  <2> QED  BY <2>1, <2>2
<1>2. BytesInv /\ ParseInv  BY <1>1 DEF Unsplit
<1>3. ReadFits  BY <1>2, ParsingReadFits DEF ReadFits
<1>4. BytesInv'  BY <1>2, <1>3, BytesStep
<1>5. /\ rcvptr \in Nat /\ rcvlen \in Nat /\ consumed \in Nat /\ sent \in Nat /\ sent <= Total
      /\ DOMAIN rcvbuff = 0..BuffMax - 1 /\ BuffMax \in Nat /\ InLen \in 0..rcvlen
      /\ Len(ring) \in Nat /\ Len(fifo) \in Nat /\ Total \in Nat
      /\ sent = consumed + InLen + Len(ring) + Len(fifo)
  <2>1. Total \in Nat /\ BuffMax \in Nat  BY EndType, SerialAssumption DEF Total
  <2> QED  BY <1>2, <2>1 DEF BytesInv, Numbers, Reading, InPlace, IInv, Types
<1>6. CASE UNCHANGED <<consumed, got, frameVars, rcvbuff>>
  <2>1. \A i \in 0..BuffMax - 1 : i < rcvptr => rcvbuff'[i] = rcvbuff[i]  BY <1>6
  <2> QED  BY <1>2, <1>4, <1>6, <2>1, ParsingSame
<1>7. CASE IsrDirect
  <2>1. /\ remaining > 0 /\ rcvbuff' = Put(dest, <<Head(fifo)>>)
        /\ UNCHANGED <<consumed, got, frameVars>>
    BY <1>7 DEF IsrDirect, readerVars
  <2>2. line = "busy"  BY <2>1 DEF IInv, Types, Handshake
  <2>3. dest = rcvptr + (requested - remaining) /\ requested \in Nat /\ remaining \in 0..requested
    BY <1>2, <2>2 DEF BytesInv, Reading, Numbers
  <2>4. dest \in Nat /\ rcvptr <= dest  BY <2>3, <1>5
  <2>5. \A i \in 0..BuffMax - 1 : i # dest => Put(dest, <<Head(fifo)>>)[i] = rcvbuff[i]
    BY <2>4, <1>5, PutOne
  <2>6. ASSUME NEW i \in 0..BuffMax - 1, i < rcvptr PROVE rcvbuff'[i] = rcvbuff[i]
    <3>1. i # dest  BY <2>4, <2>6, <1>5
    <3>2. rcvbuff'[i] = Put(dest, <<Head(fifo)>>)[i]  BY <2>1
    <3> QED  BY <3>1, <3>2, <2>5
  <2> QED  BY <1>2, <1>4, <2>1, <2>6, ParsingSame
<1>8. CASE RxNoData
  <2>1. Parse(rcvbuff, 0) /\ rcvlen = 0  BY <1>8 DEF RxNoData
  <2>2. recvsts # "magic"
    <3>1. PICK k \in 0..NFrames : Parsing(k)  BY <1>2 DEF ParseInv
    <3> QED  BY <3>1, <2>1 DEF Parsing
  <2>3. 0 \in 0..rcvlen /\ consumed + 0 <= Total  BY <1>5
  <2>4. \A j \in 1..0 : rcvbuff[rcvptr + j - 1] = Wire[consumed + j]  OBVIOUS
  <2>5. ParseInv'  BY <1>2, <1>5, <2>1, <2>2, <2>3, <2>4, ParsingRead
  <2> QED  BY <1>4, <2>5
<1>9. CASE RxCheck
  <2>1. totallen + rcvlen <= BuffMax
    <3>1. PICK k \in 0..NFrames : Parsing(k)  BY <1>2 DEF ParseInv
    <3> QED  BY <3>1, ParsingFits
  <2>2. UNCHANGED <<consumed, got, frameVars, rcvbuff>>  BY <1>9, <2>1 DEF RxCheck
  <2> QED  BY <1>6, <2>2
<1>10. CASE RxReadAll
  <2> DEFINE s == SubSeq(ring, 1, Copied)
             b == Put(rcvptr, s)
  <2>1. /\ rxpc = "checked" /\ Copied = rcvlen /\ Drain /\ Parse(b, rcvlen)
    BY <1>10 DEF RxReadAll
  <2>2. rcvlen > 0 /\ InLen = 0  BY <2>1 DEF IInv, Handshake, InLen
  <2>3. /\ s \in Seq(Value) /\ Len(s) = rcvlen /\ rcvlen <= Len(ring)
        /\ \A k \in 1..rcvlen : s[k] = ring[k]
    BY <1>2, <2>1, <2>2, DrainBytes
  <2> HIDE DEF s
  <2>4. /\ DOMAIN b = 0..BuffMax - 1
        /\ \A k \in 1..Len(s) : rcvptr + k <= BuffMax => b[rcvptr + k - 1] = s[k]
        /\ \A k \in 0..BuffMax - 1 : k < rcvptr => b[k] = rcvbuff[k]
    BY <1>5, <2>3, PutSeq
  <2> HIDE DEF b
  <2>5. rcvptr + rcvlen <= BuffMax  BY <1>2, ParsingReadFits
  <2>6. ASSUME NEW j \in 1..rcvlen PROVE b[rcvptr + j - 1] = Wire[consumed + j]
    <3>1. /\ j \in 1..Len(s) /\ j \in 1..Len(ring) /\ rcvptr + j <= BuffMax
          /\ consumed + InLen + j = consumed + j
      BY <1>5, <2>2, <2>3, <2>5
    <3>2. ring[j] = Wire[consumed + InLen + j]  BY <1>2, <3>1 DEF BytesInv, InPlace
    <3> QED  BY <2>3, <2>4, <3>1, <3>2
  <2>7. rcvlen \in 0..rcvlen /\ (recvsts = "magic" => rcvlen > 0) /\ consumed + rcvlen <= Total
    BY <1>5, <2>2, <2>3
  <2>8. ParseInv'  BY <1>2, <1>5, <2>1, <2>4, <2>6, <2>7, ParsingRead
  <2> QED  BY <1>4, <2>8
<1>11. CASE RxReadWait
  <2> DEFINE s == SubSeq(ring, 1, Copied)
  <2>1. /\ rxpc = "checked" /\ Drain /\ rcvbuff' = Put(rcvptr, s)
        /\ UNCHANGED <<consumed, got, frameVars>>
    BY <1>11 DEF RxReadWait
  <2>2. rcvlen > 0  BY <2>1 DEF IInv, Handshake
  <2>3. s \in Seq(Value)  BY <1>2, <2>1, <2>2, DrainBytes
  <2> HIDE DEF s
  <2>4. \A i \in 0..BuffMax - 1 : i < rcvptr => Put(rcvptr, s)[i] = rcvbuff[i]
    BY <1>5, <2>3, PutSeq
  <2>5. \A i \in 0..BuffMax - 1 : i < rcvptr => rcvbuff'[i] = rcvbuff[i]  BY <2>1, <2>4
  <2> QED  BY <1>2, <1>4, <2>1, <2>5, ParsingSame
<1>12. CASE RxWake
  <2>1. /\ rxpc = "wait" /\ flags # {} /\ Parse(rcvbuff, ReadSize)
        /\ recvsts = "magic" => ReadSize # 0
    BY <1>12 DEF RxWake
  <2>2. line # "busy"  BY <2>1 DEF IInv, Handshake
  <2>3. ReadSize = InLen  BY <2>1, <2>2 DEF InLen, ReadSize
  <2>4. /\ InLen \in 0..rcvlen /\ (recvsts = "magic" => InLen > 0) /\ consumed + InLen <= Total
        /\ Parse(rcvbuff, InLen)
    BY <2>1, <2>3, <1>5
  <2>5. \A j \in 1..InLen : rcvbuff[rcvptr + j - 1] = Wire[consumed + j]
    BY <1>2 DEF BytesInv, InPlace
  <2>6. ParseInv'  BY <1>2, <1>5, <2>4, <2>5, ParsingRead
  <2> QED  BY <1>4, <2>6
<1>13. CASE ModemSends  BY <1>13, <1>6 DEF ModemSends, readerVars
<1>14. CASE IsrStore \/ IsrFull  BY <1>14, <1>6 DEF IsrStore, IsrFull, readerVars
<1>15. CASE AskAgain \/ AskTerminate  BY <1>15, <1>6 DEF AskAgain, AskTerminate, Ask, readerVars
<1>16. CASE AbortStep  BY <1>16, <1>6 DEF AbortStep, AbortIdle, AbortRead, AbortTell, readerVars
<1>17. CASE UNCHANGED vars  BY <1>17, <1>6 DEF vars, readerVars
<1> QED
  BY <1>7, <1>8, <1>9, <1>10, <1>11, <1>12, <1>13, <1>14, <1>15, <1>16, <1>17 DEF Next, Isr, RxStep

LEMMA UnsplitInvariant == Spec => [](Unsplit /\ IInv)
BY UnsplitInit, UnsplitStep, Invariance, PTL DEF Spec

LEMMA AllRecognized == ASSUME ParseInv PROVE FramesRecognized
<1>1. PICK k \in 0..NFrames : Parsing(k)  BY DEF ParseInv
<1>2. /\ k \in Nat /\ totallen \in Nat /\ rcvlen \in Nat
      /\ k < NFrames => k + 1 \in Frames /\ totallen + rcvlen <= FrameLen(k + 1)
      /\ got = [i \in 1..k |-> i] /\ consumed = End[k] + totallen
      /\ NFrames \in Nat /\ End[k] \in Nat
  BY <1>1, ParsingFits, SerialAssumption, EndType DEF Parsing
<1>3. Len(got) = k
  <2>1. DOMAIN got = 1..k /\ got \in [1..k -> Nat]  BY <1>2
  <2>2. got \in Seq(Nat)  BY <2>1, <1>2, SeqDef
  <2> QED  BY <2>1, <2>2, <1>2, LenProperties
<1>4. \A i \in 1..(Len(got) - 1) : got[i] < got[i + 1]
  <2> TAKE i \in 1..(Len(got) - 1)
  <2>1. i \in 1..k /\ i + 1 \in 1..k /\ i < i + 1  BY <1>2, <1>3
  <2> QED  BY <2>1, <1>2
<1>5. ASSUME NEW f \in Frames, End[f] <= consumed, rcvlen > 0
      PROVE  \E i \in DOMAIN got : got[i] = f
  <2>1. f \in 1..NFrames /\ f \in 0..NFrames  BY <1>2 DEF Frames
  <2>2. f <= k
    <3>1. SUFFICES ASSUME k + 1 <= f PROVE FALSE  BY <1>2, <2>1
    <3>2. k < NFrames /\ k + 1 \in 0..NFrames /\ (k + 1) - 1 = k  BY <1>2, <2>1, <3>1
    <3>3. k + 1 \in Frames /\ totallen + rcvlen <= FrameLen(k + 1)  BY <1>2, <3>2
    <3>4. End[k + 1] = End[k] + FrameLen(k + 1)  BY <3>2, <3>3, EndStep
    <3>5. End[k + 1] <= End[f]  BY <2>1, <3>1, <3>2, EndOrder
    <3>6. End[k + 1] \in Nat /\ End[f] \in Nat /\ FrameLen(k + 1) \in Nat
      BY <2>1, <3>2, <3>3, EndType, FrameLenType
    <3> QED  BY <1>2, <1>5, <3>3, <3>4, <3>5, <3>6
  <2>3. f \in 1..k  BY <1>2, <2>1, <2>2
  <2>4. f \in DOMAIN got /\ got[f] = f  BY <1>2, <2>3
  <2> QED  BY <2>4
<1> QED  BY <1>4, <1>5 DEF FramesRecognized

\* For any ring, FIFO and frames and any number of aborts of which none split a magic
\* number, apicmdgw_recvtask recognizes every frame it has read, once and in order,
\* no byte is lost, doubled or overtaken, and no read is started beyond the end of the
\* buffer: aborts in the header and in the data, and between frames, do no harm.
THEOREM FramesCorrect == Spec => [](split = {} => FramesRecognized /\ BytesInOrder /\ ReadFits)
<1>1. Unsplit /\ IInv => (split = {} => FramesRecognized /\ BytesInOrder /\ ReadFits)
  BY AllRecognized, BytesOrdered, ParsingReadFits DEF Unsplit, ReadFits
<1> QED  BY <1>1, UnsplitInvariant, PTL

====
