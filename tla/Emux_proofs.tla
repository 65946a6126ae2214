----------------------------- MODULE Emux_proofs ----------------------------
(***************************************************************************)
(* For every line, every size of the buffers and every use of the ports:   *)
(* the streams of the ports are in order, a read that succeeds is whole,   *)
(* a HAL that was deleted is not used, the parser recognizes every frame   *)
(* that it does not lose with a damaged one, and every variable keeps its  *)
(* type.                                                                   *)
(***************************************************************************)
EXTENDS Emux, SequenceTheorems, WellFoundedInduction, TLAPS

-----------------------------------------------------------------------------
(* Sequences *)

\* The end of a sequence.
LEMMA Suffix ==
  ASSUME NEW S, NEW s \in Seq(S), NEW r \in 0..Len(s)
  PROVE  LET u == SubSeq(s, r + 1, Len(s)) IN
         /\ u \in Seq(S) /\ Len(u) = Len(s) - r
         /\ \A i \in 1..(Len(s) - r) : u[i] = s[r + i]
<1>1. Len(s) \in Nat /\ \A i \in (r + 1)..Len(s) : s[i] \in S
  BY LenProperties, ElementOfSeq
<1>2. r + 1 \in Int /\ Len(s) \in Int
  BY <1>1
<1> QED
  BY <1>1, <1>2, SubSeqProperties

LEMMA DropFront ==
  ASSUME NEW S, NEW s \in Seq(S), NEW t \in Seq(S)
  PROVE  SubSeq(s \o t, Len(s) + 1, Len(s \o t)) = t
<1> DEFINE c == s \o t
<1>1. c \in Seq(S) /\ Len(c) = Len(s) + Len(t) /\ Len(s) \in 0..Len(c)
  BY ConcatProperties, LenProperties
<1>2. \A i \in 1..Len(t) : c[Len(s) + i] = t[i]
  BY ConcatProperties, LenProperties
<1>3. Len(s) \in Nat /\ Len(t) \in Nat
  BY LenProperties
<1> HIDE DEF c
<1>4. /\ SubSeq(c, Len(s) + 1, Len(c)) \in Seq(S)
      /\ Len(SubSeq(c, Len(s) + 1, Len(c))) = Len(t)
      /\ \A i \in 1..Len(t) : SubSeq(c, Len(s) + 1, Len(c))[i] = t[i]
  BY <1>1, <1>2, <1>3, Suffix
<1>5. SubSeq(c, Len(s) + 1, Len(c)) = t
  BY <1>4, SeqEqual
<1> QED
  BY <1>5 DEF c

LEMMA SuffixAppend ==
  ASSUME NEW S, NEW s \in Seq(S), NEW e \in S, NEW r \in 0..Len(s)
  PROVE  SubSeq(Append(s, e), r + 1, Len(Append(s, e))) = Append(SubSeq(s, r + 1, Len(s)), e)
<1> DEFINE a == Append(s, e)
           u == SubSeq(s, r + 1, Len(s))
<1>1. a \in Seq(S) /\ Len(a) = Len(s) + 1 /\ Len(s) \in Nat /\ r \in 0..Len(a)
  BY AppendProperties, LenProperties
<1>2. \A i \in 1..Len(a) : a[i] = IF i <= Len(s) THEN s[i] ELSE e
  BY AppendProperties, LenProperties
<1>3. u \in Seq(S) /\ Len(u) = Len(s) - r /\ \A i \in 1..Len(u) : u[i] = s[r + i]
  BY Suffix
<1>4. /\ Append(u, e) \in Seq(S) /\ Len(Append(u, e)) = Len(u) + 1
      /\ \A i \in 1..(Len(u) + 1) : Append(u, e)[i] = IF i <= Len(u) THEN u[i] ELSE e
  BY <1>3, AppendProperties, LenProperties
<1> HIDE DEF a, u
<1>5. /\ SubSeq(a, r + 1, Len(a)) \in Seq(S)
      /\ Len(SubSeq(a, r + 1, Len(a))) = Len(a) - r
      /\ \A i \in 1..(Len(a) - r) : SubSeq(a, r + 1, Len(a))[i] = a[r + i]
  BY <1>1, Suffix
<1>6. ASSUME NEW i \in 1..(Len(a) - r)
      PROVE  SubSeq(a, r + 1, Len(a))[i] = Append(u, e)[i]
  BY <1>1, <1>2, <1>3, <1>4, <1>5, <1>6
<1>8. Len(Append(u, e)) = Len(a) - r /\ Len(a) - r \in Nat
  BY <1>1, <1>3, <1>4
<1>7. SubSeq(a, r + 1, Len(a)) = Append(u, e)
  <2> DEFINE v == SubSeq(a, r + 1, Len(a))
             w == Append(u, e)
  <2>1. /\ v \in Seq(S) /\ w \in Seq(S) /\ Len(v) = Len(w)
        /\ \A i \in 1..Len(v) : v[i] = w[i]
    BY <1>4, <1>5, <1>6, <1>8
  <2> HIDE DEF v, w
  <2>2. v = w
    BY <2>1, SeqEqual
  <2> QED
    BY <2>2 DEF v, w
<1> QED
  BY <1>7 DEF a, u

LEMMA SuffixOfSuffix ==
  ASSUME NEW S, NEW s \in Seq(S), NEW r \in 0..Len(s), NEW k \in 0..(Len(s) - r)
  PROVE  LET u == SubSeq(s, r + 1, Len(s))
         IN  SubSeq(u, k + 1, Len(u)) = SubSeq(s, r + k + 1, Len(s))
<1> DEFINE u == SubSeq(s, r + 1, Len(s))
<1>1. Len(s) \in Nat
  BY LenProperties
<1>2. u \in Seq(S) /\ Len(u) = Len(s) - r /\ \A i \in 1..Len(u) : u[i] = s[r + i]
  BY Suffix
<1> HIDE DEF u
<1>8. k \in 0..Len(u)
  BY <1>2
<1>3. /\ SubSeq(u, k + 1, Len(u)) \in Seq(S)
      /\ Len(SubSeq(u, k + 1, Len(u))) = Len(u) - k
      /\ \A i \in 1..(Len(u) - k) : SubSeq(u, k + 1, Len(u))[i] = u[k + i]
  BY <1>2, <1>8, Suffix
<1>4. PICK n \in 0..Len(s) : n = r + k
  BY <1>1
<1>5. /\ SubSeq(s, n + 1, Len(s)) \in Seq(S)
      /\ Len(SubSeq(s, n + 1, Len(s))) = Len(s) - n
      /\ \A i \in 1..(Len(s) - n) : SubSeq(s, n + 1, Len(s))[i] = s[n + i]
  BY Suffix
<1>7. /\ Len(SubSeq(u, k + 1, Len(u))) = Len(SubSeq(s, n + 1, Len(s)))
      /\ \A i \in 1..(Len(s) - n) : SubSeq(u, k + 1, Len(u))[i] = SubSeq(s, n + 1, Len(s))[i]
  <2>1. Len(u) - k = Len(s) - n /\ r \in Nat /\ k \in Nat
    BY <1>1, <1>2, <1>4
  <2>2. ASSUME NEW i \in 1..(Len(s) - n)
        PROVE  SubSeq(u, k + 1, Len(u))[i] = SubSeq(s, n + 1, Len(s))[i]
    <3>1. k + i \in 1..Len(u) /\ r + (k + i) = n + i
      BY <1>1, <1>2, <1>4, <2>1
    <3>2. u[k + i] = s[n + i]
      BY <1>2, <3>1
    <3> QED
      BY <1>3, <1>5, <2>1, <3>2
  <2> QED
    BY <1>3, <1>5, <2>1, <2>2
<1>6. SubSeq(u, k + 1, Len(u)) = SubSeq(s, n + 1, Len(s))
  BY <1>3, <1>5, <1>7, SeqEqual
<1> QED
  BY <1>4, <1>6 DEF u

-----------------------------------------------------------------------------
(* Induction on numbers, for facts about all frames *)

LEMMA Least ==
  ASSUME NEW T \in SUBSET Nat, T # {}
  PROVE  \E x \in T : \A y \in T : x <= y
<1>1. IsWellFoundedOn({ss \in Nat \X Nat : ss[1] < ss[2]}, Nat)
  BY NatLessThanWellFounded DEF OpToRel
<1>2. PICK x \in T : \A y \in T : <<y, x>> \notin {ss \in Nat \X Nat : ss[1] < ss[2]}
  BY <1>1, WFMin
<1>3. \A y \in T : ~(y < x)  BY <1>2
<1> QED  BY <1>3

LEMMA SetInduction ==
  ASSUME NEW S, 0 \in S, \A n \in Nat : n \in S => n + 1 \in S
  PROVE  Nat \subseteq S
<1> DEFINE T == Nat \ S
<1>1. SUFFICES ASSUME T # {} PROVE FALSE  OBVIOUS
<1>2. PICK x \in T : \A y \in T : x <= y  BY <1>1, Least
<1>3. x # 0 /\ x - 1 \in Nat /\ x - 1 \notin T  BY <1>2
<1> QED  BY <1>3

\* The recursive definition of End has a solution.
LEMMA EndEquation ==
  End = [f \in 0..NFrames |-> IF f = 0 THEN 0 ELSE End[f - 1] + FrameLen(f)]
<1> DEFINE Table(e, n) == e = [f \in 0..n |-> IF f = 0 THEN 0 ELSE e[f - 1] + FrameLen(f)]
           S == {n \in Nat : \E e : Table(e, n)}
<1>1. 0 \in S
  <2>1. Table([f \in 0..0 |-> 0], 0)  OBVIOUS
  <2> QED  BY <2>1
<1>2. ASSUME NEW n \in Nat, n \in S PROVE n + 1 \in S
  <2>1. PICK e : Table(e, n)  BY <1>2
  <2> DEFINE d == [f \in 0..(n + 1) |-> IF f = n + 1 THEN e[n] + FrameLen(n + 1) ELSE e[f]]
  <2>2. \A f \in 0..(n + 1) : d[f] = IF f = 0 THEN 0 ELSE d[f - 1] + FrameLen(f)
    <3> TAKE f \in 0..(n + 1)
    <3>1. CASE f = n + 1  BY <3>1
    <3>2. CASE f # n + 1
      <4>1. f \in 0..n /\ (f # 0 => f - 1 \in 0..n)  BY <3>2
      <4>2. e[f] = IF f = 0 THEN 0 ELSE e[f - 1] + FrameLen(f)  BY <2>1, <4>1
      <4> QED  BY <4>1, <4>2
    <3> QED  BY <3>1, <3>2
  <2>3. d = [f \in 0..(n + 1) |-> d[f]]  OBVIOUS
  <2> HIDE DEF d
  <2>4. Table(d, n + 1)  BY <2>2, <2>3
  <2>5. \E t : Table(t, n + 1)  BY <2>4, Zenon
  <2> QED  BY <2>5
<1>3. NFrames \in S  BY <1>1, <1>2, SetInduction, EmuxAssumption
<1>4. \E e : Table(e, NFrames)  BY <1>3
<1> HIDE DEF S
<1> QED  BY <1>4 DEF End

LEMMA FrameLenType ==
  ASSUME NEW f \in Frames
  PROVE  /\ Prefix[f] \in {4, 5} /\ DataLen[f] \in Nat \ {0} /\ FrameLen(f) \in Nat
         /\ FrameLen(f) = Prefix[f] + DataLen[f] + 2
BY EmuxAssumption DEF FrameLen, Postfix

LEMMA EndStep ==
  /\ End[0] = 0
  /\ \A f \in Frames : f - 1 \in 0..NFrames /\ End[f] = End[f - 1] + FrameLen(f)
<1>1. NFrames \in Nat  BY EmuxAssumption
<1>2. \A f \in 0..NFrames : End[f] = IF f = 0 THEN 0 ELSE End[f - 1] + FrameLen(f)
  BY EndEquation
<1>3. 0 \in 0..NFrames /\ \A f \in Frames : f \in 0..NFrames /\ f # 0 /\ f - 1 \in 0..NFrames
  BY <1>1 DEF Frames
<1> QED  BY <1>2, <1>3, Zenon

LEMMA EndType == \A f \in 0..NFrames : End[f] \in Nat
<1> DEFINE S == {n \in Nat : n <= NFrames => End[n] \in Nat}
<1>1. 0 \in S  BY EndStep
<1>2. ASSUME NEW n \in Nat, n \in S PROVE n + 1 \in S
  <2>1. SUFFICES ASSUME n + 1 <= NFrames PROVE End[n + 1] \in Nat  OBVIOUS
  <2>2. n + 1 \in Frames /\ End[n] \in Nat /\ (n + 1) - 1 = n
    BY <1>2, <2>1, EmuxAssumption DEF Frames
  <2>3. End[n + 1] = End[n] + FrameLen(n + 1)  BY <2>2, EndStep
  <2> QED  BY <2>2, <2>3, FrameLenType
<1>3. Nat \subseteq S  BY <1>1, <1>2, SetInduction
<1>4. \A f \in 0..NFrames : f \in Nat /\ f <= NFrames  BY EmuxAssumption
<1> QED  BY <1>3, <1>4

LEMMA EndOrder ==
  ASSUME NEW f \in 0..NFrames, NEW g \in 0..NFrames, f <= g
  PROVE  End[f] <= End[g]
<1> DEFINE S == {n \in Nat : f + n <= NFrames => End[f] <= End[f + n]}
<1>0. f \in Nat /\ g \in Nat /\ NFrames \in Nat  BY EmuxAssumption
<1>1. 0 \in S  BY <1>0, EndType
<1>2. ASSUME NEW n \in Nat, n \in S PROVE n + 1 \in S
  <2>1. SUFFICES ASSUME f + (n + 1) <= NFrames PROVE End[f] <= End[f + (n + 1)]  OBVIOUS
  <2> DEFINE h == f + n
  <2>2. /\ h + 1 \in Frames /\ (h + 1) - 1 = h /\ End[f] <= End[h]
        /\ h \in 0..NFrames /\ f + (n + 1) = h + 1
    BY <1>0, <1>2, <2>1 DEF Frames
  <2> HIDE DEF h
  <2>3. End[h + 1] = End[h] + FrameLen(h + 1)  BY <2>2, EndStep
  <2>4. End[f] \in Nat /\ End[h] \in Nat /\ FrameLen(h + 1) \in Nat
    BY <2>2, EndType, FrameLenType
  <2>5. End[f] <= End[h + 1]  BY <2>2, <2>3, <2>4
  <2> QED  BY <2>2, <2>5
<1>3. Nat \subseteq S
  <2> HIDE DEF S
  <2> QED  BY <1>1, <1>2, SetInduction
<1>4. g - f \in Nat /\ f + (g - f) = g  BY <1>0
<1>5. f + (g - f) <= NFrames => End[f] <= End[f + (g - f)]  BY <1>3, <1>4
<1> QED  BY <1>4, <1>5, <1>0

\* Byte p of frame f of the wire.
LEMMA WireAt ==
  ASSUME NEW f \in Frames, NEW p \in 1..FrameLen(f)
  PROVE  LET i == End[f - 1] + p IN
         /\ i \in 1..End[NFrames] /\ i <= End[f]
         /\ FrameOf(i) = f /\ Wire[i] = Byte(f, p)
<1> DEFINE i == End[f - 1] + p
<1>1. /\ f \in 0..NFrames /\ f - 1 \in 0..NFrames /\ NFrames \in 0..NFrames /\ f <= NFrames
      /\ f \in Nat /\ NFrames \in Nat
  BY EmuxAssumption DEF Frames
<1>2. End[f - 1] \in Nat /\ End[f] \in Nat /\ End[NFrames] \in Nat /\ FrameLen(f) \in Nat /\ p \in Nat
  BY <1>1, EndType, FrameLenType
<1>3. End[f] = End[f - 1] + FrameLen(f) /\ End[f] <= End[NFrames]  BY <1>1, EndStep, EndOrder
<1>4. i \in 1..End[NFrames] /\ End[f - 1] < i /\ i <= End[f]  BY <1>2, <1>3
<1>5. ASSUME NEW g \in Frames, End[g - 1] < i, i <= End[g] PROVE g = f
  <2>1. g \in 0..NFrames /\ g - 1 \in 0..NFrames /\ g \in Nat  BY EmuxAssumption DEF Frames
  <2>2. End[g - 1] \in Nat /\ End[g] \in Nat  BY <2>1, EndType
  <2>3. ~(g <= f - 1)
    <3>1. SUFFICES ASSUME g <= f - 1 PROVE FALSE  OBVIOUS
    <3>2. End[g] <= End[f - 1]  BY <3>1, <1>1, <2>1, EndOrder
    <3> QED  BY <3>2, <1>2, <1>4, <1>5, <2>2
  <2>4. ~(f <= g - 1)
    <3>1. SUFFICES ASSUME f <= g - 1 PROVE FALSE  OBVIOUS
    <3>2. End[f] <= End[g - 1]  BY <3>1, <1>1, <2>1, EndOrder
    <3> QED  BY <3>2, <1>2, <1>4, <1>5, <2>2
  <2> QED  BY <1>1, <2>1, <2>3, <2>4
<1> HIDE DEF i
<1>6. FrameOf(i) = f  BY <1>4, <1>5 DEF FrameOf
<1>7. Wire[i] = Byte(f, i - End[f - 1])  BY <1>4, <1>6 DEF Wire
<1>8. i - End[f - 1] = p  BY <1>2 DEF i
<1> QED  BY <1>4, <1>6, <1>7, <1>8 DEF i

\* The next byte of the wire is one of a frame.
LEMMA NextOf ==
  ASSUME NEW n \in 0..End[NFrames], n # End[NFrames]
  PROVE  \E f \in Frames : \E p \in 1..FrameLen(f) :
           /\ n + 1 = End[f - 1] + p /\ FrameOf(n + 1) = f /\ Wire[n + 1] = Byte(f, p)
<1> DEFINE T == {g \in 0..NFrames : n < End[g]}
<1>1. NFrames \in Nat /\ NFrames \in 0..NFrames /\ n \in Nat /\ End[NFrames] \in Nat
  BY EmuxAssumption, EndType
<1>2. NFrames \in T  BY <1>1
<1>3. PICK f \in T : \A g \in T : f <= g
  <2>1. T \in SUBSET Nat  BY <1>1
  <2> QED  BY <1>2, <2>1, Least
<1>4. f # 0  BY <1>1, <1>3, EndStep
<1>5. f \in Frames /\ f - 1 \in 0..NFrames  BY <1>1, <1>3, <1>4 DEF Frames
<1>6. End[f - 1] \in Nat /\ End[f] \in Nat /\ FrameLen(f) \in Nat /\ End[f] = End[f - 1] + FrameLen(f)
  BY <1>3, <1>5, EndType, EndStep, FrameLenType
<1>7. End[f - 1] <= n /\ n < End[f]
  <2>1. f - 1 \notin T  BY <1>3, <1>5, <1>1
  <2> QED  BY <1>1, <1>3, <1>5, <1>6, <2>1
<1>8. PICK p \in 1..FrameLen(f) : n + 1 = End[f - 1] + p
  <2>1. (n + 1) - End[f - 1] \in 1..FrameLen(f) /\ n + 1 = End[f - 1] + ((n + 1) - End[f - 1])
    BY <1>1, <1>6, <1>7
  <2> QED  BY <2>1
<1>9. FrameOf(n + 1) = f /\ Wire[n + 1] = Byte(f, p)  BY <1>5, <1>8, WireAt
<1> QED  BY <1>5, <1>8, <1>9

LEMMA WireType ==
  ASSUME NEW n \in 0..End[NFrames], n < End[NFrames]
  PROVE  /\ Wire[n + 1] \in Bytes /\ FrameOf(n + 1) \in Frames
         /\ n + 1 \in 0..End[NFrames] /\ Wire[n + 1].frame \in Frames
<1>1. NFrames \in 0..NFrames  BY EmuxAssumption
<1>2. End[NFrames] \in Nat  BY <1>1, EndType
<1>3. PICK f \in Frames : \E p \in 1..FrameLen(f) : FrameOf(n + 1) = f /\ Wire[n + 1] = Byte(f, p)
  BY <1>2, NextOf
<1>5. PICK p \in 1..FrameLen(f) : FrameOf(n + 1) = f /\ Wire[n + 1] = Byte(f, p)
  BY <1>3
<1>4. Byte(f, p) \in Bytes /\ Byte(f, p).frame = f  BY DEF Bytes, Byte
<1> QED  BY <1>2, <1>4, <1>5

-----------------------------------------------------------------------------
(* The inductive invariant *)

USE DEF vars, lineVars, parseVars, rxVars, appVars, buffVars, abortVars, delVars, halVars

Types ==
  /\ use \in Uses /\ sent \in 0..End[NFrames]
  /\ header \in Seq(Bytes) /\ toRead \in Nat /\ data \in Seq(Bytes)
  /\ ring \in Seq(Bytes) /\ dest \in Seq(Bytes) /\ dataSize \in Nat
  /\ rxState \in {"idle", "busy"} /\ doneCB \in BOOLEAN /\ complete \in BOOLEAN
  /\ rpc \in {"idle", "wait", "woken", "late"}
  /\ unread \in [Ports -> Seq(Bytes)]
  /\ buff \in Seq(Bytes) /\ rp \in 0..Len(buff)

\* The receive task of emux delivers to a port that is bound, and has bytes left.
DeliveryInv ==
  /\ rxpc # "parse" => data # <<>>
  /\ rxpc = "callback" => port = "hal"
  /\ dpc \in {"unbound", "freed"} => "hal" \notin bound /\ (rxpc = "parse" \/ port # "hal")

\* A read lacks bytes only while it is in progress and the ring buffer is empty;
\* who waits for it has no callback; the flag is set only for a read that has all.
ReadInv ==
  /\ dataSize > 0 => rxState = "busy" /\ ring = <<>>
  /\ rxState = "idle" => dest = <<>>
  /\ rxState = "busy" => doneCB \/ rpc # "idle"
  /\ doneCB => rxState = "busy" /\ rpc = "idle" /\ dataSize > 0
  /\ rpc # "idle" => rxState = "busy"
  /\ complete => dataSize = 0 /\ rpc \in {"wait", "late"}
  /\ rpc = "woken" => dataSize = 0

IInv == Types /\ DeliveryInv /\ ReadInv /\ StreamsInOrder /\ SuccessIsWhole

-----------------------------------------------------------------------------
(* The line and the parser *)

\* What is delivered of a frame that was recognized.
LEMMA PayloadType ==
  ASSUME NEW s \in Seq(Bytes), NEW f \in Frames, IsFrame(f, s)
  PROVE  LET d == SubSeq(s, Prefix[f], Prefix[f] + DataLen[f] - 1)
         IN  d \in Seq(Bytes) /\ d # <<>>
<1>1. /\ Prefix[f] \in {4, 5} /\ DataLen[f] \in Nat \ {0}
      /\ Len(s) = Prefix[f] + DataLen[f] + 1
  BY EmuxAssumption DEF IsFrame, FrameLen, Postfix
<1>2. PICK m \in Nat : m = Prefix[f]
  BY <1>1
<1>3. PICK n \in Nat : n = Prefix[f] + DataLen[f] - 1
  BY <1>1
<1>4. m \in Int /\ n \in Int /\ m <= n /\ \A i \in m..n : s[i] \in Bytes
  BY <1>1, <1>2, <1>3, ElementOfSeq
<1>5. SubSeq(s, m, n) \in Seq(Bytes) /\ Len(SubSeq(s, m, n)) = n - m + 1
  BY <1>4, SubSeqProperties
<1>6. Len(SubSeq(s, m, n)) # 0 /\ Len(<<>>) = 0
  BY <1>2, <1>3, <1>4, <1>5, EmptySeq
<1> QED
  BY <1>2, <1>3, <1>5, <1>6

\* A call of the parser leaves a header, data, or a frame for a bound port.
LEMMA ParserStep ==
  ASSUME Types, DeliveryInv, RxByte
  PROVE  /\ header' \in Seq(Bytes) /\ toRead' \in Nat /\ data' \in Seq(Bytes)
         /\ rxpc' = "parse" \/ (rxpc' = "deliver" /\ data' # <<>> /\ port' \in bound)
<1> DEFINE b == Wire[sent + 1]
<1>1. b \in Bytes
  BY WireType DEF Types, RxByte
<1>2. /\ Append(header, b) \in Seq(Bytes) /\ Append(data, b) \in Seq(Bytes)
      /\ header \o Append(data, b) \in Seq(Bytes) /\ <<>> \in Seq(Bytes)
      /\ header \in Seq(Bytes) /\ data \in Seq(Bytes) /\ toRead \in Nat
      /\ rxpc = "parse"
  BY <1>1, AppendProperties, ConcatProperties, EmptySeq DEF Types, RxByte
<1>3. CASE ReadData(b)
  <2>1. CASE Complete(header \o Append(data, b))
    <3>1. header' = <<>> /\ toRead' = 0
      BY <2>1 DEF Complete, Research
    <3>2. CASE \E f \in Frames :
                 /\ IsFrame(f, header \o Append(data, b)) /\ Port[f] \in bound
                 /\ rxpc' = "deliver" /\ port' = Port[f]
                 /\ data' = SubSeq(header \o Append(data, b), Prefix[f], Prefix[f] + DataLen[f] - 1)
      BY <1>2, <3>1, <3>2, PayloadType
    <3>3. CASE rxpc' = "parse" /\ data' = <<>>
      BY <1>2, <3>1, <3>3
    <3> QED
      BY <1>2, <2>1, <3>2, <3>3 DEF Complete, Research
  <2>2. CASE data' = Append(data, b) /\ UNCHANGED <<header, toRead, rxpc>>
    BY <1>2, <2>2
  <2> QED
    BY <1>3, <2>1, <2>2 DEF ReadData
<1>4. CASE UNCHANGED <<parseVars, rxpc, port, found>>
  BY <1>2, <1>4
<1>5. CASE ReadHeader(b)
  <2>1. \A h : \A n \in LengthIn(h) : n \in Nat
    BY EmuxAssumption DEF LengthIn
  <2> QED
    BY <1>2, <1>5, <2>1 DEF ReadHeader
<1>6. CASE FindFlag(b)
  BY <1>2, <1>6 DEF FindFlag
<1> QED
  BY <1>3, <1>4, <1>5, <1>6 DEF RxByte

LEMMA LineInv == ASSUME IInv, LineLoses \/ Escape \/ RxByte PROVE IInv'
<1>1. UNCHANGED <<appVars, unread, halVars, use>> /\ sent' \in 0..End[NFrames]
  BY WireType DEF IInv, Types, LineLoses, Escape, RxByte
<1>2. header' \in Seq(Bytes) /\ toRead' \in Nat /\ data' \in Seq(Bytes)
  <2>1. CASE LineLoses
    BY <2>1 DEF IInv, Types, LineLoses
  <2>2. CASE Escape
    BY <2>2, EmptySeq DEF Escape, Research
  <2>3. CASE RxByte
    BY <2>3, ParserStep DEF IInv
  <2> QED
    BY <2>1, <2>2, <2>3
<1>3. DeliveryInv'
  <2>1. CASE LineLoses \/ Escape
    BY <1>1, <2>1 DEF IInv, DeliveryInv, LineLoses, Escape
  <2>2. CASE RxByte
    BY <1>1, <2>2, ParserStep DEF IInv, DeliveryInv
  <2> QED
    BY <2>1, <2>2
<1>4. Types' /\ ReadInv' /\ StreamsInOrder' /\ SuccessIsWhole'
  BY <1>1, <1>2 DEF IInv, Types, ReadInv, StreamsInOrder, SuccessIsWhole, Unspent
<1> QED
  BY <1>3, <1>4 DEF IInv

\* The next byte of a frame, and the rest of it.
LEMMA NextByteStep ==
  ASSUME Types, data # <<>>, NextByte
  PROVE  /\ Head(data) \in Bytes /\ data' \in Seq(Bytes) /\ header' \in Seq(Bytes) /\ toRead' \in Nat
         /\ rxpc' = "parse" \/ (rxpc' = "deliver" /\ data' # <<>>)
<1>1. /\ Head(data) \in Bytes /\ Tail(data) \in Seq(Bytes) /\ Len(Tail(data)) = Len(data) - 1
      /\ Len(data) \in Nat \ {0}
  BY HeadTailProperties, LenProperties, EmptySeq DEF Types
<1>2. Tail(data) = <<>> => Len(data) = 1
  BY <1>1, EmptySeq
<1> QED
  BY <1>1, <1>2 DEF NextByte, Types

-----------------------------------------------------------------------------
(* The port of the application *)

\* A byte for the read in progress joins the bytes it has; none is in the ring buffer.
LEMMA FillInv == ASSUME IInv, AppFill PROVE IInv'
<1> USE DEF Ports
<1>1. /\ Types /\ DeliveryInv /\ ReadInv /\ data # <<>> /\ dataSize > 0 /\ dataSize \in Nat
      /\ ring = <<>> /\ rxState = "busy" /\ ~complete /\ rpc # "woken" /\ dest \in Seq(Bytes)
      /\ unread \in [Ports -> Seq(Bytes)] /\ unread["app"] = dest \o ring
  BY DEF IInv, Types, DeliveryInv, ReadInv, StreamsInOrder, AppFill
<1>2. /\ Head(data) \in Bytes /\ data' \in Seq(Bytes) /\ header' \in Seq(Bytes) /\ toRead' \in Nat
      /\ rxpc' = "parse" \/ (rxpc' = "deliver" /\ data' # <<>>)
  BY <1>1, NextByteStep DEF AppFill
<1>3. UNCHANGED <<lineVars, port, ring, rpc, halVars>> /\ dataSize' = dataSize - 1
  BY DEF AppFill, NextByte
<1>4. DeliveryInv'
  BY <1>1, <1>2, <1>3 DEF DeliveryInv, AppFill
<1>5. dest \o <<>> = dest /\ unread["app"] = dest /\ <<>> \in Seq(Bytes) /\ <<>> \o <<>> = <<>>
  BY <1>1, ConcatEmptySeq, EmptySeq
<1>6. CASE dataSize = 1 /\ doneCB
  <2>1. /\ rxState' = "idle" /\ doneCB' = FALSE /\ dest' = <<>> /\ complete' = complete
        /\ ended' = [result |-> "success", lacks |-> 0]
        /\ unread' = [unread EXCEPT !["app"] = SubSeq(@, Len(dest) + 1, Len(@))]
    BY <1>6 DEF AppFill
  <2>2. SubSeq(dest, Len(dest) + 1, Len(dest)) = <<>>
    BY <1>1, LenProperties, SubSeqEmpty
  <2>3. unread' = [unread EXCEPT !["app"] = <<>>]
    BY <1>1, <1>5, <2>1, <2>2
  <2>7. dest' \in Seq(Bytes) /\ complete' \in BOOLEAN /\ doneCB' \in BOOLEAN
    BY <1>1, <1>5, <2>1 DEF Types
  <2>8. unread' \in [Ports -> Seq(Bytes)] /\ dataSize' \in Nat
    BY <1>1, <1>3, <1>5, <2>3
  <2>4. Types'
    BY <1>1, <1>2, <1>3, <2>1, <2>7, <2>8 DEF Types
  <2>5. ReadInv'
    BY <1>1, <1>3, <1>6, <2>1 DEF ReadInv
  <2>6. StreamsInOrder' /\ SuccessIsWhole'
    BY <1>1, <1>3, <1>5, <2>1, <2>3 DEF IInv, StreamsInOrder, SuccessIsWhole, Unspent
  <2> QED
    BY <1>4, <2>4, <2>5, <2>6 DEF IInv
<1>7. CASE ~(dataSize = 1 /\ doneCB)
  <2>1. /\ dest' = Append(dest, Head(data)) /\ UNCHANGED <<rxState, doneCB, ended>>
        /\ unread' = [unread EXCEPT !["app"] = Append(@, Head(data))]
        /\ complete' = (complete \/ dataSize = 1)
    BY <1>7 DEF AppFill, Accept
  <2>2. dest' \in Seq(Bytes) /\ dest' \o <<>> = dest'
    BY <1>1, <1>2, <2>1, AppendProperties, ConcatEmptySeq
  <2>3. unread' = [unread EXCEPT !["app"] = dest']
    BY <1>1, <1>5, <2>1
  <2>4. complete' = (dataSize = 1) /\ complete' \in BOOLEAN
    BY <1>1, <2>1
  <2>5. Types'
    BY <1>1, <1>2, <1>3, <2>1, <2>2, <2>3, <2>4 DEF Types
  <2>6. ReadInv'
    BY <1>1, <1>3, <1>7, <2>1, <2>4 DEF ReadInv, Types
  <2>7. StreamsInOrder' /\ SuccessIsWhole'
    BY <1>1, <1>3, <2>1, <2>2, <2>3 DEF IInv, StreamsInOrder, SuccessIsWhole, Unspent
  <2> QED
    BY <1>4, <2>5, <2>6, <2>7 DEF IInv
<1> QED
  BY <1>6, <1>7

\* A byte that no read waits for goes behind those in the ring buffer.
LEMMA StoreInv == ASSUME IInv, AppStore PROVE IInv'
<1> USE DEF Ports
<1>1. /\ Types /\ DeliveryInv /\ ReadInv /\ data # <<>> /\ dataSize = 0
      /\ ring \in Seq(Bytes) /\ dest \in Seq(Bytes)
      /\ unread \in [Ports -> Seq(Bytes)] /\ unread["app"] = dest \o ring
  BY DEF IInv, Types, DeliveryInv, StreamsInOrder, AppStore
<1>2. /\ Head(data) \in Bytes /\ data' \in Seq(Bytes) /\ header' \in Seq(Bytes) /\ toRead' \in Nat
      /\ rxpc' = "parse" \/ (rxpc' = "deliver" /\ data' # <<>>)
  BY <1>1, NextByteStep DEF AppStore
<1>3. UNCHANGED <<lineVars, port, dest, dataSize, rxState, doneCB, complete, rpc, ended, halVars>>
  BY DEF AppStore, NextByte
<1>4. DeliveryInv'
  BY <1>1, <1>2, <1>3 DEF DeliveryInv, AppStore
<1>5. /\ Append(ring, Head(data)) \in Seq(Bytes)
      /\ Append(dest \o ring, Head(data)) = dest \o Append(ring, Head(data))
      /\ dest \o Append(ring, Head(data)) \in Seq(Bytes)
  <2>1. Append(ring, Head(data)) \in Seq(Bytes)
    BY <1>1, <1>2, AppendProperties
  <2>4. PICK e \in Bytes : e = Head(data)
    BY <1>2
  <2>5. dest \o ring \in Seq(Bytes) /\ <<e>> \in Seq(Bytes)
    BY <1>1, ConcatProperties
  <2>6. Append(dest \o ring, e) = (dest \o ring) \o <<e>> /\ Append(ring, e) = ring \o <<e>>
    BY <1>1, <2>5, AppendIsConcat
  <2>7. (dest \o ring) \o <<e>> = dest \o (ring \o <<e>>)
    BY <1>1, <2>5, ConcatAssociative
  <2>2. Append(dest \o ring, Head(data)) = dest \o Append(ring, Head(data))
    BY <2>4, <2>6, <2>7, Zenon
  <2>3. dest \o Append(ring, Head(data)) \in Seq(Bytes)
    BY <1>1, <2>1, ConcatProperties
  <2> QED
    BY <2>1, <2>2, <2>3
<1>6. \/ /\ ring' = Append(ring, Head(data))
         /\ unread' = [unread EXCEPT !["app"] = dest \o Append(ring, Head(data))]
      \/ UNCHANGED <<ring, unread>>
  BY <1>1, <1>5 DEF AppStore, Accept
<1>7. Types'
  BY <1>1, <1>2, <1>3, <1>5, <1>6 DEF Types
<1>8. ReadInv' /\ SuccessIsWhole'
  BY <1>1, <1>3 DEF IInv, ReadInv, SuccessIsWhole
<1>9. StreamsInOrder'
  BY <1>1, <1>3, <1>6 DEF IInv, StreamsInOrder, Unspent
<1> QED
  BY <1>4, <1>7, <1>8, <1>9 DEF IInv

\* A read takes what the ring buffer has; it is in progress only if that was all.
LEMMA ReadStarts ==
  ASSUME IInv, NEW n \in use.wanted, NEW callback \in BOOLEAN, AppRead(n, callback)
  PROVE  IInv'
<1> USE DEF Ports
<1>1. /\ n \in Nat \ {0} /\ ring \in Seq(Bytes) /\ Len(ring) \in Nat
      /\ rpc = "idle" /\ rxState = "idle" /\ dest = <<>> /\ dataSize = 0 /\ dataSize \in Nat
      /\ ~complete /\ complete \in BOOLEAN /\ ~doneCB /\ doneCB \in BOOLEAN
      /\ unread \in [Ports -> Seq(Bytes)] /\ unread["app"] = <<>> \o ring
  BY EmuxAssumption, LenProperties DEF IInv, Types, ReadInv, StreamsInOrder, AppRead
<1>2. unread["app"] = ring /\ ring \o <<>> = ring /\ <<>> \in Seq(Bytes)
  BY <1>1, ConcatEmptySeq, EmptySeq
<1>3. UNCHANGED <<lineVars, parseVars, rxVars, complete, halVars>>
  BY DEF AppRead
<1>4. DeliveryInv'
  BY <1>3 DEF IInv, DeliveryInv
<1>5. CASE n <= Len(ring)
  <2>7. ~(Len(ring) < n)
    BY <1>1, <1>5
  <2>8. /\ ring' = SubSeq(ring, n + 1, Len(ring))
        /\ unread' = [unread EXCEPT !["app"] = SubSeq(@, n + 1, Len(@))]
        /\ ended' = [result |-> "success", lacks |-> 0]
        /\ UNCHANGED <<dest, dataSize, rxState, doneCB, rpc>>
    BY <2>7 DEF AppRead
  <2>1. /\ ring' = SubSeq(ring, n + 1, Len(ring))
        /\ unread' = [unread EXCEPT !["app"] = SubSeq(ring, n + 1, Len(ring))]
        /\ ended' = [result |-> "success", lacks |-> 0]
        /\ UNCHANGED <<dest, dataSize, rxState, doneCB, rpc>>
    BY <1>1, <1>2, <2>8
  <2>2. n \in 0..Len(ring)
    BY <1>1, <1>5
  <2>3. ring' \in Seq(Bytes) /\ <<>> \o ring' = ring'
    BY <1>1, <2>1, <2>2, Suffix, ConcatEmptySeq
  <2>4. Types'
    BY <1>1, <1>3, <2>1, <2>3 DEF IInv, Types
  <2>5. ReadInv' /\ SuccessIsWhole'
    BY <1>1, <1>3, <2>1 DEF ReadInv, SuccessIsWhole
  <2>6. StreamsInOrder'
    BY <1>1, <1>3, <2>1, <2>3 DEF IInv, StreamsInOrder, Unspent
  <2> QED
    BY <1>4, <2>4, <2>5, <2>6 DEF IInv
<1>6. CASE n > Len(ring)
  <2>1. /\ ring' = SubSeq(ring, Len(ring) + 1, Len(ring)) /\ dest' = SubSeq(ring, 1, Len(ring))
        /\ dataSize' = n - Len(ring) /\ rxState' = "busy" /\ doneCB' = callback
        /\ rpc' = IF callback THEN "idle" ELSE "wait"
        /\ UNCHANGED <<ended, unread>>
    BY <1>1, <1>6 DEF AppRead
  <2>2. ring' = <<>> /\ dest' = ring
    BY <1>1, <2>1, SubSeqEmpty, SubSeqFull
  <2>3. dataSize' \in Nat /\ dataSize' > 0
    BY <1>1, <1>6, <2>1
  <2>4. Types'
    BY <1>1, <1>2, <1>3, <2>1, <2>2, <2>3 DEF IInv, Types
  <2>5. ReadInv' /\ SuccessIsWhole'
    BY <1>1, <1>3, <2>1, <2>2, <2>3 DEF IInv, ReadInv, SuccessIsWhole
  <2>6. StreamsInOrder'
    BY <1>2, <1>3, <2>1, <2>2 DEF IInv, StreamsInOrder, Unspent
  <2> QED
    BY <1>4, <2>4, <2>5, <2>6 DEF IInv
<1> QED
  BY <1>1, <1>5, <1>6

LEMMA WaitEnds == ASSUME IInv, AppWoken \/ AppTimeout PROVE IInv'
<1>1. UNCHANGED <<lineVars, parseVars, rxVars, ring, dest, dataSize, rxState, doneCB, ended, unread, halVars>>
  BY DEF AppWoken, AppTimeout
<1>2. /\ DeliveryInv' /\ StreamsInOrder' /\ SuccessIsWhole'
  BY <1>1 DEF IInv, DeliveryInv, StreamsInOrder, SuccessIsWhole, Unspent
<1>3. CASE AppWoken
  <2>1. complete /\ complete' = FALSE /\ rpc' = "woken" /\ rpc = "wait"
    BY <1>3 DEF AppWoken
  <2>2. Types'
    BY <1>1, <2>1 DEF IInv, Types
  <2>3. ReadInv'
    BY <1>1, <2>1 DEF IInv, ReadInv
  <2> QED
    BY <1>2, <2>2, <2>3 DEF IInv
<1>4. CASE AppTimeout
  <2>1. ~complete /\ complete' = complete /\ rpc' = "late" /\ rpc = "wait"
    BY <1>4 DEF AppTimeout
  <2>2. Types'
    BY <1>1, <2>1 DEF IInv, Types
  <2>3. ReadInv'
    BY <1>1, <2>1 DEF IInv, ReadInv
  <2> QED
    BY <1>2, <2>2, <2>3 DEF IInv
<1> QED
  BY <1>3, <1>4

\* A read that ends leaves what is in the ring buffer.
LEMMA ReadEnds == ASSUME IInv, AppEnd PROVE IInv'
<1> USE DEF Ports
<1>1. /\ ring \in Seq(Bytes) /\ dest \in Seq(Bytes) /\ ~doneCB /\ doneCB \in BOOLEAN
      /\ rpc = "woken" => dataSize = 0
      /\ unread \in [Ports -> Seq(Bytes)] /\ unread["app"] = dest \o ring
  BY DEF IInv, Types, ReadInv, StreamsInOrder, AppEnd, EndRead
<1>2. SubSeq(dest \o ring, Len(dest) + 1, Len(dest \o ring)) = ring /\ <<>> \o ring = ring
      /\ <<>> \in Seq(Bytes)
  BY <1>1, DropFront, ConcatEmptySeq, EmptySeq
<1>3. /\ UNCHANGED <<lineVars, parseVars, rxVars, ring, doneCB, halVars>>
      /\ dest' = <<>> /\ dataSize' = 0 /\ rxState' = "idle" /\ rpc' = "idle" /\ complete' = FALSE
      /\ ended' = [result |-> IF rpc = "woken" THEN "success" ELSE "timeout", lacks |-> dataSize]
      /\ unread' = [unread EXCEPT !["app"] = ring]
  BY <1>1, <1>2 DEF AppEnd, EndRead
<1>4. DeliveryInv'
  BY <1>3 DEF IInv, DeliveryInv
<1>5. Types'
  BY <1>1, <1>2, <1>3 DEF IInv, Types
<1>6. ReadInv' /\ SuccessIsWhole'
  BY <1>1, <1>3 DEF ReadInv, SuccessIsWhole
<1>7. StreamsInOrder'
  BY <1>1, <1>2, <1>3 DEF IInv, StreamsInOrder, Unspent
<1> QED
  BY <1>4, <1>5, <1>6, <1>7 DEF IInv

-----------------------------------------------------------------------------
(* The port of the gateway *)

\* The callback is called with the byte, or the byte has nowhere to go.
LEMMA ByteInv == ASSUME IInv, HalByte \/ HalDiscard PROVE IInv'
<1>1. /\ Types /\ DeliveryInv /\ data # <<>> /\ port = "hal" /\ rxpc # "parse"
      /\ header \in Seq(Bytes) /\ toRead \in Nat /\ data \in Seq(Bytes)
  BY DEF IInv, Types, DeliveryInv, HalByte, HalDiscard
<1>2. UNCHANGED <<lineVars, port, appVars, unread, halVars>>
  BY DEF HalByte, HalDiscard, NextByte
<1>3. /\ data' \in Seq(Bytes) /\ header' \in Seq(Bytes) /\ toRead' \in Nat
      /\ rxpc' = "parse" \/ data' # <<>>
  <2>1. CASE NextByte
    BY <1>1, <2>1, NextByteStep
  <2>2. CASE UNCHANGED <<lineVars, parseVars, port, found, blind>>
    BY <1>1, <2>2
  <2> QED
    BY <2>1, <2>2 DEF HalByte, HalDiscard
<1>4. DeliveryInv'
  BY <1>1, <1>2, <1>3 DEF DeliveryInv
<1>5. Types'
  BY <1>2, <1>3 DEF IInv, Types
<1>6. ReadInv' /\ StreamsInOrder' /\ SuccessIsWhole'
  BY <1>2 DEF IInv, ReadInv, StreamsInOrder, SuccessIsWhole, Unspent
<1> QED
  BY <1>4, <1>5, <1>6 DEF IInv

\* A byte goes behind those in the buffer, shifted or not.
LEMMA HalStoreInv == ASSUME IInv, HalStore PROVE IInv'
<1> USE DEF Ports
<1>1. /\ Types /\ DeliveryInv /\ data # <<>> /\ port = "hal" /\ rxpc # "parse"
      /\ buff \in Seq(Bytes) /\ rp \in 0..Len(buff)
      /\ unread \in [Ports -> Seq(Bytes)] /\ unread["hal"] = Unspent
  BY DEF IInv, Types, DeliveryInv, StreamsInOrder, HalStore, HalStored
<1>2. PICK e \in Bytes : e = Head(data)
  BY <1>1, NextByteStep DEF HalStore, HalStored
<1>3. /\ data' \in Seq(Bytes) /\ header' \in Seq(Bytes) /\ toRead' \in Nat
      /\ rxpc' = "parse" \/ (rxpc' = "deliver" /\ data' # <<>>)
  BY <1>1, NextByteStep DEF HalStore, HalStored
<1>4. /\ UNCHANGED <<lineVars, port, appVars, mtx, sends, abortVars, hpc, delVars>>
      /\ buff' = Append(IF Full THEN Unspent ELSE buff, e)
      /\ rp' = IF Full THEN 0 ELSE rp
      /\ unread' = [unread EXCEPT !["hal"] = Append(Unspent, e)]
  BY <1>1, <1>2 DEF HalStore, HalStored, NextByte, Accept
<1>5. Unspent \in Seq(Bytes) /\ Append(Unspent, e) \in Seq(Bytes)
  BY <1>1, Suffix, AppendProperties DEF Unspent
<1>6. buff' \in Seq(Bytes) /\ rp' \in 0..Len(buff') /\ Unspent' = Append(Unspent, e)
  <2>1. CASE Full
    <3>1. buff' = Append(Unspent, e) /\ rp' = 0
      BY <1>4, <2>1
    <3>2. PICK c \in Seq(Bytes) : c = buff'
      BY <1>5, <3>1
    <3>3. SubSeq(c, 1, Len(c)) = c /\ Len(c) \in Nat
      BY SubSeqFull, LenProperties
    <3>4. Unspent' = c
      BY <3>1, <3>2, <3>3 DEF Unspent
    <3> QED
      BY <1>5, <3>1, <3>2, <3>3, <3>4
  <2>2. CASE ~Full
    <3>1. buff' = Append(buff, e) /\ rp' = rp
      BY <1>4, <2>2
    <3>2. Append(buff, e) \in Seq(Bytes) /\ Len(Append(buff, e)) = Len(buff) + 1 /\ Len(buff) \in Nat
      BY <1>1, AppendProperties, LenProperties
    <3>3. SubSeq(Append(buff, e), rp + 1, Len(Append(buff, e)))
            = Append(SubSeq(buff, rp + 1, Len(buff)), e)
      BY <1>1, SuffixAppend
    <3>4. Unspent' = Append(Unspent, e)
      BY <3>1, <3>3 DEF Unspent
    <3> QED
      BY <1>1, <3>1, <3>2, <3>4
  <2> QED
    BY <2>1, <2>2
<1>7. DeliveryInv'
  BY <1>1, <1>3, <1>4 DEF DeliveryInv
<1>8. Types'
  <2>1. unread' \in [Ports -> Seq(Bytes)]
    BY <1>1, <1>4, <1>5
  <2> QED
    BY <1>1, <1>3, <1>4, <1>6, <2>1 DEF Types
<1>9. ReadInv' /\ SuccessIsWhole'
  BY <1>4 DEF IInv, ReadInv, SuccessIsWhole
<1>10. StreamsInOrder'
  BY <1>1, <1>4, <1>6 DEF IInv, StreamsInOrder
<1> QED
  BY <1>7, <1>8, <1>9, <1>10 DEF IInv

\* What a read returns is the front of what was not read.
LEMMA CopyInv == ASSUME IInv, HalCopy PROVE IInv'
<1> USE DEF Ports
<1>1. PICK n \in HalLens :
        LET k == IF Len(Unspent) < n THEN Len(Unspent) ELSE n IN
        rp' = rp + k /\ unread' = [unread EXCEPT !["hal"] = SubSeq(@, k + 1, Len(@))]
  BY DEF HalCopy
<1>2. /\ buff \in Seq(Bytes) /\ rp \in 0..Len(buff) /\ Len(buff) \in Nat
      /\ unread \in [Ports -> Seq(Bytes)] /\ unread["hal"] = Unspent
  BY LenProperties DEF IInv, Types, StreamsInOrder
<1>3. UNCHANGED <<lineVars, parseVars, rxVars, appVars, buff, delVars>>
  BY DEF HalCopy
<1>4. Unspent \in Seq(Bytes) /\ Len(Unspent) = Len(buff) - rp
  BY <1>2, Suffix DEF Unspent
<1>5. PICK k \in 0..(Len(buff) - rp) :
        rp' = rp + k /\ unread' = [unread EXCEPT !["hal"] = SubSeq(@, k + 1, Len(@))]
  <2> DEFINE m == IF Len(Unspent) < n THEN Len(Unspent) ELSE n
  <2>1. rp' = rp + m /\ unread' = [unread EXCEPT !["hal"] = SubSeq(@, m + 1, Len(@))]
    BY <1>1
  <2>2. n \in Nat
    BY EmuxAssumption
  <2>3. m \in 0..(Len(buff) - rp)
    BY <1>2, <1>4, <2>2
  <2> HIDE DEF m
  <2> QED
    BY <2>1, <2>3
<1>6. unread' = [unread EXCEPT !["hal"] = SubSeq(Unspent, k + 1, Len(Unspent))]
  BY <1>2, <1>5
<1>7. SubSeq(Unspent, k + 1, Len(Unspent)) = Unspent'
  BY <1>2, <1>3, <1>5, SuffixOfSuffix DEF Unspent
<1>8. rp' \in 0..Len(buff) /\ Unspent' \in Seq(Bytes)
  <2>1. rp' \in 0..Len(buff)
    BY <1>2, <1>5
  <2> QED
    BY <1>2, <1>3, <2>1, Suffix DEF Unspent
<1>9. Types'
  <2>1. unread' \in [Ports -> Seq(Bytes)]
    BY <1>2, <1>6, <1>7, <1>8
  <2> QED
    BY <1>3, <1>8, <2>1 DEF IInv, Types
<1>10. DeliveryInv' /\ ReadInv' /\ SuccessIsWhole'
  BY <1>3 DEF IInv, DeliveryInv, ReadInv, SuccessIsWhole
<1>11. StreamsInOrder'
  BY <1>2, <1>3, <1>6, <1>7 DEF IInv, StreamsInOrder
<1> QED
  BY <1>9, <1>10, <1>11 DEF IInv

\* The rest moves no byte; a HAL is deleted only when none is being delivered to it.
LEMMA HalRestInv ==
  ASSUME IInv,
         \/ HalCheck \/ HalLook \/ HalWake \/ SendStart \/ SendEnd
         \/ AbortAsk("again") \/ AbortAsk("terminate") \/ AbortPost
         \/ DelStop \/ DelUnbind \/ DelFree
  PROVE  IInv'
<1>1. UNCHANGED <<lineVars, parseVars, rxVars, appVars, unread, buff, rp>>
  BY DEF HalCheck, HalLook, HalWake, SendStart, SendEnd, AbortAsk, AbortPost,
         DelStop, DelUnbind, Unbound, DelFree
<1>2. Types' /\ ReadInv' /\ StreamsInOrder' /\ SuccessIsWhole'
  BY <1>1 DEF IInv, Types, ReadInv, StreamsInOrder, SuccessIsWhole, Unspent
<1>3. DeliveryInv'
  <2>1. CASE UNCHANGED <<bound, dpc>>
    BY <1>1, <2>1 DEF IInv, DeliveryInv
  <2>2. CASE DelStop
    BY <1>1, <2>2 DEF IInv, DeliveryInv, DelStop
  <2>3. CASE DelUnbind
    BY <1>1, <2>3 DEF IInv, DeliveryInv, DelUnbind, Unbound
  <2>4. CASE DelFree
    BY <1>1, <2>4 DEF IInv, DeliveryInv, DelFree
  <2> QED
    BY <2>1, <2>2, <2>3, <2>4 DEF HalCheck, HalLook, HalWake, SendStart, SendEnd, AbortAsk, AbortPost
<1> QED
  BY <1>2, <1>3 DEF IInv

-----------------------------------------------------------------------------
(* The theorems *)

LEMMA InitIInv == ASSUME Init PROVE IInv
<1> USE DEF Ports
<1>1. <<>> \in Seq(Bytes) /\ <<>> \o <<>> = <<>> /\ Len(<<>>) = 0 /\ SubSeq(<<>>, 1, 0) = <<>>
  <2>1. <<>> \in Seq(Bytes) /\ Len(<<>>) = 0
    BY EmptySeq
  <2>2. <<>> \o <<>> = <<>>
    BY <2>1, ConcatEmptySeq
  <2>3. SubSeq(<<>>, 1, 0) = <<>>
    BY SubSeqEmpty
  <2> QED
    BY <2>1, <2>2, <2>3
<1>2. Types
  <2>1. unread \in [Ports -> Seq(Bytes)]
    BY <1>1 DEF Init
  <2>2. doneCB \in BOOLEAN /\ complete \in BOOLEAN
    BY DEF Init
  <2>3. rp \in 0..Len(buff)
    BY <1>1 DEF Init
  <2>4. sent \in 0..End[NFrames]
    <3>1. NFrames \in 0..NFrames
      BY EmuxAssumption
    <3> QED
      BY <3>1, EndType DEF Init
  <2> QED
    BY <1>1, <2>1, <2>2, <2>3, <2>4 DEF Init, Types
<1>3. DeliveryInv /\ ReadInv /\ SuccessIsWhole
  <2>1. dpc \in {"unbound", "freed"} => "hal" \notin bound
    BY DEF Init
  <2>2. DeliveryInv
    BY <2>1 DEF Init, DeliveryInv
  <2>3. ~doneCB /\ ~complete /\ rpc = "idle" /\ rxState = "idle" /\ dest = <<>> /\ dataSize = 0
        /\ ended = [result |-> "none", lacks |-> 0]
    BY DEF Init
  <2> QED
    BY <2>2, <2>3 DEF ReadInv, SuccessIsWhole
<1>4. StreamsInOrder
  BY <1>1 DEF Init, StreamsInOrder, Unspent
<1> QED
  BY <1>2, <1>3, <1>4 DEF IInv

LEMMA NextIInv == ASSUME IInv, [Next]_vars PROVE IInv'
<1>1. CASE LineLoses \/ Escape \/ RxByte
  BY <1>1, LineInv
<1>2. CASE Deliver
  BY <1>2, FillInv, StoreInv, ByteInv, HalStoreInv DEF Deliver
<1>3. CASE \E n \in use.wanted, callback \in BOOLEAN : AppRead(n, callback)
  BY <1>3, ReadStarts
<1>4. CASE AppWoken \/ AppTimeout \/ AppEnd
  BY <1>4, WaitEnds, ReadEnds
<1>5. CASE HalRecv
  BY <1>5, HalRestInv, CopyInv DEF HalRecv
<1>6. CASE \/ SendStart \/ SendEnd \/ AbortAsk("again") \/ AbortAsk("terminate") \/ AbortPost
           \/ DelStop \/ DelUnbind \/ DelFree
  BY <1>6, HalRestInv
<1>7. CASE UNCHANGED vars
  BY <1>7 DEF IInv, Types, DeliveryInv, ReadInv, StreamsInOrder, SuccessIsWhole, Unspent
<1> QED
  BY <1>1, <1>2, <1>3, <1>4, <1>5, <1>6, <1>7 DEF Next

LEMMA Invariance == Spec => []IInv
<1>1. Init => IInv
  BY InitIInv
<1>2. IInv /\ [Next]_vars => IInv'
  BY NextIInv
<1> QED
  BY <1>1, <1>2, PTL DEF Spec

\* Whatever the line loses, and however reads, deliveries, shifts and aborts fall
\* together, what comes out of a port is what it accepted, once and in order.
THEOREM StreamsCorrect == Spec => []StreamsInOrder
<1>1. IInv => StreamsInOrder
  BY DEF IInv
<1> QED
  BY <1>1, Invariance, PTL

\* MUX_ReceiveTimeout never reports success for a read that lacks bytes, also when
\* the last byte of the read before came between its time-out and its end.
THEOREM WholeCorrect == Spec => []SuccessIsWhole
<1>1. IInv => SuccessIsWhole
  BY DEF IInv
<1> QED
  BY <1>1, Invariance, PTL

\* After hal_emux_alt125x_delete the receive task of emux is not inside of a
\* delivery to the HAL: MUX_DeInit waits for the frame that is being delivered.
THEOREM UnusedCorrect == Spec => []DeletedUnused
<1>1. IInv => DeletedUnused
  BY DEF IInv, DeliveryInv, DeletedUnused
<1> QED
  BY <1>1, Invariance, PTL

-----------------------------------------------------------------------------
(* Frames are recognized *)

\* Between two frames, and while a frame is delivered, the parser keeps nothing.
Shape ==
  /\ toRead > 0 => header # <<>>
  /\ toRead = 0 => Len(header) <= 3
  /\ Len(header) <= 4
  /\ rxpc = "parse" /\ toRead = 0 => data = <<>>
  /\ rxpc # "parse" => toRead = 0 /\ header = <<>>
  /\ preamble \in BOOLEAN

\* A run of the bytes of a frame.
Run(f, d, n) == [i \in 1..n |-> Byte(f, d + i)]

\* The parser has taken the first j bytes of frame f for what they are.
InFrame(f, j) ==
  /\ rxpc = "parse" /\ preamble = TRUE
  /\ IF j < Prefix[f]
       THEN toRead = 0 /\ header = Run(f, 1, j - 1) /\ data = <<>>
       ELSE /\ toRead = DataLen[f] /\ header = Run(f, 1, Prefix[f] - 1)
            /\ data = Run(f, Prefix[f], j - Prefix[f])

Raw == [frame : Frames, pos : Nat]

LEMMA RunType ==
  ASSUME NEW f \in Frames, NEW d \in Nat, NEW n \in Nat
  PROVE  /\ Run(f, d, n) \in Seq(Raw) /\ Len(Run(f, d, n)) = n
         /\ DOMAIN Run(f, d, n) = 1..n
         /\ \A i \in 1..n : Run(f, d, n)[i] = Byte(f, d + i)
<1>1. \A i \in 1..n : Byte(f, d + i) \in Raw
  BY DEF Byte, Raw
<1> DEFINE s == [i \in 1..n |-> Byte(f, d + i)]
<1>2. s \in [1..n -> Raw]
  BY <1>1
<1>3. s \in Seq(Raw)
  BY <1>2, IsASeq
<1>4. DOMAIN s = 1..n
  OBVIOUS
<1>5. Len(s) = n
  BY <1>3, <1>4, LenProperties
<1> QED
  BY <1>3, <1>4, <1>5 DEF Run

LEMMA RunAppend ==
  ASSUME NEW f \in Frames, NEW d \in Nat, NEW n \in Nat
  PROVE  Append(Run(f, d, n), Byte(f, d + n + 1)) = Run(f, d, n + 1)
<1> DEFINE s == Run(f, d, n)
           t == Run(f, d, n + 1)
           e == Byte(f, d + n + 1)
<1>1. /\ s \in Seq(Raw) /\ Len(s) = n /\ \A i \in 1..n : s[i] = Byte(f, d + i)
      /\ t \in Seq(Raw) /\ Len(t) = n + 1 /\ \A i \in 1..(n + 1) : t[i] = Byte(f, d + i)
      /\ e \in Raw
  <2>1. s \in Seq(Raw) /\ Len(s) = n /\ \A i \in 1..n : s[i] = Byte(f, d + i)
    BY RunType
  <2>2. n + 1 \in Nat
    OBVIOUS
  <2>3. t \in Seq(Raw) /\ Len(t) = n + 1 /\ \A i \in 1..(n + 1) : t[i] = Byte(f, d + i)
    BY <2>2, RunType
  <2>4. e \in Raw
    BY DEF Byte, Raw
  <2> QED
    BY <2>1, <2>3, <2>4
<1>2. /\ Append(s, e) \in Seq(Raw) /\ Len(Append(s, e)) = Len(s) + 1
      /\ \A i \in 1..Len(s) : Append(s, e)[i] = s[i]
      /\ Append(s, e)[Len(s) + 1] = e
  BY <1>1, AppendProperties
<1>3. ASSUME NEW i \in 1..(n + 1) PROVE Append(s, e)[i] = t[i]
  <2>1. CASE i = n + 1
    BY <1>1, <1>2, <2>1
  <2>2. CASE i # n + 1
    BY <1>1, <1>2, <2>2
  <2> QED
    BY <2>1, <2>2
<1> HIDE DEF s, t, e
<1>5. Append(s, e) = t
  BY <1>1, <1>2, <1>3, SeqEqual
<1> QED
  BY <1>5 DEF s, t, e

LEMMA RunConcat ==
  ASSUME NEW f \in Frames, NEW d \in Nat, NEW n \in Nat, NEW m \in Nat
  PROVE  Run(f, d, n) \o Run(f, d + n, m) = Run(f, d, n + m)
<1> DEFINE s == Run(f, d, n)
           u == Run(f, d + n, m)
           t == Run(f, d, n + m)
<1>1. /\ s \in Seq(Raw) /\ Len(s) = n /\ \A i \in 1..n : s[i] = Byte(f, d + i)
      /\ t \in Seq(Raw) /\ Len(t) = n + m /\ \A i \in 1..(n + m) : t[i] = Byte(f, d + i)
      /\ u \in Seq(Raw) /\ Len(u) = m /\ \A i \in 1..m : u[i] = Byte(f, d + n + i)
  <2>1. s \in Seq(Raw) /\ Len(s) = n /\ \A i \in 1..n : s[i] = Byte(f, d + i)
    BY RunType
  <2>2. n + m \in Nat /\ d + n \in Nat
    OBVIOUS
  <2>3. t \in Seq(Raw) /\ Len(t) = n + m /\ \A i \in 1..(n + m) : t[i] = Byte(f, d + i)
    BY <2>2, RunType
  <2>4. u \in Seq(Raw) /\ Len(u) = m /\ \A i \in 1..m : u[i] = Byte(f, d + n + i)
    BY <2>2, RunType
  <2> QED
    BY <2>1, <2>3, <2>4
<1> HIDE DEF s, t, u
<1>2. /\ s \o u \in Seq(Raw) /\ Len(s \o u) = n + m
      /\ \A i \in 1..(n + m) : (s \o u)[i] = IF i <= n THEN s[i] ELSE u[i - n]
  BY <1>1, ConcatProperties
<1>3. ASSUME NEW i \in 1..(n + m) PROVE (s \o u)[i] = t[i]
  <2>1. CASE i <= n
    BY <1>1, <1>2, <2>1
  <2>2. CASE ~(i <= n)
    <3>1. i - n \in 1..m /\ d + n + (i - n) = d + i
      BY <2>2
    <3>2. u[i - n] = Byte(f, d + i)
      BY <1>1, <3>1
    <3> QED
      BY <1>1, <1>2, <2>2, <3>2
  <2> QED
    BY <2>1, <2>2
<1>4. s \o u = t
  BY <1>1, <1>2, <1>3, SeqEqual
<1> QED
  BY <1>4 DEF s, t, u

\* An address has not the value of the flag, so that it tells the frames apart.
LEMMA AddressOwn ==
  ASSUME NEW f \in Frames, NEW b, SameValue(b, Byte(f, 2))
  PROVE  b = Byte(f, 2)
<1>1. Byte(f, 2).pos = 2 /\ Byte(f, 2).frame = f
  BY DEF Byte
<1>2. FrameLen(f) # 2 /\ \A c \in FlagLike : c.pos # 2
  BY FrameLenType, EmuxAssumption
<1>3. ~IsFlag(Byte(f, 2))
  BY <1>1, <1>2 DEF IsFlag
<1> QED
  BY <1>3 DEF SameValue

LEMMA NoFlag == ASSUME NEW f \in Frames PROVE ~IsFlag(Byte(f, 2))
<1>1. Byte(f, 2).pos = 2 /\ Byte(f, 2).frame = f
  BY DEF Byte
<1>2. FrameLen(f) # 2 /\ \A c \in FlagLike : c.pos # 2
  BY FrameLenType, EmuxAssumption
<1> QED
  BY <1>1, <1>2 DEF IsFlag

\* The bytes from the second on of a frame are the start of no other.
LEMMA StartOwn ==
  ASSUME NEW f \in Frames, NEW n \in Nat, n > 0, n < FrameLen(f), NEW g \in Frames
  PROVE  StartOf(g, Run(f, 1, n)) <=> (g = f)
<1>1. /\ Len(Run(f, 1, n)) = n /\ DOMAIN Run(f, 1, n) = 1..n
      /\ \A i \in 1..n : Run(f, 1, n)[i] = Byte(f, 1 + i)
  BY RunType
<1>2. ASSUME g = f PROVE StartOf(g, Run(f, 1, n))
  <2>1. \A i \in 1..n : SameValue(Run(f, 1, n)[i], Byte(f, i + 1))
    BY <1>1 DEF SameValue
  <2> QED
    BY <1>1, <1>2, <2>1 DEF StartOf
<1>3. ASSUME StartOf(g, Run(f, 1, n)) PROVE g = f
  <2>1. 1 \in 1..n /\ Run(f, 1, n)[1] = Byte(f, 2)
    BY <1>1
  <2>2. SameValue(Byte(f, 2), Byte(g, 2))
    BY <1>1, <1>3, <2>1 DEF StartOf
  <2>3. Byte(f, 2) = Byte(g, 2)
    BY <2>2, AddressOwn
  <2>4. Byte(f, 2).frame = f /\ Byte(g, 2).frame = g
    BY DEF Byte
  <2> QED
    BY <2>3, <2>4
<1> QED
  BY <1>2, <1>3

\* What muxReceiveCallback_MUX_0 does with a byte.
Takes(b) ==
  \/ toRead > 0 /\ ReadData(b)
  \/ toRead = 0 /\ SkipFlag(b) /\ UNCHANGED <<parseVars, rxpc, port, found>>
  \/ toRead = 0 /\ ~SkipFlag(b) /\ preamble /\ ReadHeader(b)
  \/ toRead = 0 /\ ~preamble /\ FindFlag(b)

LEMMA EmptyRun ==
  ASSUME NEW f \in Frames, NEW d \in Nat
  PROVE  Run(f, d, 0) = <<>>
<1>1. Run(f, d, 0) \in Seq(Raw) /\ Len(Run(f, d, 0)) = 0
  BY RunType
<1> QED
  BY <1>1, EmptySeq

\* The first flag, seen between two frames.
LEMMA FrameBegins ==
  ASSUME NEW f \in Frames, Shape, rxpc = "parse", toRead = 0, header = <<>>, Takes(Byte(f, 1))
  PROVE  InFrame(f, 1)'
<1>0. ~(toRead > 0)
  OBVIOUS
<1>1. IsFlag(Byte(f, 1))
  BY DEF IsFlag, Byte
<1>2. data = <<>> /\ preamble \in BOOLEAN
  BY DEF Shape
<1>3. rxpc' = "parse" /\ preamble' = TRUE /\ toRead' = 0 /\ header' = <<>> /\ data' = <<>>
  <2>1. CASE preamble = TRUE
    <3>1. SkipFlag(Byte(f, 1))
      BY <1>1, <2>1 DEF SkipFlag
    <3>2. UNCHANGED <<parseVars, rxpc, port, found>>
      BY <1>0, <2>1, <3>1, Zenon DEF Takes
    <3> QED
      BY <1>2, <2>1, <3>2
  <2>2. CASE preamble = FALSE
    <3>0. ~SkipFlag(Byte(f, 1))
      BY <2>2, Zenon DEF SkipFlag
    <3>1. FindFlag(Byte(f, 1))
      BY <1>0, <2>2, <3>0, Zenon DEF Takes
    <3>2. preamble' = TRUE
      BY <1>1, <3>1, Zenon DEF FindFlag
    <3> QED
      BY <1>2, <3>1, <3>2 DEF FindFlag
  <2> QED
    BY <1>2, <2>1, <2>2
<1>4. 1 < Prefix[f] /\ Run(f, 1, 1 - 1) = <<>>
  BY FrameLenType, EmptyRun
<1> QED
  BY <1>3, <1>4 DEF InFrame

\* A header that is the start of a frame says how long the frame is.
LEMMA HeaderReads ==
  ASSUME NEW f \in Frames, NEW n \in Nat, n > 0, n < Prefix[f]
  PROVE  /\ LengthIn(Run(f, 1, n)) = {DataLen[f]}
         /\ ShortHeader(Run(f, 1, n)) = {Prefix[f] = 4}
<1> DEFINE h == Run(f, 1, n)
<1>1. n < FrameLen(f)
  BY FrameLenType
<1>2. \A g \in Frames : StartOf(g, h) <=> (g = f)
  BY <1>1, StartOwn
<1> HIDE DEF h
<1>3. {g \in Frames : StartOf(g, h)} = {f} /\ \E g \in Frames : StartOf(g, h)
  BY <1>2
<1>4. LengthIn(h) = {DataLen[g] : g \in {f}} /\ ShortHeader(h) = {Prefix[g] = 4 : g \in {f}}
  BY <1>3 DEF LengthIn, ShortHeader
<1>5. {DataLen[g] : g \in {f}} = {DataLen[f]} /\ {Prefix[g] = 4 : g \in {f}} = {Prefix[f] = 4}
  OBVIOUS
<1> QED
  BY <1>4, <1>5 DEF h

\* A byte of the header.
LEMMA HeaderGoesOn ==
  ASSUME NEW f \in Frames, NEW j \in Nat, 1 <= j, j < Prefix[f],
         InFrame(f, j), Takes(Byte(f, j + 1))
  PROVE  InFrame(f, j + 1)' /\ found' = found
<1> DEFINE b == Byte(f, j + 1)
           h == Run(f, 1, j)
<1>1. Prefix[f] \in {4, 5} /\ DataLen[f] \in Nat \ {0}
  BY FrameLenType
<1>2. toRead = 0 /\ header = Run(f, 1, j - 1) /\ data = <<>> /\ rxpc = "parse" /\ preamble = TRUE
  BY DEF InFrame
<1>3. Append(header, b) = h /\ Len(h) = j /\ Len(header) = j - 1
  <2>1. j - 1 \in Nat /\ 1 + (j - 1) + 1 = j + 1 /\ (j - 1) + 1 = j
    OBVIOUS
  <2>2. Append(Run(f, 1, j - 1), Byte(f, 1 + (j - 1) + 1)) = Run(f, 1, (j - 1) + 1)
    BY <2>1, RunAppend
  <2>3. Len(Run(f, 1, j)) = j /\ Len(Run(f, 1, j - 1)) = j - 1
    <3>1. ASSUME NEW n \in Nat PROVE Len(Run(f, 1, n)) = n
      BY RunType, 1 \in Nat
    <3> HIDE DEF b, h
    <3> QED
      BY <2>1, <3>1
  <2> QED
    BY <1>2, <2>1, <2>2, <2>3
<1>4. ~SkipFlag(b)
  <2>1. CASE j = 1
    BY <2>1, NoFlag DEF SkipFlag
  <2>2. CASE j # 1
    <3>1. header # <<>>
      BY <1>3, <2>2, EmptySeq
    <3> QED
      BY <3>1 DEF SkipFlag
  <2> QED
    BY <2>1, <2>2
<1>5. ReadHeader(b)
  <2>1. ~(toRead > 0)
    BY <1>2
  <2> QED
    BY <1>2, <1>4, <2>1, Zenon DEF Takes
<1> DEFINE More == header' = h /\ UNCHANGED <<preamble, toRead>>
           Last == \E n \in LengthIn(h) :
                     /\ toRead' = n
                     /\ preamble' = (n > 0)
                     /\ header' = IF n > 0 THEN h ELSE <<>>
<1>6. /\ UNCHANGED <<data, rxpc, port, found>>
      /\ \/ j < 3 /\ More
         \/ j = 3 /\ FALSE \in ShortHeader(h) /\ More
         \/ (j = 4 \/ (j = 3 /\ TRUE \in ShortHeader(h))) /\ Last
  <2> HIDE DEF h
  <2> QED
    BY <1>3, <1>5 DEF ReadHeader
<1>7. LengthIn(h) = {DataLen[f]} /\ ShortHeader(h) = {Prefix[f] = 4}
  BY HeaderReads
<1>12. /\ Prefix[f] = 4 => TRUE \in ShortHeader(h) /\ FALSE \notin ShortHeader(h)
       /\ Prefix[f] # 4 => FALSE \in ShortHeader(h) /\ TRUE \notin ShortHeader(h)
  <2>1. CASE Prefix[f] = 4
    <3>1. ShortHeader(h) = {TRUE}
      BY <1>7, <2>1, Zenon
    <3> QED
      BY <2>1, <3>1
  <2>2. CASE Prefix[f] # 4
    <3>1. ShortHeader(h) = {FALSE}
      BY <1>7, <2>2, Zenon
    <3> QED
      BY <2>2, <3>1
  <2> QED
    BY <2>1, <2>2
<1>8. Run(f, Prefix[f], 0) = <<>>
  BY <1>1, EmptyRun
<1>10. (j + 1) - 1 = j
  OBVIOUS
<1> HIDE DEF h
<1>9. CASE j + 1 < Prefix[f]
  <2>1. More
    <3>1. ~(j = 4) /\ (j = 3 => Prefix[f] # 4)
      BY <1>1, <1>9
    <3> HIDE DEF More, Last
    <3> QED
      BY <1>6, <1>12, <3>1, Zenon
  <2> QED
    BY <1>2, <1>6, <1>9, <1>10, <2>1 DEF InFrame, h
<1>11. CASE ~(j + 1 < Prefix[f])
  <2>0. j + 1 = Prefix[f] /\ j = Prefix[f] - 1 /\ (j + 1) - Prefix[f] = 0
    BY <1>1, <1>11
  <2>1. Last
    <3>1. ~(j < 3) /\ (j = 3 => Prefix[f] = 4)
      BY <1>1, <2>0
    <3> HIDE DEF More, Last
    <3> QED
      BY <1>6, <1>12, <3>1, Zenon
  <2>2. toRead' = DataLen[f] /\ preamble' = TRUE /\ header' = h
    <3>1. PICK n \in {DataLen[f]} :
            toRead' = n /\ preamble' = (n > 0) /\ header' = IF n > 0 THEN h ELSE <<>>
      BY <1>7, <2>1
    <3>2. n = DataLen[f] /\ n > 0
      BY <1>1
    <3> QED
      BY <3>1, <3>2
  <2>3. data' = Run(f, Prefix[f], 0) /\ rxpc' = "parse" /\ found' = found
    BY <1>2, <1>6, <1>8
  <2> QED
    BY <2>0, <2>2, <2>3, <1>11 DEF InFrame, h
<1> QED
  BY <1>9, <1>11

\* A byte of the data, or the checksum.
LEMMA DataGoesOn ==
  ASSUME NEW f \in Frames, NEW j \in Nat, Prefix[f] <= j, j + 1 < FrameLen(f),
         InFrame(f, j), Takes(Byte(f, j + 1))
  PROVE  InFrame(f, j + 1)' /\ found' = found
<1> DEFINE b == Byte(f, j + 1)
           n == j - Prefix[f]
<1>1. /\ Prefix[f] \in Nat /\ DataLen[f] \in Nat /\ DataLen[f] > 0
      /\ FrameLen(f) = Prefix[f] + DataLen[f] + 2
  BY FrameLenType
<1>2. /\ toRead = DataLen[f] /\ header = Run(f, 1, Prefix[f] - 1) /\ data = Run(f, Prefix[f], n)
      /\ rxpc = "parse" /\ preamble = TRUE
  BY <1>1 DEF InFrame
<1>3. n \in Nat /\ Prefix[f] + n + 1 = j + 1 /\ n + 1 = (j + 1) - Prefix[f]
  BY <1>1
<1> HIDE DEF n
<1>4. Append(data, b) = Run(f, Prefix[f], n + 1) /\ Len(data) = n
  <2>1. Append(Run(f, Prefix[f], n), Byte(f, Prefix[f] + n + 1)) = Run(f, Prefix[f], n + 1)
    BY <1>1, <1>3, RunAppend
  <2>2. Len(Run(f, Prefix[f], n)) = n
    BY <1>1, <1>3, RunType
  <2> QED
    BY <1>2, <1>3, <2>1, <2>2
<1>5. ReadData(b)
  <2>1. toRead > 0 /\ toRead # 0
    BY <1>1, <1>2
  <2> QED
    BY <2>1, Zenon DEF Takes
<1>6. Len(data) + 1 < toRead + Postfix
  BY <1>1, <1>2, <1>3, <1>4 DEF Postfix
<1>7. data' = Append(data, b) /\ UNCHANGED <<preamble, header, toRead, rxpc, port, found>>
  BY <1>5, <1>6 DEF ReadData
<1>8. ~(j + 1 < Prefix[f])
  BY <1>1
<1> QED
  BY <1>2, <1>3, <1>4, <1>7, <1>8 DEF InFrame

\* Its last flag.
LEMMA FrameEnds ==
  ASSUME NEW f \in Frames, InFrame(f, FrameLen(f) - 1), Takes(Byte(f, FrameLen(f)))
  PROVE  found' = Append(found, f) /\ toRead' = 0 /\ header' = <<>>
<1> DEFINE b == Byte(f, FrameLen(f))
           n == DataLen[f] + 1
           k == Prefix[f] - 1
           j == FrameLen(f) - 1
<1>1. /\ Prefix[f] \in Nat /\ Prefix[f] > 0 /\ DataLen[f] \in Nat /\ DataLen[f] > 0
      /\ FrameLen(f) \in Nat /\ FrameLen(f) = Prefix[f] + DataLen[f] + 2
  BY FrameLenType
<1>2. /\ n \in Nat /\ k \in Nat /\ n + 1 \in Nat /\ j - Prefix[f] = n /\ ~(j < Prefix[f])
      /\ Prefix[f] + n + 1 = FrameLen(f) /\ 1 + k = Prefix[f] /\ k + (n + 1) = j /\ 1 \in Nat
      /\ j \in Nat /\ j > 0 /\ j < FrameLen(f)
  BY <1>1
<1> HIDE DEF n, k, j
<1>3. toRead = DataLen[f] /\ header = Run(f, 1, k) /\ data = Run(f, Prefix[f], n)
  BY <1>2 DEF InFrame, j, k
<1>4. Append(data, b) = Run(f, Prefix[f], n + 1) /\ Len(data) = n
  <2>1. Append(Run(f, Prefix[f], n), Byte(f, Prefix[f] + n + 1)) = Run(f, Prefix[f], n + 1)
    BY <1>1, <1>2, RunAppend
  <2>2. Len(Run(f, Prefix[f], n)) = n
    BY <1>1, <1>2, RunType
  <2> QED
    BY <1>2, <1>3, <2>1, <2>2
<1>5. header \o Append(data, b) = Run(f, 1, j)
  <2>2. PICK m \in Nat : m = n + 1
    BY <1>2
  <2>3. Run(f, 1, k) \o Run(f, 1 + k, m) = Run(f, 1, k + m)
    <3>1. 1 \in Nat /\ k \in Nat
      BY <1>2
    <3> QED
      BY <3>1, RunConcat
  <2>1. Run(f, 1, k) \o Run(f, 1 + k, n + 1) = Run(f, 1, k + (n + 1))
    BY <2>2, <2>3
  <2> QED
    BY <1>2, <1>3, <1>4, <2>1
<1>6. ReadData(b)
  <2>1. toRead > 0 /\ toRead # 0
    BY <1>1, <1>3
  <2> QED
    BY <2>1, Zenon DEF Takes
<1>7. ~(Len(data) + 1 < toRead + Postfix)
  BY <1>1, <1>3, <1>4 DEF Postfix, n
<1>8. Complete(Run(f, 1, j))
  BY <1>5, <1>6, <1>7 DEF ReadData
<1>9. ASSUME NEW g \in Frames PROVE IsFrame(g, Run(f, 1, j)) <=> (g = f)
  <2>1. StartOf(g, Run(f, 1, j)) <=> (g = f)
    BY <1>2, StartOwn
  <2>2. Len(Run(f, 1, j)) = FrameLen(f) - 1
    BY <1>2, RunType DEF j
  <2> QED
    BY <2>1, <2>2 DEF IsFrame
<1>10. PICK g \in Frames :
         /\ IsFrame(g, Run(f, 1, j))
         /\ found' = Append(found, g) /\ header' = <<>> /\ toRead' = 0
  BY <1>8, <1>9 DEF Complete, Research
<1> QED
  BY <1>9, <1>10

-----------------------------------------------------------------------------
(* Where the parser is *)

Ghosts ==
  found \in Seq(Frames) /\ damaged \subseteq Frames /\ blind \subseteq Frames /\ escapes \subseteq Frames

\* Inside of a frame that is neither damaged nor blind the parser is in step, ...
InStep ==
  \A f \in Frames :
    End[f - 1] < sent /\ sent < End[f] /\ f \notin damaged \cup blind => InFrame(f, sent - End[f - 1])

\* ... and before a frame it is at the start unless a frame before was damaged.
Between ==
  \A f \in Frames :
    End[f - 1] = sent /\ (\A g \in damaged : ~(g < f)) => toRead = 0 /\ header = <<>>

BlindPast == \A f \in blind : End[f - 1] < sent /\ \E g \in damaged : g < f

EscapesPast ==
  \A f \in escapes :
    f \notin blind /\ End[f - 1] <= sent /\ (End[f - 1] = sent => toRead = 0 /\ header = <<>>)

Recognized ==
  \A f \in Frames :
    End[f] <= sent => (\E i \in DOMAIN found : found[i] = f) \/ f \in damaged \cup blind

\* A header begins behind the address of every frame that was found.
FoundPast ==
  /\ \A i, j \in DOMAIN found : i < j => found[i] < found[j]
  /\ \A j \in DOMAIN found : End[found[j] - 1] + 2 <= sent
  /\ header # <<>> =>
       \E i \in 1..sent : header[1] = Wire[i] /\ \A j \in DOMAIN found : End[found[j] - 1] + 2 < i

FrameInv ==
  Shape /\ Ghosts /\ InStep /\ Between /\ BlindPast /\ EscapesPast /\ Recognized /\ FoundPast

LEMMA Places ==
  ASSUME NEW f \in Frames
  PROVE  /\ End[f - 1] \in Nat /\ End[f] \in Nat /\ FrameLen(f) \in Nat /\ FrameLen(f) > 6
         /\ End[f] = End[f - 1] + FrameLen(f)
         /\ f \in Nat /\ f \in 0..NFrames /\ f - 1 \in 0..NFrames
<1>1. f \in Nat /\ f \in 0..NFrames /\ f - 1 \in 0..NFrames
  BY EmuxAssumption DEF Frames
<1>2. End[f - 1] \in Nat /\ End[f] \in Nat /\ End[f] = End[f - 1] + FrameLen(f)
  BY <1>1, EndType, EndStep
<1>3. FrameLen(f) \in Nat /\ FrameLen(f) > 6
  BY FrameLenType
<1> QED
  BY <1>1, <1>2, <1>3

\* Which frames a place on the wire is inside of, before and behind.
LEMMA At ==
  ASSUME NEW f \in Frames, NEW p \in 1..FrameLen(f), NEW n \in Int, n + 1 = End[f - 1] + p,
         NEW g \in Frames
  PROVE  /\ End[g - 1] < n + 1 /\ n + 1 < End[g] => g = f
         /\ End[g - 1] < n /\ n < End[g] => g = f /\ p > 1
         /\ End[g - 1] = n => g = f
         /\ End[g - 1] = n + 1 => f < g /\ p = FrameLen(f)
         /\ End[g] <= n + 1 => End[g] <= n \/ (g = f /\ p = FrameLen(f))
<1>1. /\ End[f - 1] \in Nat /\ End[f] \in Nat /\ FrameLen(f) \in Nat /\ FrameLen(f) > 6
      /\ End[f] = End[f - 1] + FrameLen(f) /\ f \in Nat /\ f \in 0..NFrames /\ f - 1 \in 0..NFrames
  BY Places
<1>2. /\ End[g - 1] \in Nat /\ End[g] \in Nat /\ FrameLen(g) \in Nat /\ FrameLen(g) > 6
      /\ End[g] = End[g - 1] + FrameLen(g) /\ g \in Nat /\ g \in 0..NFrames /\ g - 1 \in 0..NFrames
  BY Places
<1>3. CASE g = f
  BY <1>1, <1>3
<1>4. CASE g < f
  <2>1. g <= f - 1
    BY <1>1, <1>2, <1>4
  <2>2. End[g] <= End[f - 1]
    BY <1>1, <1>2, <2>1, EndOrder
  <2> QED
    BY <1>1, <1>2, <2>2
<1>5. CASE f < g
  <2>1. f <= g - 1
    BY <1>1, <1>2, <1>5
  <2>2. End[f] <= End[g - 1]
    BY <1>1, <1>2, <2>1, EndOrder
  <2> QED
    BY <1>1, <1>2, <1>5, <2>2
<1> QED
  BY <1>1, <1>2, <1>3, <1>4, <1>5

LEMMA LosesFrames == ASSUME Types, FrameInv, LineLoses PROVE FrameInv'
<1>1. /\ sent \in 0..End[NFrames] /\ sent # End[NFrames] /\ sent' = sent + 1 /\ sent \in Int
      /\ UNCHANGED <<escapes, parseVars, rxVars>>
  <2>1. NFrames \in 0..NFrames
    BY EmuxAssumption
  <2>2. End[NFrames] \in Nat
    BY <2>1, EndType
  <2> QED
    BY <2>2 DEF Types, LineLoses
<1>2. PICK f \in Frames : \E p \in 1..FrameLen(f) :
        sent + 1 = End[f - 1] + p /\ FrameOf(sent + 1) = f /\ Wire[sent + 1] = Byte(f, p)
  BY <1>1, NextOf
<1>3. PICK p \in 1..FrameLen(f) : sent + 1 = End[f - 1] + p /\ FrameOf(sent + 1) = f
  BY <1>2
<1>4. damaged' = damaged \cup {f}
  BY <1>3 DEF LineLoses
<1>5. ASSUME NEW g \in Frames
      PROVE  /\ End[g - 1] < sent + 1 /\ sent + 1 < End[g] => g = f
             /\ End[g - 1] = sent + 1 => f < g
             /\ End[g] <= sent + 1 => End[g] <= sent \/ g = f
             /\ End[g - 1] \in Nat /\ End[g] \in Nat
  BY <1>1, <1>3, At, Places
<1>6. Shape' /\ Ghosts'
  BY <1>1, <1>4 DEF FrameInv, Shape, Ghosts
<1>7. InStep'
  BY <1>1, <1>4, <1>5 DEF InStep
<1>8. Between'
  BY <1>1, <1>4, <1>5 DEF Between
<1>9. BlindPast'
  BY <1>1, <1>4, <1>5 DEF FrameInv, BlindPast, Ghosts
<1>10. EscapesPast'
  BY <1>1, <1>5 DEF FrameInv, EscapesPast, Ghosts
<1>11. Recognized'
  BY <1>1, <1>4, <1>5 DEF FrameInv, Recognized
<1>12. FoundPast'
  <2>1. FoundPast /\ found \in Seq(Frames)
    BY DEF FrameInv, Ghosts
  <2>2. \A j \in DOMAIN found : found[j] \in Frames
    BY <2>1, ElementOfSeq, LenProperties
  <2>3. \A j \in DOMAIN found : End[found[j] - 1] + 2 <= sent + 1
    BY <1>1, <1>5, <2>1, <2>2 DEF FoundPast
  <2>4. 1..sent \subseteq 1..(sent + 1)
    BY <1>1
  <2> QED
    BY <1>1, <2>1, <2>3, <2>4 DEF FoundPast
<1> QED
  BY <1>6, <1>7, <1>8, <1>9, <1>10, <1>11, <1>12 DEF FrameInv

LEMMA EscapeFrames == ASSUME Types, FrameInv, Escape PROVE FrameInv'
<1>1. /\ sent' = sent /\ sent \in Int /\ UNCHANGED <<damaged, rxVars>> /\ rxpc = "parse"
      /\ preamble' = FALSE /\ header' = <<>> /\ toRead' = 0 /\ data' = <<>>
  <2>1. NFrames \in 0..NFrames
    BY EmuxAssumption
  <2>2. End[NFrames] \in Nat
    BY <2>1, EndType
  <2> QED
    BY <2>2 DEF Types, Escape, Research
<1>2. PICK h \in 0..(NFrames - 1) : sent = End[h] /\ escapes' = escapes \cup {h + 1}
  BY DEF Escape
<1>3. PICK f \in Frames : f = h + 1
  BY EmuxAssumption DEF Frames
<1>4. sent = End[f - 1] /\ escapes' = escapes \cup {f} /\ 1 \in 1..FrameLen(f) /\ sent + 1 = End[f - 1] + 1
  <2>1. f - 1 = h
    BY <1>2, <1>3, EmuxAssumption
  <2> QED
    BY <1>2, <1>3, <2>1, Places
<1>5. ASSUME NEW g \in Frames
      PROVE  ~(End[g - 1] < sent /\ sent < End[g])
  BY <1>1, <1>4, At
<1>6. Shape' /\ Ghosts'
  <2>1. Len(<<>>) = 0
    BY EmptySeq
  <2> QED
    <3>1. Shape'
      <4>1. preamble' \in BOOLEAN /\ Len(header') = 0
        BY <1>1, <2>1
      <4> QED
        BY <1>1, <4>1 DEF Shape
    <3>2. Ghosts'
      BY <1>1, <1>4 DEF FrameInv, Ghosts
    <3> QED
      BY <3>1, <3>2
<1>7. InStep'
  BY <1>1, <1>5 DEF InStep
<1>8. Between' /\ BlindPast' /\ Recognized' /\ FoundPast'
  BY <1>1 DEF FrameInv, Between, BlindPast, Recognized, FoundPast
<1>9. EscapesPast'
  <2>1. f \notin blind
    BY <1>1, <1>4, Places DEF FrameInv, BlindPast
  <2>2. End[f - 1] <= sent
    BY <1>1, <1>4
  <2> QED
    BY <1>1, <1>4, <2>1, <2>2 DEF FrameInv, EscapesPast
<1> QED
  BY <1>6, <1>7, <1>8, <1>9 DEF FrameInv

\* A byte is added to the header, or one of the frames is complete.
LEMMA HeaderStep ==
  ASSUME Shape, NEW b, Takes(b)
  PROVE  \/ found' = found /\ header' \in {header, <<>>, Append(header, b)}
         \/ /\ header # <<>> /\ header' = <<>>
            /\ \E g \in Frames : found' = Append(found, g) /\ IsFrame(g, header \o Append(data, b))
<1>1. CASE toRead > 0 /\ ReadData(b)
  <2>1. CASE data' = Append(data, b) /\ UNCHANGED <<preamble, header, toRead, rxpc, port, found>>
    BY <2>1
  <2>2. CASE Complete(header \o Append(data, b))
    BY <1>1, <2>2 DEF Complete, Research, Shape
  <2> QED
    BY <1>1, <2>1, <2>2 DEF ReadData
<1>2. CASE UNCHANGED <<parseVars, rxpc, port, found>>
  BY <1>2
<1>3. CASE ReadHeader(b)
  BY <1>3 DEF ReadHeader
<1>4. CASE FindFlag(b)
  BY <1>4 DEF FindFlag
<1> QED
  BY <1>1, <1>2, <1>3, <1>4, Zenon DEF Takes

LEMMA ShapeStep ==
  ASSUME Types, Shape, rxpc = "parse", NEW b \in Bytes, Takes(b)
  PROVE  Shape'
<1>1. /\ header \in Seq(Bytes) /\ toRead \in Nat /\ preamble \in BOOLEAN /\ Len(header) \in Nat
      /\ Len(header) <= 4
  BY LenProperties DEF Types, Shape
<1>2. Append(header, b) \in Seq(Bytes) /\ Len(Append(header, b)) = Len(header) + 1
  BY <1>1, AppendProperties
<1>3. Len(<<>>) = 0 /\ Append(header, b) # <<>>
  BY <1>1, <1>2, EmptySeq
<1>4. CASE toRead > 0 /\ ReadData(b)
  <2>1. CASE data' = Append(data, b) /\ UNCHANGED <<preamble, header, toRead, rxpc, port, found>>
    BY <1>1, <1>4, <2>1 DEF Shape
  <2>2. CASE Complete(header \o Append(data, b))
    <3>1. toRead' = 0 /\ header' = <<>> /\ preamble' = FALSE /\ (rxpc' = "parse" => data' = <<>>)
      BY <2>2 DEF Complete, Research
    <3>2. preamble' \in BOOLEAN /\ Len(header') = 0
      BY <1>3, <3>1
    <3> QED
      BY <3>1, <3>2 DEF Shape
  <2> QED
    BY <1>4, <2>1, <2>2 DEF ReadData
<1>5. CASE UNCHANGED <<parseVars, rxpc, port, found>>
  BY <1>5 DEF Shape
<1>6. CASE toRead = 0 /\ ReadHeader(b)
  <2>1. data' = data /\ rxpc' = rxpc /\ data = <<>> /\ Len(header) <= 3
    BY <1>6 DEF ReadHeader, Shape
  <2>2. CASE header' = Append(header, b) /\ UNCHANGED <<preamble, toRead>> /\ Len(header) + 1 <= 3
    BY <1>1, <1>2, <1>3, <1>6, <2>1, <2>2 DEF Shape
  <2>3. CASE \E n \in LengthIn(Append(header, b)) :
               /\ toRead' = n
               /\ preamble' = (n > 0)
               /\ header' = IF n > 0 THEN Append(header, b) ELSE <<>>
    <3>1. PICK n \in LengthIn(Append(header, b)) :
            toRead' = n /\ preamble' = (n > 0) /\ header' = IF n > 0 THEN Append(header, b) ELSE <<>>
      BY <2>3
    <3>2. preamble' \in BOOLEAN
      BY <3>1
    <3>3. CASE n > 0
      <4>1. header' = Append(header, b) /\ toRead' = n /\ ~(n = 0)
        BY <3>1, <3>3
      <4> QED
        BY <1>1, <1>2, <1>3, <2>1, <3>2, <4>1 DEF Shape
    <3>4. CASE ~(n > 0)
      <4>1. header' = <<>> /\ toRead' = n
        BY <3>1, <3>4
      <4>2. Len(header') = 0 /\ ~(toRead' > 0)
        BY <1>3, <3>4, <4>1
      <4> QED
        BY <2>1, <3>2, <4>1, <4>2, <1>6 DEF Shape
    <3> QED
      BY <3>3, <3>4
  <2>4. \/ Len(Append(header, b)) <= 3 /\ header' = Append(header, b) /\ UNCHANGED <<preamble, toRead>>
        \/ \E n \in LengthIn(Append(header, b)) :
             /\ toRead' = n
             /\ preamble' = (n > 0)
             /\ header' = IF n > 0 THEN Append(header, b) ELSE <<>>
    <3>1. (Len(Append(header, b)) < 3 \/ Len(Append(header, b)) = 3) => Len(Append(header, b)) <= 3
      BY <1>1, <1>2
    <3> QED
      BY <1>6, <3>1, Zenon DEF ReadHeader
  <2> QED
    BY <1>2, <2>2, <2>3, <2>4
<1>7. CASE toRead = 0 /\ FindFlag(b)
  <2>1. header' = <<>> /\ UNCHANGED <<toRead, data, rxpc>> /\ preamble' \in BOOLEAN
    BY <1>7 DEF FindFlag, IsFlag
  <2>2. Len(header') = 0
    BY <1>3, <2>1
  <2> QED
    BY <1>7, <2>1, <2>2 DEF Shape
<1> QED
  BY <1>4, <1>5, <1>6, <1>7, Zenon DEF Takes

\* The frame whose address the header has is behind all that were found.
LEMMA FoundBehind ==
  ASSUME Types, Ghosts, FoundPast, header # <<>>, NEW b \in Bytes,
         NEW g \in Frames, IsFrame(g, header \o Append(data, b))
  PROVE  /\ End[g - 1] + 2 <= sent
         /\ \A j \in DOMAIN found : found[j] \in Frames /\ found[j] < g
<1> DEFINE s == header \o Append(data, b)
<1>1. /\ header \in Seq(Bytes) /\ Len(header) \in Nat /\ Len(header) >= 1
      /\ Append(data, b) \in Seq(Bytes)
  BY EmptySeq, LenProperties, AppendProperties DEF Types
<1>2. s \in Seq(Bytes) /\ 1 \in DOMAIN s /\ s[1] = header[1]
  BY <1>1, ConcatProperties, LenProperties
<1> HIDE DEF s
<1>3. SameValue(s[1], Byte(g, 2))
  <2>1. SameValue(s[1], Byte(g, 1 + 1))
    BY <1>2 DEF IsFrame, StartOf, s
  <2> QED
    BY <2>1
<1>4. header[1] = Byte(g, 2)
  BY <1>2, <1>3, AddressOwn
<1>5. PICK i \in 1..sent : header[1] = Wire[i] /\ \A j \in DOMAIN found : End[found[j] - 1] + 2 < i
  BY DEF FoundPast
<1>6. NFrames \in 0..NFrames /\ End[NFrames] \in Nat
  <2>1. NFrames \in 0..NFrames
    BY EmuxAssumption
  <2> QED
    BY <2>1, EndType
<1>7. i - 1 \in 0..End[NFrames] /\ i - 1 # End[NFrames] /\ (i - 1) + 1 = i
  BY <1>5, <1>6 DEF Types
<1>8. PICK f \in Frames : \E p \in 1..FrameLen(f) : i = End[f - 1] + p /\ Wire[i] = Byte(f, p)
  BY <1>7, NextOf
<1>9. PICK p \in 1..FrameLen(f) : i = End[f - 1] + p /\ Wire[i] = Byte(f, p)
  BY <1>8
<1>10. f = g /\ p = 2
  BY <1>4, <1>5, <1>9 DEF Byte
<1>11. i = End[g - 1] + 2 /\ sent \in Nat
  BY <1>6, <1>9, <1>10 DEF Types
<1>12. ASSUME NEW j \in DOMAIN found PROVE found[j] \in Frames /\ found[j] < g
  <2>1. found[j] \in Frames
    BY ElementOfSeq, LenProperties DEF Ghosts
  <2>2. PICK h \in Frames : h = found[j]
    BY <2>1
  <2>3. End[h - 1] + 2 < End[g - 1] + 2
    BY <1>5, <1>11, <2>2
  <2>4. /\ End[h - 1] \in Nat /\ End[g - 1] \in Nat /\ h \in Nat /\ g \in Nat
        /\ h - 1 \in 0..NFrames /\ g - 1 \in 0..NFrames
    BY Places
  <2>5. ~(g <= h)
    <3>1. SUFFICES ASSUME g <= h PROVE FALSE
      OBVIOUS
    <3>2. g - 1 <= h - 1
      BY <2>4, <3>1
    <3>3. End[g - 1] <= End[h - 1]
      BY <2>4, <3>2, EndOrder
    <3> QED
      BY <2>3, <2>4, <3>3
  <2> QED
    BY <2>1, <2>2, <2>4, <2>5
<1> QED
  BY <1>5, <1>11, <1>12

LEMMA FoundStep ==
  ASSUME Types, Shape, Ghosts, FoundPast, sent < End[NFrames], sent' = sent + 1,
         NEW b \in Bytes, b = Wire[sent + 1], Takes(b)
  PROVE  FoundPast' /\ found' \in Seq(Frames) /\ (found' = found \/ \E g \in Frames : found' = Append(found, g))
<1>1. found \in Seq(Frames) /\ Len(found) \in Nat /\ DOMAIN found = 1..Len(found)
  BY LenProperties DEF Ghosts
<1>2. \A j \in DOMAIN found : found[j] \in Frames /\ End[found[j] - 1] \in Nat
  <2>1. \A j \in DOMAIN found : found[j] \in Frames
    BY <1>1, ElementOfSeq
  <2> QED
    BY <2>1, Places
<1>3. sent \in Nat /\ header \in Seq(Bytes) /\ Len(header) \in Nat
  <2>1. NFrames \in 0..NFrames
    BY EmuxAssumption
  <2>2. End[NFrames] \in Nat
    BY <2>1, EndType
  <2> QED
    BY <2>2, LenProperties DEF Types
<1>4. CASE found' = found /\ header' \in {header, <<>>, Append(header, b)}
  <2>1. \A j \in DOMAIN found : End[found[j] - 1] + 2 <= sent + 1
    BY <1>2, <1>3 DEF FoundPast
  <2>2. header' # <<>> =>
          \E i \in 1..(sent + 1) : header'[1] = Wire[i] /\ \A j \in DOMAIN found : End[found[j] - 1] + 2 < i
    <3>1. SUFFICES ASSUME header' # <<>> PROVE \E i \in 1..(sent + 1) :
             header'[1] = Wire[i] /\ \A j \in DOMAIN found : End[found[j] - 1] + 2 < i
      OBVIOUS
    <3>2. CASE header # <<>>
      <4>1. PICK i \in 1..sent : header[1] = Wire[i] /\ \A j \in DOMAIN found : End[found[j] - 1] + 2 < i
        BY <3>2 DEF FoundPast
      <4>2. Len(header) >= 1
        BY <1>3, <3>2, EmptySeq
      <4>3. Append(header, b)[1] = header[1]
        BY <1>3, <4>2, AppendProperties
      <4>4. header'[1] = header[1] /\ i \in 1..(sent + 1)
        BY <1>3, <1>4, <3>1, <4>1, <4>3
      <4> QED
        BY <4>1, <4>4
    <3>3. CASE header = <<>>
      <4>1. header' = Append(<<>>, b)
        BY <1>4, <3>1, <3>3
      <4>2. header'[1] = b
        <5>1. <<>> \in Seq(Bytes) /\ Len(<<>>) = 0
          BY EmptySeq
        <5>2. Append(<<>>, b)[Len(<<>>) + 1] = b
          BY <5>1, AppendProperties
        <5> QED
          BY <4>1, <5>1, <5>2
      <4>3. \A j \in DOMAIN found : End[found[j] - 1] + 2 < sent + 1
        BY <1>2, <1>3 DEF FoundPast
      <4>4. sent + 1 \in 1..(sent + 1)
        BY <1>3
      <4> QED
        BY <4>2, <4>3, <4>4
    <3> QED
      BY <3>2, <3>3
  <2> QED
    BY <1>1, <1>4, <2>1, <2>2 DEF FoundPast
<1>5. CASE /\ header # <<>> /\ header' = <<>>
           /\ \E g \in Frames : found' = Append(found, g) /\ IsFrame(g, header \o Append(data, b))
  <2>1. PICK g \in Frames : found' = Append(found, g) /\ IsFrame(g, header \o Append(data, b))
    BY <1>5
  <2>2. End[g - 1] + 2 <= sent /\ \A j \in DOMAIN found : found[j] < g
    BY <1>5, <2>1, FoundBehind
  <2>3. /\ found' \in Seq(Frames) /\ Len(found') = Len(found) + 1
        /\ \A j \in 1..Len(found) : found'[j] = found[j]
        /\ found'[Len(found) + 1] = g
    BY <1>1, <2>1, AppendProperties
  <2>4. DOMAIN found' = 1..(Len(found) + 1)
    BY <2>3, LenProperties
  <2>5. ASSUME NEW i \in DOMAIN found', NEW j \in DOMAIN found', i < j
        PROVE  found'[i] < found'[j]
    <3>1. i \in DOMAIN found /\ found'[i] = found[i]
      BY <1>1, <2>3, <2>4, <2>5
    <3>2. CASE j = Len(found) + 1
      BY <2>2, <2>3, <3>1, <3>2
    <3>3. CASE j # Len(found) + 1
      <4>1. j \in DOMAIN found /\ found'[j] = found[j]
        BY <1>1, <2>3, <2>4, <3>3
      <4> QED
        BY <2>5, <3>1, <4>1 DEF FoundPast
    <3> QED
      BY <3>2, <3>3
  <2>6. ASSUME NEW j \in DOMAIN found'
        PROVE  End[found'[j] - 1] + 2 <= sent + 1
    <3>1. CASE j = Len(found) + 1
      <4>1. found'[j] = g /\ End[g - 1] \in Nat
        BY <2>3, <3>1, Places
      <4> QED
        BY <1>3, <2>2, <4>1
    <3>2. CASE j # Len(found) + 1
      <4>1. j \in DOMAIN found /\ found'[j] = found[j]
        BY <1>1, <2>3, <2>4, <3>2
      <4> QED
        BY <1>2, <1>3, <4>1 DEF FoundPast
    <3> QED
      BY <3>1, <3>2
  <2> QED
    BY <1>5, <2>1, <2>3, <2>5, <2>6 DEF FoundPast
<1> QED
  BY <1>4, <1>5, HeaderStep

\* A frame that is neither damaged nor blind stays in step.
LEMMA StepInFrame ==
  ASSUME NEW f \in Frames, NEW p \in 1..FrameLen(f), p > 1, InFrame(f, p - 1), Takes(Byte(f, p))
  PROVE  IF p = FrameLen(f)
           THEN found' = Append(found, f) /\ toRead' = 0 /\ header' = <<>>
           ELSE InFrame(f, p)'
<1>1. /\ Prefix[f] \in Nat /\ FrameLen(f) \in Nat /\ Prefix[f] < FrameLen(f)
  BY FrameLenType
<1>2. PICK j \in Nat : j = p - 1
  BY <1>1
<1>3. 1 <= j /\ j + 1 = p
  BY <1>1, <1>2
<1>4. CASE p = FrameLen(f)
  BY <1>2, <1>4, FrameEnds
<1>5. CASE p # FrameLen(f) /\ j < Prefix[f]
  BY <1>2, <1>3, <1>5, HeaderGoesOn
<1>6. CASE p # FrameLen(f) /\ ~(j < Prefix[f])
  <2>1. j + 1 < FrameLen(f) /\ Prefix[f] <= j
    BY <1>1, <1>3, <1>6
  <2> QED
    BY <1>2, <1>3, <1>6, <2>1, DataGoesOn
<1> QED
  BY <1>4, <1>5, <1>6

LEMMA ByteFrames == ASSUME Types, FrameInv, RxByte PROVE FrameInv'
<1> DEFINE n == sent
           b == Wire[sent + 1]
<1>1. /\ sent \in 0..End[NFrames] /\ sent # End[NFrames] /\ sent' = sent + 1 /\ sent \in Nat
      /\ sent < End[NFrames] /\ rxpc = "parse"
      /\ UNCHANGED <<damaged, escapes>>
  <2>1. NFrames \in 0..NFrames
    BY EmuxAssumption
  <2>2. End[NFrames] \in Nat
    BY <2>1, EndType
  <2> QED
    BY <2>2 DEF Types, RxByte
<1>2. PICK f \in Frames : \E p \in 1..FrameLen(f) :
        sent + 1 = End[f - 1] + p /\ FrameOf(sent + 1) = f /\ Wire[sent + 1] = Byte(f, p)
  BY <1>1, NextOf
<1>3. PICK p \in 1..FrameLen(f) : sent + 1 = End[f - 1] + p /\ b = Byte(f, p)
  BY <1>2
<1>4. Takes(b) /\ b \in Bytes
  <2>1. b \in Bytes
    BY <1>1, WireType
  <2> QED
    BY <2>1, Zenon DEF RxByte, Takes
<1>5. blind' = IF p = 1 /\ (toRead > 0 \/ header # <<>>) THEN blind \cup {f} ELSE blind
  BY <1>3 DEF RxByte, Byte
<1> HIDE DEF b
<1>6. ASSUME NEW g \in Frames
      PROVE  /\ End[g - 1] < sent + 1 /\ sent + 1 < End[g] => g = f
             /\ End[g - 1] = sent => g = f
             /\ End[g - 1] = sent + 1 => f < g /\ p = FrameLen(f)
             /\ End[g] <= sent + 1 => End[g] <= sent \/ (g = f /\ p = FrameLen(f))
             /\ End[g - 1] \in Nat /\ End[g] \in Nat
  BY <1>1, <1>3, At, Places
<1>7. /\ End[f - 1] \in Nat /\ FrameLen(f) \in Nat /\ FrameLen(f) > 6 /\ f \in Nat
      /\ End[f] = End[f - 1] + FrameLen(f)
  BY Places
<1>8. Shape'
  BY <1>1, <1>4, ShapeStep DEF FrameInv
<1>9. FoundPast' /\ found' \in Seq(Frames) /\ (found' = found \/ \E g \in Frames : found' = Append(found, g))
  BY <1>1, <1>4, FoundStep DEF FrameInv, b
<1>10. Ghosts'
  BY <1>1, <1>5, <1>9 DEF FrameInv, Ghosts
<1>11. ASSUME p > 1, f \notin damaged, f \notin blind
       PROVE  IF p = FrameLen(f)
                THEN found' = Append(found, f) /\ toRead' = 0 /\ header' = <<>>
                ELSE InFrame(f, p)'
  <2>1. End[f - 1] < sent /\ sent < End[f] /\ sent - End[f - 1] = p - 1
    BY <1>1, <1>3, <1>7, <1>11
  <2>2. InFrame(f, p - 1)
    BY <1>11, <2>1 DEF FrameInv, InStep
  <2> QED
    BY <1>3, <1>4, <1>11, <2>2, StepInFrame
<1>12. InStep'
  <2>1. SUFFICES ASSUME NEW g \in Frames, End[g - 1] < sent', sent' < End[g],
                        g \notin damaged', g \notin blind'
                 PROVE  InFrame(g, sent - End[g - 1])'
    BY DEF InStep
  <2>2. g = f /\ sent' - End[f - 1] = p /\ p # FrameLen(f)
    BY <1>1, <1>3, <1>6, <1>7, <2>1
  <2>3. InFrame(f, p)'
    <3>1. CASE p = 1
      <4>1. toRead = 0 /\ header = <<>>
        BY <1>5, <2>1, <2>2, <3>1 DEF Types
      <4> QED
        BY <1>1, <1>3, <1>4, <3>1, <4>1, FrameBegins DEF FrameInv
    <3>2. CASE p # 1
      <4>1. p > 1 /\ f \notin blind /\ f \notin damaged
        BY <1>1, <1>5, <2>1, <2>2, <3>2
      <4> QED
        BY <1>11, <2>2, <4>1
    <3> QED
      BY <3>1, <3>2
  <2> QED
    BY <2>2, <2>3 DEF InFrame
<1>13. Between'
  <2>1. SUFFICES ASSUME NEW g \in Frames, End[g - 1] = sent + 1, \A d \in damaged : ~(d < g)
                 PROVE  toRead' = 0 /\ header' = <<>>
    BY <1>1 DEF Between
  <2>2. f < g /\ p = FrameLen(f) /\ g \in Nat
    BY <1>6, <2>1, Places
  <2>3. f \notin damaged
    BY <2>1, <2>2
  <2>4. f \notin blind
    <3>1. SUFFICES ASSUME f \in blind PROVE FALSE
      OBVIOUS
    <3>2. PICK d \in damaged : d < f
      BY <3>1 DEF FrameInv, BlindPast
    <3>3. d \in Nat /\ d < g
      BY <1>7, <2>2, <3>2, Places DEF FrameInv, Ghosts
    <3> QED
      BY <2>1, <3>3
  <2> QED
    BY <1>7, <1>11, <2>2, <2>3, <2>4
<1>14. p = 1 => sent = End[f - 1]
  BY <1>1, <1>3, <1>7
<1>15. BlindPast'
  <2>1. SUFFICES ASSUME NEW g \in blind'
                 PROVE  End[g - 1] < sent + 1 /\ \E d \in damaged : d < g
    BY <1>1 DEF BlindPast
  <2>2. CASE g \in blind
    <3>1. g \in Frames /\ End[g - 1] < sent /\ \E d \in damaged : d < g
      BY <2>2 DEF FrameInv, BlindPast, Ghosts
    <3> QED
      BY <1>1, <1>6, <3>1
  <2>3. CASE g = f /\ p = 1 /\ (toRead > 0 \/ header # <<>>)
    <3>1. toRead # 0 \/ header # <<>>
      BY <2>3 DEF Types
    <3> QED
      BY <1>1, <1>6, <1>14, <2>3, <3>1 DEF FrameInv, Between
  <2> QED
    BY <1>5, <2>2, <2>3
<1>16. EscapesPast'
  <2>1. SUFFICES ASSUME NEW g \in escapes
                 PROVE  /\ g \notin blind' /\ End[g - 1] <= sent + 1
                        /\ (End[g - 1] = sent + 1 => toRead' = 0 /\ header' = <<>>)
    BY <1>1 DEF EscapesPast
  <2>2. /\ g \in Frames /\ g \notin blind /\ End[g - 1] <= sent
        /\ (End[g - 1] = sent => toRead = 0 /\ header = <<>>)
    BY DEF FrameInv, EscapesPast, Ghosts
  <2>3. g \notin blind'
    BY <1>5, <1>14, <2>2 DEF Types
  <2> QED
    BY <1>1, <1>6, <2>2, <2>3
<1>17. Recognized'
  <2>1. SUFFICES ASSUME NEW g \in Frames, End[g] <= sent + 1, g \notin damaged, g \notin blind'
                 PROVE  \E i \in DOMAIN found' : found'[i] = g
    BY <1>1 DEF Recognized
  <2>2. found \in Seq(Frames) /\ Len(found) \in Nat /\ DOMAIN found = 1..Len(found)
    BY LenProperties DEF FrameInv, Ghosts
  <2>3. ASSUME NEW h \in Frames, found' = Append(found, h)
        PROVE  /\ DOMAIN found' = 1..(Len(found) + 1)
               /\ \A i \in DOMAIN found : found'[i] = found[i]
               /\ found'[Len(found) + 1] = h
    <3>1. Len(found') = Len(found) + 1
      BY <2>2, <2>3, AppendProperties
    <3>2. DOMAIN found' = 1..(Len(found) + 1)
      BY <1>9, <3>1, LenProperties
    <3>3. \A i \in 1..Len(found) : found'[i] = found[i]
      BY <2>2, <2>3, AppendProperties
    <3>4. found'[Len(found) + 1] = h
      BY <2>2, <2>3, AppendProperties
    <3> QED
      BY <2>2, <3>2, <3>3, <3>4
  <2>4. CASE End[g] <= sent
    <3>1. g \notin blind
      BY <1>5, <2>1
    <3>2. PICK i \in DOMAIN found : found[i] = g
      BY <2>1, <2>4, <3>1 DEF FrameInv, Recognized
    <3>3. CASE found' = found
      BY <3>2, <3>3
    <3>4. CASE \E h \in Frames : found' = Append(found, h)
      <4>1. i \in DOMAIN found' /\ found'[i] = found[i]
        BY <2>2, <2>3, <3>4
      <4> QED
        BY <3>2, <4>1
    <3> QED
      BY <1>9, <3>3, <3>4
  <2>5. CASE ~(End[g] <= sent)
    <3>1. g = f /\ p = FrameLen(f) /\ p > 1
      BY <1>6, <1>7, <2>1, <2>5
    <3>2. f \notin blind
      BY <1>5, <2>1, <3>1
    <3>3. found' = Append(found, f)
      BY <1>11, <2>1, <3>1, <3>2
    <3>4. Len(found) + 1 \in DOMAIN found' /\ found'[Len(found) + 1] = f
      BY <2>2, <2>3, <3>3
    <3> QED
      BY <3>1, <3>4
  <2> QED
    BY <2>4, <2>5
<1> QED
  BY <1>8, <1>9, <1>10, <1>12, <1>13, <1>15, <1>16, <1>17 DEF FrameInv

LEMMA DeliverFrames == ASSUME IInv, FrameInv, Deliver PROVE FrameInv'
<1>1. /\ rxpc # "parse" /\ UNCHANGED <<sent, damaged, escapes, blind, found, header, toRead, preamble>>
      /\ \/ NextByte
         \/ rxpc' = "callback" /\ UNCHANGED data
  BY DEF Deliver, AppFill, AppStore, HalByte, HalDiscard, HalStore, HalStored, NextByte
<1>2. data # <<>> /\ toRead = 0 /\ header = <<>> /\ data \in Seq(Bytes)
  BY <1>1 DEF IInv, DeliveryInv, FrameInv, Shape, Types
<1>3. rxpc' = "parse" => data' = <<>>
  <2>1. SUFFICES ASSUME rxpc' = "parse" PROVE data' = <<>>
    OBVIOUS
  <2>2. data' = Tail(data) /\ Len(data) = 1
    BY <1>1, <2>1 DEF NextByte
  <2>3. Tail(data) \in Seq(Bytes) /\ Len(Tail(data)) = 0
    BY <1>2, <2>2, HeadTailProperties
  <2> QED
    BY <2>2, <2>3, EmptySeq
<1>4. Shape' /\ Ghosts'
  BY <1>1, <1>2, <1>3 DEF FrameInv, Shape, Ghosts
<1>5. InStep'
  BY <1>1 DEF FrameInv, InStep, InFrame
<1> QED
  BY <1>1, <1>4, <1>5 DEF FrameInv, Between, BlindPast, EscapesPast, Recognized, FoundPast

LEMMA InitFrames == ASSUME Init PROVE FrameInv
<1>1. /\ sent = 0 /\ damaged = {} /\ escapes = {} /\ blind = {} /\ found = <<>>
      /\ rxpc = "parse" /\ preamble = FALSE /\ header = <<>> /\ toRead = 0 /\ data = <<>>
  BY DEF Init
<1>2. <<>> \in Seq(Frames) /\ Len(<<>>) = 0 /\ DOMAIN <<>> = {}
  BY EmptySeq
<1>3. Shape /\ Ghosts
  <2>1. preamble \in BOOLEAN /\ Len(header) = 0
    BY <1>1, <1>2
  <2> QED
    BY <1>1, <1>2, <2>1 DEF Shape, Ghosts
<1>4. \A f \in Frames : End[f - 1] \in Nat /\ End[f] \in Nat /\ End[f] > 0
  BY Places
<1>5. InStep /\ Between /\ BlindPast /\ EscapesPast /\ Recognized /\ FoundPast
  BY <1>1, <1>2, <1>4 DEF InStep, Between, BlindPast, EscapesPast, Recognized, FoundPast
<1> QED
  BY <1>3, <1>5 DEF FrameInv

LEMMA NextFrames == ASSUME IInv, FrameInv, [Next]_vars PROVE FrameInv'
<1>1. CASE LineLoses \/ Escape \/ RxByte
  BY <1>1, LosesFrames, EscapeFrames, ByteFrames DEF IInv
<1>2. CASE Deliver
  BY <1>2, DeliverFrames
<1>3. CASE UNCHANGED <<lineVars, parseVars, rxVars>>
  BY <1>3 DEF FrameInv, Shape, Ghosts, InStep, Between, BlindPast, EscapesPast, Recognized, FoundPast,
              InFrame
<1>4. CASE \/ \E n \in use.wanted, callback \in BOOLEAN : AppRead(n, callback)
           \/ AppWoken \/ AppTimeout \/ AppEnd
  BY <1>3, <1>4 DEF AppRead, AppWoken, AppTimeout, AppEnd, EndRead
<1>5. CASE HalRecv
  BY <1>3, <1>5 DEF HalRecv, HalCheck, HalLook, HalWake, HalCopy
<1>6. CASE \/ SendStart \/ SendEnd \/ AbortAsk("again") \/ AbortAsk("terminate") \/ AbortPost
           \/ DelStop \/ DelUnbind \/ DelFree
  BY <1>3, <1>6 DEF SendStart, SendEnd, AbortAsk, AbortPost, DelStop, DelUnbind, Unbound, DelFree
<1> QED
  BY <1>1, <1>2, <1>3, <1>4, <1>5, <1>6 DEF Next

LEMMA FrameInvariance == Spec => [](IInv /\ FrameInv)
<1>1. Init => IInv /\ FrameInv
  BY InitIInv, InitFrames
<1>2. (IInv /\ FrameInv) /\ [Next]_vars => (IInv /\ FrameInv)'
  BY NextIInv, NextFrames
<1> QED
  BY <1>1, <1>2, PTL DEF Spec

\* muxReceiveCallback_MUX_0 recognizes every frame that lost no byte and does not
\* begin inside of what it took for another, once and in order; only a damaged
\* frame makes it lose its place, and an escape sequence gives it back.
THEOREM FramesCorrect == Spec => []FramesDelivered
<1>1. ASSUME FrameInv PROVE FramesDelivered
  <2>1. found \in Seq(Frames) /\ DOMAIN found = 1..Len(found) /\ Len(found) \in Nat
    BY <1>1, LenProperties DEF FrameInv, Ghosts
  <2>2. \A i \in 1..(Len(found) - 1) : found[i] < found[i + 1]
    <3> TAKE i \in 1..(Len(found) - 1)
    <3>1. i \in DOMAIN found /\ i + 1 \in DOMAIN found /\ i < i + 1
      BY <2>1
    <3> QED
      BY <1>1, <3>1 DEF FrameInv, FoundPast
  <2>3. ASSUME NEW f \in Frames, End[f] <= sent
        PROVE  (\E i \in DOMAIN found : found[i] = f) \/ f \in damaged \cup (blind \ escapes)
    BY <1>1, <2>3 DEF FrameInv, Recognized, EscapesPast
  <2>4. \A f \in blind : \E g \in damaged : g < f
    BY <1>1 DEF FrameInv, BlindPast
  <2> QED
    BY <2>2, <2>3, <2>4 DEF FramesDelivered
<1>2. IInv /\ FrameInv => FramesDelivered
  BY <1>1
<1> QED
  BY <1>2, FrameInvariance, PTL

-----------------------------------------------------------------------------
(* Types and sizes *)

Rest ==
  /\ rxpc \in {"parse", "deliver", "callback"} /\ port \in Ports
  /\ Len(ring) < RingSize
  /\ ended \in [result : {"none", "success", "timeout"}, lacks : Nat]
  /\ Len(buff) <= BuffSize /\ sem \in 0..1
  /\ mtx \in BOOLEAN /\ sends \in 0..MaxSends
  /\ abort \in {"none", "again", "terminate"} /\ apc \in {"off", "post"} /\ again \in 0..use.again
  /\ hpc \in {"check", "look", "wait", "copy", "gone"}
  /\ evCB \in BOOLEAN /\ bound \subseteq Ports
  /\ dpc \in {"none", "stopped", "unbound", "freed"}

LEMMA InitRest == ASSUME Init PROVE Rest
<1>1. /\ use \in Uses /\ use.again \in Nat /\ use.ports \subseteq Ports
      /\ RingSize \in Nat /\ RingSize > 0 /\ BuffSize \in Nat /\ MaxSends \in Nat
  BY EmuxAssumption DEF Init
<1>2. Len(<<>>) = 0
  BY EmptySeq
<1>3. Len(ring) < RingSize /\ Len(buff) <= BuffSize /\ sem \in 0..1 /\ sends \in 0..MaxSends
      /\ again \in 0..use.again
  BY <1>1, <1>2 DEF Init
<1>4. mtx \in BOOLEAN /\ evCB \in BOOLEAN /\ bound \subseteq Ports /\ port \in Ports
  <2>1. mtx \in BOOLEAN
    BY DEF Init
  <2>2. evCB \in BOOLEAN
    <3> SUFFICES evCB = TRUE \/ evCB = FALSE
      OBVIOUS
    <3>1. evCB = ("hal" \in bound)
      BY Zenon DEF Init
    <3>2. CASE "hal" \in bound
      BY Zenon, <3>1, <3>2
    <3>3. CASE ~("hal" \in bound)
      <4>1. ("hal" \in bound) = FALSE
        BY <3>3
      <4> QED
        BY Zenon, <3>1, <4>1
    <3> QED
      BY <3>2, <3>3
  <2>3. bound \subseteq Ports
    BY <1>1 DEF Init
  <2>4. port \in Ports
    BY DEF Init, Ports
  <2> QED
    BY <2>1, <2>2, <2>3, <2>4
<1>5. ended \in [result : {"none", "success", "timeout"}, lacks : Nat]
  BY DEF Init
<1>6. /\ hpc \in {"check", "look", "wait", "copy", "gone"}
      /\ dpc \in {"none", "stopped", "unbound", "freed"}
  BY DEF Init
<1> QED
  BY <1>3, <1>4, <1>5, <1>6 DEF Init, Rest

LEMMA LineRest == ASSUME Rest, LineLoses \/ Escape \/ RxByte PROVE Rest'
<1>1. UNCHANGED <<appVars, halVars, use>>
  BY DEF LineLoses, Escape, RxByte
<1>2. rxpc' \in {"parse", "deliver", "callback"} /\ port' \in Ports
  <2>1. CASE UNCHANGED <<rxpc, port>>
    BY <2>1 DEF Rest
  <2>2. ASSUME NEW s, Complete(s)
        PROVE  rxpc' \in {"parse", "deliver", "callback"} /\ port' \in Ports
    <3>1. CASE \E f \in Frames : port' = Port[f] /\ rxpc' \in {"deliver", "parse"}
      BY <3>1, EmuxAssumption
    <3> QED
      BY <2>1, <2>2, <3>1 DEF Complete
  <2>3. CASE LineLoses \/ Escape
    BY <2>1, <2>3 DEF LineLoses, Escape
  <2>4. CASE RxByte
    BY <2>1, <2>2, <2>4 DEF RxByte, ReadData, ReadHeader, FindFlag
  <2> QED
    BY <2>3, <2>4
<1> QED
  BY <1>1, <1>2 DEF Rest

LEMMA AppRest ==
  ASSUME IInv, Rest,
         \/ AppFill \/ AppStore
         \/ \E n \in use.wanted, callback \in BOOLEAN : AppRead(n, callback)
         \/ AppWoken \/ AppTimeout \/ AppEnd
  PROVE  Rest'
<1>1. UNCHANGED <<use, port, halVars>>
  BY DEF AppFill, AppStore, AppRead, AppWoken, AppTimeout, AppEnd, EndRead, NextByte
<1>2. rxpc' \in {"parse", "deliver", "callback"}
  BY DEF Rest, AppFill, AppStore, AppRead, AppWoken, AppTimeout, AppEnd, EndRead, NextByte
<1>3. ended' \in [result : {"none", "success", "timeout"}, lacks : Nat]
  <2>1. dataSize \in Nat /\ ended \in [result : {"none", "success", "timeout"}, lacks : Nat]
    BY DEF IInv, Types, Rest
  <2> QED
    BY <2>1 DEF AppFill, AppStore, AppRead, AppWoken, AppTimeout, AppEnd, EndRead
<1>4. Len(ring') < RingSize
  <2>1. ring \in Seq(Bytes) /\ Len(ring) \in Nat /\ Len(ring) < RingSize /\ RingSize \in Nat
    BY LenProperties, EmuxAssumption DEF IInv, Types, Rest
  <2>2. CASE UNCHANGED ring
    BY <2>1, <2>2
  <2>3. CASE AppStore
    <3>1. data # <<>> /\ Head(data) \in Bytes
      BY <2>3, HeadTailProperties DEF IInv, Types, DeliveryInv, AppStore
    <3>2. Len(Append(ring, Head(data))) = Len(ring) + 1
      BY <2>1, <3>1, AppendProperties
    <3>3. CASE Len(ring) < RingSize - 1 /\ ring' = Append(ring, Head(data))
      BY <2>1, <3>2, <3>3
    <3> QED
      BY <2>2, <2>3, <3>3 DEF AppStore
  <2>4. CASE \E n \in use.wanted, callback \in BOOLEAN : AppRead(n, callback)
    <3>1. PICK n \in use.wanted : \E callback \in BOOLEAN : AppRead(n, callback)
      BY <2>4
    <3>2. n \in Nat
      BY EmuxAssumption DEF IInv, Types
    <3>3. PICK k \in 0..Len(ring) : ring' = SubSeq(ring, k + 1, Len(ring))
      <4>1. \E k \in {IF Len(ring) < n THEN Len(ring) ELSE n} : ring' = SubSeq(ring, k + 1, Len(ring))
        BY <3>1 DEF AppRead
      <4>2. (IF Len(ring) < n THEN Len(ring) ELSE n) \in 0..Len(ring)
        BY <2>1, <3>2
      <4> QED
        BY <4>1, <4>2
    <3>4. Len(ring') = Len(ring) - k
      BY <2>1, <3>3, Suffix
    <3> QED
      BY <2>1, <3>3, <3>4
  <2> QED
    BY <2>2, <2>3, <2>4 DEF AppFill, AppWoken, AppTimeout, AppEnd, EndRead
<1> QED
  BY <1>1, <1>2, <1>3, <1>4 DEF Rest

LEMMA HalRest ==
  ASSUME IInv, Rest,
         \/ HalByte \/ HalDiscard \/ HalStore \/ HalRecv \/ SendStart \/ SendEnd
         \/ AbortAsk("again") \/ AbortAsk("terminate") \/ AbortPost
         \/ DelStop \/ DelUnbind \/ DelFree
  PROVE  Rest'
<1> USE DEF HalRecv
<1>1. UNCHANGED <<use, port, appVars>>
  BY DEF HalByte, HalDiscard, HalStore, HalStored, NextByte, HalCheck, HalLook, HalWake, HalCopy,
         SendStart, SendEnd, AbortAsk, AbortPost, DelStop, DelUnbind, Unbound, DelFree
<1>2. rxpc' \in {"parse", "deliver", "callback"}
  BY DEF Rest, HalByte, HalDiscard, HalStore, HalStored, NextByte, HalCheck, HalLook, HalWake, HalCopy,
         SendStart, SendEnd, AbortAsk, AbortPost, DelStop, DelUnbind, Unbound, DelFree
<1>3. sem' \in 0..1 /\ Len(buff') <= BuffSize
  <2>1. buff \in Seq(Bytes) /\ Len(buff) \in Nat /\ Len(buff) <= BuffSize /\ BuffSize \in Nat
        /\ rp \in 0..Len(buff) /\ sem \in 0..1
    BY LenProperties, EmuxAssumption DEF IInv, Types, Rest
  <2>2. CASE HalStore
    <3>1. data # <<>> /\ Head(data) \in Bytes
      BY <2>2, HeadTailProperties DEF IInv, Types, DeliveryInv, HalStore, HalStored
    <3>2. /\ sem' = 1 /\ ~(Full /\ rp = 0)
          /\ buff' = Append(IF Full THEN Unspent ELSE buff, Head(data))
      BY <2>2 DEF HalStore, HalStored
    <3>3. Unspent \in Seq(Bytes) /\ Len(Unspent) = Len(buff) - rp
      BY <2>1, Suffix DEF Unspent
    <3>4. CASE Full
      <4>1. Len(buff') = Len(Unspent) + 1
        BY <3>1, <3>2, <3>3, <3>4, AppendProperties
      <4>2. rp # 0
        BY <3>2, <3>4
      <4> QED
        BY <2>1, <3>2, <3>3, <4>1, <4>2
    <3>5. CASE ~Full
      <4>1. Len(buff') = Len(buff) + 1
        BY <2>1, <3>1, <3>2, <3>5, AppendProperties
      <4>2. Len(buff) # BuffSize
        BY <3>5 DEF Full
      <4> QED
        BY <2>1, <3>2, <4>1, <4>2
    <3> QED
      BY <3>4, <3>5
  <2>3. CASE buff' = buff /\ sem' \in {sem, 0, 1}
    BY <2>1, <2>3
  <2> QED
    BY <2>2, <2>3
    DEF HalByte, HalDiscard, NextByte, HalCheck, HalLook, HalWake, HalCopy,
        SendStart, SendEnd, AbortAsk, AbortPost, DelStop, DelUnbind, Unbound, DelFree
<1>4. mtx' \in BOOLEAN /\ sends' \in 0..MaxSends
  <2>1. sends \in 0..MaxSends /\ MaxSends \in Nat
    BY EmuxAssumption DEF Rest
  <2>2. CASE SendStart
    <3>1. mtx' = TRUE /\ sends < MaxSends /\ sends' = sends + 1
      BY <2>2 DEF SendStart
    <3> QED
      BY <2>1, <3>1
  <2>3. CASE SendEnd
    <3>1. mtx' = FALSE /\ sends' = sends
      BY <2>3 DEF SendEnd
    <3> QED
      BY <2>1, <3>1
  <2>4. CASE UNCHANGED <<mtx, sends>>
    BY <2>4 DEF Rest
  <2> QED
    BY <2>2, <2>3, <2>4
    DEF HalByte, HalDiscard, HalStore, HalStored, NextByte, HalCheck, HalLook, HalWake, HalCopy,
        AbortAsk, AbortPost, DelStop, DelUnbind, Unbound, DelFree
<1>5. again' \in 0..use.again
  <2>1. use.again \in Nat
    BY EmuxAssumption DEF IInv, Types
  <2> QED
    BY <2>1
    DEF Rest, HalByte, HalDiscard, HalStore, HalStored, NextByte, HalCheck, HalLook, HalWake, HalCopy,
        SendStart, SendEnd, AbortAsk, AbortPost, DelStop, DelUnbind, Unbound, DelFree
<1>6. /\ abort' \in {"none", "again", "terminate"} /\ apc' \in {"off", "post"}
      /\ dpc' \in {"none", "stopped", "unbound", "freed"}
  BY DEF Rest, HalByte, HalDiscard, HalStore, HalStored, NextByte, HalCheck, HalLook, HalWake, HalCopy,
         SendStart, SendEnd, AbortAsk, AbortPost, DelStop, DelUnbind, Unbound, DelFree
<1>7. hpc' \in {"check", "look", "wait", "copy", "gone"}
  BY DEF Rest, HalByte, HalDiscard, HalStore, HalStored, NextByte, HalCheck, HalLook, HalWake, HalCopy,
         SendStart, SendEnd, AbortAsk, AbortPost, DelStop, DelUnbind, Unbound, DelFree
<1>8. evCB' \in BOOLEAN /\ bound' \subseteq Ports
  BY DEF Rest, HalByte, HalDiscard, HalStore, HalStored, NextByte, HalCheck, HalLook, HalWake, HalCopy,
         SendStart, SendEnd, AbortAsk, AbortPost, DelStop, DelUnbind, Unbound, DelFree
<1>9. Len(ring') < RingSize /\ ended' \in [result : {"none", "success", "timeout"}, lacks : Nat] /\ port' \in Ports
  BY <1>1 DEF Rest
<1>10. again' \in 0..use'.again
  BY <1>1, <1>5
<1> QED
  BY <1>2, <1>3, <1>4, <1>6, <1>7, <1>8, <1>9, <1>10 DEF Rest

\* Every variable keeps its type; the ring buffer always has a byte free, the
\* buffer of the HAL is never overfilled and read only up to what was written, and
\* a header has at most four bytes.
THEOREM TypeCorrect == Spec => []TypeOK
<1>1. Init => Rest
  BY InitRest
<1>2. IInv /\ Rest /\ [Next]_vars => Rest'
  <2> SUFFICES ASSUME IInv, Rest, [Next]_vars PROVE Rest'
    OBVIOUS
  <2>1. CASE Next
    BY <2>1, LineRest, AppRest, HalRest DEF Next, Deliver
  <2>2. CASE UNCHANGED vars
    BY <2>2 DEF Rest
  <2> QED
    BY <2>1, <2>2
<1>3. IInv /\ FrameInv /\ Rest => TypeOK
  BY DEF IInv, Types, FrameInv, Shape, Ghosts, Rest, TypeOK
<1> QED
  BY <1>1, <1>2, <1>3, FrameInvariance, PTL DEF Spec
=============================================================================
