--------------------------- MODULE Kvpfs_proofs ---------------------------
(***************************************************************************)
(* Theorems about the key-value file system, proved for every number of    *)
(* keys, values, slots and power losses.                                   *)
(***************************************************************************)
EXTENDS Kvpfs, FiniteSetTheorems, TLAPS

-----------------------------------------------------------------------------
(* The inductive invariant *)

Plain     == Entries \cup {Zero}
Sums      == {Crc(m) : m \in Seq(Plain)}
Slots     == Plain \cup Sums
BankSlots == Slots \cup {Blank, Junk}

KvType ==
  /\ primary \in [1..Cap -> BankSlots] /\ backup \in [1..Cap -> BankSlots]
  /\ mode \in {"off", "boot", "run", "fault"}
  /\ mirror \in Seq(Slots) /\ Len(mirror) <= Cap
  /\ list \in Seq(Entries)
  /\ linked \in BOOLEAN /\ doErase \in BOOLEAN /\ saved \in BOOLEAN
  /\ orphans \in 0..Cap
  /\ crashes \in 0..MaxCrashes

Distinct(m) ==
  \A i, j \in DOMAIN m :
    (i # j /\ m[i].kind = "env" /\ m[j].kind = "env") => m[i].key # m[j].key

\* A mirror that can be written: entries, zeros, and the CRC entry at its end.
Closed(m) ==
  /\ m \in Seq(Slots)
  /\ Len(m) \in 1..Cap
  /\ \A i \in 1..(Len(m) - 1) : m[i] \in Plain
  /\ m[Len(m)] = Crc(SubSeq(m, 1, Len(m) - 1))
  /\ Distinct(m)

\* A bank that holds such a mirror and nothing else.
Clean(b)  == Closed(UsedPart(b)) /\ b = Image(UsedPart(b))
Stable(b) == b = BlankBank \/ Clean(b)

\* Mirror m can be written over bank b without an erasure.
Covers(m, b) ==
  \A i \in 1..Cap : b[i] = Blank \/ b[i] = Image(m)[i] \/ Image(m)[i] = Zero

\* The power is off: what kvpfs_init will find.
OffInv ==
  mode = "off" =>
    /\ jobs = <<>>
    /\ Valid(primary) => Clean(primary)
    /\ Valid(backup) => Clean(backup)
    /\ Valid(primary) /\ Valid(backup) => primary = backup
    /\ saved => Valid(primary) \/ Valid(backup)

\* kvpfs_init repairs a bank from the other one, or erases both.
BootInv ==
  mode = "boot" =>
    /\ Closed(mirror) /\ list = <<>>
    /\ \/ jobs = EraseAndWrite("primary") /\ ~Valid(primary) /\ backup = Image(mirror)
       \/ jobs = <<<<"write", "primary">>>> /\ primary = BlankBank /\ backup = Image(mirror)
       \/ jobs = EraseAndWrite("backup") /\ ~Valid(backup) /\ primary = Image(mirror)
       \/ jobs = <<<<"write", "backup">>>> /\ backup = BlankBank /\ primary = Image(mirror)
       \/ /\ jobs = <<<<"erase", "primary">>, <<"erase", "backup">>>>
          /\ ~Valid(primary) /\ ~Valid(backup) /\ saved = FALSE /\ mirror = DefaultSetting
       \/ /\ jobs = <<<<"erase", "backup">>>>
          /\ primary = BlankBank /\ ~Valid(backup) /\ saved = FALSE /\ mirror = DefaultSetting

\* Nothing is being written: the banks agree.
IdleInv ==
  (mode \in {"run", "fault"} /\ jobs = <<>>) =>
    /\ primary = backup /\ Stable(primary)
    /\ saved => Clean(primary)
    /\ doErase \/ Covers(mirror, primary)

\* save_env writes the banks one after the other.
SaveInv ==
  (mode \in {"run", "fault"} /\ jobs # <<>>) =>
    /\ mode = "run" /\ Closed(mirror) /\ list = <<>>
    /\ \/ jobs = SaveJobs(TRUE) /\ primary = backup
       \/ jobs = Tail(SaveJobs(TRUE)) /\ primary = BlankBank
       \/ jobs = EraseAndWrite("backup") /\ primary = Image(mirror)
       \/ jobs = <<<<"write", "backup">>>> /\ primary = Image(mirror) /\ Covers(mirror, backup)
       \/ jobs = SaveJobs(FALSE) /\ primary = backup /\ Covers(mirror, backup)
    /\ Stable(backup)
    /\ (saved /\ primary # Image(mirror)) => Clean(backup)

KvInv ==
  /\ KvType /\ Distinct(mirror \o list)
  /\ OffInv /\ BootInv /\ IdleInv /\ SaveInv

-----------------------------------------------------------------------------
(* Lemmas about slots and sequences of slots *)

LEMMA EntryFacts ==
  ASSUME NEW s \in Entries
  PROVE  /\ s.kind = "env" /\ s.key \in Keys /\ s.val \in Values
         /\ s # Zero /\ s # Blank /\ s # Junk /\ s \notin Sums /\ \A m : s # Crc(m)
BY DEF Entries, Zero, Blank, Junk, Sums, Crc

LEMMA MarkFacts ==
  /\ Zero.kind = "zero" /\ Blank.kind = "blank" /\ Junk.kind = "junk"
  /\ Zero # Blank /\ Zero # Junk /\ Blank # Junk
  /\ Zero \notin Sums /\ Blank \notin Sums /\ Junk \notin Sums
BY DEF Zero, Blank, Junk, Sums, Crc

LEMMA CrcFacts ==
  ASSUME NEW m
  PROVE  /\ Crc(m).kind = "crc" /\ Crc(m).over = m
         /\ Crc(m) # Zero /\ Crc(m) # Blank /\ Crc(m) # Junk /\ Crc(m) \notin Plain
BY DEF Zero, Blank, Junk, Crc, Plain, Entries

\* Which slots there are, by their kind.
LEMMA SlotCases ==
  ASSUME NEW s \in BankSlots
  PROVE  /\ s.kind = "env"  <=> s \in Entries
         /\ s.kind = "crc"  <=> s \in Sums
         /\ s = Zero \/ s = Blank \/ s = Junk \/ s \in Entries \/ s \in Sums
<1>1. s \in Sums => s.kind = "crc"  BY CrcFacts DEF Sums
<1> QED  BY <1>1, EntryFacts, MarkFacts DEF BankSlots, Slots, Plain

LEMMA SumChecked ==
  ASSUME NEW s
  PROVE  s \in Sums <=> CrcOver(s)
<1>1. ASSUME s \in Sums PROVE CrcOver(s)
  <2>1. PICK m \in Seq(Plain) : s = Crc(m)  BY <1>1 DEF Sums
  <2>2. "over" \in DOMAIN s /\ s.over = m  BY <2>1 DEF Crc
  <2> QED  BY <2>1, <2>2 DEF CrcOver, Plain
<1>2. ASSUME CrcOver(s) PROVE s \in Sums  BY <1>2 DEF CrcOver, Sums, Plain
<1> QED  BY <1>1, <1>2

LEMMA Prefix ==
  ASSUME NEW n \in Nat, NEW S, NEW b \in [1..n -> S], NEW k \in 0..n
  PROVE  SubSeq(b, 1, k) = [j \in 1..k |-> b[j]]
OBVIOUS

LEMMA SeqPrefix ==
  ASSUME NEW S, NEW m \in Seq(S), NEW k \in 0..Len(m)
  PROVE  SubSeq(m, 1, k) = [j \in 1..k |-> m[j]]
OBVIOUS

-----------------------------------------------------------------------------
(* Lemmas about banks *)

LEMMA Image_Type ==
  ASSUME NEW m \in Seq(Slots)
  PROVE  Image(m) \in [1..Cap -> BankSlots]
BY DEF Image, BankSlots

\* A checksum is in a closed mirror at its end only.
LEMMA ClosedSlots ==
  ASSUME NEW m, Closed(m)
  PROVE  /\ m \in Seq(Slots) /\ Len(m) \in 1..Cap /\ Len(m) \in Nat
         /\ \A i \in 1..Len(m) : m[i] \in Slots /\ m[i] # Blank /\ m[i] # Junk
         /\ \A i \in 1..(Len(m) - 1) : \A w : m[i] # Crc(w)
         /\ m[Len(m)] = Crc([j \in 1..(Len(m) - 1) |-> m[j]])
         /\ [j \in 1..(Len(m) - 1) |-> m[j]] \in Seq(Plain)
<1>1. m \in Seq(Slots) /\ Len(m) \in 1..Cap /\ Len(m) \in Nat  BY SpaceAssumption DEF Closed
<1>2. \A i \in 1..Len(m) : m[i] \in Slots  BY <1>1
<1>3. \A i \in 1..Len(m) : m[i] # Blank /\ m[i] # Junk
  BY <1>2, EntryFacts, MarkFacts DEF Slots, Plain
<1>4. \A i \in 1..(Len(m) - 1) : \A w : m[i] # Crc(w)  BY CrcFacts DEF Closed
<1>5. SubSeq(m, 1, Len(m) - 1) = [j \in 1..(Len(m) - 1) |-> m[j]]  BY <1>1, SeqPrefix
<1>6. m[Len(m)] = Crc([j \in 1..(Len(m) - 1) |-> m[j]])  BY <1>5 DEF Closed
<1>7. \A i \in 1..(Len(m) - 1) : m[i] \in Plain  BY DEF Closed
<1>8. [j \in 1..(Len(m) - 1) |-> m[j]] \in Seq(Plain)  BY <1>1, <1>7
<1> QED  BY <1>1, <1>2, <1>3, <1>4, <1>6, <1>8

LEMMA BankEq ==
  ASSUME NEW b \in [1..Cap -> BankSlots], NEW c \in [1..Cap -> BankSlots],
         \A i \in 1..Cap : b[i] = c[i]
  PROVE  b = c
<1>1. b = [i \in 1..Cap |-> b[i]] /\ c = [i \in 1..Cap |-> c[i]]  OBVIOUS
<1>2. [i \in 1..Cap |-> b[i]] = [i \in 1..Cap |-> c[i]]  OBVIOUS
<1> QED  BY <1>1, <1>2

LEMMA ValidBank ==
  ASSUME NEW b \in [1..Cap -> BankSlots]
  PROVE  Valid(b) <=> \E i \in 1..Cap : b[i] = Crc([j \in 1..(i - 1) |-> b[j]])
<1>1. \A i \in 1..Cap : SubSeq(b, 1, i - 1) = [j \in 1..(i - 1) |-> b[j]]
  BY SpaceAssumption, Prefix
<1> QED  BY <1>1 DEF Valid

LEMMA BlankInvalid ==
  /\ BlankBank \in [1..Cap -> BankSlots]
  /\ ~Valid(BlankBank)
<1>1. BlankBank \in [1..Cap -> BankSlots]  BY DEF BlankBank, BankSlots
<1>2. \A i \in 1..Cap : BlankBank[i] = Blank  BY DEF BlankBank
<1> QED  BY <1>1, <1>2, ValidBank, CrcFacts

LEMMA JunkInvalid ==
  LET junk == [i \in 1..Cap |-> Junk]
  IN junk \in [1..Cap -> BankSlots] /\ ~Valid(junk)
<1> DEFINE junk == [i \in 1..Cap |-> Junk]
<1>1. junk \in [1..Cap -> BankSlots]  BY DEF BankSlots
<1>2. \A i \in 1..Cap : junk[i] = Junk  OBVIOUS
<1> QED  BY <1>1, <1>2, ValidBank, CrcFacts

\* What was written is found again.
LEMMA ImageUsed ==
  ASSUME NEW m, Closed(m)
  PROVE  UsedPart(Image(m)) = m
<1> DEFINE used == {i \in 1..Cap : \A j \in 1..i : Image(m)[j] # Blank}
<1>1. /\ m \in Seq(Slots) /\ Len(m) \in 1..Cap /\ Len(m) \in Nat
      /\ \A i \in 1..Len(m) : m[i] # Blank
  BY ClosedSlots
<1>2. \A i \in 1..Cap : Image(m)[i] = IF i <= Len(m) THEN m[i] ELSE Blank  BY DEF Image
<1>3. used = 1..Len(m)  BY <1>1, <1>2, SpaceAssumption
<1>4. Cardinality(used) = Len(m)
  <2>1. Cardinality(1..Len(m)) = Len(m)  BY <1>1, FS_Interval
  <2> QED  BY <1>3, <2>1
<1>5. Image(m) \in [1..Cap -> BankSlots]  BY <1>1, Image_Type
<1>6. SubSeq(Image(m), 1, Len(m)) = [j \in 1..Len(m) |-> Image(m)[j]]
  BY <1>1, <1>5, Prefix, SpaceAssumption
<1>7. [j \in 1..Len(m) |-> Image(m)[j]] = [j \in 1..Len(m) |-> m[j]]
  BY <1>1, <1>2, SpaceAssumption
<1>8. [j \in 1..Len(m) |-> m[j]] = m  BY <1>1
<1> QED  BY <1>4, <1>6, <1>7, <1>8 DEF UsedPart

LEMMA ImageClean ==
  ASSUME NEW m, Closed(m)
  PROVE  /\ Image(m) \in [1..Cap -> BankSlots]
         /\ Clean(Image(m)) /\ Valid(Image(m)) /\ Image(m) # BlankBank
         /\ UsedPart(Image(m)) = m
<1>1. Image(m) \in [1..Cap -> BankSlots]  BY Image_Type, ClosedSlots
<1>2. UsedPart(Image(m)) = m  BY ImageUsed
<1>3. Image(m)[Len(m)] = Crc([j \in 1..(Len(m) - 1) |-> Image(m)[j]])
  <2>1. Len(m) \in 1..Cap /\ Len(m) \in Nat /\ m[Len(m)] = Crc([j \in 1..(Len(m) - 1) |-> m[j]])
    BY ClosedSlots
  <2>2. \A i \in 1..Len(m) : Image(m)[i] = m[i]  BY <2>1, SpaceAssumption DEF Image
  <2>3. [j \in 1..(Len(m) - 1) |-> Image(m)[j]] = [j \in 1..(Len(m) - 1) |-> m[j]]  BY <2>1, <2>2
  <2> QED  BY <2>1, <2>2, <2>3
<1>4. Valid(Image(m))  BY <1>1, <1>3, ValidBank, ClosedSlots
<1> QED  BY <1>1, <1>2, <1>4, BlankInvalid DEF Clean

\* The slots of a clean bank: one checksum, over all that stands before it.
LEMMA CleanSlots ==
  ASSUME NEW b, Clean(b)
  PROVE  /\ b \in [1..Cap -> BankSlots] /\ Valid(b)
         /\ \A i \in 1..Cap : b[i] # Junk
         /\ \A i \in 1..Cap : \A w : b[i] = Crc(w) =>
              /\ \A j \in 1..Cap : j > i => b[j] = Blank
              /\ \A j \in 1..(i - 1) : w[j] = b[j]
<1> DEFINE u == UsedPart(b)
<1>1. Closed(u) /\ b = Image(u)  BY DEF Clean
<1>2. b \in [1..Cap -> BankSlots] /\ Valid(b)  BY <1>1, ImageClean
<1>3. /\ Len(u) \in 1..Cap /\ Len(u) \in Nat
      /\ \A i \in 1..Len(u) : u[i] # Blank /\ u[i] # Junk
      /\ \A i \in 1..(Len(u) - 1) : \A w : u[i] # Crc(w)
      /\ u[Len(u)] = Crc([j \in 1..(Len(u) - 1) |-> u[j]])
  BY <1>1, ClosedSlots
<1>4. \A i \in 1..Cap : b[i] = IF i <= Len(u) THEN u[i] ELSE Blank  BY <1>1 DEF Image
<1>5. \A i \in 1..Cap : b[i] # Junk  BY <1>3, <1>4, SpaceAssumption, MarkFacts
<1>6. ASSUME NEW i \in 1..Cap, NEW w, b[i] = Crc(w)
      PROVE  /\ \A j \in 1..Cap : j > i => b[j] = Blank
             /\ \A j \in 1..(i - 1) : w[j] = b[j]
  <2>1. i = Len(u)
    <3>1. i <= Len(u)  BY <1>4, <1>6, CrcFacts
    <3>2. i \in 1..Len(u) /\ u[i] = Crc(w)  BY <1>4, <1>6, <3>1, SpaceAssumption
    <3> QED  BY <1>3, <3>2
  <2>2. Crc(w) = Crc([j \in 1..(Len(u) - 1) |-> u[j]])  BY <1>3, <1>4, <1>6, <2>1
  <2>3. w = [j \in 1..(Len(u) - 1) |-> u[j]]  BY <2>2, CrcFacts
  <2>4. \A j \in 1..(i - 1) : w[j] = u[j] /\ b[j] = u[j]  BY <1>3, <1>4, <2>1, <2>3, SpaceAssumption
  <2>5. \A j \in 1..Cap : j > i => b[j] = Blank  BY <1>3, <1>4, <2>1, SpaceAssumption
  <2> QED  BY <1>3, <2>1, <2>4, <2>5
<1> QED  BY <1>2, <1>5, <1>6

LEMMA StableType ==
  ASSUME NEW b, Stable(b)
  PROVE  /\ b \in [1..Cap -> BankSlots]
         /\ \A i \in 1..Cap : b[i] # Junk
         /\ Valid(b) <=> Clean(b)
<1>1. CASE b = BlankBank
  <2>1. \A i \in 1..Cap : b[i] # Junk  BY <1>1, MarkFacts DEF BlankBank
  <2> QED  BY <1>1, <2>1, BlankInvalid, CleanSlots
<1>2. CASE Clean(b)  BY <1>2, CleanSlots
<1> QED  BY <1>1, <1>2 DEF Stable

\* A mirror that covers a bank is written as it is.
LEMMA WrittenIs ==
  ASSUME NEW b \in [1..Cap -> BankSlots], Covers(mirror, b), NEW n \in 0..Cap
  PROVE  Written(b, n) = [i \in 1..Cap |-> IF i <= n THEN Image(mirror)[i] ELSE b[i]]
<1>1. \A i \in 1..Cap : Program(b[i], Image(mirror)[i]) = Image(mirror)[i]
  <2> TAKE i \in 1..Cap
  <2>1. b[i] = Blank \/ b[i] = Image(mirror)[i] \/ Image(mirror)[i] = Zero  BY DEF Covers
  <2> QED  BY <2>1, MarkFacts DEF Program
<1> QED  BY <1>1 DEF Written

LEMMA WrittenAll ==
  ASSUME NEW b \in [1..Cap -> BankSlots], Covers(mirror, b)
  PROVE  Written(b, Cap) = Image(mirror)
<1>1. Written(b, Cap) = [i \in 1..Cap |-> IF i <= Cap THEN Image(mirror)[i] ELSE b[i]]
  BY WrittenIs, SpaceAssumption
<1>2. Image(mirror) = [i \in 1..Cap |-> Image(mirror)[i]]  BY DEF Image
<1>3. [i \in 1..Cap |-> IF i <= Cap THEN Image(mirror)[i] ELSE b[i]]
        = [i \in 1..Cap |-> Image(mirror)[i]]
  BY SpaceAssumption
<1> QED  BY <1>1, <1>2, <1>3

LEMMA CoversBlank ==
  ASSUME NEW m
  PROVE  Covers(m, BlankBank)
BY DEF Covers, BlankBank

\* A slot in the middle of which the write was cut makes the bank invalid.
LEMMA JunkSlot ==
  ASSUME Closed(mirror), NEW b, Stable(b), Covers(mirror, b),
         NEW n \in 1..Cap, Image(mirror)[n] # b[n],
         NEW c \in [1..Cap -> BankSlots], c[n] = Junk,
         \A i \in 1..Cap : i < n => c[i] = Image(mirror)[i],
         \A i \in 1..Cap : i > n => c[i] = b[i]
  PROVE  ~Valid(c)
<1>1. SUFFICES ASSUME NEW i \in 1..Cap, c[i] = Crc([j \in 1..(i - 1) |-> c[j]])
               PROVE  FALSE
  BY ValidBank
<1>2. CASE i < n
  <2>1. Image(mirror)[i] = Crc([j \in 1..(i - 1) |-> c[j]])  BY <1>1, <1>2
  <2>2. Clean(Image(mirror))  BY ImageClean
  <2>3. Image(mirror)[n] = Blank  BY <1>2, <2>1, <2>2, CleanSlots
  <2>4. b[n] = Blank  BY <2>3, MarkFacts DEF Covers
  <2> QED  BY <2>3, <2>4
<1>3. CASE i = n  BY <1>1, <1>3, CrcFacts
<1>4. CASE i > n
  <2>1. b[i] = Crc([j \in 1..(i - 1) |-> c[j]])  BY <1>1, <1>4
  <2>2. Clean(b)  BY <2>1, CrcFacts DEF Stable, BlankBank
  <2>3. n \in 1..(i - 1)  BY <1>4, SpaceAssumption
  <2>4. [j \in 1..(i - 1) |-> c[j]][n] = b[n] /\ b[n] # Junk  BY <2>1, <2>2, <2>3, CleanSlots
  <2> QED  BY <2>3, <2>4
<1> QED  BY <1>2, <1>3, <1>4, SpaceAssumption

\* A write that is cut leaves the old bank, the new one or an invalid one.
LEMMA CutWriteValid ==
  ASSUME Closed(mirror), NEW b, Stable(b), Covers(mirror, b), NEW c \in CutWrite(b)
  PROVE  c \in [1..Cap -> BankSlots] /\ (Valid(c) => c = b \/ c = Image(mirror))
<1>0. b \in [1..Cap -> BankSlots] /\ Image(mirror) \in [1..Cap -> BankSlots]
  BY StableType, ImageClean
<1>1. CASE c \in {Written(b, n) : n \in 0..Cap}
  <2>1. PICK n \in 0..Cap : c = Written(b, n)  BY <1>1
  <2>2. c = [i \in 1..Cap |-> IF i <= n THEN Image(mirror)[i] ELSE b[i]]
    BY <1>0, <2>1, WrittenIs
  <2>3. c \in [1..Cap -> BankSlots]  BY <1>0, <2>2
  <2>4. SUFFICES ASSUME NEW i \in 1..Cap, c[i] = Crc([j \in 1..(i - 1) |-> c[j]])
                 PROVE  c = b \/ c = Image(mirror)
    BY <2>3, ValidBank
  <2>5. CASE i <= n
    <3>1. Image(mirror)[i] = Crc([j \in 1..(i - 1) |-> c[j]])  BY <2>2, <2>4, <2>5
    <3>2. \A j \in 1..Cap : j > i => Image(mirror)[j] = Blank
      BY <3>1, ImageClean, CleanSlots
    <3>3. \A j \in 1..Cap : j > i => b[j] = Blank  BY <3>2, MarkFacts DEF Covers
    <3>4. \A j \in 1..Cap : c[j] = Image(mirror)[j]
      <4> TAKE j \in 1..Cap
      <4>1. CASE j <= n  BY <2>2, <4>1
      <4>2. CASE ~(j <= n)
        <5>1. j > i /\ c[j] = b[j]  BY <2>2, <2>5, <4>2, SpaceAssumption
        <5> QED  BY <3>2, <3>3, <5>1
      <4> QED  BY <4>1, <4>2
    <3> QED  BY <1>0, <2>3, <3>4, BankEq
  <2>6. CASE ~(i <= n)
    <3>1. b[i] = Crc([j \in 1..(i - 1) |-> c[j]])  BY <2>2, <2>4, <2>6
    <3>2. Valid(b) /\ Clean(b)
      <4>1. Clean(b)  BY <3>1, CrcFacts DEF Stable, BlankBank
      <4> QED  BY <4>1, CleanSlots
    <3>3. \A j \in 1..(i - 1) : [k \in 1..(i - 1) |-> c[k]][j] = b[j]
      BY <3>1, <3>2, CleanSlots
    <3>4. \A j \in 1..Cap : c[j] = b[j]
      <4> TAKE j \in 1..Cap
      <4>1. CASE j <= n
        <5>1. j \in 1..(i - 1)  BY <2>6, <4>1, SpaceAssumption
        <5> QED  BY <3>3, <5>1
      <4>2. CASE ~(j <= n)  BY <2>2, <4>2
      <4> QED  BY <4>1, <4>2
    <3> QED  BY <1>0, <2>3, <3>4, BankEq
  <2> QED  BY <2>5, <2>6
<1>2. CASE c \in {[Written(b, n - 1) EXCEPT ![n] = Junk] :
                    n \in {i \in 1..Cap : Written(b, Cap)[i] # b[i]}}
  <2>1. PICK n \in 1..Cap : /\ Written(b, Cap)[n] # b[n]
                            /\ c = [Written(b, n - 1) EXCEPT ![n] = Junk]
    BY <1>2
  <2>2. Image(mirror)[n] # b[n]  BY <1>0, <2>1, WrittenAll
  <2>3. n - 1 \in 0..Cap  BY <2>1, SpaceAssumption
  <2>4. Written(b, n - 1) = [i \in 1..Cap |-> IF i <= n - 1 THEN Image(mirror)[i] ELSE b[i]]
    BY <1>0, <2>3, WrittenIs
  <2>5. /\ c \in [1..Cap -> BankSlots] /\ c[n] = Junk
        /\ \A i \in 1..Cap : i < n => c[i] = Image(mirror)[i]
        /\ \A i \in 1..Cap : i > n => c[i] = b[i]
    BY <1>0, <2>1, <2>4, SpaceAssumption DEF BankSlots
  <2> QED  BY <2>2, <2>5, JunkSlot
<1> QED  BY <1>1, <1>2 DEF CutWrite

-----------------------------------------------------------------------------
(* Lemmas about what a mirror and the list hold *)

Holds(m, k, v) == \E i \in DOMAIN m : IsEnv(m[i], k) /\ m[i].val = v

\* The first entry with a key is the only one.
LEMMA MapOfHolds ==
  ASSUME NEW m, NEW n \in Nat, DOMAIN m = 1..n, Distinct(m),
         NEW k \in Keys, NEW v, Holds(m, k, v)
  PROVE  HasKey(m, k) /\ MapOf(m)[k] = v
<1> DEFINE First(i) == IsEnv(m[i], k) /\ \A j \in 1..(i - 1) : ~IsEnv(m[j], k)
<1>1. PICK i \in DOMAIN m : IsEnv(m[i], k) /\ m[i].val = v  BY DEF Holds
<1>2. \A j \in DOMAIN m : IsEnv(m[j], k) => j = i  BY <1>1 DEF Distinct, IsEnv
<1>3. First(i) /\ \A j \in DOMAIN m : First(j) => j = i  BY <1>1, <1>2
<1>4. (CHOOSE j \in DOMAIN m : First(j)) = i  BY <1>1, <1>3
<1>5. MapOf(m)[k] = IF HasKey(m, k) THEN m[CHOOSE j \in DOMAIN m : First(j)].val ELSE NoVal
  BY DEF MapOf, HasKey
<1>6. HasKey(m, k)  BY <1>1 DEF HasKey
<1> QED  BY <1>1, <1>4, <1>5, <1>6

LEMMA MapOfNone ==
  ASSUME NEW m, NEW k \in Keys, ~HasKey(m, k)
  PROVE  MapOf(m)[k] = NoVal /\ \A v : ~Holds(m, k, v)
BY DEF MapOf, HasKey, Holds

LEMMA HasHolds ==
  ASSUME NEW m, NEW k
  PROVE  HasKey(m, k) <=> \E v : Holds(m, k, v)
BY DEF HasKey, Holds

\* A map is what its slots hold.
LEMMA MapIs ==
  ASSUME NEW m, NEW n \in Nat, DOMAIN m = 1..n, Distinct(m), NEW f, f = [k \in Keys |-> f[k]],
         \A k \in Keys : Holds(m, k, f[k]) \/ (f[k] = NoVal /\ ~HasKey(m, k))
  PROVE  MapOf(m) = f
<1>1. \A k \in Keys : MapOf(m)[k] = f[k]  BY MapOfHolds, MapOfNone
<1>2. MapOf(m) = [k \in Keys |-> MapOf(m)[k]]  BY DEF MapOf
<1>3. f = [k \in Keys |-> f[k]]  OBVIOUS
<1> QED  BY <1>1, <1>2, <1>3

LEMMA SameMap ==
  ASSUME NEW m, NEW n \in Nat, DOMAIN m = 1..n, Distinct(m),
         NEW w, NEW q \in Nat, DOMAIN w = 1..q, Distinct(w),
         \A k \in Keys : \A v : Holds(m, k, v) <=> Holds(w, k, v)
  PROVE  MapOf(m) = MapOf(w)
<1>1. \A k \in Keys : MapOf(m)[k] = MapOf(w)[k]
  <2> TAKE k \in Keys
  <2>1. CASE HasKey(m, k)
    <3>1. PICK v : Holds(m, k, v)  BY <2>1, HasHolds
    <3>2. Holds(w, k, v)  BY <3>1
    <3> QED  BY <3>1, <3>2, MapOfHolds
  <2>2. CASE ~HasKey(m, k)
    <3>1. ~HasKey(w, k)  BY <2>2, HasHolds
    <3> QED  BY <2>2, <3>1, MapOfNone
  <2> QED  BY <2>1, <2>2
<1>2. MapOf(m) = [k \in Keys |-> MapOf(m)[k]] /\ MapOf(w) = [k \in Keys |-> MapOf(w)[k]]
  BY DEF MapOf
<1> QED  BY <1>1, <1>2

\* The mirror and the list one behind the other.
LEMMA CatFacts ==
  ASSUME NEW m \in Seq(Slots), NEW l \in Seq(Slots)
  PROVE  /\ m \o l \in Seq(Slots) /\ Len(m \o l) = Len(m) + Len(l)
         /\ \A i \in 1..Len(m) : (m \o l)[i] = m[i]
         /\ \A i \in 1..Len(l) : (m \o l)[Len(m) + i] = l[i]
         /\ \A i \in DOMAIN (m \o l) :
              \/ i \in DOMAIN m /\ (m \o l)[i] = m[i]
              \/ i - Len(m) \in DOMAIN l /\ (m \o l)[i] = l[i - Len(m)]
OBVIOUS

LEMMA CatHolds ==
  ASSUME NEW m \in Seq(Slots), NEW l \in Seq(Slots), NEW k, NEW v
  PROVE  Holds(m \o l, k, v) <=> Holds(m, k, v) \/ Holds(l, k, v)
<1>1. ASSUME Holds(m \o l, k, v) PROVE Holds(m, k, v) \/ Holds(l, k, v)
  BY <1>1, CatFacts DEF Holds
<1>2. ASSUME Holds(m, k, v) PROVE Holds(m \o l, k, v)
  BY <1>2, CatFacts DEF Holds
<1>3. ASSUME Holds(l, k, v) PROVE Holds(m \o l, k, v)
  <2>1. PICK i \in DOMAIN l : IsEnv(l[i], k) /\ l[i].val = v  BY <1>3 DEF Holds
  <2>2. Len(m) + i \in DOMAIN (m \o l) /\ (m \o l)[Len(m) + i] = l[i]  BY <2>1, CatFacts
  <2> QED  BY <2>1, <2>2 DEF Holds
<1> QED  BY <1>1, <1>2, <1>3

\* No key is in both.
Apart(m, l) ==
  \A i \in DOMAIN m, j \in DOMAIN l :
    (m[i].kind = "env" /\ l[j].kind = "env") => m[i].key # l[j].key

LEMMA CatDistinct ==
  ASSUME NEW m \in Seq(Slots), NEW l \in Seq(Slots)
  PROVE  Distinct(m \o l) <=> Distinct(m) /\ Distinct(l) /\ Apart(m, l)
<1>1. ASSUME Distinct(m \o l) PROVE Distinct(m) /\ Distinct(l) /\ Apart(m, l)
  <2>1. Distinct(m)
    <3>1. \A i \in DOMAIN m : i \in DOMAIN (m \o l) /\ (m \o l)[i] = m[i]  BY CatFacts
    <3> QED  BY <1>1, <3>1 DEF Distinct
  <2>2. Distinct(l)
    <3> SUFFICES ASSUME NEW i \in DOMAIN l, NEW j \in DOMAIN l,
                        i # j, l[i].kind = "env", l[j].kind = "env"
                 PROVE  l[i].key # l[j].key
      BY DEF Distinct
    <3>1. /\ Len(m) + i \in DOMAIN (m \o l) /\ (m \o l)[Len(m) + i] = l[i]
          /\ Len(m) + j \in DOMAIN (m \o l) /\ (m \o l)[Len(m) + j] = l[j]
          /\ Len(m) + i # Len(m) + j
      BY CatFacts
    <3> QED  BY <1>1, <3>1 DEF Distinct
  <2>3. Apart(m, l)
    <3> SUFFICES ASSUME NEW i \in DOMAIN m, NEW j \in DOMAIN l,
                        m[i].kind = "env", l[j].kind = "env"
                 PROVE  m[i].key # l[j].key
      BY DEF Apart
    <3>1. /\ i \in DOMAIN (m \o l) /\ (m \o l)[i] = m[i]
          /\ Len(m) + j \in DOMAIN (m \o l) /\ (m \o l)[Len(m) + j] = l[j]
          /\ i # Len(m) + j
      BY CatFacts
    <3> QED  BY <1>1, <3>1 DEF Distinct
  <2> QED  BY <2>1, <2>2, <2>3
<1>2. ASSUME Distinct(m), Distinct(l), Apart(m, l) PROVE Distinct(m \o l)
  <2> DEFINE c == m \o l
  <2> SUFFICES ASSUME NEW i \in DOMAIN c, NEW j \in DOMAIN c,
                      i # j, c[i].kind = "env", c[j].kind = "env"
               PROVE  c[i].key # c[j].key
    BY DEF Distinct
  <2>1. /\ \/ i \in DOMAIN m /\ c[i] = m[i]
           \/ i - Len(m) \in DOMAIN l /\ c[i] = l[i - Len(m)]
        /\ \/ j \in DOMAIN m /\ c[j] = m[j]
           \/ j - Len(m) \in DOMAIN l /\ c[j] = l[j - Len(m)]
        /\ i - Len(m) # j - Len(m)
    <3>1. \A h \in DOMAIN c :
            \/ h \in DOMAIN m /\ c[h] = m[h]
            \/ h - Len(m) \in DOMAIN l /\ c[h] = l[h - Len(m)]
      BY CatFacts
    <3>2. DOMAIN c \subseteq Int /\ Len(m) \in Nat  BY CatFacts
    <3>3. i - Len(m) # j - Len(m)  BY <3>2
    <3> QED  BY <3>1, <3>3
  <2> HIDE DEF c
  <2>2. CASE i \in DOMAIN m /\ c[i] = m[i] /\ j \in DOMAIN m /\ c[j] = m[j]
    BY <1>2, <2>2 DEF Distinct
  <2>3. CASE i \in DOMAIN m /\ c[i] = m[i] /\ j - Len(m) \in DOMAIN l /\ c[j] = l[j - Len(m)]
    BY <1>2, <2>3 DEF Apart
  <2>4. CASE i - Len(m) \in DOMAIN l /\ c[i] = l[i - Len(m)] /\ j \in DOMAIN m /\ c[j] = m[j]
    <3>1. c[j].key # c[i].key  BY <1>2, <2>4 DEF Apart
    <3> QED  BY <3>1
  <2>5. CASE /\ i - Len(m) \in DOMAIN l /\ c[i] = l[i - Len(m)]
             /\ j - Len(m) \in DOMAIN l /\ c[j] = l[j - Len(m)]
    BY <1>2, <2>1, <2>5 DEF Distinct
  <2> QED  BY <2>1, <2>2, <2>3, <2>4, <2>5
<1> QED  BY <1>1, <1>2

LEMMA EmptyFacts ==
  ASSUME NEW m \in Seq(Slots)
  PROVE  /\ m \o <<>> = m /\ <<>> \in Seq(Slots)
         /\ Distinct(<<>>) /\ Apart(m, <<>>)
         /\ \A k, v : ~Holds(<<>>, k, v)
<1>1. m \o <<>> = m /\ <<>> \in Seq(Slots) /\ DOMAIN <<>> = {}  OBVIOUS
<1> QED  BY <1>1 DEF Distinct, Apart, Holds

\* An entry is not in the mirror any more, or the CRC entry is not.
LEMMA ZeroFacts ==
  ASSUME NEW m \in Seq(Slots), NEW k
  PROVE  /\ ZeroKey(m, k) \in Seq(Slots) /\ Len(ZeroKey(m, k)) = Len(m)
         /\ ZeroCrc(m) \in Seq(Plain) /\ Len(ZeroCrc(m)) = Len(m)
         /\ Distinct(m) => Distinct(ZeroKey(m, k)) /\ Distinct(ZeroCrc(m))
         /\ \A q, v : Holds(ZeroKey(m, k), q, v) <=> Holds(m, q, v) /\ q # k
         /\ \A q, v : Holds(ZeroCrc(m), q, v) <=> Holds(m, q, v)
<1> DEFINE z == ZeroKey(m, k)
           c == ZeroCrc(m)
<1>1. DOMAIN m = 1..Len(m) /\ Len(m) \in Nat /\ \A i \in 1..Len(m) : m[i] \in Slots  OBVIOUS
<1>2. /\ DOMAIN z = DOMAIN m /\ DOMAIN c = DOMAIN m
      /\ \A i \in DOMAIN m : z[i] = IF IsEnv(m[i], k) THEN Zero ELSE m[i]
      /\ \A i \in DOMAIN m : c[i] = IF m[i].kind = "crc" THEN Zero ELSE m[i]
  BY DEF ZeroKey, ZeroCrc
<1>3. \A i \in DOMAIN m : z[i] \in Slots /\ c[i] \in Plain
  BY <1>1, <1>2, SlotCases, MarkFacts DEF Slots, Plain, BankSlots
<1>4. z \in Seq(Slots) /\ Len(z) = Len(m)  BY <1>1, <1>3 DEF ZeroKey
<1>5. c \in Seq(Plain) /\ Len(c) = Len(m)  BY <1>1, <1>3 DEF ZeroCrc
<1>6. \A i \in DOMAIN m : z[i].kind = "env" <=> m[i].kind = "env" /\ m[i].key # k /\ z[i] = m[i]
  BY <1>2, MarkFacts DEF IsEnv
<1>7. \A i \in DOMAIN m : c[i].kind = "env" <=> m[i].kind = "env" /\ c[i] = m[i]
  BY <1>2, MarkFacts
<1>8. Distinct(m) => Distinct(z) /\ Distinct(c)  BY <1>2, <1>6, <1>7 DEF Distinct
<1>9. \A q, v : Holds(z, q, v) <=> Holds(m, q, v) /\ q # k
  BY <1>2, <1>6 DEF Holds, IsEnv
<1>10. \A q, v : Holds(c, q, v) <=> Holds(m, q, v)
  BY <1>2, <1>7 DEF Holds, IsEnv
<1> QED  BY <1>4, <1>5, <1>8, <1>9, <1>10

-----------------------------------------------------------------------------
(* Lemmas about the compaction *)

\* The members of a finite set of numbers are numbered in their order.
LEMMA Ranked ==
  ASSUME NEW n \in Nat, NEW K \in SUBSET (1..n)
  PROVE  /\ Cardinality(K) \in Nat
         /\ \A p \in 1..Cardinality(K) : \E i \in K : Cardinality({j \in K : j <= i}) = p
         /\ \A i \in K : Cardinality({j \in K : j <= i}) \in 1..Cardinality(K)
         /\ \A i, h \in K :
              Cardinality({j \in K : j <= i}) = Cardinality({j \in K : j <= h}) => i = h
<1> DEFINE Upto(i) == {j \in K : j <= i}
           rank == [i \in K |-> Cardinality(Upto(i))]
<1>1. IsFiniteSet(1..n)  BY FS_Interval
<1>2. IsFiniteSet(K) /\ Cardinality(K) \in Nat  BY <1>1, FS_Subset, FS_CardinalityType
<1>3. ASSUME NEW i \in K
      PROVE  /\ IsFiniteSet(Upto(i)) /\ Cardinality(Upto(i)) \in 1..Cardinality(K)
             /\ Upto(i) \subseteq K
  <2>1. Upto(i) \in SUBSET K  OBVIOUS
  <2>2. IsFiniteSet(Upto(i)) /\ Cardinality(Upto(i)) <= Cardinality(K)
    BY <1>2, <2>1, FS_Subset
  <2>3. i \in Upto(i)  OBVIOUS
  <2>4. Cardinality(Upto(i)) \in Nat /\ Cardinality(Upto(i)) # 0
    BY <2>2, <2>3, FS_CardinalityType, FS_EmptySet
  <2> QED  BY <1>2, <2>1, <2>2, <2>4
<1>4. ASSUME NEW i \in K, NEW h \in K, i < h
      PROVE  Cardinality(Upto(i)) # Cardinality(Upto(h))
  <2>1. Upto(i) \in SUBSET Upto(h)
    <3>1. \A j \in K : j \in Nat  OBVIOUS
    <3>2. \A j \in K : j <= i => j <= h  BY <1>4, <3>1
    <3> QED  BY <3>2
  <2>2. h \in Upto(h) /\ h \notin Upto(i)  BY <1>4
  <2>3. IsFiniteSet(Upto(h))  BY <1>3
  <2> QED  BY <2>1, <2>2, <2>3, FS_Subset
<1>5. \A i, h \in K : Cardinality(Upto(i)) = Cardinality(Upto(h)) => i = h
  <2> TAKE i, h \in K
  <2>1. i < h \/ h < i \/ i = h  OBVIOUS
  <2> QED  BY <1>4, <2>1
<1>6. rank \in Injection(K, 1..Cardinality(K))
  <2>1. rank \in [K -> 1..Cardinality(K)]  BY <1>3
  <2>2. \A i, h \in K : rank[i] = rank[h] => i = h  BY <1>5
  <2> HIDE DEF rank
  <2> QED  BY <2>1, <2>2 DEF Injection, IsInjective
<1>7. IsFiniteSet(1..Cardinality(K)) /\ Cardinality(1..Cardinality(K)) = Cardinality(K)
  BY <1>2, FS_Interval
<1>8. rank \in Surjection(K, 1..Cardinality(K))  BY <1>6, <1>7, FS_Injection
<1>9. \A p \in 1..Cardinality(K) : \E i \in K : rank[i] = p  BY <1>8 DEF Surjection
<1> QED  BY <1>2, <1>3, <1>5, <1>9

\* A compacted mirror holds the same entries and nothing else.
LEMMA CompactFacts ==
  ASSUME NEW m \in Seq(Slots)
  PROVE  /\ Compact(m) \in Seq(Entries)
         /\ Len(Compact(m)) = Cardinality({i \in DOMAIN m : m[i].kind = "env"})
         /\ Distinct(m) => Distinct(Compact(m))
         /\ \A k, v : Holds(Compact(m), k, v) <=> Holds(m, k, v)
<1> DEFINE K == {i \in DOMAIN m : m[i].kind = "env"}
           Rank(i) == Cardinality({j \in K : j <= i})
           At(p) == CHOOSE i \in K : Rank(i) = p
           c == Compact(m)
<1>1. DOMAIN m = 1..Len(m) /\ Len(m) \in Nat /\ \A i \in DOMAIN m : m[i] \in Slots  OBVIOUS
<1>2. K \in SUBSET (1..Len(m))  BY <1>1
<1>3. /\ Cardinality(K) \in Nat
      /\ \A p \in 1..Cardinality(K) : \E i \in K : Rank(i) = p
      /\ \A i \in K : Rank(i) \in 1..Cardinality(K)
      /\ \A i, h \in K : Rank(i) = Rank(h) => i = h
  BY <1>1, <1>2, Ranked
<1>4. c = [p \in 1..Cardinality(K) |-> m[At(p)]]  BY DEF Compact
<1> HIDE DEF K, Rank, c
<1>5. \A p \in 1..Cardinality(K) : At(p) \in K /\ Rank(At(p)) = p  BY <1>3
<1>6. \A i \in K : Rank(i) \in 1..Cardinality(K) /\ At(Rank(i)) = i  BY <1>3
<1> HIDE DEF At
<1>7. \A i \in K : i \in DOMAIN m /\ m[i] \in Entries
  BY <1>1, SlotCases DEF K, BankSlots
<1>8. c \in Seq(Entries) /\ Len(c) = Cardinality(K) /\ DOMAIN c = 1..Cardinality(K)
  BY <1>3, <1>4, <1>5, <1>7
<1>9. ASSUME Distinct(m) PROVE Distinct(c)
  <2> SUFFICES ASSUME NEW p \in DOMAIN c, NEW q \in DOMAIN c, p # q
               PROVE  c[p].key # c[q].key
    BY DEF Distinct
  <2>1. At(p) \in K /\ At(q) \in K /\ At(p) # At(q)  BY <1>5, <1>8
  <2>2. c[p] = m[At(p)] /\ c[q] = m[At(q)]  BY <1>4, <1>8
  <2> QED  BY <1>7, <1>9, <2>1, <2>2, EntryFacts DEF Distinct
<1>10. ASSUME NEW k, NEW v, Holds(c, k, v) PROVE Holds(m, k, v)
  <2>1. PICK p \in DOMAIN c : IsEnv(c[p], k) /\ c[p].val = v  BY <1>10 DEF Holds
  <2>2. c[p] = m[At(p)] /\ At(p) \in DOMAIN m  BY <1>4, <1>5, <1>7, <1>8
  <2> QED  BY <2>1, <2>2 DEF Holds
<1>11. ASSUME NEW k, NEW v, Holds(m, k, v) PROVE Holds(c, k, v)
  <2>1. PICK i \in DOMAIN m : IsEnv(m[i], k) /\ m[i].val = v  BY <1>11 DEF Holds
  <2>2. i \in K  BY <2>1 DEF K, IsEnv
  <2>3. Rank(i) \in DOMAIN c /\ c[Rank(i)] = m[i]  BY <1>4, <1>6, <1>8, <2>2
  <2> QED  BY <2>1, <2>3 DEF Holds
<1> QED  BY <1>8, <1>9, <1>10, <1>11 DEF K, c

\* It makes room for as many slots as there were zeros.
LEMMA CompactRoom ==
  ASSUME NEW m \in Seq(Slots)
  PROVE  LET zeros == Cardinality({i \in DOMAIN m : m[i] = Zero})
         IN zeros \in Nat /\ Len(Compact(m)) + zeros <= Len(m)
<1> DEFINE K == {i \in DOMAIN m : m[i].kind = "env"}
           Z == {i \in DOMAIN m : m[i] = Zero}
<1>1. Len(m) \in Nat /\ IsFiniteSet(1..Len(m)) /\ Cardinality(1..Len(m)) = Len(m)
  <2>1. Len(m) \in Nat  OBVIOUS
  <2> QED  BY <2>1, FS_Interval
<1>2. K \in SUBSET (1..Len(m)) /\ Z \in SUBSET (1..Len(m)) /\ K \cup Z \in SUBSET (1..Len(m))
  OBVIOUS
<1>3. IsFiniteSet(K) /\ IsFiniteSet(Z) /\ Cardinality(K \cup Z) <= Len(m)
  BY <1>1, <1>2, FS_Subset
<1>4. Cardinality(K) \in Nat /\ Cardinality(Z) \in Nat  BY <1>3, FS_CardinalityType
<1>5. K \cap Z = {}  BY MarkFacts
<1>6. Cardinality(K \cup Z) = Cardinality(K) + Cardinality(Z)
  <2>1. Cardinality(K \cap Z) = 0  BY <1>5, FS_EmptySet
  <2> HIDE DEF K, Z
  <2>2. Cardinality(K \cup Z) = Cardinality(K) + Cardinality(Z) - Cardinality(K \cap Z)
    BY <1>3, FS_Union
  <2> QED  BY <1>4, <2>1, <2>2
<1>7. Len(Compact(m)) = Cardinality(K)  BY CompactFacts
<1> HIDE DEF K, Z
<1>8. Cardinality(Z) \in Nat /\ Len(Compact(m)) + Cardinality(Z) <= Len(m)
  BY <1>1, <1>3, <1>4, <1>6, <1>7
<1> QED  BY <1>8 DEF Z

-----------------------------------------------------------------------------
(* Lemmas about a save *)

\* The checksum closes a mirror and changes nothing of what it holds.
LEMMA AppendCrc ==
  ASSUME NEW w \in Seq(Plain), Len(w) < Cap, Distinct(w)
  PROVE  /\ Closed(Append(w, Crc(w)))
         /\ \A k, v : Holds(Append(w, Crc(w)), k, v) <=> Holds(w, k, v)
<1> DEFINE m == Append(w, Crc(w))
<1>1. w \in Seq(Slots) /\ Crc(w) \in Slots  BY DEF Slots, Sums
<1>2. Len(w) \in Nat /\ DOMAIN w = 1..Len(w) /\ \A i \in 1..Len(w) : w[i] \in Plain  OBVIOUS
<1>3. /\ m \in Seq(Slots) /\ Len(m) = Len(w) + 1 /\ DOMAIN m = 1..(Len(w) + 1)
      /\ \A i \in DOMAIN w : i \in DOMAIN m /\ m[i] = w[i]
      /\ Len(w) + 1 \in DOMAIN m /\ m[Len(w) + 1] = Crc(w)
  BY <1>1
<1>4. \A i \in DOMAIN m : i \in DOMAIN w \/ m[i].kind = "crc"
  BY <1>2, <1>3, CrcFacts
<1> HIDE DEF m
<1>5. Distinct(m)
  <2> SUFFICES ASSUME NEW i \in DOMAIN m, NEW j \in DOMAIN m,
                      i # j, m[i].kind = "env", m[j].kind = "env"
               PROVE  m[i].key # m[j].key
    BY DEF Distinct
  <2>1. i \in DOMAIN w /\ j \in DOMAIN w /\ m[i] = w[i] /\ m[j] = w[j]  BY <1>3, <1>4
  <2> QED  BY <2>1 DEF Distinct
<1>6. SubSeq(m, 1, Len(m) - 1) = w
  <2>1. SubSeq(m, 1, Len(m) - 1) = [j \in 1..Len(w) |-> m[j]]  BY <1>2, <1>3, SeqPrefix
  <2>2. [j \in 1..Len(w) |-> m[j]] = [j \in 1..Len(w) |-> w[j]]  BY <1>2, <1>3
  <2>3. w = [j \in 1..Len(w) |-> w[j]]  BY <1>2
  <2> QED  BY <2>1, <2>2, <2>3
<1>7. \A i \in 1..(Len(m) - 1) : m[i] \in Plain  BY <1>2, <1>3
<1>8. Closed(m)
  <2>1. Len(m) \in 1..Cap  BY <1>2, <1>3, SpaceAssumption
  <2>2. m[Len(m)] = Crc(SubSeq(m, 1, Len(m) - 1))  BY <1>3, <1>6
  <2> QED  BY <1>3, <1>5, <1>7, <2>1, <2>2 DEF Closed
<1>9. \A k, v : Holds(m, k, v) <=> Holds(w, k, v)  BY <1>3, <1>4 DEF Holds, IsEnv
<1> QED  BY <1>8, <1>9 DEF m

LEMMA DefaultFacts ==
  /\ Closed(DefaultSetting)
  /\ DefaultEnv \in Seq(Plain) /\ Distinct(DefaultEnv)
  /\ \A k, v : Holds(DefaultSetting, k, v) <=> Holds(DefaultEnv, k, v)
<1>1. DefaultEnv \in Seq(Plain) /\ Len(DefaultEnv) < Cap  BY SpaceAssumption DEF Plain
<1>2. Distinct(DefaultEnv)  BY SpaceAssumption DEF Distinct
<1> QED  BY <1>1, <1>2, AppendCrc DEF DefaultSetting

LEMMA ListSlots == Seq(Entries) \subseteq Seq(Slots)
<1>1. Entries \subseteq Slots  BY DEF Slots, Plain
<1> QED  BY <1>1

LEMMA ApartHolds ==
  ASSUME NEW m, NEW l
  PROVE  Apart(m, l) <=> \A k, v, x : ~(Holds(m, k, v) /\ Holds(l, k, x))
<1>1. ASSUME Apart(m, l) PROVE \A k, v, x : ~(Holds(m, k, v) /\ Holds(l, k, x))
  BY <1>1 DEF Apart, Holds, IsEnv
<1>2. ASSUME \A k, v, x : ~(Holds(m, k, v) /\ Holds(l, k, x)) PROVE Apart(m, l)
  <2> SUFFICES ASSUME NEW i \in DOMAIN m, NEW j \in DOMAIN l,
                      m[i].kind = "env", l[j].kind = "env", m[i].key = l[j].key
               PROVE  FALSE
    BY DEF Apart
  <2>1. Holds(m, m[i].key, m[i].val) /\ Holds(l, m[i].key, l[j].val)  BY DEF Holds, IsEnv
  <2> QED  BY <1>2, <2>1
<1> QED  BY <1>1, <1>2

LEMMA FlushedFacts ==
  ASSUME KvType, Distinct(mirror \o list), SpaceEnough \/ CanCompact
  PROVE  /\ Flushed \in Seq(Slots) /\ Len(Flushed) < Cap /\ Distinct(Flushed)
         /\ \A k, v : Holds(Flushed, k, v) <=> Holds(mirror \o list, k, v)
         /\ \A b : doErase \/ Covers(mirror, b) => EraseNeeded \/ Covers(Flushed, b)
<1>1. /\ mirror \in Seq(Slots) /\ list \in Seq(Slots)
      /\ Len(mirror) \in Nat /\ Len(list) \in Nat /\ orphans \in Nat /\ Cap \in Nat
  BY ListSlots, SpaceAssumption DEF KvType
<1>2. Distinct(mirror) /\ Distinct(list) /\ Apart(mirror, list)  BY <1>1, CatDistinct
<1>3. CASE SpaceEnough
  <2>1. Flushed = mirror \o list  BY <1>3 DEF Flushed
  <2>2. Len(mirror \o list) = Len(mirror) + Len(list) /\ mirror \o list \in Seq(Slots)
    BY <1>1, CatFacts
  <2>3. Len(mirror) + Len(list) < Cap  BY <1>1, <1>3 DEF SpaceEnough, ExpectedSize
  <2>4. ASSUME NEW b, Covers(mirror, b) PROVE Covers(mirror \o list, b)
    <3> SUFFICES ASSUME NEW i \in 1..Cap
                 PROVE  \/ b[i] = Blank \/ b[i] = Image(mirror \o list)[i]
                        \/ Image(mirror \o list)[i] = Zero
      BY DEF Covers
    <3>1. b[i] = Blank \/ b[i] = Image(mirror)[i] \/ Image(mirror)[i] = Zero  BY <2>4 DEF Covers
    <3>2. CASE i <= Len(mirror)
      <4>1. i \in DOMAIN mirror /\ Image(mirror)[i] = mirror[i]  BY <1>1, <3>2 DEF Image
      <4>2. Image(mirror \o list)[i] = (mirror \o list)[i]  BY <1>1, <2>2, <3>2 DEF Image
      <4>3. (mirror \o list)[i] = mirror[i]  BY <1>1, <4>1, CatFacts
      <4> QED  BY <3>1, <4>1, <4>2, <4>3
    <3>3. CASE ~(i <= Len(mirror))
      <4>1. Image(mirror)[i] = Blank  BY <3>3 DEF Image
      <4> QED  BY <3>1, <4>1, MarkFacts
    <3> QED  BY <3>2, <3>3
  <2> QED  BY <2>1, <2>2, <2>3, <2>4 DEF EraseNeeded
<1>4. CASE ~SpaceEnough
  <2> DEFINE c == Compact(mirror)
             zeros == Cardinality({i \in DOMAIN mirror : mirror[i] = Zero})
  <2>1. Flushed = c \o list  BY <1>4 DEF Flushed
  <2>2. c \in Seq(Slots) /\ Distinct(c) /\ \A k, v : Holds(c, k, v) <=> Holds(mirror, k, v)
    BY <1>1, <1>2, CompactFacts, ListSlots
  <2>3. zeros \in Nat /\ Len(c) + zeros <= Len(mirror)  BY <1>1, CompactRoom
  <2>4. CanCompact /\ Zeros = zeros  BY <1>4 DEF Zeros
  <2>5. Len(c) \in Nat  BY <2>2
  <2> HIDE DEF c, zeros
  <2>6. Len(mirror) + Len(list) + orphans + 1 - zeros <= Cap
    BY <1>1, <2>3, <2>4 DEF CanCompact, ExpectedSize
  <2>7. Len(c) + Len(list) < Cap  BY <1>1, <2>3, <2>5, <2>6
  <2>8. Len(c \o list) = Len(c) + Len(list) /\ c \o list \in Seq(Slots)
    BY <1>1, <2>2, CatFacts
  <2>9. Apart(c, list)  BY <1>2, <2>2, ApartHolds
  <2>10. Distinct(c \o list)  BY <1>1, <1>2, <2>2, <2>9, CatDistinct
  <2>11. \A k, v : Holds(c \o list, k, v) <=> Holds(mirror \o list, k, v)
    BY <1>1, <2>2, CatHolds
  <2> QED  BY <1>4, <2>1, <2>7, <2>8, <2>10, <2>11 DEF EraseNeeded
<1> QED  BY <1>3, <1>4

\* The mirror save_env writes.
LEMMA SavedFacts ==
  ASSUME KvType, Distinct(mirror \o list), SpaceEnough \/ CanCompact
  PROVE  LET m == Append(ZeroCrc(Flushed), Crc(ZeroCrc(Flushed)))
         IN /\ Closed(m)
            /\ \A k, v : Holds(m, k, v) <=> Holds(mirror \o list, k, v)
            /\ \A b : doErase \/ Covers(mirror, b) => EraseNeeded \/ Covers(m, b)
<1> DEFINE w == ZeroCrc(Flushed)
           m == Append(w, Crc(w))
<1>1. /\ Flushed \in Seq(Slots) /\ Len(Flushed) < Cap /\ Distinct(Flushed)
      /\ \A k, v : Holds(Flushed, k, v) <=> Holds(mirror \o list, k, v)
      /\ \A b : doErase \/ Covers(mirror, b) => EraseNeeded \/ Covers(Flushed, b)
  BY FlushedFacts
<1> DEFINE f == Flushed
<1> HIDE DEF f
<1>2. /\ w \in Seq(Plain) /\ Len(w) = Len(Flushed) /\ Distinct(w)
      /\ \A k, v : Holds(w, k, v) <=> Holds(Flushed, k, v)
  BY <1>1, ZeroFacts
<1>3. \A i \in DOMAIN Flushed : w[i] = Flushed[i] \/ w[i] = Zero  BY DEF ZeroCrc
<1> HIDE DEF w
<1>4. Closed(m) /\ \A k, v : Holds(m, k, v) <=> Holds(w, k, v)  BY <1>1, <1>2, AppendCrc
<1>5. ASSUME NEW b, Covers(Flushed, b) PROVE Covers(m, b)
  <2> SUFFICES ASSUME NEW i \in 1..Cap
               PROVE  b[i] = Blank \/ b[i] = Image(m)[i] \/ Image(m)[i] = Zero
    BY DEF Covers
  <2>1. b[i] = Blank \/ b[i] = Image(Flushed)[i] \/ Image(Flushed)[i] = Zero
    BY <1>5 DEF Covers
  <2>2. Len(m) = Len(w) + 1 /\ Len(w) \in Nat /\ \A j \in 1..Len(w) : m[j] = w[j]  BY <1>2
  <2>3. CASE i <= Len(w)
    <3>1. i \in DOMAIN Flushed  BY <1>1, <1>2, <2>3, SpaceAssumption
    <3>2. Image(Flushed)[i] = Flushed[i]  BY <1>2, <2>3 DEF Image
    <3>3. Image(m)[i] = w[i]  BY <2>2, <2>3, SpaceAssumption DEF Image
    <3> QED  BY <1>3, <2>1, <3>1, <3>2, <3>3
  <2>4. CASE ~(i <= Len(w))
    <3>1. Image(Flushed)[i] = Blank  BY <1>2, <2>4 DEF Image
    <3> QED  BY <2>1, <3>1, MarkFacts
  <2> QED  BY <2>3, <2>4
<1> QED  BY <1>1, <1>2, <1>4, <1>5 DEF w

-----------------------------------------------------------------------------
(* The invariant is kept: the start, and the operations on the map *)

LEMMA KvInit ==
  ASSUME Init
  PROVE  KvInv
<1>1. BlankBank \in [1..Cap -> BankSlots] /\ ~Valid(BlankBank)  BY BlankInvalid
<1>2. <<>> \in Seq(Slots) /\ <<>> \in Seq(Entries) /\ Len(<<>>) = 0  OBVIOUS
<1>3. <<>> \o <<>> = <<>> /\ Distinct(<<>>)  BY <1>2, EmptyFacts
<1>4. KvType
  <2>1. linked \in BOOLEAN /\ doErase \in BOOLEAN /\ saved \in BOOLEAN  BY DEF Init
  <2>2. orphans \in 0..Cap /\ crashes \in 0..MaxCrashes
    BY SpaceAssumption, BoundAssumption DEF Init
  <2>3. mirror \in Seq(Slots) /\ list \in Seq(Entries) /\ Len(mirror) <= Cap
    BY <1>2, SpaceAssumption DEF Init
  <2>4. /\ primary \in [1..Cap -> BankSlots] /\ backup \in [1..Cap -> BankSlots]
        /\ mode \in {"off", "boot", "run", "fault"}
    BY <1>1 DEF Init
  <2> QED  BY <2>1, <2>2, <2>3, <2>4 DEF KvType
<1>5. Distinct(mirror \o list)  BY <1>3 DEF Init
<1>6. OffInv  BY <1>1 DEF Init, OffInv
<1>7. BootInv /\ IdleInv /\ SaveInv  BY DEF Init, BootInv, IdleInv, SaveInv
<1> QED  BY <1>4, <1>5, <1>6, <1>7 DEF KvInv

\* What closed mirrors with no pending entries satisfy.
LEMMA ClosedType ==
  ASSUME NEW m, Closed(m)
  PROVE  /\ m \in Seq(Slots) /\ Len(m) <= Cap /\ <<>> \in Seq(Entries)
         /\ Distinct(m \o <<>>) /\ Covers(m, Image(m))
<1>1. m \in Seq(Slots) /\ Len(m) <= Cap /\ Distinct(m)
  <2>1. Len(m) \in 1..Cap  BY DEF Closed
  <2> QED  BY <2>1, SpaceAssumption DEF Closed
<1>2. m \o <<>> = m  BY <1>1, EmptyFacts
<1> QED  BY <1>1, <1>2 DEF Covers

LEMMA KvLoad ==
  ASSUME KvInv, Load
  PROVE  KvInv'
<1>1. /\ KvType /\ mode = "off"
      /\ list' = <<>> /\ linked' = TRUE /\ orphans' = 0 /\ doErase' = FALSE
      /\ primary' = primary /\ backup' = backup /\ saved' = saved /\ crashes' = crashes
      /\ mode' = IF jobs' = <<>> THEN "run" ELSE "boot"
  BY DEF KvInv, Load, flash
<1>2. /\ Valid(primary) => Clean(primary)
      /\ Valid(backup) => Clean(backup)
      /\ Valid(primary) /\ Valid(backup) => primary = backup
      /\ saved => Valid(primary) \/ Valid(backup)
  BY <1>1 DEF KvInv, OffInv
<1>3. /\ Valid(primary) =>
           Closed(UsedPart(primary)) /\ primary = Image(UsedPart(primary))
      /\ Valid(backup) =>
           Closed(UsedPart(backup)) /\ backup = Image(UsedPart(backup))
  BY <1>2 DEF Clean
<1>4. ASSUME Closed(mirror')
      PROVE  KvType' /\ Distinct(mirror \o list)'
  <2>1. linked' \in BOOLEAN /\ doErase' \in BOOLEAN /\ saved' \in BOOLEAN
    BY <1>1 DEF KvType
  <2>2. orphans' \in 0..Cap /\ crashes' \in 0..MaxCrashes  BY <1>1, SpaceAssumption DEF KvType
  <2>3. /\ mirror' \in Seq(Slots) /\ list' \in Seq(Entries) /\ Len(mirror') <= Cap
        /\ Distinct(mirror' \o list')
    BY <1>1, <1>4, ClosedType
  <2>4. /\ primary' \in [1..Cap -> BankSlots] /\ backup' \in [1..Cap -> BankSlots]
        /\ mode' \in {"off", "boot", "run", "fault"}
    BY <1>1 DEF KvType
  <2> QED  BY <2>1, <2>2, <2>3, <2>4 DEF KvType
<1>5. OffInv'  BY <1>1 DEF OffInv
<1>6. CASE Valid(primary) /\ Valid(backup)
  <2>1. jobs' = <<>> /\ mirror' = UsedPart(primary) /\ mode' = "run"  BY <1>1, <1>6 DEF Load
  <2>2. Closed(mirror') /\ primary = Image(mirror')  BY <1>3, <1>6, <2>1
  <2>3. Covers(mirror', primary)  BY <2>2, ClosedType
  <2>4. IdleInv'  BY <1>1, <1>2, <1>6, <2>1, <2>3 DEF IdleInv, Stable
  <2>5. BootInv' /\ SaveInv'  BY <2>1 DEF BootInv, SaveInv
  <2> QED  BY <1>4, <1>5, <2>2, <2>4, <2>5 DEF KvInv
<1>7. CASE Valid(primary) /\ ~Valid(backup)
  <2>1. jobs' = EraseAndWrite("backup") /\ mirror' = UsedPart(primary)  BY <1>7 DEF Load
  <2>2. jobs' # <<>> /\ mode' = "boot"  BY <1>1, <2>1 DEF EraseAndWrite
  <2>3. Closed(mirror') /\ primary = Image(mirror')  BY <1>3, <1>7, <2>1
  <2>4. BootInv'  BY <1>1, <1>7, <2>1, <2>3 DEF BootInv
  <2>5. IdleInv' /\ SaveInv'  BY <2>2 DEF IdleInv, SaveInv
  <2> QED  BY <1>4, <1>5, <2>3, <2>4, <2>5 DEF KvInv
<1>8. CASE ~Valid(primary) /\ Valid(backup)
  <2>1. jobs' = EraseAndWrite("primary") /\ mirror' = UsedPart(backup)  BY <1>8 DEF Load
  <2>2. jobs' # <<>> /\ mode' = "boot"  BY <1>1, <2>1 DEF EraseAndWrite
  <2>3. Closed(mirror') /\ backup = Image(mirror')  BY <1>3, <1>8, <2>1
  <2>4. BootInv'  BY <1>1, <1>8, <2>1, <2>3 DEF BootInv
  <2>5. IdleInv' /\ SaveInv'  BY <2>2 DEF IdleInv, SaveInv
  <2> QED  BY <1>4, <1>5, <2>3, <2>4, <2>5 DEF KvInv
<1>9. CASE ~Valid(primary) /\ ~Valid(backup)
  <2>1. /\ jobs' = <<<<"erase", "primary">>, <<"erase", "backup">>>>
        /\ mirror' = DefaultSetting
    BY <1>9 DEF Load
  <2>2. jobs' # <<>> /\ mode' = "boot"  BY <1>1, <2>1
  <2>3. Closed(mirror')  BY <2>1, DefaultFacts
  <2>4. saved' = FALSE  BY <1>1, <1>2, <1>9 DEF KvType
  <2>5. BootInv'  BY <1>1, <1>9, <2>1, <2>3, <2>4 DEF BootInv
  <2>6. IdleInv' /\ SaveInv'  BY <2>2 DEF IdleInv, SaveInv
  <2> QED  BY <1>4, <1>5, <2>3, <2>5, <2>6 DEF KvInv
<1> QED  BY <1>6, <1>7, <1>8, <1>9

\* What is left to show of an operation on the map.
LEMMA KvMapStep ==
  ASSUME KvInv, Idle, mode' \in {"run", "fault"},
         UNCHANGED <<flash, jobs, saved, crashes>>,
         mirror' \in Seq(Slots), Len(mirror') <= Cap, list' \in Seq(Entries),
         linked' \in BOOLEAN, orphans' \in 0..Cap, doErase' \in BOOLEAN,
         Distinct(mirror' \o list'),
         \A b : doErase \/ Covers(mirror, b) => doErase' \/ Covers(mirror', b)
  PROVE  KvInv'
<1>1. KvType'  BY DEF KvInv, KvType, flash
<1>2. OffInv' /\ BootInv'  BY DEF OffInv, BootInv
<1>3. jobs' = <<>>  BY DEF Idle
<1>4. IdleInv'  BY <1>3 DEF KvInv, IdleInv, Idle, flash
<1>5. SaveInv'  BY <1>3 DEF SaveInv
<1> QED  BY <1>1, <1>2, <1>4, <1>5 DEF KvInv

LEMMA ZeroCovers ==
  ASSUME NEW m \in Seq(Slots), NEW k, NEW b, Covers(m, b)
  PROVE  Covers(ZeroKey(m, k), b)
<1>1. Len(ZeroKey(m, k)) = Len(m)  BY ZeroFacts
<1>2. \A i \in DOMAIN m : ZeroKey(m, k)[i] = Zero \/ ZeroKey(m, k)[i] = m[i]  BY DEF ZeroKey
<1> SUFFICES ASSUME NEW i \in 1..Cap
             PROVE  \/ b[i] = Blank \/ b[i] = Image(ZeroKey(m, k))[i]
                    \/ Image(ZeroKey(m, k))[i] = Zero
  BY DEF Covers
<1>3. b[i] = Blank \/ b[i] = Image(m)[i] \/ Image(m)[i] = Zero  BY DEF Covers
<1>4. CASE i <= Len(m)
  <2>1. i \in DOMAIN m /\ Image(m)[i] = m[i] /\ Image(ZeroKey(m, k))[i] = ZeroKey(m, k)[i]
    BY <1>1, <1>4, SpaceAssumption DEF Image
  <2> QED  BY <1>2, <1>3, <2>1
<1>5. CASE ~(i <= Len(m))
  <2>1. Image(m)[i] = Image(ZeroKey(m, k))[i]  BY <1>1, <1>5 DEF Image
  <2> QED  BY <1>3, <2>1
<1> QED  BY <1>4, <1>5

\* add_data_list, when the tail pointer is right and when it is not.
LEMMA AddFacts ==
  ASSUME list \in Seq(Entries), Distinct(list), linked \in BOOLEAN, orphans \in Nat,
         NEW k \in Keys, NEW v \in Values, AddData(k, v)
  PROVE  /\ list' \in Seq(Entries) /\ Distinct(list')
         /\ \A q, x : Holds(list', q, x) => (Holds(list, q, x) /\ q # k) \/ (q = k /\ x = v)
         /\ linked => \A q, x : (Holds(list, q, x) /\ q # k) \/ (q = k /\ x = v)
                                  => Holds(list', q, x)
         /\ linked' = linked /\ orphans' \in {orphans, orphans + 1}
         /\ linked => orphans' = orphans
<1> DEFINE e == Entry(k, v)
<1>0. e \in Entries /\ e.kind = "env" /\ e.key = k /\ e.val = v  BY DEF Entry, Entries
<1> HIDE DEF e
<1>1. DOMAIN list = 1..Len(list) /\ Len(list) \in Nat /\ \A i \in DOMAIN list : list[i] \in Entries
  OBVIOUS
<1>2. CASE HasKey(list, k)
  <2>1. /\ list' = [i \in DOMAIN list |-> IF list[i].key = k THEN e ELSE list[i]]
        /\ linked' = linked /\ orphans' = orphans
    BY <1>2 DEF AddData, e
  <2>2. /\ DOMAIN list' = DOMAIN list
        /\ \A i \in DOMAIN list : list'[i] = IF list[i].key = k THEN e ELSE list[i]
    BY <2>1
  <2>3. \A i \in DOMAIN list : list'[i] \in Entries /\ list'[i].key = list[i].key
    BY <1>0, <1>1, <2>2
  <2>4. list' \in Seq(Entries)  BY <1>1, <2>1, <2>3
  <2>5. Distinct(list')
    <3>1. \A i \in DOMAIN list : list[i].kind = "env"  BY <1>1, EntryFacts
    <3> QED  BY <2>2, <2>3, <3>1 DEF Distinct
  <2>6. ASSUME NEW q, NEW x, Holds(list', q, x)
        PROVE  (Holds(list, q, x) /\ q # k) \/ (q = k /\ x = v)
    <3>1. PICK i \in DOMAIN list : IsEnv(list'[i], q) /\ list'[i].val = x
      BY <2>2, <2>6 DEF Holds
    <3> QED  BY <1>0, <2>2, <3>1 DEF Holds, IsEnv
  <2>7. ASSUME NEW q, NEW x, (Holds(list, q, x) /\ q # k) \/ (q = k /\ x = v)
        PROVE  Holds(list', q, x)
    <3>1. CASE Holds(list, q, x) /\ q # k
      <4>1. PICK i \in DOMAIN list : IsEnv(list[i], q) /\ list[i].val = x  BY <3>1 DEF Holds
      <4>2. list'[i] = list[i]  BY <2>2, <3>1, <4>1 DEF IsEnv
      <4> QED  BY <2>2, <4>1, <4>2 DEF Holds
    <3>2. CASE q = k /\ x = v
      <4>1. PICK i \in DOMAIN list : IsEnv(list[i], k)  BY <1>2 DEF HasKey
      <4>2. list'[i] = e  BY <2>2, <4>1 DEF IsEnv
      <4> QED  BY <1>0, <2>2, <3>2, <4>1, <4>2 DEF Holds, IsEnv
    <3> QED  BY <2>7, <3>1, <3>2
  <2> QED  BY <2>1, <2>4, <2>5, <2>6, <2>7
<1>3. CASE ~HasKey(list, k) /\ ~linked
  <2>1. list' = list /\ linked' = linked /\ orphans' = orphans + 1
    BY <1>3 DEF AddData
  <2>2. \A x : ~Holds(list, k, x)  BY <1>3, HasHolds
  <2> QED  BY <1>3, <2>1, <2>2
<1>4. CASE ~HasKey(list, k) /\ linked
  <2>1. list' = Append(list, e) /\ linked' = linked /\ orphans' = orphans
    BY <1>4 DEF AddData, e
  <2>2. list' \in Seq(Entries)  BY <1>0, <2>1
  <2>3. /\ DOMAIN list' = DOMAIN list \cup {Len(list) + 1} /\ Len(list) + 1 \notin DOMAIN list
        /\ \A i \in DOMAIN list : list'[i] = list[i]
        /\ list'[Len(list) + 1] = e
    BY <1>0, <1>1, <2>1
  <2>4. \A i \in DOMAIN list : list[i].key # k /\ list[i].kind = "env"
    BY <1>1, <1>4, EntryFacts DEF HasKey, IsEnv
  <2>5. Distinct(list')
    <3> SUFFICES ASSUME NEW i \in DOMAIN list', NEW j \in DOMAIN list', i # j
                 PROVE  list'[i].key # list'[j].key
      BY DEF Distinct
    <3>1. CASE i \in DOMAIN list /\ j \in DOMAIN list
      BY <2>3, <2>4, <3>1 DEF Distinct
    <3>2. CASE i \in DOMAIN list /\ j = Len(list) + 1  BY <1>0, <2>3, <2>4, <3>2
    <3>3. CASE i = Len(list) + 1 /\ j \in DOMAIN list  BY <1>0, <2>3, <2>4, <3>3
    <3> QED  BY <2>3, <3>1, <3>2, <3>3
  <2>6. ASSUME NEW q, NEW x
        PROVE  Holds(list', q, x) <=> Holds(list, q, x) \/ (q = k /\ x = v)
    BY <1>0, <2>3 DEF Holds, IsEnv
  <2>7. \A q, x : Holds(list, q, x) => q # k  BY <2>4 DEF Holds, IsEnv
  <2> QED  BY <2>1, <2>2, <2>5, <2>6, <2>7
<1> QED  BY <1>2, <1>3, <1>4

LEMMA DeleteFacts ==
  ASSUME list \in Seq(Entries), Distinct(list), NEW k, DeleteData(k)
  PROVE  /\ list' \in Seq(Entries) /\ Distinct(list')
         /\ \A q, x : Holds(list', q, x) <=> Holds(list, q, x) /\ q # k
         /\ linked' \in BOOLEAN /\ orphans' = orphans
<1>1. PICK d \in DOMAIN list :
        /\ list[d].key = k
        /\ list' = [i \in 1..(Len(list) - 1) |-> list[IF i < d THEN i ELSE i + 1]]
  BY DEF DeleteData
<1>2. /\ DOMAIN list = 1..Len(list) /\ Len(list) \in Nat
      /\ \A i \in DOMAIN list : list[i] \in Entries /\ list[i].kind = "env"
  BY EntryFacts
<1> DEFINE from(i) == IF i < d THEN i ELSE i + 1
           to(j)   == IF j < d THEN j ELSE j - 1
<1>3. \A i \in 1..(Len(list) - 1) :
        from(i) \in DOMAIN list /\ from(i) # d /\ list'[i] = list[from(i)]
  BY <1>1, <1>2
<1>4. \A i, j \in 1..(Len(list) - 1) : i # j => from(i) # from(j)  BY <1>1, <1>2
<1>5. \A j \in DOMAIN list : j # d => to(j) \in 1..(Len(list) - 1) /\ from(to(j)) = j
  BY <1>1, <1>2
<1> HIDE DEF from, to
<1>6. DOMAIN list' = 1..(Len(list) - 1)  BY <1>1
<1>7. list' \in Seq(Entries)
  <2>1. Len(list) - 1 \in Nat  BY <1>1, <1>2
  <2>2. list' = [i \in 1..(Len(list) - 1) |-> list'[i]]  BY <1>1
  <2> QED  BY <1>2, <1>3, <2>1, <2>2
<1>8. Distinct(list')  BY <1>2, <1>3, <1>4, <1>6 DEF Distinct
<1>9. ASSUME NEW q, NEW x, Holds(list', q, x) PROVE Holds(list, q, x) /\ q # k
  <2>1. PICK i \in DOMAIN list' : IsEnv(list'[i], q) /\ list'[i].val = x  BY <1>9 DEF Holds
  <2>2. from(i) \in DOMAIN list /\ from(i) # d /\ list'[i] = list[from(i)]  BY <1>3, <1>6
  <2>3. list[from(i)].key # k  BY <1>1, <1>2, <2>2 DEF Distinct
  <2> QED  BY <2>1, <2>2, <2>3 DEF Holds, IsEnv
<1>10. ASSUME NEW q, NEW x, Holds(list, q, x), q # k PROVE Holds(list', q, x)
  <2>1. PICK j \in DOMAIN list : IsEnv(list[j], q) /\ list[j].val = x  BY <1>10 DEF Holds
  <2>2. j # d  BY <1>1, <1>10, <2>1 DEF IsEnv
  <2>3. to(j) \in DOMAIN list' /\ list'[to(j)] = list[j]  BY <1>3, <1>5, <1>6, <2>2
  <2> QED  BY <2>1, <2>3 DEF Holds
<1>11. linked' \in BOOLEAN /\ orphans' = orphans  BY DEF DeleteData
<1> QED  BY <1>7, <1>8, <1>9, <1>10, <1>11

LEMMA MapFacts ==
  ASSUME KvInv
  PROVE  /\ mirror \in Seq(Slots) /\ Len(mirror) <= Cap
         /\ list \in Seq(Entries) /\ list \in Seq(Slots)
         /\ linked \in BOOLEAN /\ doErase \in BOOLEAN /\ orphans \in 0..Cap /\ orphans \in Nat
         /\ Distinct(mirror) /\ Distinct(list)
         /\ \A k, v, x : ~(Holds(mirror, k, v) /\ Holds(list, k, x))
<1>1. mirror \in Seq(Slots) /\ list \in Seq(Entries) /\ list \in Seq(Slots)
  BY ListSlots DEF KvInv, KvType
<1>2. Distinct(mirror) /\ Distinct(list) /\ Apart(mirror, list)
  BY <1>1, CatDistinct DEF KvInv
<1>3. linked \in BOOLEAN /\ doErase \in BOOLEAN  BY DEF KvInv, KvType
<1>4. Len(mirror) <= Cap /\ orphans \in 0..Cap /\ orphans \in Nat
  BY SpaceAssumption DEF KvInv, KvType
<1> QED  BY <1>1, <1>2, <1>3, <1>4, ApartHolds

LEMMA KvSet ==
  ASSUME KvInv, NEW k \in Keys, NEW v \in Values, Set(k, v)
  PROVE  KvInv'
<1>1. /\ Idle /\ orphans < Cap /\ mirror' = ZeroKey(mirror, k) /\ AddData(k, v)
      /\ mode' = mode /\ doErase' = doErase
      /\ UNCHANGED <<flash, jobs, saved, crashes>>
  BY DEF Set
<1>2. /\ mirror \in Seq(Slots) /\ Len(mirror) <= Cap
      /\ list \in Seq(Entries) /\ Distinct(mirror) /\ Distinct(list)
      /\ linked \in BOOLEAN /\ doErase \in BOOLEAN /\ orphans \in 0..Cap /\ orphans \in Nat
      /\ \A q, x, y : ~(Holds(mirror, q, x) /\ Holds(list, q, y))
  BY MapFacts
<1>3. /\ mirror' \in Seq(Slots) /\ Len(mirror') = Len(mirror) /\ Distinct(mirror')
      /\ \A q, x : Holds(mirror', q, x) <=> Holds(mirror, q, x) /\ q # k
  BY <1>1, <1>2, ZeroFacts
<1>4. /\ list' \in Seq(Entries) /\ Distinct(list')
      /\ \A q, x : Holds(list', q, x) => (Holds(list, q, x) /\ q # k) \/ (q = k /\ x = v)
      /\ linked' = linked /\ orphans' \in {orphans, orphans + 1}
  BY <1>1, <1>2, AddFacts
<1>5. list' \in Seq(Slots)  BY <1>4, ListSlots
<1>6. Apart(mirror', list')  BY <1>2, <1>3, <1>4, ApartHolds
<1>7. Distinct(mirror' \o list')  BY <1>3, <1>4, <1>5, <1>6, CatDistinct
<1>8. \A b : doErase \/ Covers(mirror, b) => doErase' \/ Covers(mirror', b)
  BY <1>1, <1>2, ZeroCovers
<1>9. orphans' \in 0..Cap  BY <1>1, <1>2, <1>4, SpaceAssumption
<1>10. linked' \in BOOLEAN /\ doErase' \in BOOLEAN  BY <1>1, <1>2, <1>4
<1>11. mode' \in {"run", "fault"} /\ Len(mirror') <= Cap  BY <1>1, <1>2, <1>3 DEF Idle
<1> QED  BY <1>1, <1>3, <1>4, <1>7, <1>8, <1>9, <1>10, <1>11, KvMapStep

\* An entry of the mirror is deleted, the list does not change.
LEMMA KvZero ==
  ASSUME KvInv, NEW k, Idle, mirror' = ZeroKey(mirror, k),
         UNCHANGED <<flash, mode, list, linked, orphans, doErase, jobs, saved, crashes>>
  PROVE  KvInv'
<1>2. /\ mirror \in Seq(Slots) /\ Len(mirror) <= Cap
      /\ list \in Seq(Entries) /\ list \in Seq(Slots) /\ Distinct(mirror) /\ Distinct(list)
      /\ linked \in BOOLEAN /\ doErase \in BOOLEAN /\ orphans \in 0..Cap
      /\ \A q, x, y : ~(Holds(mirror, q, x) /\ Holds(list, q, y))
  BY MapFacts
<1>3. /\ mirror' \in Seq(Slots) /\ Len(mirror') = Len(mirror) /\ Distinct(mirror')
      /\ \A q, x : Holds(mirror', q, x) <=> Holds(mirror, q, x) /\ q # k
  BY <1>2, ZeroFacts
<1>4. Apart(mirror', list)  BY <1>2, <1>3, ApartHolds
<1>5. Distinct(mirror' \o list')  BY <1>2, <1>3, <1>4, CatDistinct
<1>6. \A b : doErase \/ Covers(mirror, b) => doErase' \/ Covers(mirror', b)
  BY <1>2, ZeroCovers
<1>7. linked' \in BOOLEAN /\ doErase' \in BOOLEAN  BY <1>2
<1>8. orphans' \in 0..Cap /\ list' \in Seq(Entries)  BY <1>2
<1>9. mode' \in {"run", "fault"} /\ Len(mirror') <= Cap  BY <1>2, <1>3 DEF Idle
<1> QED  BY <1>3, <1>5, <1>6, <1>7, <1>8, <1>9, KvMapStep

LEMMA KvSetOutOfMem ==
  ASSUME KvInv, NEW k \in Keys, SetOutOfMem(k)
  PROVE  KvInv'
BY KvZero DEF SetOutOfMem

LEMMA KvUnset ==
  ASSUME KvInv, NEW k \in Keys, Unset(k)
  PROVE  KvInv'
<1>1. CASE HasKey(mirror, k)  BY <1>1, KvZero DEF Unset
<1>2. CASE ~HasKey(mirror, k)
  <2>1. /\ Idle /\ DeleteData(k) /\ mirror' = mirror /\ mode' = mode /\ doErase' = doErase
        /\ UNCHANGED <<flash, jobs, saved, crashes>>
    BY <1>2 DEF Unset
  <2>2. /\ mirror \in Seq(Slots) /\ Len(mirror) <= Cap
        /\ list \in Seq(Entries) /\ Distinct(mirror) /\ Distinct(list)
        /\ doErase \in BOOLEAN /\ orphans \in 0..Cap
        /\ \A q, x, y : ~(Holds(mirror, q, x) /\ Holds(list, q, y))
    BY MapFacts
  <2>3. /\ list' \in Seq(Entries) /\ Distinct(list')
        /\ \A q, x : Holds(list', q, x) <=> Holds(list, q, x) /\ q # k
        /\ linked' \in BOOLEAN /\ orphans' = orphans
    BY <2>1, <2>2, DeleteFacts
  <2>4. list' \in Seq(Slots)  BY <2>3, ListSlots
  <2>5. Apart(mirror, list')  BY <2>2, <2>3, ApartHolds
  <2>6. Distinct(mirror' \o list')  BY <2>1, <2>2, <2>3, <2>4, <2>5, CatDistinct
  <2>7. \A b : doErase \/ Covers(mirror, b) => doErase' \/ Covers(mirror', b)  BY <2>1
  <2>8. doErase' \in BOOLEAN  BY <2>1, <2>2
  <2>9. /\ mode' \in {"run", "fault"} /\ Len(mirror') <= Cap
        /\ mirror' \in Seq(Slots) /\ orphans' \in 0..Cap
    BY <2>1, <2>2, <2>3 DEF Idle
  <2> QED  BY <2>1, <2>3, <2>6, <2>7, <2>8, <2>9, KvMapStep
<1> QED  BY <1>1, <1>2

LEMMA KvSaveToGpm ==
  ASSUME KvInv, SaveToGpm
  PROVE  KvInv'
<1>1. /\ Idle /\ (SpaceEnough \/ CanCompact) /\ mirror' = Flushed /\ doErase' = EraseNeeded
      /\ list' = <<>> /\ linked' = TRUE /\ orphans' = orphans
      /\ mode' = IF Unwritten THEN "fault" ELSE mode
      /\ UNCHANGED <<flash, jobs, saved, crashes>>
  BY DEF SaveToGpm, EmptyList
<1>2. /\ Flushed \in Seq(Slots) /\ Len(Flushed) < Cap /\ Distinct(Flushed)
      /\ \A b : doErase \/ Covers(mirror, b) => EraseNeeded \/ Covers(Flushed, b)
  BY <1>1, FlushedFacts DEF KvInv
<1>3. mirror' \in Seq(Slots) /\ Len(mirror') <= Cap
  <2>1. Len(Flushed) \in Nat  BY <1>2
  <2> QED  BY <1>1, <1>2, <2>1, SpaceAssumption
<1>4. Distinct(mirror' \o list')  BY <1>1, <1>2, EmptyFacts
<1>5. list' \in Seq(Entries)  BY <1>1
<1>6. linked' \in BOOLEAN /\ doErase' \in BOOLEAN
  BY <1>1, MapFacts DEF EraseNeeded
<1>7. orphans' \in 0..Cap  BY <1>1, MapFacts
<1>8. mode' \in {"run", "fault"}  BY <1>1 DEF Idle
<1>9. \A b : doErase \/ Covers(mirror, b) => doErase' \/ Covers(mirror', b)  BY <1>1, <1>2
<1> QED  BY <1>1, <1>3, <1>4, <1>5, <1>6, <1>7, <1>8, <1>9, KvMapStep

LEMMA KvSave ==
  ASSUME KvInv, Save
  PROVE  KvInv'
<1>1. /\ Idle /\ (SpaceEnough \/ CanCompact)
      /\ mirror' = Append(ZeroCrc(Flushed), Crc(ZeroCrc(Flushed))) /\ doErase' = EraseNeeded
      /\ list' = <<>> /\ linked' = TRUE /\ orphans' = orphans
      /\ mode' = IF Unwritten THEN "fault" ELSE mode
      /\ jobs' = IF Unwritten THEN <<>> ELSE SaveJobs(EraseNeeded)
      /\ primary' = primary /\ backup' = backup /\ saved' = saved /\ crashes' = crashes
  BY DEF Save, EmptyList, flash
<1>2. /\ Closed(mirror')
      /\ \A b : doErase \/ Covers(mirror, b) => EraseNeeded \/ Covers(mirror', b)
  BY <1>1, SavedFacts DEF KvInv
<1>3. /\ mirror' \in Seq(Slots) /\ Len(mirror') <= Cap /\ list' \in Seq(Entries)
      /\ Distinct(mirror' \o list')
  BY <1>1, <1>2, ClosedType
<1>4. /\ primary = backup /\ Stable(backup) /\ (saved => Clean(backup))
      /\ doErase \/ Covers(mirror, backup)
  BY <1>1 DEF KvInv, IdleInv, Idle
<1>5. linked' \in BOOLEAN /\ doErase' \in BOOLEAN /\ saved' \in BOOLEAN /\ EraseNeeded \in BOOLEAN
  BY <1>1, MapFacts DEF EraseNeeded, KvInv, KvType
<1>6. mode' \in {"run", "fault"}  BY <1>1 DEF Idle
<1>7. KvType'
  <2>1. /\ primary' \in [1..Cap -> BankSlots] /\ backup' \in [1..Cap -> BankSlots]
        /\ orphans' \in 0..Cap /\ crashes' \in 0..MaxCrashes
    BY <1>1 DEF KvInv, KvType
  <2> QED  BY <1>3, <1>5, <1>6, <2>1 DEF KvType
<1>8. OffInv' /\ BootInv'  BY <1>6 DEF OffInv, BootInv
<1>9. IdleInv'
  <2> SUFFICES ASSUME jobs' = <<>>
               PROVE  /\ primary' = backup' /\ Stable(primary') /\ (saved' => Clean(primary'))
                      /\ doErase' \/ Covers(mirror', primary')
    BY DEF IdleInv
  <2> QED  BY <1>1, <1>2, <1>4
<1>10. SaveInv'
  <2> SUFFICES ASSUME jobs' # <<>>
               PROVE  /\ mode' = "run" /\ Closed(mirror') /\ list' = <<>>
                      /\ \/ jobs' = SaveJobs(TRUE) /\ primary' = backup'
                         \/ jobs' = SaveJobs(FALSE) /\ primary' = backup' /\ Covers(mirror', backup')
                      /\ Stable(backup') /\ (saved' => Clean(backup'))
    BY DEF SaveInv
  <2>1. jobs' = SaveJobs(EraseNeeded) /\ mode' = "run"  BY <1>1 DEF Idle
  <2>2. CASE EraseNeeded = TRUE  BY <1>1, <1>2, <1>4, <2>1, <2>2
  <2>3. CASE EraseNeeded = FALSE  BY <1>1, <1>2, <1>4, <2>1, <2>3
  <2> QED  BY <1>5, <2>2, <2>3
<1> QED  BY <1>3, <1>7, <1>8, <1>9, <1>10 DEF KvInv

-----------------------------------------------------------------------------
(* The invariant is kept: the accesses to the flash, and the loss of power *)

LEMMA JobFacts ==
  /\ Head(EraseAndWrite("primary")) = <<"erase", "primary">>
  /\ Tail(EraseAndWrite("primary")) = <<<<"write", "primary">>>>
  /\ Head(EraseAndWrite("backup")) = <<"erase", "backup">>
  /\ Tail(EraseAndWrite("backup")) = <<<<"write", "backup">>>>
  /\ Head(SaveJobs(TRUE)) = <<"erase", "primary">>
  /\ Head(Tail(SaveJobs(TRUE))) = <<"write", "primary">>
  /\ Tail(Tail(SaveJobs(TRUE))) = EraseAndWrite("backup")
  /\ Head(SaveJobs(FALSE)) = <<"write", "primary">>
  /\ Tail(SaveJobs(FALSE)) = <<<<"write", "backup">>>>
  /\ Len(EraseAndWrite("primary")) > 1 /\ Len(EraseAndWrite("backup")) > 1
  /\ Len(SaveJobs(TRUE)) > 1 /\ Len(Tail(SaveJobs(TRUE))) > 1 /\ Len(SaveJobs(FALSE)) > 1
  /\ EraseAndWrite("primary") # <<>> /\ EraseAndWrite("backup") # <<>>
  /\ SaveJobs(TRUE) # <<>> /\ Tail(SaveJobs(TRUE)) # <<>> /\ SaveJobs(FALSE) # <<>>
BY DEF EraseAndWrite, SaveJobs

LEMMA OneJobFacts ==
  ASSUME NEW j
  PROVE  Head(<<j>>) = j /\ Tail(<<j>>) = <<>> /\ Len(<<j>>) = 1 /\ <<j>> # <<>>
OBVIOUS

LEMMA AccessFacts ==
  ASSUME FlashAccess
  PROVE  /\ jobs # <<>> /\ jobs' = Tail(jobs)
         /\ Head(jobs) = <<"erase", "primary">> => primary' = BlankBank /\ backup' = backup
         /\ Head(jobs) = <<"write", "primary">> =>
              primary' = Written(primary, Cap) /\ backup' = backup
         /\ Head(jobs) = <<"erase", "backup">> => primary' = primary /\ backup' = BlankBank
         /\ Head(jobs) = <<"write", "backup">> =>
              primary' = primary /\ backup' = Written(backup, Cap)
         /\ mirror' = mirror /\ list' = list /\ linked' = linked /\ orphans' = orphans
         /\ crashes' = crashes
         /\ Len(jobs) > 1 => mode' = mode /\ doErase' = doErase /\ saved' = saved
         /\ ~(Len(jobs) > 1) => mode' = "run" /\ doErase' = FALSE
                                /\ saved' = (saved \/ mode = "run")
<1>1. /\ Head(jobs) = <<"erase", "primary">> => Head(jobs)[1] = "erase" /\ Head(jobs)[2] = "primary"
      /\ Head(jobs) = <<"write", "primary">> => Head(jobs)[1] = "write" /\ Head(jobs)[2] = "primary"
      /\ Head(jobs) = <<"erase", "backup">> => Head(jobs)[1] = "erase" /\ Head(jobs)[2] = "backup"
      /\ Head(jobs) = <<"write", "backup">> => Head(jobs)[1] = "write" /\ Head(jobs)[2] = "backup"
  OBVIOUS
<1>2. primary' = After("primary", primary) /\ backup' = After("backup", backup)  BY DEF FlashAccess
<1>3. /\ Head(jobs) = <<"erase", "primary">> => primary' = BlankBank /\ backup' = backup
      /\ Head(jobs) = <<"write", "primary">> =>
           primary' = Written(primary, Cap) /\ backup' = backup
      /\ Head(jobs) = <<"erase", "backup">> => primary' = primary /\ backup' = BlankBank
      /\ Head(jobs) = <<"write", "backup">> =>
           primary' = primary /\ backup' = Written(backup, Cap)
  BY <1>1, <1>2 DEF After
<1>4. /\ jobs # <<>> /\ jobs' = Tail(jobs)
      /\ mirror' = mirror /\ list' = list /\ linked' = linked /\ orphans' = orphans
      /\ crashes' = crashes
      /\ Len(jobs) > 1 => mode' = mode /\ doErase' = doErase /\ saved' = saved
      /\ ~(Len(jobs) > 1) => mode' = "run" /\ doErase' = FALSE
                             /\ saved' = (saved \/ mode = "run")
  BY DEF FlashAccess, ram
<1> QED  BY <1>3, <1>4

\* The types after an access, and what the access does not reach.
LEMMA AccessType ==
  ASSUME KvInv, FlashAccess,
         primary' \in [1..Cap -> BankSlots], backup' \in [1..Cap -> BankSlots]
  PROVE  KvType' /\ Distinct(mirror \o list)' /\ OffInv'
<1>1. mode' \in {"boot", "run", "fault"}
  <2>1. mode # "off"  BY DEF KvInv, OffInv, FlashAccess
  <2> QED  BY <2>1, AccessFacts DEF KvInv, KvType
<1>2. doErase' \in BOOLEAN /\ saved' \in BOOLEAN /\ linked' \in BOOLEAN
  <2>1. CASE Len(jobs) > 1  BY <2>1, AccessFacts DEF KvInv, KvType
  <2>2. CASE ~(Len(jobs) > 1)
    <3>1. doErase' = FALSE /\ saved' = (saved \/ mode = "run") /\ linked' = linked
      BY <2>2, AccessFacts
    <3> QED  BY <3>1 DEF KvInv, KvType
  <2> QED  BY <2>1, <2>2
<1>3. /\ mirror' = mirror /\ list' = list /\ orphans' = orphans /\ crashes' = crashes
  BY AccessFacts
<1>4. KvType'  BY <1>1, <1>2, <1>3 DEF KvInv, KvType
<1>5. Distinct(mirror \o list)'  BY <1>3 DEF KvInv
<1>6. OffInv'  BY <1>1 DEF OffInv
<1> QED  BY <1>4, <1>5, <1>6

\* kvpfs_init.
LEMMA KvBootAccess ==
  ASSUME KvInv, FlashAccess, mode = "boot"
  PROVE  KvInv'
<1>1. /\ Closed(mirror) /\ list = <<>>
      /\ primary \in [1..Cap -> BankSlots] /\ backup \in [1..Cap -> BankSlots]
  BY DEF KvInv, BootInv, KvType
<1>2. /\ BlankBank \in [1..Cap -> BankSlots] /\ ~Valid(BlankBank) /\ Covers(mirror, BlankBank)
      /\ Image(mirror) \in [1..Cap -> BankSlots] /\ Clean(Image(mirror))
      /\ Covers(mirror, Image(mirror)) /\ Written(BlankBank, Cap) = Image(mirror)
  BY <1>1, BlankInvalid, CoversBlank, ImageClean, ClosedType, WrittenAll
<1>3. mirror' = mirror /\ list' = list /\ jobs # <<>> /\ jobs' = Tail(jobs)
  BY AccessFacts
<1>4. ASSUME jobs' # <<>>, mode' = "boot" PROVE IdleInv' /\ SaveInv'
  BY <1>4 DEF IdleInv, SaveInv
<1>5. ASSUME jobs' = <<>>, mode' = "run" PROVE BootInv' /\ SaveInv'
  BY <1>5 DEF BootInv, SaveInv
<1>6. CASE jobs = EraseAndWrite("primary") /\ ~Valid(primary) /\ backup = Image(mirror)
  <2>0. Head(jobs) = <<"erase", "primary">> /\ Tail(jobs) = <<<<"write", "primary">>>> /\ Len(jobs) > 1
    BY <1>6, JobFacts
  <2>1. /\ jobs' = <<<<"write", "primary">>>> /\ mode' = "boot"
        /\ primary' = BlankBank /\ backup' = backup
    BY <1>6, <2>0, AccessFacts
  <2>2. BootInv'  BY <1>1, <1>3, <1>6, <2>1 DEF BootInv
  <2>3. KvType' /\ Distinct(mirror \o list)' /\ OffInv'  BY <1>1, <1>2, <2>1, AccessType
  <2> QED  BY <1>4, <2>1, <2>2, <2>3, OneJobFacts DEF KvInv
<1>7. CASE jobs = <<<<"write", "primary">>>> /\ primary = BlankBank /\ backup = Image(mirror)
  <2>1. /\ jobs' = <<>> /\ mode' = "run" /\ doErase' = FALSE
        /\ primary' = Image(mirror) /\ backup' = Image(mirror)
    BY <1>2, <1>7, AccessFacts, OneJobFacts
  <2>2. IdleInv'  BY <1>2, <1>3, <2>1 DEF IdleInv, Stable
  <2>3. KvType' /\ Distinct(mirror \o list)' /\ OffInv'  BY <1>1, <1>2, <2>1, AccessType
  <2> QED  BY <1>5, <2>1, <2>2, <2>3 DEF KvInv
<1>8. CASE jobs = EraseAndWrite("backup") /\ ~Valid(backup) /\ primary = Image(mirror)
  <2>0. Head(jobs) = <<"erase", "backup">> /\ Tail(jobs) = <<<<"write", "backup">>>> /\ Len(jobs) > 1
    BY <1>8, JobFacts
  <2>1. /\ jobs' = <<<<"write", "backup">>>> /\ mode' = "boot"
        /\ primary' = primary /\ backup' = BlankBank
    BY <1>8, <2>0, AccessFacts
  <2>2. BootInv'  BY <1>1, <1>3, <1>8, <2>1 DEF BootInv
  <2>3. KvType' /\ Distinct(mirror \o list)' /\ OffInv'  BY <1>1, <1>2, <2>1, AccessType
  <2> QED  BY <1>4, <2>1, <2>2, <2>3, OneJobFacts DEF KvInv
<1>9. CASE jobs = <<<<"write", "backup">>>> /\ backup = BlankBank /\ primary = Image(mirror)
  <2>1. /\ jobs' = <<>> /\ mode' = "run" /\ doErase' = FALSE
        /\ primary' = Image(mirror) /\ backup' = Image(mirror)
    BY <1>2, <1>9, AccessFacts, OneJobFacts
  <2>2. IdleInv'  BY <1>2, <1>3, <2>1 DEF IdleInv, Stable
  <2>3. KvType' /\ Distinct(mirror \o list)' /\ OffInv'  BY <1>1, <1>2, <2>1, AccessType
  <2> QED  BY <1>5, <2>1, <2>2, <2>3 DEF KvInv
<1>10. CASE /\ jobs = <<<<"erase", "primary">>, <<"erase", "backup">>>>
            /\ ~Valid(primary) /\ ~Valid(backup) /\ saved = FALSE /\ mirror = DefaultSetting
  <2>1. /\ Head(jobs) = <<"erase", "primary">> /\ Tail(jobs) = <<<<"erase", "backup">>>>
        /\ Len(jobs) = 2
    BY <1>10
  <2>2. /\ jobs' = <<<<"erase", "backup">>>> /\ mode' = "boot" /\ saved' = FALSE
        /\ primary' = BlankBank /\ backup' = backup
    BY <1>10, <2>1, AccessFacts
  <2>3. BootInv'  BY <1>1, <1>3, <1>10, <2>2 DEF BootInv
  <2>4. KvType' /\ Distinct(mirror \o list)' /\ OffInv'  BY <1>1, <1>2, <2>2, AccessType
  <2> QED  BY <1>4, <2>2, <2>3, <2>4, OneJobFacts DEF KvInv
<1>11. CASE /\ jobs = <<<<"erase", "backup">>>>
            /\ primary = BlankBank /\ ~Valid(backup) /\ saved = FALSE /\ mirror = DefaultSetting
  <2>1. /\ jobs' = <<>> /\ mode' = "run" /\ doErase' = FALSE
        /\ saved' = (saved \/ mode = "run")
        /\ primary' = BlankBank /\ backup' = BlankBank
    BY <1>11, AccessFacts, OneJobFacts
  <2>2. saved' = FALSE  BY <1>11, <2>1
  <2>3. IdleInv'  BY <1>2, <1>3, <2>1, <2>2 DEF IdleInv, Stable
  <2>4. KvType' /\ Distinct(mirror \o list)' /\ OffInv'  BY <1>1, <1>2, <2>1, AccessType
  <2> QED  BY <1>5, <2>1, <2>3, <2>4 DEF KvInv
<1> QED  BY <1>6, <1>7, <1>8, <1>9, <1>10, <1>11 DEF KvInv, BootInv

\* save_env.
LEMMA KvSaveAccess ==
  ASSUME KvInv, FlashAccess, mode # "boot"
  PROVE  KvInv'
<1>0. mode = "run" /\ jobs # <<>>
  <2>1. jobs # <<>>  BY AccessFacts
  <2>2. mode \in {"run", "fault"}  BY <2>1 DEF KvInv, KvType, OffInv
  <2> QED  BY <2>1, <2>2 DEF KvInv, SaveInv
<1>1. /\ Closed(mirror) /\ list = <<>> /\ Stable(backup)
      /\ (saved /\ primary # Image(mirror)) => Clean(backup)
      /\ primary \in [1..Cap -> BankSlots] /\ backup \in [1..Cap -> BankSlots]
  BY <1>0 DEF KvInv, SaveInv, KvType
<1>2. /\ BlankBank \in [1..Cap -> BankSlots] /\ Covers(mirror, BlankBank) /\ Stable(BlankBank)
      /\ Image(mirror) \in [1..Cap -> BankSlots] /\ Clean(Image(mirror))
      /\ Covers(mirror, Image(mirror)) /\ Written(BlankBank, Cap) = Image(mirror)
  BY <1>1, BlankInvalid, CoversBlank, ImageClean, ClosedType, WrittenAll DEF Stable
<1>3. mirror' = mirror /\ list' = list /\ jobs' = Tail(jobs)
  BY AccessFacts
<1>4. ASSUME jobs' # <<>>, mode' = "run" PROVE BootInv' /\ IdleInv'
  BY <1>4 DEF BootInv, IdleInv
<1>5. CASE jobs = SaveJobs(TRUE) /\ primary = backup
  <2>0. Head(jobs) = <<"erase", "primary">> /\ Len(jobs) > 1  BY <1>5, JobFacts
  <2>1. /\ jobs' = Tail(SaveJobs(TRUE)) /\ mode' = "run" /\ saved' = saved
        /\ primary' = BlankBank /\ backup' = backup
    BY <1>0, <1>5, <2>0, AccessFacts
  <2>2. saved => Clean(backup)
    <3>1. CASE primary = Image(mirror)  BY <1>2, <1>5, <3>1
    <3> QED  BY <1>1, <3>1
  <2>3. SaveInv'  BY <1>1, <1>3, <2>1, <2>2 DEF SaveInv
  <2>4. KvType' /\ Distinct(mirror \o list)' /\ OffInv'  BY <1>1, <1>2, <2>1, AccessType
  <2> QED  BY <1>4, <2>1, <2>3, <2>4, JobFacts DEF KvInv
<1>6. CASE jobs = Tail(SaveJobs(TRUE)) /\ primary = BlankBank
  <2>1. /\ jobs' = EraseAndWrite("backup") /\ mode' = "run"
        /\ primary' = Image(mirror) /\ backup' = backup
    BY <1>0, <1>2, <1>6, AccessFacts, JobFacts
  <2>2. SaveInv'  BY <1>1, <1>3, <2>1 DEF SaveInv
  <2>3. KvType' /\ Distinct(mirror \o list)' /\ OffInv'  BY <1>1, <1>2, <2>1, AccessType
  <2> QED  BY <1>4, <2>1, <2>2, <2>3, JobFacts DEF KvInv
<1>7. CASE jobs = EraseAndWrite("backup") /\ primary = Image(mirror)
  <2>1. /\ jobs' = <<<<"write", "backup">>>> /\ mode' = "run"
        /\ primary' = Image(mirror) /\ backup' = BlankBank
    BY <1>0, <1>7, AccessFacts, JobFacts
  <2>2. SaveInv'  BY <1>1, <1>2, <1>3, <2>1 DEF SaveInv
  <2>3. KvType' /\ Distinct(mirror \o list)' /\ OffInv'  BY <1>1, <1>2, <2>1, AccessType
  <2> QED  BY <1>4, <2>1, <2>2, <2>3, OneJobFacts DEF KvInv
<1>8. CASE jobs = <<<<"write", "backup">>>> /\ primary = Image(mirror) /\ Covers(mirror, backup)
  <2>1. Written(backup, Cap) = Image(mirror)  BY <1>1, <1>8, WrittenAll
  <2>2. /\ jobs' = <<>> /\ mode' = "run" /\ doErase' = FALSE
        /\ primary' = Image(mirror) /\ backup' = Image(mirror)
    BY <1>8, <2>1, AccessFacts, OneJobFacts
  <2>3. IdleInv'  BY <1>2, <1>3, <2>2 DEF IdleInv, Stable
  <2>4. KvType' /\ Distinct(mirror \o list)' /\ OffInv'  BY <1>1, <1>2, <2>2, AccessType
  <2>5. BootInv' /\ SaveInv'  BY <2>2 DEF BootInv, SaveInv
  <2> QED  BY <2>3, <2>4, <2>5 DEF KvInv
<1>9. CASE jobs = SaveJobs(FALSE) /\ primary = backup /\ Covers(mirror, backup)
  <2>1. Written(primary, Cap) = Image(mirror)  BY <1>1, <1>9, WrittenAll
  <2>2. /\ jobs' = <<<<"write", "backup">>>> /\ mode' = "run"
        /\ primary' = Image(mirror) /\ backup' = backup
    BY <1>0, <1>9, <2>1, AccessFacts, JobFacts
  <2>3. SaveInv'  BY <1>1, <1>3, <1>9, <2>2 DEF SaveInv
  <2>4. KvType' /\ Distinct(mirror \o list)' /\ OffInv'  BY <1>1, <1>2, <2>2, AccessType
  <2> QED  BY <1>4, <2>2, <2>3, <2>4, OneJobFacts DEF KvInv
<1> QED  BY <1>0, <1>5, <1>6, <1>7, <1>8, <1>9 DEF KvInv, SaveInv

LEMMA CutEraseValid ==
  ASSUME NEW b \in [1..Cap -> BankSlots], NEW c \in CutErase(b)
  PROVE  c \in [1..Cap -> BankSlots] /\ (Valid(c) => c = b)
BY BlankInvalid, JunkInvalid DEF CutErase

\* What a power loss may make of the banks, by the access it cuts.
LEMMA CutFacts ==
  ASSUME PowerLoss
  PROVE  /\ jobs = <<>> => primary' = primary /\ backup' = backup
         /\ (jobs # <<>> /\ Head(jobs) = <<"erase", "primary">>) =>
              primary' \in CutErase(primary) /\ backup' = backup
         /\ (jobs # <<>> /\ Head(jobs) = <<"write", "primary">>) =>
              primary' \in CutWrite(primary) /\ backup' = backup
         /\ (jobs # <<>> /\ Head(jobs) = <<"erase", "backup">>) =>
              primary' = primary /\ backup' \in CutErase(backup)
         /\ (jobs # <<>> /\ Head(jobs) = <<"write", "backup">>) =>
              primary' = primary /\ backup' \in CutWrite(backup)
<1>1. /\ Head(jobs) = <<"erase", "primary">> => Head(jobs)[1] = "erase" /\ Head(jobs)[2] = "primary"
      /\ Head(jobs) = <<"write", "primary">> => Head(jobs)[1] = "write" /\ Head(jobs)[2] = "primary"
      /\ Head(jobs) = <<"erase", "backup">> => Head(jobs)[1] = "erase" /\ Head(jobs)[2] = "backup"
      /\ Head(jobs) = <<"write", "backup">> => Head(jobs)[1] = "write" /\ Head(jobs)[2] = "backup"
  OBVIOUS
<1>2. /\ primary' \in CutAfter("primary", primary)
      /\ backup' \in CutAfter("backup", backup)
  BY DEF PowerLoss
<1> QED  BY <1>1, <1>2 DEF CutAfter

\* ... while kvpfs_init repairs: the map is what it was.
LEMMA LossBoot ==
  ASSUME KvInv, PowerLoss, mode = "boot"
  PROVE  /\ primary' \in [1..Cap -> BankSlots] /\ backup' \in [1..Cap -> BankSlots]
         /\ Closed(mirror)
         /\ \/ /\ primary = Image(mirror) /\ primary' = primary
               /\ Valid(backup') => backup' = Image(mirror)
            \/ /\ backup = Image(mirror) /\ backup' = backup /\ ~Valid(primary)
               /\ Valid(primary') => primary' = Image(mirror)
            \/ /\ ~Valid(primary) /\ ~Valid(backup) /\ ~Valid(primary') /\ ~Valid(backup')
               /\ saved = FALSE
<1>1. /\ Closed(mirror)
      /\ primary \in [1..Cap -> BankSlots] /\ backup \in [1..Cap -> BankSlots]
  BY DEF KvInv, BootInv, KvType
<1>2. /\ ~Valid(BlankBank) /\ BlankBank \in [1..Cap -> BankSlots]
      /\ Stable(BlankBank) /\ Covers(mirror, BlankBank)
  BY BlankInvalid, CoversBlank DEF Stable
<1>3. \A c \in CutWrite(BlankBank) :
        c \in [1..Cap -> BankSlots] /\ (Valid(c) => c = Image(mirror))
  BY <1>1, <1>2, CutWriteValid
<1>4. CASE jobs = EraseAndWrite("primary") /\ ~Valid(primary) /\ backup = Image(mirror)
  <2>1. primary' \in CutErase(primary) /\ backup' = backup  BY <1>4, JobFacts, CutFacts
  <2>2. primary' \in [1..Cap -> BankSlots] /\ ~Valid(primary')  BY <1>1, <1>4, <2>1, CutEraseValid
  <2> QED  BY <1>1, <1>4, <2>1, <2>2
<1>5. CASE jobs = <<<<"write", "primary">>>> /\ primary = BlankBank /\ backup = Image(mirror)
  <2>1. primary' \in CutWrite(BlankBank) /\ backup' = backup  BY <1>5, OneJobFacts, CutFacts
  <2> QED  BY <1>1, <1>2, <1>3, <1>5, <2>1
<1>6. CASE jobs = EraseAndWrite("backup") /\ ~Valid(backup) /\ primary = Image(mirror)
  <2>1. primary' = primary /\ backup' \in CutErase(backup)  BY <1>6, JobFacts, CutFacts
  <2>2. backup' \in [1..Cap -> BankSlots] /\ ~Valid(backup')  BY <1>1, <1>6, <2>1, CutEraseValid
  <2> QED  BY <1>1, <1>6, <2>1, <2>2
<1>7. CASE jobs = <<<<"write", "backup">>>> /\ backup = BlankBank /\ primary = Image(mirror)
  <2>1. primary' = primary /\ backup' \in CutWrite(BlankBank)  BY <1>7, OneJobFacts, CutFacts
  <2> QED  BY <1>1, <1>3, <1>7, <2>1
<1>8. CASE /\ jobs = <<<<"erase", "primary">>, <<"erase", "backup">>>>
           /\ ~Valid(primary) /\ ~Valid(backup) /\ saved = FALSE /\ mirror = DefaultSetting
  <2>1. jobs # <<>> /\ Head(jobs) = <<"erase", "primary">>  BY <1>8
  <2>2. primary' \in CutErase(primary) /\ backup' = backup  BY <2>1, CutFacts
  <2>3. primary' \in [1..Cap -> BankSlots] /\ ~Valid(primary')  BY <1>1, <1>8, <2>2, CutEraseValid
  <2> QED  BY <1>1, <1>8, <2>2, <2>3
<1>9. CASE /\ jobs = <<<<"erase", "backup">>>>
           /\ primary = BlankBank /\ ~Valid(backup) /\ saved = FALSE /\ mirror = DefaultSetting
  <2>1. primary' = primary /\ backup' \in CutErase(backup)  BY <1>9, OneJobFacts, CutFacts
  <2>2. backup' \in [1..Cap -> BankSlots] /\ ~Valid(backup')  BY <1>1, <1>9, <2>1, CutEraseValid
  <2> QED  BY <1>1, <1>2, <1>9, <2>1, <2>2
<1> QED  BY <1>4, <1>5, <1>6, <1>7, <1>8, <1>9 DEF KvInv, BootInv

\* ... while save_env writes: the primary bank is old, new or invalid, and when it
\* is invalid the backup holds the old map.
LEMMA LossSave ==
  ASSUME KvInv, PowerLoss, mode # "boot", jobs # <<>>
  PROVE  /\ primary' \in [1..Cap -> BankSlots] /\ backup' \in [1..Cap -> BankSlots]
         /\ mode = "run" /\ Closed(mirror) /\ list = <<>>
         /\ Stable(backup)
         /\ (saved /\ primary # Image(mirror)) => Clean(backup)
         /\ \/ /\ primary = Image(mirror) /\ primary' = primary
               /\ Valid(backup') => backup' = backup \/ backup' = Image(mirror)
            \/ /\ primary = backup \/ ~Valid(primary)
               /\ backup' = backup
               /\ Valid(primary') => primary' = primary \/ primary' = Image(mirror)
<1>0. mode = "run"
  <2>1. mode \in {"run", "fault"}  BY DEF KvInv, KvType, OffInv
  <2> QED  BY <2>1 DEF KvInv, SaveInv
<1>1. /\ Closed(mirror) /\ list = <<>> /\ Stable(backup)
      /\ (saved /\ primary # Image(mirror)) => Clean(backup)
      /\ primary \in [1..Cap -> BankSlots] /\ backup \in [1..Cap -> BankSlots]
  BY <1>0 DEF KvInv, SaveInv, KvType
<1>2. ~Valid(BlankBank) /\ Stable(BlankBank) /\ Covers(mirror, BlankBank)
  BY BlankInvalid, CoversBlank DEF Stable
<1>3. CASE jobs = SaveJobs(TRUE) /\ primary = backup
  <2>1. primary' \in CutErase(primary) /\ backup' = backup  BY <1>3, JobFacts, CutFacts
  <2>2. primary' \in [1..Cap -> BankSlots] /\ (Valid(primary') => primary' = primary)
    BY <1>1, <2>1, CutEraseValid
  <2> QED  BY <1>0, <1>1, <1>3, <2>1, <2>2
<1>4. CASE jobs = Tail(SaveJobs(TRUE)) /\ primary = BlankBank
  <2>1. primary' \in CutWrite(primary) /\ backup' = backup  BY <1>4, JobFacts, CutFacts
  <2>2. /\ primary' \in [1..Cap -> BankSlots]
        /\ Valid(primary') => primary' = primary \/ primary' = Image(mirror)
    BY <1>1, <1>2, <1>4, <2>1, CutWriteValid
  <2> QED  BY <1>0, <1>1, <1>2, <1>4, <2>1, <2>2
<1>5. CASE jobs = EraseAndWrite("backup") /\ primary = Image(mirror)
  <2>1. primary' = primary /\ backup' \in CutErase(backup)  BY <1>5, JobFacts, CutFacts
  <2>2. backup' \in [1..Cap -> BankSlots] /\ (Valid(backup') => backup' = backup)
    BY <1>1, <2>1, CutEraseValid
  <2> QED  BY <1>0, <1>1, <1>5, <2>1, <2>2
<1>6. CASE jobs = <<<<"write", "backup">>>> /\ primary = Image(mirror) /\ Covers(mirror, backup)
  <2>1. primary' = primary /\ backup' \in CutWrite(backup)  BY <1>6, OneJobFacts, CutFacts
  <2>2. /\ backup' \in [1..Cap -> BankSlots]
        /\ Valid(backup') => backup' = backup \/ backup' = Image(mirror)
    BY <1>1, <1>6, <2>1, CutWriteValid
  <2> QED  BY <1>0, <1>1, <1>6, <2>1, <2>2
<1>7. CASE jobs = SaveJobs(FALSE) /\ primary = backup /\ Covers(mirror, backup)
  <2>1. primary' \in CutWrite(primary) /\ backup' = backup  BY <1>7, JobFacts, CutFacts
  <2>2. /\ primary' \in [1..Cap -> BankSlots]
        /\ Valid(primary') => primary' = primary \/ primary' = Image(mirror)
    BY <1>1, <1>7, <2>1, CutWriteValid
  <2> QED  BY <1>0, <1>1, <1>7, <2>1, <2>2
<1> QED  BY <1>0, <1>3, <1>4, <1>5, <1>6, <1>7 DEF KvInv, SaveInv

\* What the next kvpfs_init finds.
LEMMA KvPowerLoss ==
  ASSUME CrashBetween = FALSE, KvInv, PowerLoss
  PROVE  KvInv'
<1>1. /\ mode # "off" /\ crashes < MaxCrashes /\ mode' = "off"
      /\ mirror' = <<>> /\ list' = <<>> /\ linked' = TRUE /\ orphans' = 0
      /\ doErase' = FALSE /\ jobs' = <<>> /\ crashes' = crashes + 1 /\ saved' = saved
      /\ ~(Valid(primary') /\ Valid(backup') /\ primary' # backup')
  BY DEF PowerLoss
<1>2. /\ primary' \in [1..Cap -> BankSlots] /\ backup' \in [1..Cap -> BankSlots]
      /\ Valid(primary') => Clean(primary')
      /\ Valid(backup') => Clean(backup')
      /\ saved => Valid(primary') \/ Valid(backup')
  <2>1. CASE mode # "boot" /\ jobs = <<>>
    <3>1. primary' = primary /\ backup' = backup  BY <2>1, CutFacts
    <3>2. mode \in {"run", "fault"}  BY <1>1, <2>1 DEF KvInv, KvType
    <3>3. /\ primary = backup /\ Stable(primary) /\ (saved => Clean(primary))
          /\ primary \in [1..Cap -> BankSlots]
      BY <2>1, <3>2 DEF KvInv, IdleInv, KvType
    <3> QED  BY <3>1, <3>3, StableType
  <2>2. CASE mode = "boot"
    <3>1. Closed(mirror)  BY <2>2, LossBoot
    <3>2. Clean(Image(mirror)) /\ Valid(Image(mirror))  BY <3>1, ImageClean
    <3> QED  BY <2>2, <3>2, LossBoot
  <2>3. CASE mode # "boot" /\ jobs # <<>>
    <3>1. /\ Closed(mirror) /\ Stable(backup)
          /\ (saved /\ primary # Image(mirror)) => Clean(backup)
          /\ primary' \in [1..Cap -> BankSlots] /\ backup' \in [1..Cap -> BankSlots]
      BY <2>3, LossSave
    <3>2. Clean(Image(mirror)) /\ Valid(Image(mirror))  BY <3>1, ImageClean
    <3>3. Valid(backup) <=> Clean(backup)  BY <3>1, StableType
    <3>4. CASE /\ primary = Image(mirror) /\ primary' = primary
               /\ Valid(backup') => backup' = backup \/ backup' = Image(mirror)
      BY <3>1, <3>2, <3>3, <3>4
    <3>5. CASE /\ primary = backup \/ ~Valid(primary)
               /\ backup' = backup
               /\ Valid(primary') => primary' = primary \/ primary' = Image(mirror)
      <4>1. saved => Clean(backup)
        <5>1. CASE primary = Image(mirror)  BY <3>2, <3>5, <5>1
        <5> QED  BY <3>1, <5>1
      <4>2. Valid(primary') => Clean(primary')  BY <3>2, <3>3, <3>5
      <4> QED  BY <3>1, <3>3, <3>5, <4>1, <4>2
    <3> QED  BY <2>3, <3>4, <3>5, LossSave
  <2> QED  BY <2>1, <2>2, <2>3
<1>3. Distinct(mirror' \o list') /\ mirror' \in Seq(Slots) /\ list' \in Seq(Entries)
      /\ Len(mirror') = 0
  <2>1. <<>> \in Seq(Slots) /\ <<>> \in Seq(Entries) /\ Len(<<>>) = 0  OBVIOUS
  <2> QED  BY <1>1, <2>1, EmptyFacts
<1>4. KvType'
  <2>1. linked' \in BOOLEAN /\ doErase' \in BOOLEAN /\ saved' \in BOOLEAN
    BY <1>1 DEF KvInv, KvType
  <2>2. orphans' \in 0..Cap /\ crashes' \in 0..MaxCrashes /\ Len(mirror') <= Cap
    BY <1>1, <1>3, SpaceAssumption, BoundAssumption DEF KvInv, KvType
  <2> QED  BY <1>1, <1>2, <1>3, <2>1, <2>2 DEF KvType
<1>5. OffInv'  BY <1>1, <1>2 DEF OffInv
<1>6. BootInv' /\ IdleInv' /\ SaveInv'  BY <1>1 DEF BootInv, IdleInv, SaveInv
<1> QED  BY <1>3, <1>4, <1>5, <1>6 DEF KvInv

LEMMA KvStep ==
  ASSUME CrashBetween = FALSE, KvInv, [Next]_vars
  PROVE  KvInv'
<1>1. CASE Load  BY <1>1, KvLoad
<1>2. ASSUME NEW k \in Keys, NEW v \in Values, Set(k, v) PROVE KvInv'  BY <1>2, KvSet
<1>3. ASSUME NEW k \in Keys, SetOutOfMem(k) PROVE KvInv'  BY <1>3, KvSetOutOfMem
<1>4. ASSUME NEW k \in Keys, Unset(k) PROVE KvInv'  BY <1>4, KvUnset
<1>5. CASE SaveToGpm  BY <1>5, KvSaveToGpm
<1>6. CASE Save  BY <1>6, KvSave
<1>7. CASE FlashAccess  BY <1>7, KvBootAccess, KvSaveAccess
<1>8. CASE PowerLoss  BY <1>8, KvPowerLoss
<1>9. CASE UNCHANGED vars
  BY <1>9 DEF vars, flash, ram, KvInv, KvType, OffInv, BootInv, IdleInv, SaveInv
<1> QED  BY <1>1, <1>2, <1>3, <1>4, <1>5, <1>6, <1>7, <1>8, <1>9 DEF Next

-----------------------------------------------------------------------------
(* Safety *)

LEMMA KvInvariant ==
  ASSUME CrashBetween = FALSE
  PROVE  Spec => []KvInv
<1>1. Init => KvInv  BY KvInit
<1>2. KvInv /\ [Next]_vars => KvInv'  BY KvStep
<1> QED  BY <1>1, <1>2, PTL DEF Spec

LEMMA JobsTyped ==
  ASSUME KvInv
  PROVE  jobs \in Seq(Jobs)
<1>1. <<>> \in Seq(Jobs)  OBVIOUS
<1>2. /\ EraseAndWrite("primary") \in Seq(Jobs) /\ EraseAndWrite("backup") \in Seq(Jobs)
      /\ <<<<"write", "primary">>>> \in Seq(Jobs) /\ <<<<"write", "backup">>>> \in Seq(Jobs)
      /\ <<<<"erase", "primary">>, <<"erase", "backup">>>> \in Seq(Jobs)
      /\ <<<<"erase", "backup">>>> \in Seq(Jobs)
  BY DEF EraseAndWrite, Jobs
<1>3. /\ SaveJobs(TRUE) \in Seq(Jobs) /\ Tail(SaveJobs(TRUE)) \in Seq(Jobs)
      /\ SaveJobs(FALSE) \in Seq(Jobs)
  BY DEF SaveJobs, Jobs
<1>4. CASE mode = "off"  BY <1>1, <1>4 DEF KvInv, OffInv
<1>5. CASE mode = "boot"  BY <1>2, <1>5 DEF KvInv, BootInv
<1>6. CASE mode \in {"run", "fault"}  BY <1>1, <1>2, <1>3, <1>6 DEF KvInv, SaveInv
<1> QED  BY <1>4, <1>5, <1>6 DEF KvInv, KvType

LEMMA SlotTyped ==
  ASSUME NEW s \in BankSlots
  PROVE  s \in Entries \cup {Zero, Blank, Junk} \/ CrcOver(s)
BY SlotCases, SumChecked

LEMMA KvTypes ==
  ASSUME KvInv
  PROVE  TypeOK
<1>1. /\ primary \in [1..Cap -> BankSlots] /\ backup \in [1..Cap -> BankSlots]
      /\ mirror \in Seq(Slots)
  BY DEF KvInv, KvType
<1>2. \A i \in 1..Cap :
        /\ primary[i] \in Entries \cup {Zero, Blank, Junk} \/ CrcOver(primary[i])
        /\ backup[i]  \in Entries \cup {Zero, Blank, Junk} \/ CrcOver(backup[i])
  BY <1>1, SlotTyped
<1>3. \A i \in DOMAIN mirror : mirror[i] \in Entries \cup {Zero} \/ CrcOver(mirror[i])
  <2> TAKE i \in DOMAIN mirror
  <2>1. mirror[i] \in Slots  BY <1>1
  <2> QED  BY <2>1, SumChecked DEF Slots, Plain
<1>4. DOMAIN primary = 1..Cap /\ DOMAIN backup = 1..Cap  BY <1>1
<1>5. linked \in BOOLEAN /\ doErase \in BOOLEAN /\ saved \in BOOLEAN  BY DEF KvInv, KvType
<1>6. /\ mode \in {"off", "boot", "run", "fault"} /\ Len(mirror) <= Cap /\ list \in Seq(Entries)
      /\ orphans \in 0..Cap /\ crashes \in 0..MaxCrashes
  BY DEF KvInv, KvType
<1> QED  BY <1>2, <1>3, <1>4, <1>5, <1>6, JobsTyped DEF TypeOK

\* The mirror never outgrows the bank, whatever is set, deleted, compacted and saved,
\* and both hold slots of the known kinds only, however a flash access is cut.
THEOREM TypeCorrect ==
  ASSUME CrashBetween = FALSE
  PROVE  Spec => []TypeOK
<1>1. KvInv => TypeOK  BY KvTypes
<1> QED  BY <1>1, KvInvariant, PTL

\* get_env never finds a stale value in the mirror: no key is there and in the list,
\* or twice in one of them.
THEOREM OneValueCorrect ==
  ASSUME CrashBetween = FALSE
  PROVE  Spec => []OneValuePerKey
<1>1. KvInv => OneValuePerKey  BY DEF KvInv, Distinct, OneValuePerKey
<1> QED  BY <1>1, KvInvariant, PTL

\* Once save_env has completed, kvpfs_init finds a valid bank whenever the power
\* fails, unless it fails between the writing of the two banks.
THEOREM OneBankCorrect ==
  ASSUME CrashBetween = FALSE
  PROVE  Spec => []OneBankValid
<1>1. ASSUME KvInv, saved PROVE Valid(primary) \/ Valid(backup)
  <2>1. CASE mode = "off"  BY <1>1, <2>1 DEF KvInv, OffInv
  <2>2. CASE mode = "boot"
    <3>1. Closed(mirror) /\ (primary = Image(mirror) \/ backup = Image(mirror))
      BY <1>1, <2>2 DEF KvInv, BootInv
    <3> QED  BY <3>1, ImageClean
  <2>3. CASE mode \in {"run", "fault"} /\ jobs = <<>>
    <3>1. Clean(primary)  BY <1>1, <2>3 DEF KvInv, IdleInv
    <3> QED  BY <3>1, CleanSlots
  <2>4. CASE mode \in {"run", "fault"} /\ jobs # <<>>
    <3>1. Closed(mirror) /\ (primary # Image(mirror) => Clean(backup))
      BY <1>1, <2>4 DEF KvInv, SaveInv
    <3> QED  BY <3>1, ImageClean, CleanSlots
  <2> QED  BY <1>1, <2>1, <2>2, <2>3, <2>4 DEF KvInv, KvType
<1>2. KvInv => OneBankValid  BY <1>1 DEF OneBankValid
<1> QED  BY <1>2, KvInvariant, PTL

-----------------------------------------------------------------------------
(* The two banks implement one durable map *)

\* The tail pointer of the list is right as long as no last pending key is deleted.
LinkInv == linked = TRUE /\ orphans = 0

LEMMA LinkStep ==
  ASSUME UnsetPending = FALSE, KvInv, LinkInv, [Next]_vars
  PROVE  LinkInv'
<1>1. CASE Load  BY <1>1 DEF Load, LinkInv
<1>2. ASSUME NEW k \in Keys, NEW v \in Values, Set(k, v) PROVE LinkInv'
  <2>1. AddData(k, v)  BY <1>2 DEF Set
  <2> QED  BY <2>1, MapFacts, AddFacts DEF LinkInv
<1>3. ASSUME NEW k \in Keys, SetOutOfMem(k) PROVE LinkInv'  BY <1>3 DEF SetOutOfMem, LinkInv
<1>4. ASSUME NEW k \in Keys, Unset(k) PROVE LinkInv'
  <2>1. CASE HasKey(mirror, k)  BY <1>4, <2>1 DEF Unset, LinkInv
  <2>2. CASE ~HasKey(mirror, k)
    <3>1. DeleteData(k) /\ linked'  BY <1>4, <2>2 DEF Unset
    <3>2. linked' \in BOOLEAN /\ orphans' = orphans  BY <3>1, MapFacts, DeleteFacts
    <3>3. linked' = TRUE  BY <3>1, <3>2
    <3> QED  BY <3>2, <3>3 DEF LinkInv
  <2> QED  BY <2>1, <2>2
<1>5. CASE SaveToGpm  BY <1>5 DEF SaveToGpm, EmptyList, LinkInv
<1>6. CASE Save  BY <1>6 DEF Save, EmptyList, LinkInv
<1>7. CASE FlashAccess  BY <1>7 DEF FlashAccess, ram, LinkInv
<1>8. CASE PowerLoss  BY <1>8 DEF PowerLoss, LinkInv
<1>9. CASE UNCHANGED vars  BY <1>9 DEF vars, ram, LinkInv
<1> QED  BY <1>1, <1>2, <1>3, <1>4, <1>5, <1>6, <1>7, <1>8, <1>9 DEF Next

\* get_env looks into the mirror and the list one after the other.
LEMMA ViewIs ==
  ASSUME NEW m \in Seq(Slots), NEW l \in Seq(Entries), Distinct(m \o l)
  PROVE  [k \in Keys |-> IF HasKey(m, k) THEN MapOf(m)[k] ELSE MapOf(l)[k]] = MapOf(m \o l)
<1> DEFINE c == m \o l
           view == [k \in Keys |-> IF HasKey(m, k) THEN MapOf(m)[k] ELSE MapOf(l)[k]]
<1>0. l \in Seq(Slots)  BY ListSlots
<1>1. Distinct(m) /\ Distinct(l)  BY <1>0, CatDistinct
<1>2. c \in Seq(Slots) /\ Distinct(c)  BY <1>0, CatFacts
<1>3. /\ DOMAIN c = 1..Len(c) /\ Len(c) \in Nat
      /\ DOMAIN m = 1..Len(m) /\ Len(m) \in Nat
      /\ DOMAIN l = 1..Len(l) /\ Len(l) \in Nat
  BY <1>2
<1>4. \A k, v : Holds(c, k, v) <=> Holds(m, k, v) \/ Holds(l, k, v)  BY <1>0, CatHolds
<1> HIDE DEF c
<1>5. ASSUME NEW k \in Keys
      PROVE  view[k] = MapOf(c)[k]
  <2>0. view[k] = IF HasKey(m, k) THEN MapOf(m)[k] ELSE MapOf(l)[k]  OBVIOUS
  <2> HIDE DEF view
  <2>1. CASE HasKey(m, k)
    <3>1. PICK v : Holds(m, k, v)  BY <2>1, HasHolds
    <3>2. MapOf(m)[k] = v  BY <1>1, <1>3, <3>1, MapOfHolds
    <3>3. MapOf(c)[k] = v  BY <1>2, <1>3, <1>4, <3>1, MapOfHolds
    <3> QED  BY <2>0, <2>1, <3>2, <3>3
  <2>2. CASE ~HasKey(m, k) /\ HasKey(l, k)
    <3>1. PICK v : Holds(l, k, v)  BY <2>2, HasHolds
    <3>2. MapOf(l)[k] = v  BY <1>1, <1>3, <3>1, MapOfHolds
    <3>3. MapOf(c)[k] = v  BY <1>2, <1>3, <1>4, <3>1, MapOfHolds
    <3> QED  BY <2>0, <2>2, <3>2, <3>3
  <2>3. CASE ~HasKey(m, k) /\ ~HasKey(l, k)
    <3>1. ~HasKey(c, k)  BY <1>4, <2>3, HasHolds
    <3> QED  BY <2>0, <2>3, <3>1, MapOfNone
  <2> QED  BY <2>1, <2>2, <2>3
<1>6. MapOf(c) = [k \in Keys |-> MapOf(c)[k]]  BY DEF MapOf
<1>7. view = MapOf(c)  BY <1>5, <1>6
<1> QED  BY <1>7 DEF c

\* A bank holds the map of the mirror that was written to it.
LEMMA ImageMap ==
  ASSUME NEW m, Closed(m)
  PROVE  MapOf(Image(m)) = MapOf(m) /\ MapOf(m \o <<>>) = MapOf(m)
<1>1. m \in Seq(Slots) /\ Len(m) \in 1..Cap /\ Len(m) \in Nat  BY ClosedSlots
<1>2. /\ DOMAIN m = 1..Len(m) /\ DOMAIN Image(m) = 1..Cap /\ Cap \in Nat
      /\ \A i \in 1..Cap : Image(m)[i] = IF i <= Len(m) THEN m[i] ELSE Blank
  BY <1>1, SpaceAssumption DEF Image
<1>3. \A i \in DOMAIN Image(m) : i \in DOMAIN m \/ Image(m)[i].kind = "blank"
  BY <1>1, <1>2, MarkFacts
<1>4. \A i \in DOMAIN m : i \in DOMAIN Image(m) /\ Image(m)[i] = m[i]  BY <1>1, <1>2
<1>5. Distinct(m)  BY DEF Closed
<1>6. Distinct(Image(m))
  <2> SUFFICES ASSUME NEW i \in DOMAIN Image(m), NEW j \in DOMAIN Image(m), i # j,
                      Image(m)[i].kind = "env", Image(m)[j].kind = "env"
               PROVE  Image(m)[i].key # Image(m)[j].key
    BY DEF Distinct
  <2>1. /\ i \in DOMAIN m /\ j \in DOMAIN m /\ Image(m)[i] = m[i] /\ Image(m)[j] = m[j]
    BY <1>3, <1>4
  <2> QED  BY <1>5, <2>1 DEF Distinct
<1>7. \A k, v : Holds(Image(m), k, v) <=> Holds(m, k, v)
  BY <1>3, <1>4 DEF Holds, IsEnv
<1>8. MapOf(Image(m)) = MapOf(m)  BY <1>1, <1>2, <1>5, <1>6, <1>7, SameMap
<1> QED  BY <1>1, <1>8, EmptyFacts

LEMMA DefaultMapIs == MapOf(DefaultSetting) = MapOf(DefaultEnv)
<1>1. /\ Closed(DefaultSetting) /\ DefaultEnv \in Seq(Plain) /\ Distinct(DefaultEnv)
      /\ \A k, v : Holds(DefaultSetting, k, v) <=> Holds(DefaultEnv, k, v)
  BY DefaultFacts
<1>2. DefaultSetting \in Seq(Slots) /\ Distinct(DefaultSetting)  BY <1>1 DEF Closed
<1>3. /\ DOMAIN DefaultSetting = 1..Len(DefaultSetting) /\ Len(DefaultSetting) \in Nat
      /\ DOMAIN DefaultEnv = 1..Len(DefaultEnv) /\ Len(DefaultEnv) \in Nat
  BY <1>1, <1>2
<1> QED  BY <1>1, <1>2, <1>3, SameMap

\* What set_env does to the map: it has the key with its new value, or not at all.
LEMMA MapPut ==
  ASSUME NEW c \in Seq(Slots), Distinct(c), NEW d \in Seq(Slots), Distinct(d),
         NEW k \in Keys, NEW v,
         \A q, x : Holds(d, q, x) <=> (Holds(c, q, x) /\ q # k) \/ (q = k /\ x = v)
  PROVE  MapOf(d) = [MapOf(c) EXCEPT ![k] = v]
<1>1. /\ DOMAIN c = 1..Len(c) /\ Len(c) \in Nat /\ DOMAIN d = 1..Len(d) /\ Len(d) \in Nat
  OBVIOUS
<1>2. MapOf(d)[k] = v  BY <1>1, MapOfHolds
<1>3. ASSUME NEW q \in Keys, q # k PROVE MapOf(d)[q] = MapOf(c)[q]
  <2>1. CASE HasKey(c, q)
    <3>1. PICK x : Holds(c, q, x)  BY <2>1, HasHolds
    <3>2. Holds(d, q, x)  BY <1>3, <3>1
    <3> QED  BY <1>1, <3>1, <3>2, MapOfHolds
  <2>2. CASE ~HasKey(c, q)
    <3>1. ~HasKey(d, q)  BY <1>3, <2>2, HasHolds
    <3> QED  BY <2>2, <3>1, MapOfNone
  <2> QED  BY <2>1, <2>2
<1>4. MapOf(c) = [q \in Keys |-> MapOf(c)[q]] /\ MapOf(d) = [q \in Keys |-> MapOf(d)[q]]
  BY DEF MapOf
<1>5. [MapOf(c) EXCEPT ![k] = v] = [q \in Keys |-> IF q = k THEN v ELSE MapOf(c)[q]]
  BY <1>4
<1> QED  BY <1>2, <1>3, <1>4, <1>5

LEMMA MapDrop ==
  ASSUME NEW c \in Seq(Slots), Distinct(c), NEW d \in Seq(Slots), Distinct(d), NEW k \in Keys,
         \A q, x : Holds(d, q, x) <=> Holds(c, q, x) /\ q # k
  PROVE  MapOf(d) = [MapOf(c) EXCEPT ![k] = NoVal]
<1>1. /\ DOMAIN c = 1..Len(c) /\ Len(c) \in Nat /\ DOMAIN d = 1..Len(d) /\ Len(d) \in Nat
  OBVIOUS
<1>2. MapOf(d)[k] = NoVal
  <2>1. ~HasKey(d, k)  BY HasHolds
  <2> QED  BY <2>1, MapOfNone
<1>3. ASSUME NEW q \in Keys, q # k PROVE MapOf(d)[q] = MapOf(c)[q]
  <2>1. CASE HasKey(c, q)
    <3>1. PICK x : Holds(c, q, x)  BY <2>1, HasHolds
    <3>2. Holds(d, q, x)  BY <1>3, <3>1
    <3> QED  BY <1>1, <3>1, <3>2, MapOfHolds
  <2>2. CASE ~HasKey(c, q)
    <3>1. ~HasKey(d, q)  BY <1>3, <2>2, HasHolds
    <3> QED  BY <2>2, <3>1, MapOfNone
  <2> QED  BY <2>1, <2>2
<1>4. MapOf(c) = [q \in Keys |-> MapOf(c)[q]] /\ MapOf(d) = [q \in Keys |-> MapOf(d)[q]]
  BY DEF MapOf
<1>5. [MapOf(c) EXCEPT ![k] = NoVal] = [q \in Keys |-> IF q = k THEN NoVal ELSE MapOf(c)[q]]
  BY <1>4
<1> QED  BY <1>2, <1>3, <1>4, <1>5

LEMMA ViewNow == KvInv => View = MapOf(mirror \o list) /\ mirror \o list \in Seq(Slots)
<1> SUFFICES ASSUME KvInv PROVE View = MapOf(mirror \o list) /\ mirror \o list \in Seq(Slots)
  OBVIOUS
<1>1. /\ mirror \in Seq(Slots) /\ list \in Seq(Entries) /\ list \in Seq(Slots)
      /\ Distinct(mirror \o list)
  BY MapFacts DEF KvInv
<1> QED  BY <1>1, ViewIs, CatFacts DEF View

\* In kvpfs_init the mirror is what the banks hold.
LEMMA BootMap == (KvInv /\ mode = "boot") => Recovered = MapOf(mirror)
<1> SUFFICES ASSUME KvInv, mode = "boot" PROVE Recovered = MapOf(mirror)
  OBVIOUS
<1>1. Closed(mirror)  BY DEF KvInv, BootInv
<1>2. MapOf(Image(mirror)) = MapOf(mirror) /\ Valid(Image(mirror))  BY <1>1, ImageMap, ImageClean
<1>3. \/ primary = Image(mirror)
      \/ ~Valid(primary) /\ backup = Image(mirror)
      \/ ~Valid(primary) /\ ~Valid(backup) /\ mirror = DefaultSetting
  BY BlankInvalid DEF KvInv, BootInv
<1> QED  BY <1>2, <1>3, DefaultMapIs DEF Recovered

Mem    == IF mode = "run" THEN View ELSE Recovered
Saving == mode = "run" /\ jobs # <<>>

LEMMA PrimedView ==
  ASSUME KvInv'
  PROVE  /\ View' = MapOf(mirror' \o list')
         /\ mirror' \o list' \in Seq(Slots) /\ Distinct(mirror' \o list')
<1>1. (KvInv => View = MapOf(mirror \o list) /\ mirror \o list \in Seq(Slots))'
  BY ViewNow, PTL
<1> QED  BY <1>1 DEF KvInv

LEMMA MapLoad ==
  ASSUME KvInv, KvInv', Load
  PROVE  Mem' = Mem /\ Recovered' = Recovered /\ Saving' = Saving
<1>1. /\ mode = "off" /\ list' = <<>> /\ primary' = primary /\ backup' = backup
      /\ mode' = IF jobs' = <<>> THEN "run" ELSE "boot"
  BY DEF Load, flash
<1>2. Recovered' = Recovered  BY <1>1 DEF Recovered
<1>3. Saving' = FALSE /\ Saving = FALSE /\ Mem = Recovered  BY <1>1 DEF Saving, Mem
<1>4. CASE mode' # "run"  BY <1>2, <1>3, <1>4 DEF Mem
<1>5. CASE mode' = "run"
  <2>1. jobs' = <<>>  BY <1>1, <1>5
  <2>2. Valid(primary) /\ Valid(backup)  BY <2>1 DEF Load, EraseAndWrite
  <2>3. mirror' = UsedPart(primary)  BY <2>2 DEF Load
  <2>4. Closed(mirror') /\ primary = Image(mirror')
    BY <1>1, <2>2, <2>3 DEF KvInv, OffInv, Clean
  <2>5. MapOf(primary) = MapOf(mirror' \o <<>>)  BY <2>4, ImageMap
  <2>6. View' = MapOf(primary)  BY <1>1, <2>5, PrimedView
  <2> QED  BY <1>2, <1>3, <1>5, <2>2, <2>6 DEF Mem, Recovered
<1> QED  BY <1>4, <1>5

\* An operation on the map in RAM.
LEMMA MapIdle ==
  ASSUME Idle, UNCHANGED <<flash, mode, jobs>>
  PROVE  /\ Mem = View /\ Mem' = View' /\ Recovered' = Recovered
         /\ Saving = FALSE /\ Saving' = FALSE
BY DEF Idle, Mem, Recovered, Saving, flash

LEMMA MapSet ==
  ASSUME KvInv, KvInv', LinkInv, NEW k \in Keys, NEW v \in Values, Set(k, v)
  PROVE  View' = [View EXCEPT ![k] = v]
<1>1. mirror' = ZeroKey(mirror, k) /\ AddData(k, v)  BY DEF Set
<1>2. /\ mirror \in Seq(Slots) /\ list \in Seq(Entries) /\ list \in Seq(Slots)
      /\ Distinct(list) /\ linked \in BOOLEAN /\ orphans \in Nat
  BY MapFacts
<1>3. /\ mirror' \in Seq(Slots)
      /\ \A q, x : Holds(mirror', q, x) <=> Holds(mirror, q, x) /\ q # k
  BY <1>1, <1>2, ZeroFacts
<1>4. /\ list' \in Seq(Entries)
      /\ \A q, x : Holds(list', q, x) <=> (Holds(list, q, x) /\ q # k) \/ (q = k /\ x = v)
  <2>1. linked  BY DEF LinkInv
  <2> QED  BY <1>1, <1>2, <2>1, AddFacts
<1>5. list' \in Seq(Slots)  BY <1>4, ListSlots
<1>6. \A q, x : Holds(mirror \o list, q, x) <=> Holds(mirror, q, x) \/ Holds(list, q, x)
  BY <1>2, CatHolds
<1>7. \A q, x : Holds(mirror' \o list', q, x) <=> Holds(mirror', q, x) \/ Holds(list', q, x)
  BY <1>3, <1>5, CatHolds
<1>8. \A q, x : Holds(mirror' \o list', q, x) <=>
                  (Holds(mirror \o list, q, x) /\ q # k) \/ (q = k /\ x = v)
  BY <1>3, <1>4, <1>6, <1>7
<1>9. mirror \o list \in Seq(Slots) /\ Distinct(mirror \o list) /\ View = MapOf(mirror \o list)
  BY ViewNow DEF KvInv
<1> DEFINE c == mirror \o list
           d == mirror' \o list'
<1> HIDE DEF c, d
<1>10. /\ c \in Seq(Slots) /\ Distinct(c) /\ d \in Seq(Slots) /\ Distinct(d)
      /\ View = MapOf(c) /\ View' = MapOf(d)
      /\ \A q, x : Holds(d, q, x) <=> (Holds(c, q, x) /\ q # k) \/ (q = k /\ x = v)
  BY <1>8, <1>9, PrimedView DEF c, d
<1> QED  BY <1>10, MapPut

\* A key is deleted.
LEMMA MapUnset ==
  ASSUME KvInv, KvInv', NEW k \in Keys, SetOutOfMem(k) \/ Unset(k)
  PROVE  View' = [View EXCEPT ![k] = NoVal]
<1>1. /\ mirror \in Seq(Slots) /\ list \in Seq(Entries) /\ list \in Seq(Slots)
      /\ Distinct(list)
      /\ \A q, x, y : ~(Holds(mirror, q, x) /\ Holds(list, q, y))
  BY MapFacts
<1>2. \A q, x : Holds(mirror \o list, q, x) <=> Holds(mirror, q, x) \/ Holds(list, q, x)
  BY <1>1, CatHolds
<1>3. /\ mirror' \in Seq(Slots) /\ list' \in Seq(Slots)
      /\ \A q, x : Holds(mirror', q, x) \/ Holds(list', q, x)
                     <=> (Holds(mirror, q, x) \/ Holds(list, q, x)) /\ q # k
  <2>1. CASE HasKey(mirror, k)
    <3>1. mirror' = ZeroKey(mirror, k) /\ list' = list  BY <2>1 DEF SetOutOfMem, Unset
    <3>2. /\ mirror' \in Seq(Slots)
          /\ \A q, x : Holds(mirror', q, x) <=> Holds(mirror, q, x) /\ q # k
      BY <1>1, <3>1, ZeroFacts
    <3>3. \A x : ~Holds(list, k, x)  BY <1>1, <2>1, HasHolds
    <3> QED  BY <1>1, <3>1, <3>2, <3>3
  <2>2. CASE ~HasKey(mirror, k)
    <3>1. DeleteData(k) /\ mirror' = mirror  BY <2>2 DEF SetOutOfMem, Unset
    <3>2. /\ list' \in Seq(Entries)
          /\ \A q, x : Holds(list', q, x) <=> Holds(list, q, x) /\ q # k
      BY <1>1, <3>1, DeleteFacts
    <3>3. \A x : ~Holds(mirror, k, x)  BY <2>2, HasHolds
    <3> QED  BY <1>1, <3>1, <3>2, <3>3, ListSlots
  <2> QED  BY <2>1, <2>2
<1>4. \A q, x : Holds(mirror' \o list', q, x) <=> Holds(mirror', q, x) \/ Holds(list', q, x)
  BY <1>3, CatHolds
<1>5. \A q, x : Holds(mirror' \o list', q, x) <=> Holds(mirror \o list, q, x) /\ q # k
  BY <1>2, <1>3, <1>4
<1>6. mirror \o list \in Seq(Slots) /\ Distinct(mirror \o list) /\ View = MapOf(mirror \o list)
  BY ViewNow DEF KvInv
<1> DEFINE c == mirror \o list
           d == mirror' \o list'
<1> HIDE DEF c, d
<1>7. /\ c \in Seq(Slots) /\ Distinct(c) /\ d \in Seq(Slots) /\ Distinct(d)
      /\ View = MapOf(c) /\ View' = MapOf(d)
      /\ \A q, x : Holds(d, q, x) <=> Holds(c, q, x) /\ q # k
  BY <1>5, <1>6, PrimedView DEF c, d
<1> QED  BY <1>7, MapDrop

\* A save moves the pending entries into the mirror and changes no value.
LEMMA MapFlush ==
  ASSUME KvInv, KvInv', SaveToGpm \/ Save
  PROVE  View' = View
<1>1. (SpaceEnough \/ CanCompact) /\ list' = <<>>  BY DEF SaveToGpm, Save, EmptyList
<1>2. mirror \o list \in Seq(Slots) /\ Distinct(mirror \o list) /\ View = MapOf(mirror \o list)
  BY ViewNow DEF KvInv
<1>3. /\ mirror' \o list' \in Seq(Slots) /\ Distinct(mirror' \o list')
      /\ View' = MapOf(mirror' \o list')
  BY PrimedView
<1>4. mirror' \in Seq(Slots) /\ \A k, v : Holds(mirror', k, v) <=> Holds(mirror \o list, k, v)
  <2>1. CASE SaveToGpm
    <3>1. mirror' = Flushed  BY <2>1 DEF SaveToGpm
    <3> QED  BY <1>1, <3>1, FlushedFacts DEF KvInv
  <2>2. CASE Save
    <3>1. mirror' = Append(ZeroCrc(Flushed), Crc(ZeroCrc(Flushed)))  BY <2>2 DEF Save
    <3>2. Closed(mirror') /\ \A k, v : Holds(mirror', k, v) <=> Holds(mirror \o list, k, v)
      BY <1>1, <3>1, SavedFacts DEF KvInv
    <3> QED  BY <3>2 DEF Closed
  <2> QED  BY <2>1, <2>2
<1>5. mirror' \o list' = mirror'  BY <1>1, <1>4, EmptyFacts
<1>6. \A k, v : Holds(mirror' \o list', k, v) <=> Holds(mirror \o list, k, v)  BY <1>4, <1>5
<1>7. /\ DOMAIN (mirror \o list) = 1..Len(mirror \o list) /\ Len(mirror \o list) \in Nat
      /\ DOMAIN (mirror' \o list') = 1..Len(mirror' \o list') /\ Len(mirror' \o list') \in Nat
  BY <1>2, <1>3
<1> DEFINE c == mirror \o list
           d == mirror' \o list'
<1> HIDE DEF c, d
<1>8. MapOf(d) = MapOf(c)
  <2>1. /\ Distinct(c) /\ Distinct(d) /\ DOMAIN c = 1..Len(c) /\ DOMAIN d = 1..Len(d)
        /\ Len(c) \in Nat /\ Len(d) \in Nat
        /\ \A k, v : Holds(d, k, v) <=> Holds(c, k, v)
    BY <1>2, <1>3, <1>6, <1>7 DEF c, d
  <2> QED  BY <2>1, SameMap
<1> QED  BY <1>2, <1>3, <1>8 DEF c, d

\* kvpfs_init changes the banks and not the map.
LEMMA MapBootAccess ==
  ASSUME KvInv, KvInv', FlashAccess, mode = "boot"
  PROVE  Mem' = Mem /\ Recovered' = Recovered /\ Saving' = Saving
<1>1. Closed(mirror) /\ list = <<>>  BY DEF KvInv, BootInv
<1>2. mirror' = mirror /\ list' = list /\ jobs' = Tail(jobs)  BY AccessFacts
<1>3. Recovered = MapOf(mirror) /\ Mem = Recovered /\ Saving = FALSE
  BY BootMap DEF Mem, Saving
<1>4. CASE Len(jobs) > 1
  <2>1. mode' = "boot"  BY <1>4, AccessFacts
  <2>2. ((KvInv /\ mode = "boot") => Recovered = MapOf(mirror))'  BY BootMap, PTL
  <2>3. Recovered' = MapOf(mirror)  BY <1>2, <2>1, <2>2
  <2> QED  BY <1>3, <2>1, <2>3 DEF Mem, Saving
<1>5. CASE ~(Len(jobs) > 1)
  <2>1. mode' = "run"  BY <1>5, AccessFacts
  <2>2. Valid(Image(mirror)) /\ MapOf(Image(mirror)) = MapOf(mirror)
        /\ MapOf(mirror \o <<>>) = MapOf(mirror)
    BY <1>1, ImageClean, ImageMap
  <2>3. View' = MapOf(mirror)  BY <1>1, <1>2, <2>2, PrimedView
  <2>4. Covers(mirror, BlankBank) /\ BlankBank \in [1..Cap -> BankSlots] /\ ~Valid(BlankBank)
        /\ Written(BlankBank, Cap) = Image(mirror)
    BY CoversBlank, BlankInvalid, WrittenAll
  <2>5. jobs # EraseAndWrite("primary") /\ jobs # EraseAndWrite("backup")
    BY <1>5, JobFacts
  <2>6. jobs # <<<<"erase", "primary">>, <<"erase", "backup">>>>
    <3>1. Len(<<<<"erase", "primary">>, <<"erase", "backup">>>>) > 1  OBVIOUS
    <3> QED  BY <1>5, <3>1
  <2>7. CASE jobs = <<<<"write", "primary">>>> /\ primary = BlankBank /\ backup = Image(mirror)
    <3>1. jobs' = <<>> /\ primary' = Image(mirror)  BY <2>4, <2>7, AccessFacts, OneJobFacts
    <3>2. Recovered' = MapOf(mirror)  BY <2>2, <3>1 DEF Recovered
    <3> QED  BY <1>3, <2>1, <2>3, <3>1, <3>2 DEF Mem, Saving
  <2>8. CASE jobs = <<<<"write", "backup">>>> /\ backup = BlankBank /\ primary = Image(mirror)
    <3>1. jobs' = <<>> /\ primary' = Image(mirror)  BY <2>8, AccessFacts, OneJobFacts
    <3>2. Recovered' = MapOf(mirror)  BY <2>2, <3>1 DEF Recovered
    <3> QED  BY <1>3, <2>1, <2>3, <3>1, <3>2 DEF Mem, Saving
  <2>9. CASE /\ jobs = <<<<"erase", "backup">>>>
             /\ primary = BlankBank /\ ~Valid(backup) /\ saved = FALSE /\ mirror = DefaultSetting
    <3>1. jobs' = <<>> /\ primary' = BlankBank /\ backup' = BlankBank
      BY <2>9, AccessFacts, OneJobFacts
    <3>2. Recovered' = MapOf(DefaultEnv)  BY <2>4, <3>1 DEF Recovered
    <3>3. Recovered' = MapOf(mirror)  BY <2>9, <3>2, DefaultMapIs
    <3> QED  BY <1>3, <2>1, <2>3, <3>1, <3>3 DEF Mem, Saving
  <2> QED  BY <2>5, <2>6, <2>7, <2>8, <2>9 DEF KvInv, BootInv
<1> QED  BY <1>4, <1>5

\* save_env: the write of the primary bank makes the map durable, the last write
\* finds it so.
LEMMA MapSaveAccess ==
  ASSUME KvInv, KvInv', FlashAccess, mode # "boot"
  PROVE  /\ Saving = TRUE /\ Mem' = Mem
         /\ \/ Saving' = TRUE /\ Recovered' = Recovered
            \/ Saving' = TRUE /\ Recovered' = Mem
            \/ Saving' = FALSE /\ Recovered' = Recovered /\ Recovered = Mem
<1>0. mode = "run" /\ jobs # <<>>
  <2>1. jobs # <<>>  BY AccessFacts
  <2>2. mode \in {"run", "fault"}  BY <2>1 DEF KvInv, KvType, OffInv
  <2> QED  BY <2>1, <2>2 DEF KvInv, SaveInv
<1>1. /\ Closed(mirror) /\ list = <<>>
      /\ primary \in [1..Cap -> BankSlots] /\ backup \in [1..Cap -> BankSlots]
  BY <1>0 DEF KvInv, SaveInv, KvType
<1>2. /\ BlankBank \in [1..Cap -> BankSlots] /\ Covers(mirror, BlankBank) /\ ~Valid(BlankBank)
      /\ Valid(Image(mirror)) /\ MapOf(Image(mirror)) = MapOf(mirror)
      /\ MapOf(mirror \o <<>>) = MapOf(mirror)
      /\ Written(BlankBank, Cap) = Image(mirror)
  BY <1>1, BlankInvalid, CoversBlank, ImageClean, ImageMap, WrittenAll
<1>3. mirror' = mirror /\ list' = list /\ jobs' = Tail(jobs) /\ mode' = "run"
  BY <1>0, AccessFacts
<1>4. View = MapOf(mirror) /\ View' = MapOf(mirror)
  <2>1. View = MapOf(mirror \o list)  BY ViewNow
  <2>2. View' = MapOf(mirror' \o list')  BY PrimedView
  <2> QED  BY <1>1, <1>2, <1>3, <2>1, <2>2
<1>5. Saving = TRUE /\ Mem = MapOf(mirror) /\ Mem' = MapOf(mirror)
      /\ (jobs' # <<>> => Saving' = TRUE) /\ (jobs' = <<>> => Saving' = FALSE)
  BY <1>0, <1>3, <1>4 DEF Saving, Mem
<1>6. CASE jobs = SaveJobs(TRUE) /\ primary = backup
  <2>0. Head(jobs) = <<"erase", "primary">> /\ Tail(jobs) # <<>>  BY <1>6, JobFacts
  <2>1. jobs' # <<>> /\ primary' = BlankBank /\ backup' = backup
    BY <2>0, AccessFacts
  <2>2. Recovered' = Recovered  BY <1>2, <1>6, <2>1 DEF Recovered
  <2> QED  BY <1>5, <2>1, <2>2
<1>7. CASE jobs = Tail(SaveJobs(TRUE)) /\ primary = BlankBank
  <2>0. Head(jobs) = <<"write", "primary">> /\ Tail(jobs) # <<>>  BY <1>7, JobFacts
  <2>1. jobs' # <<>> /\ primary' = Image(mirror)  BY <1>2, <1>7, <2>0, AccessFacts
  <2>2. Recovered' = MapOf(mirror)  BY <1>2, <2>1 DEF Recovered
  <2> QED  BY <1>5, <2>1, <2>2
<1>8. CASE jobs = EraseAndWrite("backup") /\ primary = Image(mirror)
  <2>0. Head(jobs) = <<"erase", "backup">> /\ Tail(jobs) # <<>>  BY <1>8, JobFacts, OneJobFacts
  <2>1. jobs' # <<>> /\ primary' = Image(mirror)  BY <1>8, <2>0, AccessFacts
  <2>2. Recovered' = Recovered  BY <1>2, <1>8, <2>1 DEF Recovered
  <2> QED  BY <1>5, <2>1, <2>2
<1>9. CASE jobs = <<<<"write", "backup">>>> /\ primary = Image(mirror) /\ Covers(mirror, backup)
  <2>1. jobs' = <<>> /\ primary' = Image(mirror)  BY <1>9, AccessFacts, OneJobFacts
  <2>2. Recovered' = MapOf(mirror) /\ Recovered = MapOf(mirror)
    BY <1>2, <1>9, <2>1 DEF Recovered
  <2> QED  BY <1>5, <2>1, <2>2
<1>10. CASE jobs = SaveJobs(FALSE) /\ primary = backup /\ Covers(mirror, backup)
  <2>0. Head(jobs) = <<"write", "primary">> /\ Tail(jobs) # <<>>  BY <1>10, JobFacts, OneJobFacts
  <2>1. Written(primary, Cap) = Image(mirror)  BY <1>1, <1>10, WrittenAll
  <2>2. jobs' # <<>> /\ primary' = Image(mirror)  BY <2>0, <2>1, AccessFacts
  <2>3. Recovered' = MapOf(mirror)  BY <1>2, <2>2 DEF Recovered
  <2> QED  BY <1>5, <2>2, <2>3
<1> QED  BY <1>0, <1>6, <1>7, <1>8, <1>9, <1>10 DEF KvInv, SaveInv

\* The next start finds the durable map or, in a save, the one that was being saved.
LEMMA MapPowerLoss ==
  ASSUME KvInv, PowerLoss
  PROVE  /\ Saving' = FALSE /\ Mem' = Recovered'
         /\ Recovered' = Recovered \/ (Saving /\ Recovered' = Mem)
<1>1. mode' = "off" /\ mode # "off"  BY DEF PowerLoss
<1>2. Saving' = FALSE /\ Mem' = Recovered'  BY <1>1 DEF Saving, Mem
<1>3. CASE mode # "boot" /\ jobs = <<>>
  <2>1. primary' = primary /\ backup' = backup  BY <1>3, CutFacts
  <2> QED  BY <1>2, <2>1 DEF Recovered
<1>4. CASE mode = "boot"
  <2>1. /\ Closed(mirror)
        /\ \/ primary = Image(mirror) /\ primary' = primary
           \/ /\ backup = Image(mirror) /\ backup' = backup /\ ~Valid(primary)
              /\ Valid(primary') => primary' = Image(mirror)
           \/ ~Valid(primary) /\ ~Valid(backup) /\ ~Valid(primary') /\ ~Valid(backup')
    BY <1>4, LossBoot
  <2>2. Valid(Image(mirror))  BY <2>1, ImageClean
  <2>3. Recovered' = Recovered  BY <2>1, <2>2 DEF Recovered
  <2> QED  BY <1>2, <2>3
<1>5. CASE mode # "boot" /\ jobs # <<>>
  <2>1. /\ mode = "run" /\ Closed(mirror) /\ list = <<>>
        /\ \/ primary = Image(mirror) /\ primary' = primary
           \/ /\ primary = backup \/ ~Valid(primary)
              /\ backup' = backup
              /\ Valid(primary') => primary' = primary \/ primary' = Image(mirror)
    BY <1>5, LossSave
  <2>2. Valid(Image(mirror)) /\ MapOf(Image(mirror)) = MapOf(mirror)
        /\ MapOf(mirror \o <<>>) = MapOf(mirror)
    BY <2>1, ImageClean, ImageMap
  <2>3. View = MapOf(mirror)  BY <2>1, <2>2, ViewNow
  <2>4. Saving /\ Mem = MapOf(mirror)  BY <1>5, <2>1, <2>3 DEF Saving, Mem
  <2>5. CASE primary = Image(mirror) /\ primary' = primary
    BY <1>2, <2>2, <2>5 DEF Recovered
  <2>6. CASE /\ primary = backup \/ ~Valid(primary)
             /\ backup' = backup
             /\ Valid(primary') => primary' = primary \/ primary' = Image(mirror)
    <3>1. CASE ~Valid(primary')
      <4>1. Recovered' = Recovered  BY <2>6, <3>1 DEF Recovered
      <4> QED  BY <1>2, <4>1
    <3>2. CASE Valid(primary') /\ primary' = primary
      <4>1. Recovered' = Recovered  BY <3>2 DEF Recovered
      <4> QED  BY <1>2, <4>1
    <3>3. CASE Valid(primary') /\ primary' = Image(mirror)
      <4>1. Recovered' = Mem  BY <2>2, <2>4, <3>3 DEF Recovered
      <4> QED  BY <1>2, <2>4, <4>1
    <3> QED  BY <2>6, <3>1, <3>2, <3>3
  <2> QED  BY <2>1, <2>5, <2>6
<1> QED  BY <1>3, <1>4, <1>5

\* A save never finds elements that are counted and not in the list.
LEMMA NoFault ==
  ASSUME LinkInv, KvInv
  PROVE  ~Unwritten
BY DEF LinkInv, Unwritten

\* One step of the file system is one of the map, or none.
LEMMA StoreStep ==
  ASSUME KvInv, KvInv', LinkInv, [Next]_vars
  PROVE  [Store!Next]_Store!vars
<1> USE DEF Store!Next, Store!vars
<1>0. ASSUME Mem' = Mem, Recovered' = Recovered, Saving' = Saving
      PROVE  [Store!Next]_Store!vars
  BY <1>0 DEF Mem, Saving
<1>1. CASE Load  BY <1>0, <1>1, MapLoad
<1>2. ASSUME NEW k \in Keys, NEW v \in Values, Set(k, v) PROVE Store!Next
  <2>1. Idle /\ UNCHANGED <<flash, mode, jobs>>  BY <1>2 DEF Set
  <2>2. Store!Put(k, v)  BY <1>2, <2>1, MapIdle, MapSet DEF Store!Put, Mem, Saving
  <2> QED  BY <2>2
<1>3. ASSUME NEW k \in Keys, SetOutOfMem(k) \/ Unset(k) PROVE Store!Next
  <2>1. Idle /\ UNCHANGED <<flash, mode, jobs>>  BY <1>3 DEF SetOutOfMem, Unset
  <2>2. Store!Drop(k)  BY <1>3, <2>1, MapIdle, MapUnset DEF Store!Drop, Mem, Saving
  <2> QED  BY <2>2
<1>4. CASE SaveToGpm
  <2>1. Idle /\ UNCHANGED <<flash, mode, jobs>>  BY <1>4, NoFault DEF SaveToGpm
  <2>2. View' = View  BY <1>4, MapFlush
  <2> QED  BY <1>0, <2>1, <2>2, MapIdle
<1>5. CASE Save
  <2>1. /\ mode = "run" /\ jobs = <<>> /\ mode' = mode /\ UNCHANGED flash
        /\ jobs' = SaveJobs(EraseNeeded)
    BY <1>5, NoFault DEF Save, Idle
  <2>2. jobs' # <<>>  BY <2>1 DEF SaveJobs
  <2>3. View' = View  BY <1>5, MapFlush
  <2>4. Recovered' = Recovered  BY <2>1 DEF Recovered, flash
  <2>5. Store!BeginSave  BY <2>1, <2>2, <2>3, <2>4 DEF Store!BeginSave
  <2> QED  BY <2>5
<1>6. CASE FlashAccess /\ mode = "boot"  BY <1>0, <1>6, MapBootAccess
<1>7. CASE FlashAccess /\ mode # "boot"
  <2>1. /\ Saving = TRUE /\ Mem' = Mem
        /\ \/ Saving' = TRUE /\ Recovered' = Recovered
           \/ Saving' = TRUE /\ Recovered' = Mem
           \/ Saving' = FALSE /\ Recovered' = Recovered /\ Recovered = Mem
    BY <1>7, MapSaveAccess
  <2>2. CASE Saving' = TRUE /\ Recovered' = Recovered  BY <1>0, <2>1, <2>2
  <2>3. CASE Saving' = TRUE /\ Recovered' = Mem
    <3>1. Store!Commit  BY <2>1, <2>3 DEF Store!Commit, Mem, Saving
    <3> QED  BY <3>1
  <2>4. CASE Saving' = FALSE /\ Recovered' = Recovered /\ Recovered = Mem
    <3>1. Store!EndSave  BY <2>1, <2>4 DEF Store!EndSave, Mem, Saving
    <3> QED  BY <3>1
  <2> QED  BY <2>1, <2>2, <2>3, <2>4
<1>8. CASE PowerLoss
  <2>1. Store!PowerLoss  BY <1>8, MapPowerLoss DEF Store!PowerLoss, Mem, Saving
  <2> QED  BY <2>1
<1>9. CASE UNCHANGED vars
  <2>1. UNCHANGED <<primary, backup, mode, mirror, list, jobs>>  BY <1>9 DEF vars, flash, ram
  <2>2. View' = View /\ Recovered' = Recovered  BY <2>1 DEF View, Recovered
  <2> QED  BY <1>0, <2>1, <2>2 DEF Mem, Saving
<1> QED  BY <1>1, <1>2, <1>3, <1>4, <1>5, <1>6, <1>7, <1>8, <1>9 DEF Next

\* The two banks, the mirror and the list implement one map that get_env reads and
\* set_env changes, and one that survives: at whatever point of a save the power
\* fails, except between the two banks, the next start finds the old map or the new.
THEOREM StoreCorrect ==
  ASSUME CrashBetween = FALSE, UnsetPending = FALSE
  PROVE  Spec => StoreSpec
<1>1. Init => Store!Init
  <2> SUFFICES ASSUME Init PROVE Store!Init  OBVIOUS
  <2>1. ~Valid(primary) /\ ~Valid(backup)  BY BlankInvalid DEF Init
  <2>2. Recovered = MapOf(DefaultEnv)  BY <2>1 DEF Recovered
  <2> QED  BY <2>2 DEF Store!Init, Init
<1>2. Init => LinkInv  BY DEF Init, LinkInv
<1>3. KvInv /\ LinkInv /\ [Next]_vars => LinkInv'  BY LinkStep
<1>4. KvInv /\ KvInv' /\ LinkInv /\ [Next]_vars => [Store!Next]_Store!vars  BY StoreStep
<1> QED  BY <1>1, <1>2, <1>3, <1>4, KvInvariant, PTL DEF Spec, StoreSpec, Store!Spec

\* A set_env that returned success is what get_env reads, whatever was set, deleted
\* and saved before.
THEOREM SetCorrect ==
  ASSUME CrashBetween = FALSE, UnsetPending = FALSE
  PROVE  Spec => SetIsRead
<1>1. ASSUME KvInv, KvInv', LinkInv, NEW k \in Keys, NEW v \in Values, Set(k, v)
      PROVE  View'[k] = v
  <2>1. View' = [View EXCEPT ![k] = v]  BY <1>1, MapSet
  <2>2. View = [q \in Keys |-> View[q]]  BY DEF View
  <2> QED  BY <2>1, <2>2
<1>2. Init => LinkInv  BY DEF Init, LinkInv
<1>3. KvInv /\ LinkInv /\ [Next]_vars => LinkInv'  BY LinkStep
<1>4. KvInv /\ KvInv' /\ LinkInv =>
        [\A k \in Keys, v \in Values : Set(k, v) => View'[k] = v]_vars
  BY <1>1
<1> QED  BY <1>2, <1>3, <1>4, KvInvariant, PTL DEF Spec, SetIsRead

=============================================================================
