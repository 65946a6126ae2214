----------------------------- MODULE Hibernate -----------------------------
(***************************************************************************)
(* Hibernation of the MCU (src/middleware/pwrmanager/src/hibernate.c): the *)
(* memory that a reset would lose is compressed block by block to the      *)
(* front of the general purpose memory (GPM), and put back from the last   *)
(* block to the first.  The heap in the GPM is compressed onto itself.     *)
(*                                                                         *)
(* A block stands for WORKING_BLOCK_SIZE bytes and every block is full.    *)
(* The GPM from __gpm_compress_start__ to __gpm_compress_end__ is counted  *)
(* in cells, so that what is written over what can be told.  place[m] is   *)
(* the block whose contents lie in the place of block m: m itself in a     *)
(* memory that is whole, 0 for garbage.                                    *)
(***************************************************************************)
EXTENDS Integers, Sequences

CONSTANTS HeapBlocks,   \* blocks of the heap in the GPM, the first region
          DataBlocks,   \* blocks of .data and .bss, the second
          Heap0Blocks,  \* blocks of the heap in the SRAM, the third
          BlockSize,    \* cells of a block
          MaxSize,      \* cells of a compressed block and its sizes, at most
          Gap,          \* cells before the heap in the GPM
          SectorSize    \* cells of the image in one 64 KB sector of the flash

\* The linker script puts the heap behind half of the GPM, unless an application
\* sets __RESERVED_GPM_RAM_SIZE__: room for what its blocks may grow by.
ASSUME HibernateAssumption ==
  /\ HeapBlocks \in Nat \ {0} /\ DataBlocks \in Nat \ {0} /\ Heap0Blocks \in Nat \ {0}
  /\ BlockSize \in Nat \ {0} /\ MaxSize \in Nat \ {0} /\ SectorSize \in Nat \ {0}
  /\ Gap \in Nat
  /\ \A n \in 1..HeapBlocks : n * MaxSize <= Gap + (n - 1) * BlockSize

VARIABLES place,    \* what lies in the place of each block
          recs,     \* the compressed blocks in the GPM, in the order written
          from,     \* the compressed block that is put back next
          into,     \* the place it is put back to
          dirty,    \* sectors of the flash that are not blank
          stored    \* the compressed blocks in the flash

memVars == <<place, recs, from, into, dirty, stored>>

\* MemRegions: the blocks in the order in which they are compressed.
LastBlock == HeapBlocks + DataBlocks + Heap0Blocks
Blocks == 1..LastBlock
RegionFirst == {1, HeapBlocks + 1, HeapBlocks + DataBlocks + 1}

IsHeap(m) == m <= HeapBlocks

\* Mutant of Start: the heap begins where the compressed memory does.
StartNoGap(m) == (m - 1) * BlockSize

Start(m) == Gap + (m - 1) * BlockSize
GpmSize == Gap + HeapBlocks * BlockSize

\* The end of a compressed block in the GPM, and the contents it was made from.
Records == [end : Nat, data : Blocks \cup {0}]

MemTypeOK ==
  /\ place \in [Blocks -> Blocks \cup {0}]
  /\ recs \in Seq(Records) /\ stored \in Seq(Records)
  /\ from \in Nat /\ into \in 0..LastBlock
  /\ dirty \subseteq Nat

Whole == [m \in Blocks |-> m]

MemInit ==
  /\ place = Whole
  /\ recs = <<>> /\ from = 0 /\ into = 0
  /\ dirty = {} /\ stored = <<>>

-----------------------------------------------------------------------------
(* Compression *)

Pos == IF recs = <<>> THEN 0 ELSE recs[Len(recs)].end
NextBlock == Len(recs) + 1
Room == GpmSize - Pos >= MaxSize

\* The next block compressed to n cells, over whatever lies there.
Compress(n) ==
  /\ NextBlock \in Blocks /\ Room
  /\ recs' = Append(recs, [end |-> Pos + n, data |-> place[NextBlock]])
  /\ place' = [m \in Blocks |-> IF IsHeap(m) /\ Start(m) < Pos + n THEN 0 ELSE place[m]]
  /\ UNCHANGED <<from, into, dirty, stored>>

\* No room for the next block: what was compressed is put back, the end of the
\* region's part given one block too low.
GiveUp ==
  /\ NextBlock \in Blocks /\ ~Room
  /\ from' = Len(recs)
  /\ into' = IF NextBlock \in RegionFirst THEN Len(recs) ELSE Len(recs) - 1
  /\ UNCHANGED <<place, recs, dirty, stored>>

AllCompressed == NextBlock \notin Blocks

-----------------------------------------------------------------------------
(* Putting back *)

\* The whole image, from the end.
UnpackAll(rs) ==
  /\ recs' = rs
  /\ from' = Len(rs) /\ into' = LastBlock
  /\ UNCHANGED <<place, dirty>>

\* One block.  A heap block put over its own compressed form is garbled, and so
\* are the compressed blocks it covers.
PutBack ==
  /\ into > 0
  /\ place' = [place EXCEPT ![into] = IF IsHeap(into) /\ recs[from].end > Start(into)
                                      THEN 0 ELSE recs[from].data]
  /\ recs' = [i \in 1..Len(recs) |->
                IF i < from /\ IsHeap(into) /\ recs[i].end > Start(into)
                THEN [recs[i] EXCEPT !.data = 0] ELSE recs[i]]
  /\ from' = from - 1 /\ into' = into - 1
  /\ UNCHANGED <<dirty, stored>>

PutBackAll == into = 0

-----------------------------------------------------------------------------
(* The flash, for the shutdown mode *)

Sectors(size) == 1..((size + SectorSize - 1) \div SectorSize)

\* dstFlashAddr points to words of four bytes, and 64 * 1024 is added to it.
Erased(size) == {1 + 4 * (k - 1) : k \in Sectors(size)}

PrepareFlash ==
  /\ dirty' = dirty \ Erased(Pos)
  /\ UNCHANGED <<place, recs, from, into, stored>>

\* Written over a sector that is not blank, the image cannot be read from its end.
ToFlash ==
  /\ stored' = IF Sectors(Pos) \cap dirty = {} THEN recs
               ELSE [i \in 1..Len(recs) |-> [recs[i] EXCEPT !.data = 0]]
  /\ dirty' = dirty \cup Sectors(Pos)
  /\ UNCHANGED <<place, recs, from, into>>
=============================================================================
