----------------------------- MODULE MCBuffPool -----------------------------
(* Small instances of the buffer pool for TLC. *)
EXTENDS BuffPool, TLC

CONSTANTS t1, t2, t3

ThreeThreads == {t1, t2, t3}
OneEach      == [c \in 1..3 |-> 1]
AnySize      == 1..3

Symmetry == Permutations(ThreeThreads)

=============================================================================
