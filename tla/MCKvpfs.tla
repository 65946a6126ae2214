------------------------------ MODULE MCKvpfs ------------------------------
(* Small instances of the key-value file system for TLC. *)
EXTENDS Kvpfs, TLC

CONSTANTS k1, k2, v1, v2

TwoKeys    == {k1, k2}
TwoValues  == {v1, v2}
OneDefault == <<Entry(k1, v1)>>

=============================================================================
