------------------------------- MODULE MCHifc -------------------------------
(* Small instances of the host interface for TLC. *)
EXTENDS Hifc

CONSTANTS s1, s2

OneSender  == {s1}
TwoSenders == {s1, s2}
AllCommands == {"res", "sus", "timer"}
NoCommand   == {}
=============================================================================
