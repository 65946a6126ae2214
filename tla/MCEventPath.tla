---------------------------- MODULE MCEventPath ----------------------------
(* A small instance of the event path for TLC. *)
EXTENDS EventPath, TLC

CONSTANTS w1, w2, deleter, e1, e2, e3, e4, e5

TwoWorkers    == {w1, w2}
AllTasks      == {w1, w2, deleter}
FiveEvents    == {e1, e2, e3, e4, e5}
FirstCalls    == {e1}
TwoReport     == {e1, e2}
ThirdUnheard  == {e3}
FourthUnknown == {e4}

=============================================================================
