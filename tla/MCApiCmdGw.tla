----------------------------- MODULE MCApiCmdGw -----------------------------
(* Small instances of the gateway for TLC. *)
EXTENDS ApiCmdGw, TLC

CONSTANTS c1, e1, e2, rt

OneCaller == {c1}
OneEcho   == {e1}
TwoEchoes == {e1, e2}
NoIds     == {}
TwoIds    == {"EVT_P", "EVT_N"}
OneId     == {"EVT_P"}

Finite     == [sync : BOOLEAN, fevr : {FALSE}]
SyncFinite == [sync : {TRUE}, fevr : {FALSE}]

=============================================================================
