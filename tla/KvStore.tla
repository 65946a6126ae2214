------------------------------ MODULE KvStore ------------------------------
(***************************************************************************)
(* What the key-value file system of kvpfs promises to the application     *)
(* (kvpfs_api.h): one map in RAM that set_env changes, one map that        *)
(* survives a power loss, and save_env, which makes the second equal to    *)
(* the first.  A power loss in the middle of a save leaves the map of      *)
(* before or the map of after, nothing in between.                         *)
(***************************************************************************)
CONSTANTS
  Keys,        \* the keys
  Values,      \* their values
  NoVal,       \* the value of a key that is not in the map
  DefaultMap   \* the map of a device that never saved one

VARIABLES
  mem,     \* the map get_env reads
  disk,    \* the map the next start finds
  saving   \* save_env is running

vars == <<mem, disk, saving>>

Init == mem = DefaultMap /\ disk = DefaultMap /\ saving = FALSE

Put(k, v) == ~saving /\ mem' = [mem EXCEPT ![k] = v] /\ UNCHANGED <<disk, saving>>

\* The key is deleted; a set_env that finds no memory also loses the old value.
Drop(k) == ~saving /\ mem' = [mem EXCEPT ![k] = NoVal] /\ UNCHANGED <<disk, saving>>

BeginSave == ~saving /\ saving' = TRUE /\ UNCHANGED <<mem, disk>>

Commit == saving /\ disk' = mem /\ UNCHANGED <<mem, saving>>

\* save_env returns only when the map is durable.
EndSave == saving /\ disk = mem /\ saving' = FALSE /\ UNCHANGED <<mem, disk>>

PowerLoss ==
  /\ saving' = FALSE
  /\ disk' = disk \/ (saving /\ disk' = mem)
  /\ mem' = disk'

Next ==
  \/ \E k \in Keys, v \in Values : Put(k, v)
  \/ \E k \in Keys : Drop(k)
  \/ BeginSave \/ Commit \/ EndSave \/ PowerLoss

Spec == Init /\ [][Next]_vars

=============================================================================
