------------------------------- MODULE Kvpfs -------------------------------
(***************************************************************************)
(* The key-value file system (src/middleware/kvpfs): a mirror of the flash *)
(* bank in RAM, a list of entries that are not in the mirror yet, and two  *)
(* banks of NOR flash, primary and backup, that save_env writes one after  *)
(* the other and kvpfs_init repairs after a power loss.                    *)
(*                                                                         *)
(* A bank and the mirror are sequences of slots: a slot is an entry        *)
(* key=value with its terminator, the zeros a deleted entry leaves, the    *)
(* CRC entry, or blank (0xff).  Entries have the size of a slot; the magic *)
(* entry, which no operation touches, is not shown.  A checksum stands for *)
(* the slots it was computed over.  All operations run under kvpfs_mtx, so *)
(* each is one step up to its flash accesses; those are done one by one    *)
(* (jobs), and a power loss may cut the one that runs.                     *)
(***************************************************************************)
EXTENDS Integers, Sequences, FiniteSets

CONSTANTS
  Keys,          \* keys of the application
  Values,        \* values of the application
  NoVal,         \* get_env: the key is not found
  DefaultEnv,    \* default_env_data, a sequence of entries
  Cap,           \* slots in a bank (ENV_SIZE)
  UnsetPending,  \* does the application delete the last of several keys it did
                 \* not save yet?
  CrashBetween,  \* may the power fail between the writing of the two banks?
  MaxCrashes     \* bound: power losses

Entries == [kind : {"env"}, key : Keys, val : Values]
Entry(k, v) == [kind |-> "env", key |-> k, val |-> v]

Zero   == [kind |-> "zero"]   \* a deleted entry
Blank  == [kind |-> "blank"]  \* erased flash
Junk   == [kind |-> "junk"]   \* what an interrupted or overlapping write leaves
Crc(m) == [kind |-> "crc", over |-> m]

ASSUME ValueAssumption == NoVal \notin Values
ASSUME SpaceAssumption ==
  /\ Cap \in Nat
  /\ DefaultEnv \in Seq(Entries)
  /\ Len(DefaultEnv) < Cap
  /\ \A i, j \in DOMAIN DefaultEnv : i # j => DefaultEnv[i].key # DefaultEnv[j].key
ASSUME BoundAssumption ==
  UnsetPending \in BOOLEAN /\ CrashBetween \in BOOLEAN /\ MaxCrashes \in Nat

VARIABLES
  primary,  \* the primary bank
  backup,   \* the backup bank
  mode,     \* "off", "boot" in kvpfs_init, "run", "fault"
  mirror,   \* the used part of flash_mirror
  list,     \* the list that starts at head
  linked,   \* cur is the last element of that list
  orphans,  \* elements counted in ldt_info that are not in the list
  doErase,  \* flm_info.do_erase
  jobs,     \* the flash accesses still to be made
  saved,    \* ghost: save_env has completed once
  crashes   \* ghost: power losses

flash == <<primary, backup>>
ram   == <<mirror, list, linked, orphans>>
vars  == <<flash, mode, ram, doErase, jobs, saved, crashes>>

Jobs == {"erase", "write"} \X {"primary", "backup"}

CrcOver(s) == "over" \in DOMAIN s /\ s = Crc(s.over) /\ s.over \in Seq(Entries \cup {Zero})

TypeOK ==
  /\ DOMAIN primary = 1..Cap /\ DOMAIN backup = 1..Cap
  /\ \A i \in 1..Cap :
       /\ primary[i] \in Entries \cup {Zero, Blank, Junk} \/ CrcOver(primary[i])
       /\ backup[i]  \in Entries \cup {Zero, Blank, Junk} \/ CrcOver(backup[i])
  /\ mode \in {"off", "boot", "run", "fault"}
  /\ Len(mirror) <= Cap
  /\ \A i \in DOMAIN mirror : mirror[i] \in Entries \cup {Zero} \/ CrcOver(mirror[i])
  /\ list \in Seq(Entries)
  /\ linked \in BOOLEAN /\ doErase \in BOOLEAN /\ saved \in BOOLEAN
  /\ orphans \in 0..Cap
  /\ jobs \in Seq(Jobs)
  /\ crashes \in 0..MaxCrashes

-----------------------------------------------------------------------------
(* Slots *)

IsEnv(s, k) == s.kind = "env" /\ s.key = k

\* The map a sequence of slots holds; find_value_mirror takes the first.
MapOf(m) ==
  [k \in Keys |->
     IF \E i \in DOMAIN m : IsEnv(m[i], k)
     THEN m[CHOOSE i \in DOMAIN m : IsEnv(m[i], k) /\ \A j \in 1..(i - 1) : ~IsEnv(m[j], k)].val
     ELSE NoVal]

HasKey(m, k) == \E i \in DOMAIN m : IsEnv(m[i], k)

\* get_env: the mirror first, then the list.
View == [k \in Keys |-> IF HasKey(mirror, k) THEN MapOf(mirror)[k] ELSE MapOf(list)[k]]

\* delete_value_mirror: the bytes of the entry are set to 0.
ZeroKey(m, k) == [i \in DOMAIN m |-> IF IsEnv(m[i], k) THEN Zero ELSE m[i]]
ZeroCrc(m)    == [i \in DOMAIN m |-> IF m[i].kind = "crc" THEN Zero ELSE m[i]]

\* compact_flash, after the CRC is deleted: the entries move together, in order.
Compact(m) ==
  LET kept == {i \in DOMAIN m : m[i].kind = "env"}
  IN [n \in 1..Cardinality(kept) |->
        m[CHOOSE i \in kept : Cardinality({j \in kept : j <= i}) = n]]

\* validate_env: the CRC entry agrees with what stands before it.
Valid(b) == \E i \in 1..Cap : b[i] = Crc(SubSeq(b, 1, i - 1))

\* The part of a bank before the first blank byte (load_flash_mirror_info).
UsedPart(b) == SubSeq(b, 1, Cardinality({i \in 1..Cap : \A j \in 1..i : b[j] # Blank}))

\* load_default_setting
DefaultSetting == Append(DefaultEnv, Crc(DefaultEnv))

-----------------------------------------------------------------------------
(* NOR flash: writing clears bits, only erasing sets them *)

BlankBank == [i \in 1..Cap |-> Blank]

\* The mirror as it is written, blank after its used part.
Image(m) == [i \in 1..Cap |-> IF i <= Len(m) THEN m[i] ELSE Blank]

Program(old, new) ==
  CASE new = Blank                -> old
    [] old = Blank \/ old = new   -> new
    [] old = Zero  \/ new = Zero  -> Zero
    [] OTHER                      -> Junk

\* The first n slots are written.
Written(b, n) == [i \in 1..Cap |-> IF i <= n THEN Program(b[i], Image(mirror)[i]) ELSE b[i]]

\* The write is cut: between two slots, or in the middle of one it changes.
CutWrite(b) ==
  {Written(b, n) : n \in 0..Cap} \cup
  {[Written(b, n - 1) EXCEPT ![n] = Junk] : n \in {i \in 1..Cap : Written(b, Cap)[i] # b[i]}}

\* erase_flash goes sector by sector from the start of the bank.
CutErase(b) == {b, [i \in 1..Cap |-> Junk], BlankBank}

\* What the first job makes of bank b, which is named by which.
After(which, b) ==
  IF Head(jobs)[2] # which THEN b
  ELSE IF Head(jobs)[1] = "erase" THEN BlankBank
  ELSE Written(b, Cap)

\* What a power loss during the first job may make of it.
CutAfter(which, b) ==
  IF jobs = <<>> \/ Head(jobs)[2] # which THEN {b}
  ELSE IF Head(jobs)[1] = "erase" THEN CutErase(b)
  ELSE CutWrite(b)

EraseAndWrite(which) == <<<<"erase", which>>, <<"write", which>>>>

-----------------------------------------------------------------------------
(* kvpfs_init *)

Init ==
  /\ primary = BlankBank /\ backup = BlankBank
  /\ mode = "off"
  /\ mirror = <<>> /\ list = <<>> /\ linked = TRUE /\ orphans = 0
  /\ doErase = FALSE /\ jobs = <<>> /\ saved = FALSE /\ crashes = 0

\* kvpfs_full_init, load_flash_content: the primary bank when it is valid, else
\* the backup, else the default; the broken banks are to be repaired.
Load ==
  /\ mode = "off"
  /\ mirror' = CASE Valid(primary)                   -> UsedPart(primary)
                 [] ~Valid(primary) /\ Valid(backup) -> UsedPart(backup)
                 [] OTHER                            -> DefaultSetting
  /\ jobs' = CASE Valid(primary) /\ Valid(backup)  -> <<>>
               [] ~Valid(primary) /\ Valid(backup) -> EraseAndWrite("primary")
               [] Valid(primary) /\ ~Valid(backup) -> EraseAndWrite("backup")
               [] OTHER -> <<<<"erase", "primary">>, <<"erase", "backup">>>>
  /\ mode' = IF jobs' = <<>> THEN "run" ELSE "boot"
  /\ list' = <<>> /\ linked' = TRUE /\ orphans' = 0
  /\ doErase' = FALSE
  /\ UNCHANGED <<flash, saved, crashes>>

-----------------------------------------------------------------------------
(* set_env *)

Idle == mode = "run" /\ jobs = <<>>

\* add_data_list: modify the element with this key, or add one behind cur; when
\* cur was freed by delete_value_list the new element is in no list.
AddData(k, v) ==
  IF HasKey(list, k)
  THEN /\ list' = [i \in DOMAIN list |-> IF list[i].key = k THEN Entry(k, v) ELSE list[i]]
       /\ UNCHANGED <<linked, orphans>>
  ELSE /\ list' = IF linked THEN Append(list, Entry(k, v)) ELSE list
       /\ orphans' = IF linked THEN orphans ELSE orphans + 1
       /\ UNCHANGED linked

\* Mutant of Set: the entry in the mirror is not deleted.
SetOverMirror(k, v) ==
  /\ Idle /\ orphans < Cap
  /\ AddData(k, v)
  /\ UNCHANGED <<flash, mode, mirror, doErase, jobs, saved, crashes>>

\* set_env with a value.
Set(k, v) ==
  /\ Idle /\ orphans < Cap
  /\ mirror' = ZeroKey(mirror, k)
  /\ AddData(k, v)
  /\ UNCHANGED <<flash, mode, doErase, jobs, saved, crashes>>

\* ... when the heap has no room for a new element: -KVPFS_OUT_OF_MEM.
SetOutOfMem(k) ==
  /\ Idle /\ HasKey(mirror, k)
  /\ mirror' = ZeroKey(mirror, k)
  /\ UNCHANGED <<flash, mode, list, linked, orphans, doErase, jobs, saved, crashes>>

\* delete_value_list, delete_ele: cur keeps pointing to a last element that was
\* freed, unless the list is empty now.
DeleteData(k) ==
  /\ \E d \in DOMAIN list :
       /\ list[d].key = k /\ \A i \in 1..(d - 1) : list[i].key # k
       /\ list' = [i \in 1..(Len(list) - 1) |-> list[IF i < d THEN i ELSE i + 1]]
  /\ linked' = (list' = <<>> \/ (linked /\ list[Len(list)].key # k))
  /\ UNCHANGED orphans

\* set_env without a value.
Unset(k) ==
  /\ Idle
  /\ \/ /\ HasKey(mirror, k)
        /\ mirror' = ZeroKey(mirror, k)
        /\ UNCHANGED <<list, linked, orphans>>
     \/ /\ ~HasKey(mirror, k) /\ HasKey(list, k)
        /\ DeleteData(k)
        /\ UnsetPending \/ linked'
        /\ UNCHANGED mirror
  /\ UNCHANGED <<flash, mode, doErase, jobs, saved, crashes>>

-----------------------------------------------------------------------------
(* save_env *)

\* check_flash_space
ExpectedSize == Len(mirror) + Len(list) + orphans + 1
Zeros        == Cardinality({i \in DOMAIN mirror : mirror[i] = Zero})

SpaceEnough == ExpectedSize < Cap
CanCompact  == ExpectedSize - Zeros <= Cap

\* flush_list_to_mirror: the mirror is compacted when its free part is too small,
\* and the list is moved to its end.  (Without space the result is
\* -KVPFS_FLASH_SPACE_NOT_ENOUGH and nothing changes.)
Flushed == (IF SpaceEnough THEN mirror ELSE Compact(mirror)) \o list

\* Mutant of EraseNeeded: compact_flash does not set do_erase.
EraseForgotten == doErase

\* A compacted mirror does not fit over what the banks hold.
EraseNeeded == doErase \/ ~SpaceEnough

EmptyList == list' = <<>> /\ linked' = TRUE /\ UNCHANGED orphans

\* save_list_to_flash allocates and scans a buffer that nothing was written to
\* when elements are counted that are not in the list.
Unwritten == list = <<>> /\ orphans > 0

\* save_env_to_gpm
SaveToGpm ==
  /\ Idle
  /\ SpaceEnough \/ CanCompact
  /\ mirror' = Flushed
  /\ doErase' = EraseNeeded
  /\ EmptyList
  /\ mode' = IF Unwritten THEN "fault" ELSE mode
  /\ UNCHANGED <<flash, jobs, saved, crashes>>

\* Mutant of SaveJobs: both banks are erased before either is written.
SaveJobsEraseFirst(erase) ==
  (IF erase THEN <<<<"erase", "primary">>, <<"erase", "backup">>>> ELSE <<>>)
    \o <<<<"write", "primary">>, <<"write", "backup">>>>

\* write_to_flash: its accesses to the flash, in order.
SaveJobs(erase) ==
  IF erase
  THEN <<<<"erase", "primary">>, <<"write", "primary">>, <<"erase", "backup">>, <<"write", "backup">>>>
  ELSE <<<<"write", "primary">>, <<"write", "backup">>>>

\* save_env: flush, then write_to_flash replaces the CRC entry.
Save ==
  /\ Idle
  /\ SpaceEnough \/ CanCompact
  /\ mirror' = Append(ZeroCrc(Flushed), Crc(ZeroCrc(Flushed)))
  /\ doErase' = EraseNeeded
  /\ EmptyList
  /\ mode' = IF Unwritten THEN "fault" ELSE mode
  /\ jobs' = IF Unwritten THEN <<>> ELSE SaveJobs(EraseNeeded)
  /\ UNCHANGED <<flash, saved, crashes>>

-----------------------------------------------------------------------------
(* The flash *)

\* One access to the flash; after the last one kvpfs_init or save_env returns.
FlashAccess ==
  /\ jobs # <<>>
  /\ primary' = After("primary", primary)
  /\ backup' = After("backup", backup)
  /\ jobs' = Tail(jobs)
  /\ IF Len(jobs) > 1
     THEN UNCHANGED <<mode, doErase, saved>>
     ELSE mode' = "run" /\ doErase' = FALSE /\ saved' = (saved \/ mode = "run")
  /\ UNCHANGED <<ram, crashes>>

\* The power fails.  When it fails between the writing of the two banks (as it
\* may with CrashBetween) both are valid and differ, and load_flash_content
\* leaves them so.
PowerLoss ==
  /\ mode # "off" /\ crashes < MaxCrashes
  /\ primary' \in CutAfter("primary", primary)
  /\ backup' \in CutAfter("backup", backup)
  /\ CrashBetween \/ ~(Valid(primary') /\ Valid(backup') /\ primary' # backup')
  /\ mode' = "off"
  /\ mirror' = <<>> /\ list' = <<>> /\ linked' = TRUE /\ orphans' = 0
  /\ doErase' = FALSE /\ jobs' = <<>>
  /\ crashes' = crashes + 1
  /\ UNCHANGED saved

-----------------------------------------------------------------------------
Next ==
  \/ Load
  \/ \E k \in Keys, v \in Values : Set(k, v)
  \/ \E k \in Keys : SetOutOfMem(k) \/ Unset(k)
  \/ SaveToGpm \/ Save
  \/ FlashAccess \/ PowerLoss

Spec == Init /\ [][Next]_vars

-----------------------------------------------------------------------------
(* Safety *)

\* A key has one value: it is at most once in the mirror and the list together,
\* so that get_env, which looks into the mirror first, never reads a stale one.
OneValuePerKey ==
  LET both == mirror \o list
  IN \A i, j \in DOMAIN both :
       (i # j /\ both[i].kind = "env" /\ both[j].kind = "env") => both[i].key # both[j].key

\* "Provide a key which not presents in file system will add a data" (kvpfs_api.h,
\* set_env): after a set_env that returned success get_env reads the value, whatever
\* was set, deleted and saved before.
SetIsRead == [][\A k \in Keys, v \in Values : Set(k, v) => View'[k] = v]_vars

\* "Primary env is broken. Restore from backup": once a save completed, one of the
\* banks is valid whenever the power fails (write_to_flash, load_flash_content).
OneBankValid == saved => Valid(primary) \/ Valid(backup)

\* The map the next start finds.
Recovered ==
  CASE Valid(primary)                   -> MapOf(primary)
    [] ~Valid(primary) /\ Valid(backup) -> MapOf(backup)
    [] OTHER                            -> MapOf(DefaultEnv)

Store == INSTANCE KvStore WITH
  DefaultMap <- MapOf(DefaultEnv),
  mem        <- IF mode = "run" THEN View ELSE Recovered,
  disk       <- Recovered,
  saving     <- mode = "run" /\ jobs # <<>>

\* The two banks, the mirror and the list implement one map in RAM and one that
\* survives: a power loss at any point of a save leaves the old map or the new.
StoreSpec == Store!Spec

=============================================================================
