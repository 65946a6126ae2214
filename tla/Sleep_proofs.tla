---------------------------- MODULE Sleep_proofs ----------------------------
(***************************************************************************)
(* What holds of the sleep cycle for any memory, any sizes of compressed   *)
(* blocks and any times.  The inductive invariant has three parts: the     *)
(* types, what each step of the idle task finds of the settings and of the *)
(* interrupts (CycleInv), and what it finds of the memory (MemInv).        *)
(***************************************************************************)
EXTENDS Sleep, SequenceTheorems, TLAPS

Awake == {"tasks", "check", "cpsid", "window"}
Masking == {"pre", "hib", "undo", "enter", "boot", "unpack", "post"}
Deep == pc \in {"pre", "hib", "undo", "enter"} \/ (pc = "asleep" /\ loc.pwr # "SLEEP")

\* The settings: where the mode that was configured is found.
ModeInv ==
  /\ pc \in {"check", "cpsid", "pre", "hib", "undo", "enter"} => conf.mode = loc.cfg
  /\ pc = "check" => loc.pwr = loc.cfg
  /\ pc = "cpsid" => loc.pwr \in {loc.cfg, "SLEEP"}
  /\ pc = "pre" => loc.pwr = loc.cfg
  /\ pc \in {"hib", "undo"} => loc.pwr = loc.cfg /\ loc.pwr \in Resetting
  /\ pc \in {"pre", "enter", "post"} => loc.pwr # "SLEEP"
  /\ pc = "asleep" /\ loc.pwr = "SLEEP" => conf.mode = loc.cfg
  /\ pc = "asleep" /\ loc.pwr # "SLEEP" => conf.mode = loc.pwr /\ image.mode = loc.cfg
  /\ pc \in {"boot", "unpack"} => loc.pwr \in Resetting /\ image.mode = loc.cfg
  /\ pc \in {"post", "window"} =>
       (loc.pwr = "SLEEP" \/ loc.cfg = loc.pwr => conf.mode = loc.cfg)

\* The interrupts and the devices.
IrqInv ==
  /\ pc \in Awake \/ (pc = "asleep" /\ loc.pwr = "SLEEP") =>
       nvic = Irqs /\ drivers = "on" /\ ~latched /\ ~told
  /\ pc = "pre" => drivers = "on" /\ ~latched
  /\ pc \in Masking \/ (pc = "asleep" /\ loc.pwr # "SLEEP") =>
       /\ nvic \cup masked = Irqs
       /\ loc.pwr \in Resetting => masked = Irqs /\ (pc # "pre" => nvic = {})
       /\ loc.pwr = "STOP" => "mbox" \notin nvic \/ (drivers = "on" /\ ~latched)
  /\ pc = "pre" /\ loc.pwr \in Resetting => nvic = {}
  /\ pc = "post" /\ loc.pwr = "STOP" => drivers = "on" /\ ~latched

\* What allowed the sleep is still so, unless an interrupt handler made a task ready.
AllowInv ==
  /\ pc = "cpsid" /\ loc.pwr # "SLEEP" =>
       conf.enable /\ (~ready => link = "IfDown" /\ "busy" \notin hold)
  /\ Deep => link = "IfDown" /\ "busy" \notin hold /\ conf.enable

CycleInv == ModeInv /\ IrqInv /\ AllowInv

\* The memory.
Clean == place = Whole /\ recs = <<>>
GoodTo(rs, n) == \A i \in 1..n : rs[i].data = i /\ rs[i].end \in 1..(i * MaxSize)
GoodFrom(n) == \A m \in Blocks : m > n => place[m] = m
GoodImage(rs) == Len(rs) = LastBlock /\ GoodTo(rs, LastBlock)

MemInv ==
  /\ pc \in {"tasks", "check", "cpsid", "pre", "post", "window"} => Clean
  /\ pc \in {"enter", "asleep"} /\ loc.pwr \notin Resetting => Clean
  /\ pc = "hib" => /\ Len(recs) <= LastBlock
                   /\ GoodTo(recs, Len(recs)) /\ GoodFrom(Len(recs))
  /\ pc = "undo" => /\ from <= Len(recs)
                    /\ \/ from = into /\ GoodTo(recs, from) /\ GoodFrom(into)
                       \/ /\ from = into + 1 /\ Len(recs) >= 2
                          /\ recs[2].data \in {0, 2}
                          /\ (into = 0 => place[1] \in {0, 2})
  /\ pc = "enter" /\ loc.pwr \in Resetting =>
       GoodImage(recs) /\ (loc.pwr = "SHUTDOWN" => 1 \notin dirty)
  /\ pc \in {"asleep", "boot"} /\ loc.pwr = "STANDBY" => marked /\ GoodImage(recs)
  /\ pc \in {"asleep", "boot"} /\ loc.pwr = "SHUTDOWN" =>
       ~marked /\ Len(stored) = LastBlock /\ (SpoiltImage \/ GoodImage(stored))
  /\ pc = "unpack" => /\ from = into /\ from <= Len(recs)
                      /\ SpoiltImage \/ (GoodTo(recs, from) /\ GoodFrom(into))
  /\ pc = "lost" => PutBackLow \/ SpoiltImage

IInv == SleepTypeOK /\ CycleInv /\ MemInv

\* No step loses the settings, an interrupt or the reason to sleep.
LEMMA CycleStep ==
  ASSUME SleepTypeOK, CycleInv, [Next]_vars
  PROVE  CycleInv'
<1> USE DEF SleepTypeOK, ModeInv, IrqInv, AllowInv, CycleInv, Deep, Awake, Masking,
            Resetting, Modes, Irqs, Configs, memVars, sleepVars
<1>0. CASE UNCHANGED vars
  BY <1>0 DEF vars
<1>1. CASE M2hIsr
  BY <1>1 DEF M2hIsr, InterruptsOn
<1>2. CASE UartIsr
  <2>1. ~ready' => ~ready
    BY <1>2, Zenon DEF UartIsr
  <2>2. "busy" \in hold' <=> "busy" \in hold
    BY <1>2 DEF UartIsr
  <2> QED
    BY <1>2, <2>1, <2>2 DEF UartIsr, InterruptsOn
<1>25. CASE BusyIsr
  <2>1. ready' \/ hold' = hold \cup {"quiet"} \/ \E d \in {"busy", "quiet"} : hold' = hold \ {d}
    BY <1>25, Zenon DEF BusyIsr
  <2>2. ready' \/ ("busy" \in hold' => "busy" \in hold)
    BY <2>1
  <2>3. ~ready' => ~ready
    BY <1>25, Zenon DEF BusyIsr
  <2> QED
    BY <1>25, <2>2, <2>3 DEF BusyIsr, InterruptsOn
<1>3. CASE ConfSetMode
  BY <1>3 DEF ConfSetMode
<1>4. CASE EnableSleep
  BY <1>4 DEF EnableSleep
<1>5. CASE HoldChanges
  BY <1>5 DEF HoldChanges
<1>6. CASE LinkChanges
  BY <1>6 DEF LinkChanges
<1>7. CASE TasksBlock
  BY <1>7 DEF TasksBlock
<1>8. CASE IdleEnter
  BY <1>8 DEF IdleEnter
<1>9. CASE CheckAllow
  BY <1>9 DEF CheckAllow, AllowToSleep
<1>10. CASE Confirm
  BY <1>10 DEF Confirm, ConfirmSleep, ToMask
<1>11. CASE PreSleep
  BY <1>11 DEF PreSleep
<1>12. CASE HibernateBlock
  BY <1>12 DEF HibernateBlock, Compress, Room
<1>13. CASE HibernateFails
  BY <1>13 DEF HibernateFails, GiveUp
<1>14. CASE HibernateDone
  BY <1>14 DEF HibernateDone, PrepareFlash
<1>15. CASE UndoBlock
  BY <1>15 DEF UndoBlock, PutBack
<1>16. CASE UndoDone
  BY <1>16 DEF UndoDone
<1>17. CASE EnterSleep
  BY <1>17 DEF EnterSleep
<1>18. CASE WakeUp
  BY <1>18 DEF WakeUp
<1>19. CASE Boot
  BY <1>19 DEF Boot, UnpackAll
<1>20. CASE UnpackBlock
  BY <1>20 DEF UnpackBlock, PutBack
<1>21. CASE UnpackFails
  BY <1>21 DEF UnpackFails, ColdStart, NoCycle, FirstConf
<1>22. CASE UnpackDone
  BY <1>22 DEF UnpackDone
<1>23. CASE PostSleep
  BY <1>23 DEF PostSleep
<1>24. CASE Leave
  BY <1>24 DEF Leave, ToMask, NoCycle
<1> QED
  BY <1>0, <1>1, <1>2, <1>25, <1>3, <1>4, <1>5, <1>6, <1>7, <1>8, <1>9, <1>10, <1>11, <1>12, <1>13,
     <1>14, <1>15, <1>16, <1>17, <1>18, <1>19, <1>20, <1>21, <1>22, <1>23, <1>24 DEF Next,
     Others, Down, Up

-----------------------------------------------------------------------------
(* The operators of Hibernate *)

LEMMA BlocksTypes ==
  /\ LastBlock \in Nat \ {0} /\ Blocks = 1..LastBlock
  /\ HeapBlocks \in 1..LastBlock
  /\ \A m \in Blocks : Start(m) \in Int
BY HibernateAssumption DEF LastBlock, Blocks, Start

LEMMA RecordTypes ==
  ASSUME MemTypeOK
  PROVE  /\ Len(recs) \in Nat
         /\ \A i \in 1..Len(recs) : /\ recs[i] \in Records
                                    /\ recs[i].end \in Nat
                                    /\ recs[i].data \in Blocks \cup {0}
         /\ recs # <<>> => Len(recs) >= 1
         /\ Pos \in Nat
<1>1. Len(recs) \in Nat /\ (recs # <<>> => Len(recs) >= 1)
  BY EmptySeq, LenProperties DEF MemTypeOK
<1>2. \A i \in 1..Len(recs) : recs[i] \in Records
  BY ElementOfSeq DEF MemTypeOK
<1>3. \A r \in Records : r.end \in Nat /\ r.data \in Blocks \cup {0}
  BY DEF Records
<1> QED
  BY <1>1, <1>2, <1>3 DEF Pos

LEMMA CompressTypes ==
  ASSUME MemTypeOK, NEW n \in 1..MaxSize, Compress(n)
  PROVE  MemTypeOK'
<1>1. NextBlock \in Blocks /\ place[NextBlock] \in Blocks \cup {0}
  BY DEF MemTypeOK, Compress
<1>2. recs' \in Seq(Records)
  <2>1. [end |-> Pos + n, data |-> place[NextBlock]] \in Records
    BY <1>1, RecordTypes, HibernateAssumption DEF Records
  <2> QED
    BY <2>1, AppendProperties DEF MemTypeOK, Compress
<1>3. place' \in [Blocks -> Blocks \cup {0}]
  BY DEF MemTypeOK, Compress
<1> QED
  BY <1>2, <1>3 DEF MemTypeOK, Compress

LEMMA PutBackTypes ==
  ASSUME MemTypeOK, from \in 1..Len(recs), PutBack
  PROVE  MemTypeOK' /\ Len(recs') = Len(recs)
<1>1. \A i \in 1..Len(recs) : recs'[i] \in Records
  <2>1. ASSUME NEW i \in 1..Len(recs)
        PROVE  [recs[i] EXCEPT !.data = 0] \in Records
    BY RecordTypes DEF Records
  <2> QED
    BY <2>1, RecordTypes DEF PutBack
<1>2. recs' \in [1..Len(recs) -> Records]
  BY <1>1, RecordTypes DEF PutBack
<1>3. recs' \in Seq(Records) /\ Len(recs') = Len(recs)
  BY <1>2, RecordTypes
<1>4. place' \in [Blocks -> Blocks \cup {0}]
  BY RecordTypes DEF MemTypeOK, PutBack
<1>5. from' \in Nat /\ into' \in 0..LastBlock
  BY BlocksTypes, RecordTypes DEF MemTypeOK, PutBack
<1> QED
  BY <1>3, <1>4, <1>5 DEF MemTypeOK, PutBack

LEMMA ToFlashTypes ==
  ASSUME MemTypeOK, ToFlash
  PROVE  MemTypeOK'
<1>1. \A s \in Sectors(Pos) : s \in Nat
  BY DEF Sectors
<1>2. ASSUME NEW i \in 1..Len(recs)
      PROVE  [recs[i] EXCEPT !.data = 0] \in Records
  BY RecordTypes DEF Records
<1>3. stored' \in Seq(Records)
  <2>1. CASE Sectors(Pos) \cap dirty = {}
    BY <2>1 DEF MemTypeOK, ToFlash
  <2>2. CASE Sectors(Pos) \cap dirty # {}
    <3>1. stored' \in [1..Len(recs) -> Records]
      BY <2>2, <1>2 DEF ToFlash
    <3> QED
      BY <3>1, RecordTypes
  <2> QED
    BY <2>1, <2>2
<1> QED
  BY <1>1, <1>3 DEF MemTypeOK, ToFlash

-----------------------------------------------------------------------------
(* Types *)

Settings ==
  /\ pc \in Places
  /\ loc \in [pwr : Modes, cfg : Modes, cfgdur : Nat, idle : Nat]
  /\ conf \in Configs /\ image \in Configs
  /\ req \in Nat
  /\ nvic \in SUBSET Irqs /\ masked \in SUBSET Irqs
  /\ link \in {"IfUp", "IfDown"} /\ hold \in SUBSET Holds
  /\ drivers \in {"on", "suspended"}

Flags == marked \in BOOLEAN /\ ready \in BOOLEAN /\ latched \in BOOLEAN /\ told \in BOOLEAN

LEMMA SplitTypes == SleepTypeOK <=> MemTypeOK /\ Settings /\ Flags
BY DEF SleepTypeOK, Settings, Flags

\* Every step keeps the types of the memory.
LEMMA MemTypeStep ==
  ASSUME IInv, MemTypeOK, [Next]_vars
  PROVE  MemTypeOK'
<1> USE DEF memVars
<1>0. CASE UNCHANGED vars
  BY <1>0 DEF vars, MemTypeOK
<1>1. CASE M2hIsr
  BY <1>1 DEF M2hIsr, MemTypeOK
<1>2. CASE UartIsr
  BY <1>2 DEF UartIsr, MemTypeOK
<1>25. CASE BusyIsr
  BY <1>25 DEF BusyIsr, MemTypeOK
<1>3. CASE ConfSetMode
  BY <1>3 DEF ConfSetMode, MemTypeOK
<1>4. CASE EnableSleep
  BY <1>4 DEF EnableSleep, MemTypeOK
<1>5. CASE HoldChanges
  BY <1>5 DEF HoldChanges, MemTypeOK
<1>6. CASE LinkChanges
  BY <1>6 DEF LinkChanges, MemTypeOK
<1>7. CASE TasksBlock
  BY <1>7 DEF TasksBlock, MemTypeOK
<1>8. CASE IdleEnter
  BY <1>8 DEF IdleEnter, MemTypeOK
<1>9. CASE CheckAllow
  BY <1>9 DEF CheckAllow, MemTypeOK
<1>10. CASE Confirm
  BY <1>10 DEF Confirm, MemTypeOK
<1>11. CASE PreSleep
  BY <1>11 DEF PreSleep, MemTypeOK
<1>12. CASE HibernateBlock
  BY <1>12, CompressTypes, SleepAssumption DEF HibernateBlock
<1>13. CASE HibernateFails
  BY <1>13, RecordTypes, BlocksTypes DEF HibernateFails, GiveUp, NextBlock, RegionFirst, MemTypeOK
<1>14. CASE HibernateDone
  BY <1>14 DEF HibernateDone, PrepareFlash, MemTypeOK
<1>15. CASE UndoBlock
  <2>1. from \in 1..Len(recs)
    BY <1>15, RecordTypes DEF UndoBlock, IInv, MemInv, PutBack, MemTypeOK
  <2> QED
    BY <1>15, <2>1, PutBackTypes DEF UndoBlock
<1>16. CASE UndoDone
  BY <1>16, EmptySeq DEF UndoDone, MemTypeOK
<1>17. CASE EnterSleep
  BY <1>17, ToFlashTypes DEF EnterSleep, MemTypeOK
<1>18. CASE WakeUp
  BY <1>18, EmptySeq DEF WakeUp, MemTypeOK
<1>19. CASE Boot
  BY <1>19, RecordTypes, BlocksTypes, EmptySeq, LenProperties DEF Boot, UnpackAll, MemTypeOK
<1>20. CASE UnpackBlock
  <2>1. from \in 1..Len(recs)
    BY <1>20, RecordTypes DEF UnpackBlock, IInv, MemInv, PutBack, MemTypeOK
  <2> QED
    BY <1>20, <2>1, PutBackTypes DEF UnpackBlock
<1>21. CASE UnpackFails
  BY <1>21, BlocksTypes, EmptySeq DEF UnpackFails, ColdStart, Whole, MemTypeOK
<1>22. CASE UnpackDone
  BY <1>22, EmptySeq DEF UnpackDone, MemTypeOK
<1>23. CASE PostSleep
  BY <1>23 DEF PostSleep, MemTypeOK
<1>24. CASE Leave
  BY <1>24 DEF Leave, MemTypeOK
<1> QED
  BY <1>0, <1>1, <1>2, <1>25, <1>3, <1>4, <1>5, <1>6, <1>7, <1>8, <1>9, <1>10, <1>11, <1>12, <1>13,
     <1>14, <1>15, <1>16, <1>17, <1>18, <1>19, <1>20, <1>21, <1>22, <1>23, <1>24 DEF Next,
     Others, Down, Up

\* ... of the settings ...
LEMMA SettingsStep ==
  ASSUME Settings, [Next]_vars
  PROVE  Settings'
<1> USE DEF Settings, Places, Modes, Resetting, Irqs, Configs, memVars, sleepVars
<1>0. CASE UNCHANGED vars
  BY <1>0 DEF vars
<1>1. CASE M2hIsr
  BY <1>1 DEF M2hIsr, InterruptsOn
<1>2. CASE UartIsr
  BY <1>2 DEF UartIsr, InterruptsOn, Holds
<1>25. CASE BusyIsr
  <2>1. \/ \E d \in Holds : hold' = hold \cup {d}
        \/ \E d \in Holds : hold' = hold \ {d}
    BY <1>25, Zenon DEF BusyIsr, Holds
  <2>2. hold' \in SUBSET Holds
    BY <2>1
  <2> QED
    BY <1>25, <2>2 DEF BusyIsr
<1>3. CASE ConfSetMode
  <2>1. PICK m \in Modes, d \in Durations : conf' = [conf EXCEPT !.mode = m, !.dur = d]
    BY <1>3, Zenon DEF ConfSetMode
  <2>2. conf' \in Configs
    BY <2>1, SleepAssumption
  <2> QED
    BY <1>3, <2>2 DEF ConfSetMode
<1>4. CASE EnableSleep
  BY <1>4 DEF EnableSleep
<1>5. CASE HoldChanges
  <2>1. hold' \in SUBSET Holds
    BY <1>5 DEF HoldChanges, Holds
  <2> QED
    BY <1>5, <2>1 DEF HoldChanges
<1>6. CASE LinkChanges
  BY <1>6 DEF LinkChanges
<1>7. CASE TasksBlock
  BY <1>7 DEF TasksBlock
<1>8. CASE IdleEnter
  BY <1>8, SleepAssumption DEF IdleEnter
<1>9. CASE CheckAllow
  BY <1>9 DEF CheckAllow, AllowToSleep
<1>10. CASE Confirm
  <2>1. masked' \in SUBSET Irqs /\ nvic' \in SUBSET Irqs
    BY <1>10 DEF Confirm, ToMask
  <2> QED
    BY <1>10, <2>1 DEF Confirm, NoCycle
<1>11. CASE PreSleep
  BY <1>11 DEF PreSleep
<1>12. CASE HibernateBlock
  BY <1>12 DEF HibernateBlock, Compress, Room
<1>13. CASE HibernateFails
  BY <1>13 DEF HibernateFails, GiveUp
<1>14. CASE HibernateDone
  BY <1>14 DEF HibernateDone, PrepareFlash
<1>15. CASE UndoBlock
  BY <1>15 DEF UndoBlock, PutBack
<1>16. CASE UndoDone
  BY <1>16 DEF UndoDone
<1>17. CASE EnterSleep
  <2>1. PICK overhead \in Overheads :
          LET time == SleepTime(overhead)
              mode == IF loc.pwr = "SHUTDOWN" /\ time < Threshold THEN "STANDBY" ELSE loc.pwr
          IN  /\ loc' = [loc EXCEPT !.pwr = mode]
              /\ conf' = [conf EXCEPT !.mode = mode, !.dur = time]
              /\ req' = time
    BY <1>17 DEF EnterSleep
  <2>2. SleepTime(overhead) \in Nat
    BY SleepAssumption DEF SleepTime
  <2> QED
    BY <1>17, <2>1, <2>2 DEF EnterSleep
<1>18. CASE WakeUp
  <2>1. nvic' \in SUBSET Irqs /\ pc' \in Places
    BY <1>18 DEF WakeUp
  <2> QED
    BY <1>18, <2>1 DEF WakeUp
<1>19. CASE Boot
  BY <1>19 DEF Boot, UnpackAll
<1>20. CASE UnpackBlock
  BY <1>20 DEF UnpackBlock, PutBack
<1>21. CASE UnpackFails
  BY <1>21 DEF UnpackFails, ColdStart, NoCycle, FirstConf
<1>22. CASE UnpackDone
  BY <1>22 DEF UnpackDone
<1>23. CASE PostSleep
  BY <1>23 DEF PostSleep
<1>24. CASE Leave
  <2>1. hold' \in SUBSET Holds
    BY <1>24 DEF Leave, Holds
  <2>2. masked' \in SUBSET Irqs /\ conf' \in Configs
    BY <1>24 DEF Leave, ToMask
  <2> QED
    BY <1>24, <2>1, <2>2 DEF Leave, NoCycle
<1> HIDE DEF Settings, Places, Modes, Resetting, Irqs, Configs, memVars, sleepVars
<1> QED
  BY <1>0, <1>1, <1>2, <1>25, <1>3, <1>4, <1>5, <1>6, <1>7, <1>8, <1>9, <1>10, <1>11, <1>12, <1>13,
     <1>14, <1>15, <1>16, <1>17, <1>18, <1>19, <1>20, <1>21, <1>22, <1>23, <1>24 DEF Next,
     Others, Down, Up

\* ... and of the flags.
LEMMA FlagsStep ==
  ASSUME Flags, [Next]_vars
  PROVE  Flags'
<1> USE DEF Flags, sleepVars
<1>0. CASE UNCHANGED vars
  BY <1>0 DEF vars
<1>1. CASE M2hIsr
  BY <1>1 DEF M2hIsr, InterruptsOn
<1>2. CASE UartIsr
  BY <1>2 DEF UartIsr, InterruptsOn
<1>25. CASE BusyIsr
  BY <1>25 DEF BusyIsr, InterruptsOn
<1>3. CASE ConfSetMode
  BY <1>3 DEF ConfSetMode
<1>4. CASE EnableSleep
  BY <1>4 DEF EnableSleep
<1>5. CASE HoldChanges
  BY <1>5 DEF HoldChanges
<1>6. CASE LinkChanges
  BY <1>6 DEF LinkChanges
<1>7. CASE TasksBlock
  BY <1>7 DEF TasksBlock
<1>8. CASE IdleEnter
  BY <1>8 DEF IdleEnter
<1>9. CASE CheckAllow
  BY <1>9 DEF CheckAllow, AllowToSleep
<1>10. CASE Confirm
  BY <1>10 DEF Confirm, ConfirmSleep, ToMask
<1>11. CASE PreSleep
  BY <1>11 DEF PreSleep
<1>12. CASE HibernateBlock
  BY <1>12 DEF HibernateBlock, Compress, Room
<1>13. CASE HibernateFails
  BY <1>13 DEF HibernateFails, GiveUp
<1>14. CASE HibernateDone
  BY <1>14 DEF HibernateDone, PrepareFlash
<1>15. CASE UndoBlock
  BY <1>15 DEF UndoBlock, PutBack
<1>16. CASE UndoDone
  BY <1>16 DEF UndoDone
<1>17. CASE EnterSleep
  BY <1>17 DEF EnterSleep
<1>18. CASE WakeUp
  BY <1>18 DEF WakeUp
<1>19. CASE Boot
  BY <1>19 DEF Boot, UnpackAll
<1>20. CASE UnpackBlock
  BY <1>20 DEF UnpackBlock, PutBack
<1>21. CASE UnpackFails
  BY <1>21 DEF UnpackFails, ColdStart, NoCycle, FirstConf
<1>22. CASE UnpackDone
  BY <1>22 DEF UnpackDone
<1>23. CASE PostSleep
  BY <1>23 DEF PostSleep
<1>24. CASE Leave
  BY <1>24 DEF Leave, ToMask, NoCycle
<1> QED
  BY <1>0, <1>1, <1>2, <1>25, <1>3, <1>4, <1>5, <1>6, <1>7, <1>8, <1>9, <1>10, <1>11, <1>12, <1>13,
     <1>14, <1>15, <1>16, <1>17, <1>18, <1>19, <1>20, <1>21, <1>22, <1>23, <1>24 DEF Next,
     Others, Down, Up

-----------------------------------------------------------------------------
(* The memory *)

LEMMA Products ==
  ASSUME NEW a \in Nat, NEW b \in Nat, NEW c \in Nat, a <= b
  PROVE  /\ a * c \in Nat /\ b * c \in Nat
         /\ a * c <= b * c
         /\ (a + 1) * c = a * c + c
<1>1. PICK d \in Nat : b = a + d
  <2>1. b - a \in Nat /\ b = a + (b - a)
    OBVIOUS
  <2> QED
    BY <2>1
<1>2. a * c \in Nat /\ d * c \in Nat
  OBVIOUS
<1>3. (a + d) * c = a * c + d * c
  OBVIOUS
<1>4. (a + 1) * c = a * c + c
  OBVIOUS
<1> QED
  BY <1>1, <1>2, <1>3, <1>4

\* Where a compressed block ends if every block of the prefix grew as much as it may.
LEMMA Growth ==
  ASSUME NEW k \in Nat, NEW m \in Blocks, k <= m, IsHeap(m)
  PROVE  k * MaxSize <= Start(m)
<1>1. m \in 1..HeapBlocks /\ m * MaxSize <= Gap + (m - 1) * BlockSize
  BY HibernateAssumption, BlocksTypes DEF IsHeap
<1>2. k * MaxSize <= m * MaxSize /\ k * MaxSize \in Nat /\ m * MaxSize \in Nat
  BY <1>1, Products, HibernateAssumption
<1>3. (m - 1) * BlockSize \in Nat
  BY <1>1, Products, HibernateAssumption
<1> QED
  BY <1>1, <1>2, <1>3, HibernateAssumption DEF Start

LEMMA PosBound ==
  ASSUME MemTypeOK, GoodTo(recs, Len(recs))
  PROVE  /\ Pos <= Len(recs) * MaxSize
         /\ Len(recs) >= 1 => Pos >= 1
<1>1. CASE recs = <<>>
  BY <1>1, RecordTypes, EmptySeq, HibernateAssumption DEF Pos
<1>2. CASE recs # <<>>
  BY <1>2, RecordTypes, Products, HibernateAssumption DEF Pos, GoodTo
<1> QED
  BY <1>1, <1>2

\* A block is compressed over itself and the blocks before it, and over no other.
LEMMA CompressGood ==
  ASSUME MemTypeOK, NEW n \in 1..MaxSize, Compress(n),
         GoodTo(recs, Len(recs)), GoodFrom(Len(recs))
  PROVE  /\ Len(recs') = Len(recs) + 1 /\ Len(recs') <= LastBlock
         /\ GoodTo(recs', Len(recs')) /\ GoodFrom(Len(recs))'
<1> DEFINE k == Len(recs)
<1> DEFINE r == [end |-> Pos + n, data |-> place[NextBlock]]
<1>1. k \in Nat /\ k + 1 \in Blocks /\ NextBlock = k + 1 /\ place[NextBlock] = k + 1
  BY RecordTypes DEF Compress, NextBlock, GoodFrom, Blocks
<1>2. Pos + n \in 1..((k + 1) * MaxSize)
  BY <1>1, RecordTypes, PosBound, Products, HibernateAssumption
<1>3. recs' = Append(recs, r) /\ r \in Records
  BY <1>1, RecordTypes, HibernateAssumption DEF Compress, Records
<1>4. /\ Len(recs') = k + 1
      /\ \A i \in 1..k : recs'[i] = recs[i]
      /\ recs'[k + 1] = r
  BY <1>3, AppendProperties DEF MemTypeOK
<1>5. GoodTo(recs', Len(recs'))
  BY <1>1, <1>2, <1>4 DEF GoodTo
<1>6. ASSUME NEW m \in Blocks, m > k + 1
      PROVE  place'[m] = m
  <2>1. place[m] = m
    BY <1>1, <1>6, BlocksTypes DEF GoodFrom
  <2>2. ASSUME IsHeap(m)
        PROVE  ~(Start(m) < Pos + n)
    <3>1. (k + 1) * MaxSize <= Start(m)
      BY <1>1, <1>6, <2>2, Growth, BlocksTypes
    <3>2. (k + 1) * MaxSize \in Nat /\ Start(m) \in Int
      BY <1>1, Products, BlocksTypes, HibernateAssumption
    <3> QED
      BY <1>2, <3>1, <3>2
  <2> QED
    BY <2>1, <2>2 DEF Compress
<1>7. GoodFrom(Len(recs))'
  BY <1>4, <1>6 DEF GoodFrom
<1> QED
  BY <1>1, <1>4, <1>5, <1>7, BlocksTypes

\* Hibernation never gives up in the heap, which its reserve has room for.
LEMMA GivesUpLate ==
  ASSUME MemTypeOK, GoodTo(recs, Len(recs)), ~Room
  PROVE  Len(recs) >= HeapBlocks
<1> DEFINE k == Len(recs)
<1> SUFFICES ASSUME k < HeapBlocks PROVE FALSE
  BY RecordTypes, HibernateAssumption
<1>1. k \in Nat /\ k + 1 \in 1..HeapBlocks
  BY RecordTypes, HibernateAssumption
<1>2. (k + 1) * MaxSize <= Gap + k * BlockSize
  BY <1>1, HibernateAssumption
<1>3. (k + 1) * MaxSize = k * MaxSize + MaxSize /\ k * MaxSize \in Nat
  BY <1>1, Products, HibernateAssumption
<1>4. k * BlockSize <= HeapBlocks * BlockSize /\ k * BlockSize \in Nat /\ HeapBlocks * BlockSize \in Nat
  BY <1>1, Products, HibernateAssumption
<1>5. Pos \in Nat /\ Pos <= k * MaxSize
  BY PosBound, RecordTypes
<1>6. Gap + HeapBlocks * BlockSize - Pos < MaxSize
  BY <1>4, <1>5, HibernateAssumption DEF Room, GpmSize
<1> HIDE DEF k
<1>7. Gap \in Nat /\ MaxSize \in Nat
  BY HibernateAssumption
<1> QED
  BY <1>2, <1>3, <1>4, <1>5, <1>6, <1>7

\* Put back where it was, a block overwrites no compressed block still needed.
LEMMA PutBackGood ==
  ASSUME MemTypeOK, from \in 1..Len(recs), from = into, PutBack,
         GoodTo(recs, from), GoodFrom(into)
  PROVE  GoodTo(recs', from') /\ GoodFrom(into)'
<1>1. into \in Blocks /\ from \in Blocks
  BY BlocksTypes DEF MemTypeOK, PutBack
<1>2. ASSUME NEW i \in 1..from, IsHeap(into)
      PROVE  recs[i].end <= Start(into)
  BY <1>1, <1>2, Growth, Products, BlocksTypes, HibernateAssumption, RecordTypes DEF GoodTo
<1>3. place' = [place EXCEPT ![into] = into]
  <2>1. from \in 1..from /\ recs[from].data = into
    BY <1>1, BlocksTypes DEF GoodTo
  <2>2. ~(IsHeap(into) /\ recs[from].end > Start(into))
    BY <1>1, <1>2, <2>1, BlocksTypes, RecordTypes
  <2> QED
    BY <2>1, <2>2 DEF PutBack
<1>4. ASSUME NEW i \in 1..(from - 1)
      PROVE  recs'[i] = recs[i]
  <2>1. i \in 1..from /\ i \in 1..Len(recs)
    BY RecordTypes
  <2>2. ~(IsHeap(into) /\ recs[i].end > Start(into))
    BY <1>1, <1>2, <2>1, BlocksTypes, RecordTypes
  <2> QED
    BY <2>1, <2>2 DEF PutBack
<1>5. GoodTo(recs', from')
  <2>1. from' = from - 1 /\ \A i \in 1..(from - 1) : i \in 1..from
    BY DEF PutBack
  <2> QED
    BY <1>4, <2>1 DEF GoodTo
<1>6. GoodFrom(into)'
  BY <1>1, <1>3, BlocksTypes DEF PutBack, GoodFrom, MemTypeOK
<1> QED
  BY <1>5, <1>6

\* Put back one block too low, the first block is lost.
LEMMA PutBackShifted ==
  ASSUME MemTypeOK, from \in 1..Len(recs), from = into + 1, PutBack,
         Len(recs) >= 2, recs[2].data \in {0, 2}
  PROVE  recs'[2].data \in {0, 2} /\ (into' = 0 => place'[1] \in {0, 2})
<1>1. 2 \in 1..Len(recs) /\ recs[2] \in Records
  BY RecordTypes
<1>2. [recs[2] EXCEPT !.data = 0].data = 0
  BY <1>1 DEF Records
<1>3. recs'[2].data \in {0, 2}
  BY <1>1, <1>2 DEF PutBack
<1>4. ASSUME into' = 0
      PROVE  place'[1] \in {0, 2}
  <2>1. into = 1 /\ from = 2 /\ 1 \in Blocks
    BY <1>4, BlocksTypes DEF PutBack, MemTypeOK
  <2> QED
    BY <2>1, <1>1 DEF PutBack, MemTypeOK
<1> QED
  BY <1>3, <1>4

\* The first sector is always erased before an image is written.
LEMMA FirstErased ==
  ASSUME MemTypeOK, Pos >= 1, PrepareFlash
  PROVE  1 \notin dirty'
<1>1. 1 \in Sectors(Pos)
  BY RecordTypes, HibernateAssumption DEF Sectors
<1> QED
  BY <1>1 DEF PrepareFlash, Erased

LEMMA WholeMemory ==
  ASSUME MemTypeOK, GoodFrom(0)
  PROVE  place = Whole
BY BlocksTypes DEF MemTypeOK, GoodFrom, Whole

\* Every step leaves the memory as the next one expects it.
LEMMA MemStep ==
  ASSUME IInv, MemTypeOK, SleepTypeOK, [Next]_vars
  PROVE  MemInv'
<1> USE DEF IInv, MemInv, Clean, GoodImage, SpoiltImage, PutBackLow, Resetting, memVars, sleepVars
<1>0. CASE UNCHANGED vars
  BY <1>0 DEF vars, GoodTo, GoodFrom
<1>1. CASE M2hIsr
  BY <1>1 DEF M2hIsr, InterruptsOn
<1>2. CASE UartIsr
  BY <1>2 DEF UartIsr, InterruptsOn
<1>25. CASE BusyIsr
  BY <1>25 DEF BusyIsr, InterruptsOn
<1>3. CASE ConfSetMode
  BY <1>3 DEF ConfSetMode
<1>4. CASE EnableSleep
  BY <1>4 DEF EnableSleep
<1>5. CASE HoldChanges
  BY <1>5 DEF HoldChanges
<1>6. CASE LinkChanges
  BY <1>6 DEF LinkChanges
<1>7. CASE TasksBlock
  BY <1>7 DEF TasksBlock
<1>8. CASE IdleEnter
  BY <1>8 DEF IdleEnter
<1>9. CASE CheckAllow
  BY <1>9 DEF CheckAllow, AllowToSleep
<1>10. CASE Confirm
  <2>1. pc' \in {"tasks", "asleep", "pre"} /\ (pc' = "asleep" => loc'.pwr \notin Resetting)
    BY <1>10 DEF Confirm
  <2>2. Clean /\ place' = place /\ recs' = recs
    BY <1>10 DEF Confirm
  <2> QED
    BY <2>1, <2>2
<1>11. CASE PreSleep
  <2>1. pc = "pre" /\ Clean /\ place' = place /\ recs' = recs
    BY <1>11 DEF PreSleep
  <2>2. CASE loc.pwr \in Resetting
    <3>1. pc' = "hib" /\ Len(recs') = 0
      BY <1>11, <2>1, <2>2, EmptySeq DEF PreSleep
    <3>2. GoodTo(recs, 0) /\ GoodFrom(0)
      BY <2>1, BlocksTypes DEF GoodTo, GoodFrom, Whole
    <3> QED
      BY <2>1, <3>1, <3>2, BlocksTypes DEF GoodTo, GoodFrom
  <2>3. CASE loc.pwr \notin Resetting
    BY <1>11, <2>1, <2>3 DEF PreSleep
  <2> QED
    BY <2>2, <2>3
<1>12. CASE HibernateBlock
  <2>1. PICK n \in 1..MaxSize : Compress(n)
    BY <1>12, SleepAssumption DEF HibernateBlock
  <2>2. pc = "hib" /\ pc' = "hib"
    BY <1>12 DEF HibernateBlock
  <2> QED
    BY <2>1, <2>2, CompressGood
<1>13. CASE HibernateFails
  <2>1. pc = "hib" /\ pc' = "undo" /\ recs' = recs /\ place' = place
    BY <1>13 DEF HibernateFails, GiveUp
  <2>2. Len(recs) >= HeapBlocks /\ Len(recs) \in Nat
    BY <1>13, <2>1, GivesUpLate, RecordTypes DEF HibernateFails, GiveUp
  <2>3. CASE NextBlock \in RegionFirst
    <3>1. from' = Len(recs) /\ into' = Len(recs)
      BY <1>13, <2>3 DEF HibernateFails, GiveUp
    <3> QED
      BY <2>1, <3>1, <2>2 DEF GoodTo, GoodFrom
  <2>4. CASE NextBlock \notin RegionFirst
    <3>1. from' = Len(recs) /\ into' = Len(recs) - 1
      BY <1>13, <2>4 DEF HibernateFails, GiveUp
    <3>2. Len(recs) >= 2
      BY <2>2, <2>4, HibernateAssumption DEF NextBlock, RegionFirst
    <3>3. recs[2].data = 2
      BY <2>1, <3>2, <2>2 DEF GoodTo
    <3> QED
      BY <2>1, <2>2, <3>1, <3>2, <3>3
  <2> QED
    BY <2>3, <2>4
<1>14. CASE HibernateDone
  <2>1. pc = "hib" /\ pc' = "enter" /\ recs' = recs /\ place' = place
    BY <1>14 DEF HibernateDone, PrepareFlash
  <2>2. Len(recs) = LastBlock /\ GoodTo(recs, LastBlock)
    BY <1>14, <2>1, RecordTypes, BlocksTypes DEF HibernateDone, AllCompressed, NextBlock
  <2>3. loc'.pwr = "SHUTDOWN" => 1 \notin dirty'
    <3>1. Pos >= 1
      BY <2>2, PosBound, BlocksTypes
    <3> QED
      BY <1>14, <3>1, FirstErased DEF HibernateDone, SleepTypeOK
  <2>4. loc'.pwr \in Resetting
    BY <1>14, <2>1 DEF HibernateDone, CycleInv, ModeInv, SleepTypeOK
  <2> QED
    BY <2>1, <2>2, <2>3, <2>4
<1>15. CASE UndoBlock
  <2>1. pc = "undo" /\ pc' = pc /\ loc' = loc /\ dirty' = dirty /\ PutBack /\ into > 0
    BY <1>15 DEF UndoBlock, PutBack
  <2>2. from \in 1..Len(recs)
    BY <2>1, RecordTypes DEF MemTypeOK
  <2>3. CASE from = into /\ GoodTo(recs, from) /\ GoodFrom(into)
    <3>1. GoodTo(recs', from') /\ GoodFrom(into)'
      BY <2>1, <2>2, <2>3, PutBackGood
    <3>2. from' = into' /\ from' <= Len(recs')
      BY <2>1, <2>2, <2>3, PutBackTypes, RecordTypes DEF PutBack
    <3> QED
      BY <2>1, <3>1, <3>2 DEF GoodTo
  <2>4. CASE from = into + 1 /\ Len(recs) >= 2 /\ recs[2].data \in {0, 2}
    <3>1. recs'[2].data \in {0, 2} /\ (into' = 0 => place'[1] \in {0, 2})
      BY <2>1, <2>2, <2>4, PutBackShifted
    <3>2. from' = into' + 1 /\ from' <= Len(recs') /\ Len(recs') >= 2
      BY <2>1, <2>2, <2>4, PutBackTypes, RecordTypes DEF PutBack, MemTypeOK
    <3> QED
      BY <2>1, <3>1, <3>2
  <2> QED
    BY <2>1, <2>3, <2>4
<1>16. CASE UndoDone
  <2>1. pc = "undo" /\ into = 0 /\ loc'.pwr = "STOP" /\ recs' = <<>> /\ place' = place
    BY <1>16 DEF UndoDone, PutBackAll, SleepTypeOK
  <2>2. pc' = IF place = Whole THEN "enter" ELSE "lost"
    BY <1>16 DEF UndoDone
  <2>3. place # Whole => place[1] \in {0, 2}
    BY <2>1, WholeMemory
  <2> QED
    BY <2>1, <2>2, <2>3
<1>17. CASE EnterSleep
  <2>1. pc = "enter" /\ pc' = "asleep" /\ loc.pwr # "SLEEP"
    BY <1>17 DEF EnterSleep, CycleInv, ModeInv
  <2>2. PICK overhead \in Overheads :
          LET time == SleepTime(overhead)
              mode == IF loc.pwr = "SHUTDOWN" /\ time < Threshold THEN "STANDBY" ELSE loc.pwr
          IN  /\ loc' = [loc EXCEPT !.pwr = mode]
              /\ marked' = (mode = "STANDBY")
              /\ IF mode = "SHUTDOWN" THEN ToFlash ELSE UNCHANGED memVars
    BY <1>17 DEF EnterSleep
  <2>3. loc.pwr \in Modes /\ loc'.pwr \in {loc.pwr, "STANDBY"}
    BY <2>2 DEF SleepTypeOK
  <2>4. CASE loc'.pwr = "SHUTDOWN"
    <3>1. loc.pwr = "SHUTDOWN" /\ ~marked' /\ ToFlash
      BY <2>2, <2>4 DEF SleepTypeOK
    <3>2. GoodImage(recs) /\ 1 \notin dirty
      BY <2>1, <3>1
    <3>3. Len(stored') = LastBlock
      BY <3>1, <3>2, BlocksTypes DEF ToFlash
    <3>4. CASE Sectors(Pos) \cap dirty = {}
      BY <2>1, <2>4, <3>1, <3>2, <3>4 DEF ToFlash, GoodTo
    <3>5. CASE Sectors(Pos) \cap dirty # {}
      <4>1. \E s \in dirty' : s > 1
        BY <3>1, <3>2, <3>5 DEF ToFlash, Sectors
      <4> QED
        BY <2>1, <2>4, <3>1, <3>3, <4>1
    <3> QED
      BY <3>4, <3>5
  <2>5. CASE loc'.pwr # "SHUTDOWN"
    <3>1. UNCHANGED memVars /\ (loc'.pwr = "STANDBY" => marked')
      BY <2>2, <2>5 DEF SleepTypeOK
    <3>2. loc.pwr \in Resetting <=> loc'.pwr \in Resetting
      BY <2>2, <2>3, <2>5 DEF SleepTypeOK
    <3> QED
      BY <2>1, <2>3, <2>5, <3>1, <3>2 DEF GoodTo
  <2> QED
    BY <2>4, <2>5
<1>18. CASE WakeUp
  <2>1. pc = "asleep" /\ loc' = loc /\ loc.pwr \in Modes
    BY <1>18 DEF WakeUp, SleepTypeOK
  <2>2. CASE loc.pwr \in Resetting
    BY <1>18, <2>1, <2>2 DEF WakeUp, GoodTo
  <2>3. CASE loc.pwr \notin Resetting
    BY <1>18, <2>1, <2>3 DEF WakeUp
  <2> QED
    BY <2>2, <2>3
<1>19. CASE Boot
  <2>1. /\ pc = "boot" /\ pc' = "unpack" /\ loc' = loc /\ dirty' = dirty
        /\ loc.pwr \in Resetting
    BY <1>19 DEF Boot, UnpackAll, CycleInv, ModeInv
  <2>2. from' = Len(recs') /\ into' = LastBlock /\ recs' = IF marked THEN recs ELSE stored
    BY <1>19 DEF Boot, UnpackAll
  <2>3. Len(recs') = LastBlock /\ (SpoiltImage \/ GoodTo(recs', LastBlock))
    BY <2>1, <2>2
  <2>4. \A m \in Blocks : ~(m > LastBlock)
    BY BlocksTypes
  <2> QED
    BY <2>1, <2>2, <2>3, <2>4, BlocksTypes DEF GoodTo, GoodFrom
<1>20. CASE UnpackBlock
  <2>1. pc = "unpack" /\ pc' = pc /\ loc' = loc /\ dirty' = dirty /\ PutBack /\ into > 0
    BY <1>20 DEF UnpackBlock, PutBack
  <2>2. from \in 1..Len(recs)
    BY <2>1, RecordTypes DEF MemTypeOK
  <2>3. from = into /\ from' = into' /\ from' <= Len(recs')
    BY <2>1, <2>2, PutBackTypes, RecordTypes DEF PutBack
  <2>4. CASE SpoiltImage
    BY <2>1, <2>3, <2>4
  <2>5. CASE GoodTo(recs, from) /\ GoodFrom(into)
    <3>1. GoodTo(recs', from') /\ GoodFrom(into)'
      BY <2>1, <2>2, <2>3, <2>5, PutBackGood
    <3> QED
      BY <2>1, <2>3, <3>1 DEF GoodTo
  <2> QED
    BY <2>1, <2>4, <2>5
<1>21. CASE UnpackFails
  BY <1>21 DEF UnpackFails, ColdStart, NoCycle, FirstConf
<1>22. CASE UnpackDone
  <2>1. pc = "unpack" /\ into = 0 /\ loc' = loc /\ dirty' = dirty /\ place' = place /\ recs' = <<>>
    BY <1>22 DEF UnpackDone, PutBackAll
  <2>2. pc' = IF place = Whole THEN "post" ELSE "lost"
    BY <1>22 DEF UnpackDone
  <2>3. place # Whole => SpoiltImage
    BY <2>1, WholeMemory
  <2> QED
    BY <2>1, <2>2, <2>3
<1>23. CASE PostSleep
  BY <1>23 DEF PostSleep
<1>24. CASE Leave
  BY <1>24 DEF Leave, ToMask, NoCycle
<1> QED
  BY <1>0, <1>1, <1>2, <1>25, <1>3, <1>4, <1>5, <1>6, <1>7, <1>8, <1>9, <1>10, <1>11, <1>12, <1>13,
     <1>14, <1>15, <1>16, <1>17, <1>18, <1>19, <1>20, <1>21, <1>22, <1>23, <1>24 DEF Next,
     Others, Down, Up

-----------------------------------------------------------------------------
(* The theorems *)

LEMMA InitIInv == Init => IInv
<1> SUFFICES ASSUME Init PROVE IInv
  OBVIOUS
<1> USE DEF Init, MemInit
<1>1. MemTypeOK
  BY BlocksTypes, EmptySeq DEF MemTypeOK, Whole
<1>2. Settings
  BY DEF Settings, Places, Modes, Irqs, Configs, NoCycle, FirstConf
<1>3. Flags
  BY DEF Flags
<1>4. CycleInv
  BY DEF CycleInv, ModeInv, IrqInv, AllowInv, Deep, Awake, Masking
<1>5. MemInv
  BY DEF MemInv, Clean
<1> QED
  BY <1>1, <1>2, <1>3, <1>4, <1>5, SplitTypes DEF IInv

LEMMA IInvStep ==
  ASSUME IInv, [Next]_vars
  PROVE  IInv'
<1>1. SleepTypeOK /\ MemTypeOK /\ Settings /\ Flags /\ CycleInv
  BY SplitTypes DEF IInv
<1>2. SleepTypeOK'
  <2>1. MemTypeOK' /\ Settings' /\ Flags'
    BY <1>1, MemTypeStep, SettingsStep, FlagsStep
  <2> QED
    BY <2>1 DEF SleepTypeOK, Settings, Flags, MemTypeOK
<1>3. CycleInv'
  BY <1>1, CycleStep
<1>4. MemInv'
  BY <1>1, MemStep
<1> QED
  BY <1>2, <1>3, <1>4 DEF IInv

LEMMA Invariance == Spec => []IInv
<1>1. IInv /\ [Next]_vars => IInv'
  BY IInvStep
<1> QED
  BY InitIInv, <1>1, PTL DEF Spec

\* Every variable keeps its type; in particular a compressed block that is put
\* back is one that was written (DecompressPartial reads no other).
THEOREM TypeCorrect == Spec => []SleepTypeOK
<1>1. IInv => SleepTypeOK
  BY DEF IInv
<1> QED
  BY Invariance, <1>1, PTL

\* Whatever sizes the compressor returns, for any regions, blocks and sectors and
\* the room HibernateAssumption names, hibernation gives back the memory as it
\* was, but in the two cases that LossExplained names.
THEOREM LossCorrect == Spec => []LossExplained
<1>1. IInv => LossExplained
  <2> SUFFICES ASSUME IInv PROVE LossExplained
    OBVIOUS
  <2>1. pc = "lost" => PutBackLow \/ SpoiltImage
    BY DEF IInv, MemInv
  <2>2. pc = "unpack" => SpoiltImage \/ \A i \in 1..from : recs[i].data = i
    BY DEF IInv, MemInv, GoodTo
  <2> QED
    BY <2>1, <2>2 DEF LossExplained
<1> QED
  BY Invariance, <1>1, PTL

\* For any memory, durations and idle times the MCU goes into a deep sleep only
\* with the link to the modem down, no device busy and the sleep enabled.
THEOREM LinkDownCorrect == Spec => []LinkDownAsleep
<1>1. IInv => LinkDownAsleep
  BY DEF IInv, CycleInv, AllowInv, Deep, LinkDownAsleep
<1> QED
  BY Invariance, <1>1, PTL

\* For any memory, durations and idle times the tasks find the drivers, the IO
\* latch, the callbacks, the interrupts and the mode as they were before the cycle.
THEOREM BackCorrect == Spec => BackAsBefore
<1> DEFINE A == pc # "tasks" /\ pc' = "tasks" =>
                  \/ /\ drivers' = "on" /\ ~latched' /\ ~told'
                     /\ nvic' = Irqs
                     /\ conf'.mode = loc.cfg /\ conf'.enable = conf.enable
                  \/ pc = "unpack"
<1>1. IInv /\ [Next]_vars => [A]_vars
  <2> SUFFICES ASSUME IInv, Next, pc # "tasks", pc' = "tasks", pc # "unpack"
               PROVE  A
    BY DEF A, vars, sleepVars
  <2> USE DEF IInv, SleepTypeOK, Configs, CycleInv, ModeInv, IrqInv, Awake, Modes, Resetting
  <2>1. Confirm \/ Leave
    BY DEF Next, Others, Down, Up, M2hIsr, UartIsr, BusyIsr, ConfSetMode, EnableSleep, HoldChanges,
           LinkChanges, TasksBlock, IdleEnter, CheckAllow, PreSleep, HibernateBlock,
           HibernateFails, HibernateDone, UndoBlock, UndoDone, EnterSleep, WakeUp, Boot,
           UnpackBlock, UnpackFails, UnpackDone, PostSleep, sleepVars
  <2>2. CASE Confirm
    BY <2>2 DEF Confirm
  <2>3. CASE Leave
    BY <2>3 DEF Leave
  <2> QED
    BY <2>1, <2>2, <2>3
<1> QED
  BY Invariance, <1>1, PTL DEF Spec, BackAsBefore
=============================================================================
