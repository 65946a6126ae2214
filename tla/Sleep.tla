------------------------------- MODULE Sleep -------------------------------
(***************************************************************************)
(* The tickless idle of the idle task (vPortSuppressTicksAndSleep) with    *)
(* the power manager: the mode and the checks that allow it, the           *)
(* notifications of drivers and callbacks, the masking of the interrupts,  *)
(* hibernation, the request to the power management processor (PMP) and    *)
(* the way back.  One cycle is a sequence of steps of the idle task, which *)
(* runs when no other task is ready and with the scheduler suspended;      *)
(* interrupt handlers run between the steps where interrupts are on.       *)
(***************************************************************************)
EXTENDS Hibernate

CONSTANTS Durations,  \* the durations an application configures, 0 for no limit
          IdleTimes,  \* the expected idle times of the kernel
          Overheads,  \* the time that the preparation of a sleep takes
          Sizes,      \* the sizes of compressed blocks
          Threshold   \* PWR_MNGR_SHUTDOWN_THRESHOLD

ASSUME SleepAssumption ==
  /\ Durations \subseteq Nat /\ Overheads \subseteq Nat
  /\ IdleTimes \subseteq Nat \ {0}
  /\ Sizes \subseteq 1..MaxSize
  /\ Threshold \in Nat

Modes == {"SLEEP", "STOP", "STANDBY", "SHUTDOWN"}
Resetting == {"STANDBY", "SHUTDOWN"}

\* "mbox" is the mailbox of the PMP and of the modem's line M2H.
Irqs == {"mbox", "other"}

\* Reasons to stay awake: the inactivity time of the UART, a monitored input, a busy
\* device ("busy" if its interrupt handler makes a task ready when it sets the
\* device busy, "quiet" if it does not).
Holds == {"uart", "gpio", "busy", "quiet"}

VARIABLES
  pc,      \* the step of the idle task, or "tasks" while tasks may run
  loc,     \* its locals: pwr_mode, cfg_mode, cfg_duration, xExpectedIdleTime
  conf,    \* sleep_conf: mode, duration, enable
  image,   \* sleep_conf in the memory that was compressed
  req,     \* the duration asked of the PMP, 0 for no limit
  marked,  \* the mark of a stateful sleep in the GPM
  nvic,    \* the interrupts that are enabled
  masked,  \* intr_masked_tab
  ready,   \* an interrupt handler has made a task ready
  link,    \* the state of the host interface
  hold,    \* what else keeps the MCU awake: members of Holds
  drivers, \* "on" or "suspended"
  latched, \* the IO latch
  told     \* the callbacks were told of a suspend last

sleepVars == <<pc, loc, conf, image, req, marked, nvic, masked, ready, link,
               hold, drivers, latched, told>>
vars == <<memVars, sleepVars>>

Places == {"tasks", "check", "cpsid", "pre", "hib", "undo", "enter", "asleep",
           "boot", "unpack", "post", "window", "lost"}
NoCycle == [pwr |-> "SLEEP", cfg |-> "SLEEP", cfgdur |-> 0, idle |-> 0]
Configs == [mode : Modes, dur : Nat, enable : BOOLEAN]
FirstConf == [mode |-> "SLEEP", dur |-> 0, enable |-> FALSE]

\* What the start of the program leaves, whatever was before.
ColdStart ==
  /\ place' = Whole /\ recs' = <<>> /\ from' = 0 /\ into' = 0 /\ stored' = <<>>
  /\ pc' = "tasks" /\ loc' = NoCycle
  /\ conf' = FirstConf /\ image' = FirstConf
  /\ req' = 0 /\ marked' = FALSE
  /\ nvic' = Irqs /\ masked' = {} /\ ready' = FALSE
  /\ link' = "IfDown" /\ hold' = {}
  /\ drivers' = "on" /\ latched' = FALSE /\ told' = FALSE
  /\ UNCHANGED dirty

Init ==
  /\ MemInit
  /\ pc = "tasks" /\ loc = NoCycle
  /\ conf = FirstConf /\ image = FirstConf
  /\ req = 0 /\ marked = FALSE
  /\ nvic = Irqs /\ masked = {} /\ ready = FALSE
  /\ link = "IfDown" /\ hold = {}
  /\ drivers = "on" /\ latched = FALSE /\ told = FALSE

-----------------------------------------------------------------------------
(* Interrupt handlers and tasks *)

InterruptsOn == pc \in {"tasks", "check", "cpsid", "window"}

\* The modem resumes the link: hifc_m2h_level_change_callback starts the
\* inactivity timer, which makes the timer task ready.
M2hIsr ==
  /\ InterruptsOn /\ "mbox" \in nvic
  /\ link = "IfDown" /\ link' = "IfUp"
  /\ ready' = TRUE
  /\ UNCHANGED <<memVars, pc, loc, conf, image, req, marked, nvic, masked, hold,
                 drivers, latched, told>>

\* A character: the inactivity time of the UART begins again.
UartIsr ==
  /\ InterruptsOn /\ "other" \in nvic
  /\ hold' = hold \cup {"uart"}
  /\ ready' \in {ready, TRUE}
  /\ UNCHANGED <<memVars, pc, loc, conf, image, req, marked, nvic, masked, link,
                 drivers, latched, told>>

\* smngr_dev_busy_set and smngr_dev_busy_clr from the interrupt handler of a device.
BusyIsr ==
  /\ InterruptsOn /\ "other" \in nvic
  /\ \/ hold' = hold \cup {"busy"} /\ ready' = TRUE
     \/ hold' = hold \cup {"quiet"} /\ UNCHANGED ready
     \/ \E d \in {"busy", "quiet"} : hold' = hold \ {d} /\ ready' \in {ready, TRUE}
  /\ UNCHANGED <<memVars, pc, loc, conf, image, req, marked, nvic, masked, link,
                 drivers, latched, told>>

ConfSetMode ==
  /\ pc = "tasks"
  /\ \E m \in Modes, d \in Durations : conf' = [conf EXCEPT !.mode = m, !.dur = d]
  /\ UNCHANGED <<memVars, pc, loc, image, req, marked, nvic, masked, ready, link, hold,
                 drivers, latched, told>>

EnableSleep ==
  /\ pc = "tasks"
  /\ conf' = IF conf.enable THEN [conf EXCEPT !.enable = FALSE, !.mode = "SLEEP"]
             ELSE [conf EXCEPT !.enable = TRUE]
  /\ UNCHANGED <<memVars, pc, loc, image, req, marked, nvic, masked, ready, link, hold,
                 drivers, latched, told>>

\* smngr_dev_busy_set and smngr_dev_busy_clr from a task; a monitored input, which is
\* looked at once in a cycle, or the time of the UART.
HoldChanges ==
  /\ pc = "tasks"
  /\ \/ \E h \in {"busy", "quiet", "gpio"} : hold' = IF h \in hold THEN hold \ {h} ELSE hold \cup {h}
     \/ hold' = hold \ {"uart"}
  /\ UNCHANGED <<memVars, pc, loc, conf, image, req, marked, nvic, masked, ready, link,
                 drivers, latched, told>>

\* The host interface suspends the link, or the host resumes it.
LinkChanges ==
  /\ pc = "tasks"
  /\ link' = IF link = "IfUp" THEN "IfDown" ELSE "IfUp"
  /\ UNCHANGED <<memVars, pc, loc, conf, image, req, marked, nvic, masked, ready, hold,
                 drivers, latched, told>>

\* The tasks that were made ready have run.
TasksBlock ==
  /\ pc = "tasks" /\ ready
  /\ ready' = FALSE
  /\ UNCHANGED <<memVars, pc, loc, conf, image, req, marked, nvic, masked, link, hold,
                 drivers, latched, told>>

-----------------------------------------------------------------------------
(* The way down *)

IdleEnter ==
  /\ pc = "tasks" /\ ~ready
  /\ \E t \in IdleTimes :
       loc' = [pwr |-> conf.mode, cfg |-> conf.mode, cfgdur |-> conf.dur, idle |-> t]
  /\ pc' = "check"
  /\ UNCHANGED <<memVars, conf, image, req, marked, nvic, masked, ready, link, hold,
                 drivers, latched, told>>

AllowToSleep == conf.enable /\ hold = {} /\ link = "IfDown"

\* A graceful downgrade to the sleep of the kernel.
CheckAllow ==
  /\ pc = "check"
  /\ loc' = IF AllowToSleep THEN loc ELSE [loc EXCEPT !.pwr = "SLEEP"]
  /\ pc' = "cpsid"
  /\ UNCHANGED <<memVars, conf, image, req, marked, nvic, masked, ready, link, hold,
                 drivers, latched, told>>

\* Mutant of ToMask: the mailbox interrupt is masked in every mode.
ToMaskAll(mode) == nvic

\* DRV_PM_MaskInterrupts: what it masks in a mode.
ToMask(mode) == IF mode \in Resetting THEN nvic ELSE nvic \ {"mbox"}

\* Mutant of ConfirmSleep: what happened since the checks is not looked at.
ConfirmAlways == TRUE

\* eTaskConfirmSleepModeStatus.
ConfirmSleep == ~ready

\* Interrupts go off and are masked; a task that became ready meanwhile ends the
\* cycle, with the interrupts restored.
Confirm ==
  /\ pc = "cpsid"
  /\ \/ /\ ~ConfirmSleep
        /\ masked' = IF loc.pwr = "SLEEP" THEN masked ELSE ToMask(loc.pwr)
        /\ pc' = "tasks" /\ loc' = NoCycle
        /\ UNCHANGED <<nvic, req>>
     \/ /\ ConfirmSleep /\ loc.pwr = "SLEEP"
        /\ req' = loc.idle /\ pc' = "asleep"
        /\ UNCHANGED <<nvic, masked, loc>>
     \/ /\ ConfirmSleep /\ loc.pwr # "SLEEP"
        /\ masked' = ToMask(loc.pwr) /\ nvic' = nvic \ masked'
        /\ pc' = "pre"
        /\ UNCHANGED <<req, loc>>
  /\ UNCHANGED <<memVars, conf, image, marked, ready, link, hold, drivers, latched, told>>

\* pwr_mngr_pre_sleep_process.
PreSleep ==
  /\ pc = "pre"
  /\ told' = TRUE
  /\ IF loc.pwr \in Resetting
     THEN drivers' = "suspended" /\ latched' = TRUE /\ pc' = "hib"
     ELSE pc' = "enter" /\ UNCHANGED <<drivers, latched>>
  /\ UNCHANGED <<memVars, loc, conf, image, req, marked, nvic, masked, ready, link, hold>>

HibernateBlock ==
  /\ pc = "hib"
  /\ \E n \in Sizes : Compress(n)
  /\ UNCHANGED sleepVars

HibernateFails ==
  /\ pc = "hib"
  /\ GiveUp
  /\ pc' = "undo"
  /\ UNCHANGED <<loc, conf, image, req, marked, nvic, masked, ready, link, hold,
                 drivers, latched, told>>

\* The image is complete.  A shutdown needs room in the flash.
HibernateDone ==
  /\ pc = "hib" /\ AllCompressed
  /\ \/ loc.pwr = "STANDBY" /\ UNCHANGED <<memVars, loc>>
     \/ loc.pwr = "SHUTDOWN" /\ PrepareFlash /\ UNCHANGED loc
     \/ /\ loc.pwr = "SHUTDOWN"
        /\ loc' = [loc EXCEPT !.cfg = loc.pwr, !.pwr = "STANDBY"]
        /\ UNCHANGED memVars
  /\ pc' = "enter"
  /\ UNCHANGED <<conf, image, req, marked, nvic, masked, ready, link, hold,
                 drivers, latched, told>>

\* After the memory is put back the cycle goes on in the stop mode.
UndoBlock ==
  /\ pc = "undo"
  /\ PutBack
  /\ UNCHANGED sleepVars

UndoDone ==
  /\ pc = "undo" /\ PutBackAll
  /\ pc' = IF place = Whole THEN "enter" ELSE "lost"
  /\ loc' = [loc EXCEPT !.cfg = loc.pwr, !.pwr = "STOP"]
  /\ recs' = <<>> /\ from' = 0
  /\ UNCHANGED <<place, into, dirty, stored, conf, image, req, marked, nvic, masked,
                 ready, link, hold, drivers, latched, told>>

\* ExpectedSleepTime.
SleepTime(overhead) ==
  LET limited == IF loc.cfgdur # 0 /\ loc.idle > loc.cfgdur THEN loc.cfgdur ELSE loc.idle
  IN  IF limited >= overhead THEN limited - overhead ELSE 1

\* A short shutdown becomes a standby; the settings are changed for the request,
\* after the memory was compressed.
EnterSleep ==
  /\ pc = "enter"
  /\ \E overhead \in Overheads :
       LET time == SleepTime(overhead)
           mode == IF loc.pwr = "SHUTDOWN" /\ time < Threshold THEN "STANDBY" ELSE loc.pwr
       IN  /\ loc' = [loc EXCEPT !.pwr = mode]
           /\ image' = conf
           /\ conf' = [conf EXCEPT !.mode = mode, !.dur = time]
           /\ req' = time
           /\ marked' = (mode = "STANDBY")
           /\ IF mode = "SHUTDOWN" THEN ToFlash ELSE UNCHANGED memVars
  /\ pc' = "asleep"
  /\ UNCHANGED <<nvic, masked, ready, link, hold, drivers, latched, told>>

-----------------------------------------------------------------------------
(* The way back *)

\* WFI ends with an enabled interrupt; the PMP ends a standby or a shutdown with
\* a reset, and a shutdown does not keep the GPM.
WakeUp ==
  /\ pc = "asleep"
  /\ \/ loc.pwr = "SLEEP" /\ pc' = "window" /\ UNCHANGED <<memVars, nvic>>
     \/ loc.pwr = "STOP" /\ "mbox" \in nvic /\ pc' = "post" /\ UNCHANGED <<memVars, nvic>>
     \/ /\ loc.pwr \in Resetting
        /\ pc' = "boot" /\ nvic' = {}
        /\ place' = [m \in Blocks |-> 0]
        /\ recs' = IF loc.pwr = "SHUTDOWN" THEN <<>> ELSE recs
        /\ UNCHANGED <<from, into, dirty, stored>>
  /\ UNCHANGED <<loc, conf, image, req, marked, masked, ready, link, hold, drivers,
                 latched, told>>

\* Reset_Handler: the image of the GPM if it is marked, or else of the flash, which
\* the next shutdown writes anew.
Boot ==
  /\ pc = "boot"
  /\ UnpackAll(IF marked THEN recs ELSE stored)
  /\ stored' = <<>>
  /\ marked' = FALSE
  /\ pc' = "unpack"
  /\ UNCHANGED <<loc, conf, image, req, nvic, masked, ready, link, hold, drivers,
                 latched, told>>

UnpackBlock ==
  /\ pc = "unpack"
  /\ PutBack
  /\ UNCHANGED sleepVars

\* Garbage that cannot be decompressed starts the program anew.
UnpackFails ==
  /\ pc = "unpack" /\ into > 0 /\ recs[from].data = 0
  /\ ColdStart

\* DRV_PM_Resume returns into the idle task, with the memory of the image.
UnpackDone ==
  /\ pc = "unpack" /\ PutBackAll
  /\ pc' = IF place = Whole THEN "post" ELSE "lost"
  /\ conf' = image
  /\ recs' = <<>> /\ from' = 0
  /\ UNCHANGED <<place, into, dirty, stored, loc, image, req, marked, nvic, masked,
                 ready, link, hold, drivers, latched, told>>

\* Mutant of PostSleep: the interrupts stay masked.
PostSleepMasked ==
  /\ pc = "post"
  /\ IF loc.pwr \in Resetting
     THEN drivers' = "on" /\ latched' = FALSE
     ELSE UNCHANGED <<drivers, latched>>
  /\ told' = FALSE
  /\ pc' = "window"
  /\ UNCHANGED <<memVars, loc, conf, image, req, marked, nvic, masked, ready, link, hold>>

\* pwr_mngr_post_sleep_process and DRV_PM_RestoreInterrupts.
PostSleep ==
  /\ pc = "post"
  /\ IF loc.pwr \in Resetting
     THEN drivers' = "on" /\ latched' = FALSE
     ELSE UNCHANGED <<drivers, latched>>
  /\ told' = FALSE
  /\ nvic' = nvic \cup masked
  /\ pc' = "window"
  /\ UNCHANGED <<memVars, loc, conf, image, req, marked, masked, ready, link, hold>>

\* The interrupts are off, masked and restored once more; the settings are
\* restored if the mode was changed.
Leave ==
  /\ pc = "window"
  /\ IF loc.pwr = "SLEEP"
     THEN UNCHANGED <<masked, hold, conf>>
     ELSE /\ masked' = ToMask(loc.pwr)
          /\ hold' = hold \cup {"uart"}
          /\ conf' = IF loc.cfg # loc.pwr
                     THEN [conf EXCEPT !.mode = loc.cfg, !.dur = loc.cfgdur] ELSE conf
  /\ pc' = "tasks" /\ loc' = NoCycle /\ req' = 0
  /\ UNCHANGED <<memVars, image, marked, nvic, ready, link, drivers, latched, told>>

-----------------------------------------------------------------------------
Others == \/ M2hIsr \/ UartIsr \/ BusyIsr \/ ConfSetMode \/ EnableSleep \/ HoldChanges
          \/ LinkChanges \/ TasksBlock
Down == \/ CheckAllow \/ Confirm \/ PreSleep \/ HibernateBlock \/ HibernateFails \/ HibernateDone
        \/ UndoBlock \/ UndoDone \/ EnterSleep
Up == Boot \/ UnpackBlock \/ UnpackFails \/ UnpackDone \/ PostSleep \/ Leave
Next == Others \/ IdleEnter \/ Down \/ WakeUp \/ Up

Spec == Init /\ [][Next]_vars

\* The idle task goes on, and the PMP wakes the MCU when the time it was given
\* is over; without a time it may never.
FairSpec == Spec /\ WF_vars(Down) /\ WF_vars(Up) /\ WF_vars(WakeUp /\ req # 0)

-----------------------------------------------------------------------------
(* Properties *)

SleepTypeOK ==
  /\ MemTypeOK
  /\ pc \in Places
  /\ loc \in [pwr : Modes, cfg : Modes, cfgdur : Nat, idle : Nat]
  /\ conf \in Configs /\ image \in Configs
  /\ req \in Nat /\ marked \in BOOLEAN
  /\ nvic \in SUBSET Irqs /\ masked \in SUBSET Irqs /\ ready \in BOOLEAN
  /\ link \in {"IfUp", "IfDown"} /\ hold \in SUBSET Holds
  /\ drivers \in {"on", "suspended"} /\ latched \in BOOLEAN /\ told \in BOOLEAN

\* What hibernation can do to the memory or to an image: a part of it is put back
\* one block too low when there is no room for the rest, and an image in the
\* flash of more than one sector is written over sectors that were never erased.
PutBackLow == loc.pwr = "STOP" /\ place[1] \in {0, 2}
SpoiltImage == loc.pwr = "SHUTDOWN" /\ \E s \in dirty : s > 1

\* Otherwise hibernation gives back the memory as it was, although the heap is
\* compressed and decompressed onto itself.
LossExplained ==
  /\ pc = "lost" => PutBackLow \/ SpoiltImage
  /\ pc = "unpack" => SpoiltImage \/ \A i \in 1..from : recs[i].data = i

\* The MCU never goes into a deep sleep while the link to the modem is up or a
\* device is busy, although the modem may raise the link, and an interrupt handler
\* set its device busy, after the idle task has looked at them: both make a task
\* ready.  A device whose handler does no more than set it busy is not heard there.
LinkDownAsleep ==
  pc = "asleep" /\ loc.pwr # "SLEEP" => link = "IfDown" /\ "busy" \notin hold /\ conf.enable

\* After a cycle the tasks find the drivers resumed, the IO latch open, the
\* callbacks told, every interrupt enabled and the mode that was configured,
\* however the cycle was downgraded on its way.
BackAsBefore ==
  [][pc # "tasks" /\ pc' = "tasks" =>
       \/ /\ drivers' = "on" /\ ~latched' /\ ~told'
          /\ nvic' = Irqs
          /\ conf'.mode = loc.cfg /\ conf'.enable = conf.enable
       \/ pc = "unpack"]_vars

\* Hibernation has failed: the cycle goes on in the stop mode with the mailbox
\* interrupt masked as for the standby.
FellBack == loc.pwr = "STOP" /\ loc.cfg # "STOP"

\* Every cycle of the idle task ends, the MCU awake again, unless it was asked to
\* sleep without a time, hibernation failed or the memory is lost.
CycleEnds ==
  pc = "check" ~> pc = "tasks" \/ pc = "lost" \/ FellBack \/ (pc = "asleep" /\ req = 0)

\* A sleep is always asked for with a time, since 0 is none.
SleepIsTimed == pc = "asleep" => req # 0
=============================================================================
