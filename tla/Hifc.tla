-------------------------------- MODULE Hifc --------------------------------
(***************************************************************************)
(* The host interface: MCU and modem agree over two lines, H2M and M2H, on *)
(* whether the UART between them is up.  middleware/hifc/src/lib/core/     *)
(* hifc_api.c in mode b, the one DRV_UART_Initialize selects               *)
(* (DRV_UART.c:707); the callbacks of hifc_mi.c for other pins are empty   *)
(* in this port and left out, as are the counters of the status report.    *)
(*                                                                         *)
(* Who runs the code: the interrupt of M2H (M2hIsr), the timer task (tmr), *)
(* a console command (con) and the sending tasks.  The interrupt preempts  *)
(* every task, so that no task takes a step while it is pending; the timer *)
(* task has a higher priority than the console and the senders and is      *)
(* never interrupted by them; request_to_send is a critical section, but   *)
(* a console command is not.  A handler is split where one that preempts   *)
(* it can change what it reads or undo what it has written.                *)
(***************************************************************************)
EXTENDS Naturals

CONSTANTS
  Senders,       \* the tasks that send over the UART
  Commands,      \* the console commands given: a subset of {"res", "sus", "timer"}
  MaxLate,       \* bound: time-outs that expire although the modem has yet to act
  MaxCommands    \* bound: console commands

ASSUME HifcAssumption ==
  /\ Commands \subseteq {"res", "sus", "timer"}
  /\ MaxLate \in Nat
  /\ MaxCommands \in Nat

VARIABLES
  hi,            \* gHifc_struct, the H2M line, the M2H interrupt and the timers
  fell,          \* the interrupt status: M2H fell while a fall was awaited
  mdm,           \* the modem: "down", "asking" (it wants the link) or "up"
  tmr,           \* where the timer task is in a callback
  con,           \* where the console is in a command
  snd,           \* of each sender: "idle", or "want" in hifc_request_to_send
  traffic,       \* isUartTraffic
  late,          \* time-outs that came before the modem's answer
  given          \* console commands given

vars == <<hi, fell, mdm, tmr, con, snd, traffic, late, given>>

IfStates == {"IfDown", "IfUp", "IfSuspending", "IfResuming"}
FsmStates == {"init", "config", "approve", "complete", "error", "timeout"}

TypeOK ==
  /\ hi \in [state : IfStates, fsm : FsmStates, irq : {"off", "set", "clear"},
             h2m : {0, 1}, proto : BOOLEAN, inact : BOOLEAN]
  /\ fell \in BOOLEAN
  /\ mdm \in {"down", "asking", "up"}
  /\ tmr \in {"idle", "fired", "marked", "susp", "retry", "resm", "down"}
  /\ con \in {"idle", "sus", "res", "resinit", "restart", "set"}
  /\ snd \in [Senders -> {"idle", "want"}]
  /\ traffic \in BOOLEAN
  /\ late \in 0..MaxLate
  /\ given \in 0..MaxCommands

\* The level of M2H: the modem raises it to ask for the link or to grant it.
m2h == IF mdm = "down" THEN 0 ELSE 1

-----------------------------------------------------------------------------
(* The state machines, as functions of the host's state.                   *)

\* hifc_modem_resume_sm
ModemResumeSm(x) ==
  LET y == CASE x.fsm = "init"   -> [x EXCEPT !.fsm = "config", !.irq = "set"]
             [] x.fsm = "config" -> [x EXCEPT !.fsm = "complete", !.h2m = 1]
             [] x.fsm \in {"approve", "complete"} -> x
             [] OTHER -> [x EXCEPT !.fsm = "error"]
  IN  IF y.fsm = "complete" THEN [y EXCEPT !.state = "IfUp", !.inact = TRUE] ELSE y

\* Mutant of SuspendSm: protcol_timeout_timer is not started.
SuspendSmUntimed(x) ==
  LET y == CASE x.fsm = "init" ->
                  [x EXCEPT !.state = "IfSuspending", !.fsm = "config",
                            !.irq = "clear", !.h2m = 0]
             [] x.fsm = "config" -> [x EXCEPT !.proto = FALSE, !.fsm = "complete"]
             [] OTHER -> [x EXCEPT !.fsm = "error"]
  IN  IF y.fsm = "complete"
        THEN [ModemResumeSm([y EXCEPT !.fsm = "init"]) EXCEPT !.state = "IfDown"]
        ELSE y

\* hifc_host_suspend_sm
SuspendSm(x) ==
  LET y == CASE x.fsm = "init" ->
                  [x EXCEPT !.state = "IfSuspending", !.fsm = "config",
                            !.irq = "clear", !.proto = TRUE, !.h2m = 0]
             [] x.fsm = "config"   -> [x EXCEPT !.proto = FALSE, !.fsm = "complete"]
             [] x.fsm = "approve"  -> [x EXCEPT !.proto = FALSE]
             [] x.fsm = "complete" -> x
             [] OTHER -> [x EXCEPT !.fsm = "error"]
  IN  IF y.fsm = "complete"
        THEN [ModemResumeSm([y EXCEPT !.fsm = "init"]) EXCEPT !.state = "IfDown"]
        ELSE y

\* Mutant of ResumeSm: hifc_mi_h2m_set increments without testing for 0.
ResumeSmCounting(x) ==
  LET y == CASE x.fsm = "init" ->
                  [x EXCEPT !.state = "IfResuming", !.fsm = "approve",
                            !.irq = "set", !.proto = TRUE, !.h2m = @ + 1]
             [] x.fsm = "approve" -> [x EXCEPT !.proto = FALSE, !.state = "IfUp",
                                               !.fsm = "complete"]
             [] OTHER -> [x EXCEPT !.fsm = "error"]
  IN  IF y.fsm = "complete" /\ y.state = "IfUp" THEN [y EXCEPT !.inact = TRUE] ELSE y

\* hifc_host_resume_sm
ResumeSm(x) ==
  LET y == CASE x.fsm = "init" ->
                  [x EXCEPT !.state = "IfResuming", !.fsm = "approve",
                            !.irq = "set", !.proto = TRUE, !.h2m = 1]
             [] x.fsm = "config"  -> [x EXCEPT !.proto = TRUE, !.fsm = "approve", !.irq = "set"]
             [] x.fsm = "approve" -> [x EXCEPT !.proto = FALSE, !.state = "IfUp",
                                               !.fsm = "complete"]
             [] x.fsm = "complete" -> x
             [] OTHER -> [x EXCEPT !.fsm = "error"]
  IN  IF y.fsm = "complete" /\ y.state = "IfUp" THEN [y EXCEPT !.inact = TRUE] ELSE y

\* hifc_host_suspend and hifc_host_resume
HostSuspend(x) ==
  IF x.state = "IfUp" THEN SuspendSm([x EXCEPT !.fsm = "init"]) ELSE x
HostResume(x) ==
  IF x.state = "IfDown" THEN ResumeSm([x EXCEPT !.irq = "off", !.fsm = "init"]) ELSE x

\* Mutant of LevelChange: the pin level is not tested.
LevelChangeAny(x, level) ==
  CASE x.state = "IfSuspending" -> SuspendSm(x)
    [] x.state = "IfResuming"   -> ResumeSm(x)
    [] x.state = "IfDown"       -> ModemResumeSm(x)
    [] OTHER -> x

\* hifc_m2h_level_change_callback
LevelChange(x, level) ==
  CASE x.state = "IfSuspending" /\ level = 0 -> SuspendSm(x)
    [] x.state = "IfResuming" /\ level = 1   -> ResumeSm(x)
    [] x.state = "IfDown" /\ level = 1       -> ModemResumeSm(x)
    [] OTHER -> x

-----------------------------------------------------------------------------
\* After hifc_host_interface_init and set_hifc_mode(hifc_mode_b).
Init ==
  /\ hi = [state |-> "IfDown", fsm |-> "config", irq |-> "set",
           h2m |-> 0, proto |-> FALSE, inact |-> FALSE]
  /\ fell = FALSE
  /\ mdm = "down"
  /\ tmr = "idle"
  /\ con = "idle"
  /\ snd = [s \in Senders |-> "idle"]
  /\ traffic = FALSE
  /\ late = 0
  /\ given = 0

\* hifc_mi_m2h_init for "set" interrupts on the level, for "clear" on the fall.
IrqPending == \/ hi.irq = "set" /\ m2h = 1
              \/ hi.irq = "clear" /\ fell

\* A change of the M2H interrupt's mode forgets a fall.
SetHi(x) == /\ hi' = x
            /\ fell' = (fell /\ x.irq = "clear")

M2hIsr ==
  /\ IrqPending
  /\ hi' = LevelChange([hi EXCEPT !.irq = "off"], m2h)
  /\ fell' = FALSE
  /\ UNCHANGED <<mdm, tmr, con, snd, traffic, late, given>>

-----------------------------------------------------------------------------
(* The timer task.                                                         *)
TimerTaskFree == tmr = "idle" /\ ~IrqPending

\* The modem has a change of H2M to answer.
ModemDue == \/ hi.h2m = 1 /\ mdm # "up"
            \/ hi.h2m = 0 /\ mdm = "up"

\* protcol_timeout_timer expires; a stop comes too late from here on.
ProtocolExpires ==
  /\ TimerTaskFree /\ hi.proto
  /\ ModemDue => late < MaxLate
  /\ late' = IF ModemDue THEN late + 1 ELSE late
  /\ hi' = [hi EXCEPT !.proto = FALSE]
  /\ tmr' = "fired"
  /\ UNCHANGED <<fell, mdm, con, snd, traffic, given>>

\* hifc_protocol_timeout_isr: mark the time-out, read the state, then act.
TimeoutMark ==
  /\ tmr = "fired" /\ ~IrqPending
  /\ hi' = [hi EXCEPT !.fsm = "timeout"]
  /\ tmr' = "marked"
  /\ UNCHANGED <<fell, mdm, con, snd, traffic, late, given>>

TimeoutBranch ==
  /\ tmr = "marked" /\ ~IrqPending
  /\ tmr' = CASE hi.state = "IfSuspending" -> "susp"
              [] hi.state = "IfResuming"   -> "resm"
              [] OTHER -> "idle"
  /\ UNCHANGED <<hi, fell, mdm, con, snd, traffic, late, given>>

\* Fail to suspend: up again, and at once the next attempt.
TimeoutSuspending ==
  /\ tmr = "susp" /\ ~IrqPending
  /\ hi' = [hi EXCEPT !.h2m = 1, !.state = "IfUp"]
  /\ tmr' = "retry"
  /\ UNCHANGED <<fell, mdm, con, snd, traffic, late, given>>

TimeoutRetry ==
  /\ tmr = "retry" /\ ~IrqPending
  /\ SetHi(HostSuspend(hi))
  /\ tmr' = "idle"
  /\ UNCHANGED <<mdm, con, snd, traffic, late, given>>

\* Mutant of TimeoutResuming: H2M stays high.
TimeoutResumingHigh ==
  /\ tmr = "resm" /\ ~IrqPending
  /\ SetHi([hi EXCEPT !.irq = "set"])
  /\ tmr' = "down"
  /\ UNCHANGED <<mdm, con, snd, traffic, late, given>>

\* Fail to resume: M2H is armed for the modem before the state is down.
TimeoutResuming ==
  /\ tmr = "resm" /\ ~IrqPending
  /\ SetHi([hi EXCEPT !.h2m = 0, !.irq = "set"])
  /\ tmr' = "down"
  /\ UNCHANGED <<mdm, con, snd, traffic, late, given>>

\* Mutant of TimeoutDown: the state is not set.
TimeoutDownForgotten ==
  /\ tmr = "down" /\ ~IrqPending
  /\ tmr' = "idle"
  /\ UNCHANGED <<hi, fell, mdm, con, snd, traffic, late, given>>

TimeoutDown ==
  /\ tmr = "down" /\ ~IrqPending
  /\ hi' = [hi EXCEPT !.state = "IfDown"]
  /\ tmr' = "idle"
  /\ UNCHANGED <<fell, mdm, con, snd, traffic, late, given>>

\* hifc_inactivity_timeout_isr: traffic, sections left or a busy transmitter
\* restart the timer (the last one in IfUp only).
InactivityExpires ==
  /\ TimerTaskFree /\ hi.inact
  /\ \/ /\ hi' = hi
        /\ traffic' = FALSE
        /\ UNCHANGED fell
     \/ /\ ~traffic
        /\ SetHi(HostSuspend([hi EXCEPT !.inact = FALSE]))
        /\ UNCHANGED traffic
  /\ UNCHANGED <<mdm, tmr, con, snd, late, given>>

-----------------------------------------------------------------------------
(* The senders and the traffic.                                            *)
WantSend(s) ==
  /\ snd[s] = "idle" /\ TimerTaskFree
  /\ snd' = [snd EXCEPT ![s] = "want"]
  /\ UNCHANGED <<hi, fell, mdm, tmr, con, traffic, late, given>>

\* request_to_send finds the link up; hifc_request_to_send returns.
RequestGranted(s) ==
  /\ snd[s] = "want" /\ TimerTaskFree
  /\ hi.state = "IfUp"
  /\ traffic' = TRUE
  /\ snd' = [snd EXCEPT ![s] = "idle"]
  /\ UNCHANGED <<hi, fell, mdm, tmr, con, late, given>>

\* It finds the link down and resumes it; in another state it fails.  The
\* loop of DRV_UART_Send_Block tries again in both cases.
RequestResumes(s) ==
  /\ snd[s] = "want" /\ TimerTaskFree
  /\ hi.state = "IfDown"
  /\ SetHi(HostResume(hi))
  /\ UNCHANGED <<mdm, tmr, con, snd, traffic, late, given>>

\* generic_reset_inactivity_timer of the UART's interrupt.
UartTraffic ==
  /\ hi.state = "IfUp" /\ TimerTaskFree
  /\ traffic' = TRUE
  /\ UNCHANGED <<hi, fell, mdm, tmr, con, snd, late, given>>

-----------------------------------------------------------------------------
(* The console: force_host_suspend, force_host_resume, set_inactivity_timer. *)
ConsoleStep(from, to) ==
  /\ con = from /\ TimerTaskFree
  /\ con' = to
  /\ UNCHANGED <<mdm, tmr, snd, traffic, late>>

Given(command, to) ==
  /\ command \in Commands /\ given < MaxCommands
  /\ given' = given + 1
  /\ ConsoleStep("idle", to)
Goes(from, to) == ConsoleStep(from, to) /\ UNCHANGED given

ForceSuspend ==
  /\ Given("sus", "sus")
  /\ hi.state = "IfUp" /\ hi.inact
  /\ SetHi([hi EXCEPT !.inact = FALSE])
ForceSuspendGo == Goes("sus", "idle") /\ SetHi(HostSuspend(hi))

\* The steps of force_host_resume: the check; the interrupt off and the state
\* machine to its start; the state machine; the timer, which a fast answer of
\* the modem precedes.
ForceResume ==
  /\ Given("res", "res")
  /\ hi.state = "IfDown"
  /\ UNCHANGED <<hi, fell>>
ForceResumeInit ==
  /\ Goes("res", "resinit")
  /\ SetHi([hi EXCEPT !.irq = "off", !.fsm = "init"])
ForceResumeSm ==
  /\ Goes("resinit", IF hi.fsm = "init" THEN "restart" ELSE "idle")
  /\ SetHi(IF hi.fsm = "init" THEN [ResumeSm(hi) EXCEPT !.proto = hi.proto] ELSE ResumeSm(hi))
ForceResumeTimer ==
  /\ Goes("restart", "idle")
  /\ SetHi([hi EXCEPT !.proto = TRUE])

\* In IfDown the timer is started and stopped to take its new period.
SetInactivityTimer ==
  /\ \/ hi.state = "IfDown" /\ Given("timer", "set")
     \/ hi.state = "IfUp" /\ Given("timer", "idle")
  /\ SetHi([hi EXCEPT !.inact = TRUE])
SetInactivityTimerStop ==
  /\ Goes("set", "idle")
  /\ SetHi([hi EXCEPT !.inact = FALSE])

-----------------------------------------------------------------------------
(* The modem, as the host's code expects it.                               *)
Modem(to) ==
  /\ mdm' = to
  /\ UNCHANGED <<hi, tmr, con, snd, traffic, late, given>>

\* It wants the link and raises M2H.
ModemAsks == mdm = "down" /\ hi.h2m = 0 /\ Modem("asking") /\ UNCHANGED fell
\* It answers H2M with M2H, or finds its own request granted.
ModemUp == mdm # "up" /\ hi.h2m = 1 /\ Modem("up") /\ UNCHANGED fell
\* H2M fell: it lets M2H fall.
ModemDown == /\ mdm = "up" /\ hi.h2m = 0 /\ Modem("down")
             /\ fell' = (hi.irq = "clear")

TimerTask == \/ TimeoutMark \/ TimeoutBranch
             \/ TimeoutSuspending \/ TimeoutRetry
             \/ TimeoutResuming \/ TimeoutDown
Console == \/ ForceSuspendGo
           \/ ForceResumeInit \/ ForceResumeSm \/ ForceResumeTimer
           \/ SetInactivityTimerStop

Next == \/ M2hIsr
        \/ ProtocolExpires \/ InactivityExpires \/ TimerTask
        \/ UartTraffic
        \/ \E s \in Senders : WantSend(s) \/ RequestGranted(s) \/ RequestResumes(s)
        \/ ForceSuspend \/ ForceResume \/ SetInactivityTimer \/ Console
        \/ ModemAsks \/ ModemUp \/ ModemDown

Spec == Init /\ [][Next]_vars

(* Interrupts and tasks that can run do run; a timer that runs expires; the *)
(* modem follows H2M.  Strong fairness where one side would have to lose a  *)
(* race of microseconds again and again: a sender polls in a loop far       *)
(* shorter than the inactivity time (50 ms and more), the modem does not    *)
(* miss every one of repeated rises of H2M, and M2H does not always rise    *)
(* again before the interrupt of its fall has read it.                      *)
FairSpec ==
  /\ Spec
  /\ WF_vars(M2hIsr) /\ WF_vars(TimerTask) /\ WF_vars(ProtocolExpires)
  /\ WF_vars(Console)
  /\ \A s \in Senders : WF_vars(RequestResumes(s)) /\ SF_vars(RequestGranted(s))
  /\ SF_vars(ModemUp) /\ WF_vars(ModemDown)
  /\ SF_vars(M2hIsr /\ m2h = 0)

-----------------------------------------------------------------------------
(* Properties.                                                             *)

\* No handler is in the middle of a change.
AtRest == tmr = "idle" /\ con = "idle" /\ ~IrqPending

\* The host's line tells its state: outside of the handlers H2M is high while
\* the host takes the link to be up and low while it takes it to be down, so
\* that the modem does not believe the opposite for good (the h2m_set_cb and
\* set_if_state calls of every handler).
LineTellsState ==
  AtRest => /\ hi.state = "IfUp" => hi.h2m = 1
            /\ hi.state = "IfDown" => hi.h2m = 0

\* Nobody waits for the modem without a time-out: in IfSuspending and
\* IfResuming, where every request_to_send fails, protcol_timeout_timer runs.
WaitIsTimed ==
  AtRest /\ hi.state \in {"IfSuspending", "IfResuming"} => hi.proto

\* The link is left as down after a suspend only with both lines low.
SuspendAgreed ==
  [][hi.state = "IfSuspending" /\ hi'.state = "IfDown" => hi.h2m = 0 /\ m2h = 0]_vars

\* A task in DRV_UART_Send_Block ("block until hifc goes up") gets to send.
SenderServed == \A s \in Senders : snd[s] = "want" ~> snd[s] = "idle"

\* "m2h interrupt is on during IfDown" (hifc_api.c, hifc_host_resume): at rest
\* the modem can wake the host.
M2hOnDuringDown == AtRest /\ hi.state = "IfDown" => hi.irq = "set"
-----------------------------------------------------------------------------
(* The inductive invariant behind the properties.                           *)

\* H2M in every state, also in the middle of the handlers: a resume that has
\* failed lowers it one step before the state is down.
LineInv ==
  /\ hi.state = "IfUp" => hi.h2m = 1
  /\ hi.state \in {"IfDown", "IfSuspending"} => hi.h2m = 0
  /\ hi.state = "IfResuming" /\ tmr # "down" => hi.h2m = 1

\* From the mark of a time-out to the end of its handler the state machine
\* cannot complete, so the interrupt leaves the state the handler has read.
TimeoutInv ==
  /\ tmr \in {"marked", "susp", "resm", "down"} => hi.fsm \in {"timeout", "error"}
  /\ tmr = "susp" => hi.state = "IfSuspending"
  /\ tmr = "retry" => hi.state = "IfUp"
  /\ tmr \in {"resm", "down"} => hi.state = "IfResuming"
  /\ tmr = "down" => hi.h2m = 0

\* Only a link that is up has completed, and the console's state machine finds
\* an approved resume only in IfResuming.
FsmInv ==
  /\ hi.fsm = "complete" => hi.state = "IfUp"
  /\ con = "resinit" /\ hi.fsm = "approve" => hi.state = "IfResuming"

\* While the host waits for the modem the timer runs, its time-out is being handled,
\* or the console is about to start it.  A suspend that the console has turned into
\* "approve", where the fall of M2H would stop the timer, does not await the fall.
WaitInv ==
  /\ hi.state = "IfSuspending" => tmr # "idle" \/ hi.proto
  /\ hi.state = "IfResuming" => tmr # "idle" \/ con = "restart" \/ hi.proto
  /\ hi.state = "IfSuspending" /\ hi.fsm = "approve" => hi.irq # "clear"

IInv == TypeOK /\ LineInv /\ TimeoutInv /\ FsmInv
=============================================================================
