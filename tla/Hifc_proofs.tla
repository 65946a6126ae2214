----------------------------- MODULE Hifc_proofs -----------------------------
(* Proofs about the host interface: its line tells its state, a suspend     *)
(* ends by agreement only, and every wait for the modem is timed, for any   *)
(* number of senders, of console commands and of answers that come late.    *)
EXTENDS Hifc, TLAPS

Host == [state : IfStates, fsm : FsmStates, irq : {"off", "set", "clear"},
         h2m : {0, 1}, proto : BOOLEAN, inact : BOOLEAN]

\* A state of the host on its own: what LineInv and FsmInv say outside of the
\* handlers of a time-out.
Sound(x) == /\ x \in Host
            /\ x.state \in {"IfUp", "IfResuming"} => x.h2m = 1
            /\ x.state \in {"IfDown", "IfSuspending"} => x.h2m = 0
            /\ x.fsm = "complete" => x.state = "IfUp"

-----------------------------------------------------------------------------
(* What the state machines do to a sound state.                             *)

\* The wake-up by the modem ends up or leaves the state; from a state machine
\* that is not complete it completes from "config" only.
LEMMA ModemResumeSound ==
  ASSUME NEW x, Sound(x), x.state = "IfDown"
  PROVE  /\ Sound(ModemResumeSm(x))
         /\ ModemResumeSm(x).state \in {"IfDown", "IfUp"}
         /\ ModemResumeSm(x).fsm = "approve" => x.fsm = "approve"
         /\ x.fsm \in {"timeout", "error"} =>
              ModemResumeSm(x).fsm = "error" /\ ModemResumeSm(x).state = "IfDown"
<1>. x \in Host /\ x.h2m = 0 /\ x.fsm # "complete"
  BY DEF Sound
<1>1. CASE x.fsm = "init"
  <2>. DEFINE z == [x EXCEPT !.fsm = "config", !.irq = "set"]
  <2>1. z \in Host /\ z.state = "IfDown" /\ z.h2m = 0 /\ z.fsm = "config"
    BY DEF Host, FsmStates
  <2>2. ModemResumeSm(x) = z
    BY <1>1, <2>1 DEF ModemResumeSm
  <2>. HIDE DEF z
  <2>. QED BY <1>1, <2>1, <2>2 DEF Sound
<1>2. CASE x.fsm = "config"
  <2>. DEFINE y == [x EXCEPT !.fsm = "complete", !.h2m = 1]
              z == [y EXCEPT !.state = "IfUp", !.inact = TRUE]
  <2>1. y \in Host /\ y.fsm = "complete" /\ y.h2m = 1
    BY DEF Host, FsmStates
  <2>2. z \in Host /\ z.state = "IfUp" /\ z.h2m = 1 /\ z.fsm = "complete"
    BY <2>1 DEF Host, IfStates
  <2>3. ModemResumeSm(x) = z
    BY <1>2, <2>1 DEF ModemResumeSm
  <2>. HIDE DEF z
  <2>. QED BY <1>2, <2>2, <2>3 DEF Sound
<1>3. CASE x.fsm = "approve"
  BY <1>3 DEF ModemResumeSm
<1>4. CASE x.fsm \in {"timeout", "error"}
  <2>. DEFINE z == [x EXCEPT !.fsm = "error"]
  <2>1. z \in Host /\ z.state = "IfDown" /\ z.h2m = 0 /\ z.fsm = "error"
    BY DEF Host, FsmStates
  <2>2. ModemResumeSm(x) = z
    BY <1>4, <2>1 DEF ModemResumeSm
  <2>. HIDE DEF z
  <2>. QED BY <1>4, <2>1, <2>2 DEF Sound
<1>. QED BY <1>1, <1>2, <1>3, <1>4 DEF Host, FsmStates

\* A suspend that starts in IfUp stops at "config" in IfSuspending.
LEMMA HostSuspendSound ==
  ASSUME NEW x, Sound(x)
  PROVE  /\ Sound(HostSuspend(x))
         /\ x.state # "IfUp" => HostSuspend(x) = x
         /\ x.state = "IfUp" => /\ HostSuspend(x).state = "IfSuspending"
                                /\ HostSuspend(x).fsm = "config"
<1>1. CASE x.state = "IfUp"
  <2>. DEFINE y == [x EXCEPT !.fsm = "init"]
              z == [y EXCEPT !.state = "IfSuspending", !.fsm = "config",
                             !.irq = "clear", !.proto = TRUE, !.h2m = 0]
  <2>1. y \in Host /\ y.fsm = "init"
    BY DEF Sound, Host, FsmStates
  <2>2. z \in Host /\ z.state = "IfSuspending" /\ z.fsm = "config" /\ z.h2m = 0
    BY <2>1 DEF Host, IfStates, FsmStates
  <2>3. SuspendSm(y) = z
    <3>. HIDE DEF y
    <3>. QED BY <2>1, <2>2 DEF SuspendSm
  <2>4. HostSuspend(x) = z
    BY <1>1, <2>3 DEF HostSuspend
  <2>. HIDE DEF z
  <2>. QED BY <1>1, <2>2, <2>4 DEF Sound
<1>2. CASE x.state # "IfUp"
  BY <1>2 DEF HostSuspend
<1>. QED BY <1>1, <1>2

\* The interrupt's step of a suspend goes down only from "config".
LEMMA SuspendSmSound ==
  ASSUME NEW x, Sound(x), x.state = "IfSuspending"
  PROVE  /\ Sound(SuspendSm(x))
         /\ SuspendSm(x).state \in {"IfDown", "IfSuspending"}
         /\ SuspendSm(x).fsm = "approve" => x.fsm = "approve"
         /\ x.fsm \in {"timeout", "error"} =>
              SuspendSm(x).fsm = "error" /\ SuspendSm(x).state = "IfSuspending"
<1>. x \in Host /\ x.h2m = 0 /\ x.fsm # "complete"
  BY DEF Sound
<1>1. CASE x.fsm = "init"
  <2>. DEFINE z == [x EXCEPT !.state = "IfSuspending", !.fsm = "config",
                             !.irq = "clear", !.proto = TRUE, !.h2m = 0]
  <2>1. z \in Host /\ z.state = "IfSuspending" /\ z.h2m = 0 /\ z.fsm = "config"
    BY DEF Host, IfStates, FsmStates
  <2>2. SuspendSm(x) = z
    BY <1>1, <2>1 DEF SuspendSm
  <2>. HIDE DEF z
  <2>. QED BY <1>1, <2>1, <2>2 DEF Sound
<1>2. CASE x.fsm = "config"
  <2>. DEFINE y == [x EXCEPT !.proto = FALSE, !.fsm = "complete"]
              w == [y EXCEPT !.fsm = "init"]
              v == [w EXCEPT !.fsm = "config", !.irq = "set"]
              z == [v EXCEPT !.state = "IfDown"]
  <2>1. y \in Host /\ y.fsm = "complete" /\ y.h2m = 0
    BY DEF Host, FsmStates
  <2>2. w \in Host /\ w.fsm = "init" /\ w.h2m = 0
    BY <2>1 DEF Host, FsmStates
  <2>3. v \in Host /\ v.fsm = "config" /\ v.h2m = 0
    BY <2>2 DEF Host, FsmStates
  <2>4. z \in Host /\ z.state = "IfDown" /\ z.fsm = "config" /\ z.h2m = 0
    BY <2>3 DEF Host, IfStates
  <2>5. ModemResumeSm(w) = v
    <3>. HIDE DEF w
    <3>. QED BY <2>2, <2>3 DEF ModemResumeSm
  <2>6. SuspendSm(x) = [ModemResumeSm(w) EXCEPT !.state = "IfDown"]
    BY <1>2, <2>1 DEF SuspendSm
  <2>7. SuspendSm(x) = z
    BY <2>5, <2>6
  <2>. HIDE DEF z
  <2>. QED BY <1>2, <2>4, <2>7 DEF Sound
<1>3. CASE x.fsm = "approve"
  <2>. DEFINE z == [x EXCEPT !.proto = FALSE]
  <2>1. z \in Host /\ z.state = "IfSuspending" /\ z.h2m = 0 /\ z.fsm = "approve"
    BY <1>3 DEF Host
  <2>2. SuspendSm(x) = z
    BY <1>3, <2>1 DEF SuspendSm
  <2>. HIDE DEF z
  <2>. QED BY <1>3, <2>1, <2>2 DEF Sound
<1>4. CASE x.fsm \in {"timeout", "error"}
  <2>. DEFINE z == [x EXCEPT !.fsm = "error"]
  <2>1. z \in Host /\ z.state = "IfSuspending" /\ z.h2m = 0 /\ z.fsm = "error"
    BY DEF Host, FsmStates
  <2>2. SuspendSm(x) = z
    BY <1>4, <2>1 DEF SuspendSm
  <2>. HIDE DEF z
  <2>. QED BY <1>4, <2>1, <2>2 DEF Sound
<1>. QED BY <1>1, <1>2, <1>3, <1>4 DEF Host, FsmStates

\* A step of the resume, unless it approves one that is not IfResuming.
LEMMA ResumeSmSound ==
  ASSUME NEW x \in Host, x.fsm = "complete" => x.state = "IfUp",
         x.fsm = "approve" => x.state = "IfResuming",
         x.fsm # "init" => Sound(x)
  PROVE  /\ Sound(ResumeSm(x))
         /\ x.fsm = "init" => ResumeSm(x).state = "IfResuming" /\ ResumeSm(x).fsm = "approve"
         /\ x.fsm = "approve" => ResumeSm(x).state = "IfUp" /\ ResumeSm(x).fsm = "complete"
         /\ x.fsm \notin {"init", "approve"} => ResumeSm(x).state = x.state
         /\ x.fsm \in {"timeout", "error"} => ResumeSm(x).fsm = "error"
<1>1. CASE x.fsm = "init"
  <2>. DEFINE z == [x EXCEPT !.state = "IfResuming", !.fsm = "approve",
                             !.irq = "set", !.proto = TRUE, !.h2m = 1]
  <2>1. z \in Host /\ z.state = "IfResuming" /\ z.h2m = 1 /\ z.fsm = "approve"
    BY DEF Host, IfStates, FsmStates
  <2>2. ResumeSm(x) = z
    BY <1>1, <2>1 DEF ResumeSm
  <2>. HIDE DEF z
  <2>. QED BY <1>1, <2>1, <2>2 DEF Sound
<1>2. CASE x.fsm = "config"
  <2>. DEFINE z == [x EXCEPT !.proto = TRUE, !.fsm = "approve", !.irq = "set"]
  <2>1. z \in Host /\ z.state = x.state /\ z.h2m = x.h2m /\ z.fsm = "approve"
    BY DEF Host, FsmStates
  <2>2. ResumeSm(x) = z
    BY <1>2, <2>1 DEF ResumeSm
  <2>. HIDE DEF z
  <2>. QED BY <1>2, <2>1, <2>2 DEF Sound
<1>3. CASE x.fsm = "approve"
  <2>. DEFINE y == [x EXCEPT !.proto = FALSE, !.state = "IfUp", !.fsm = "complete"]
              z == [y EXCEPT !.inact = TRUE]
  <2>1. x.h2m = 1
    BY <1>3 DEF Sound
  <2>2. y \in Host /\ y.state = "IfUp" /\ y.fsm = "complete" /\ y.h2m = 1
    BY <2>1 DEF Host, IfStates, FsmStates
  <2>3. z \in Host /\ z.state = "IfUp" /\ z.fsm = "complete" /\ z.h2m = 1
    BY <2>2 DEF Host
  <2>4. ResumeSm(x) = z
    BY <1>3, <2>2 DEF ResumeSm
  <2>. HIDE DEF z
  <2>. QED BY <1>3, <2>3, <2>4 DEF Sound
<1>4. CASE x.fsm = "complete"
  <2>. DEFINE z == [x EXCEPT !.inact = TRUE]
  <2>1. z \in Host /\ z.state = x.state /\ z.fsm = x.fsm /\ z.h2m = x.h2m
    BY DEF Host
  <2>2. ResumeSm(x) = z
    BY <1>4, <2>1 DEF ResumeSm
  <2>. HIDE DEF z
  <2>. QED BY <1>4, <2>1, <2>2 DEF Sound
<1>5. CASE x.fsm \in {"timeout", "error"}
  <2>. DEFINE z == [x EXCEPT !.fsm = "error"]
  <2>1. z \in Host /\ z.state = x.state /\ z.h2m = x.h2m /\ z.fsm = "error"
    BY DEF Host, FsmStates
  <2>2. ResumeSm(x) = z
    BY <1>5, <2>1 DEF ResumeSm
  <2>. HIDE DEF z
  <2>. QED BY <1>5, <2>1, <2>2 DEF Sound
<1>. QED BY <1>1, <1>2, <1>3, <1>4, <1>5 DEF Host, FsmStates

\* A resume that starts in IfDown stops at "approve" in IfResuming.
LEMMA HostResumeSound ==
  ASSUME NEW x, Sound(x)
  PROVE  /\ Sound(HostResume(x))
         /\ x.state # "IfDown" => HostResume(x) = x
         /\ x.state = "IfDown" => HostResume(x).state = "IfResuming"
<1>1. CASE x.state = "IfDown"
  <2>. DEFINE y == [x EXCEPT !.irq = "off", !.fsm = "init"]
  <2>1. y \in Host /\ y.fsm = "init"
    BY DEF Sound, Host, FsmStates
  <2>2. HostResume(x) = ResumeSm(y)
    BY <1>1 DEF HostResume
  <2>. HIDE DEF y
  <2>. QED BY <1>1, <2>1, <2>2, ResumeSmSound
<1>2. CASE x.state # "IfDown"
  BY <1>2 DEF HostResume
<1>. QED BY <1>1, <1>2

\* After a time-out the state machine answers the interrupt with "error" only.
LEMMA FailedStays ==
  ASSUME NEW x \in Host, NEW level, x.fsm \in {"timeout", "error"}
  PROVE  \/ LevelChange(x, level) = x
         \/ LevelChange(x, level) = [x EXCEPT !.fsm = "error"]
<1>. DEFINE z == [x EXCEPT !.fsm = "error"]
<1>1. z \in Host /\ z.fsm = "error"
  BY DEF Host, FsmStates
<1>2. SuspendSm(x) = z
  BY <1>1 DEF SuspendSm
<1>3. ResumeSm(x) = z
  BY <1>1 DEF ResumeSm
<1>4. ModemResumeSm(x) = z
  BY <1>1 DEF ModemResumeSm
<1>. HIDE DEF z
<1>5. LevelChange(x, level) \in {x, z}
  BY <1>2, <1>3, <1>4 DEF LevelChange
<1>. QED BY <1>5 DEF z

\* The interrupt keeps a sound state sound, leaves a link that is up alone,
\* and ends a suspend at the low level only.
LEMMA LevelChangeSound ==
  ASSUME NEW x, NEW level, Sound(x)
  PROVE  /\ Sound(LevelChange(x, level))
         /\ (x.fsm = "approve" => x.state = "IfResuming") =>
              (LevelChange(x, level).fsm = "approve" =>
                 LevelChange(x, level).state = "IfResuming")
         /\ x.state = "IfUp" => LevelChange(x, level) = x
         /\ x.state = "IfSuspending" /\ LevelChange(x, level).state = "IfDown" =>
              level = 0 /\ x.h2m = 0
<1>. x \in Host /\ (x.fsm = "complete" => x.state = "IfUp")
  BY DEF Sound
<1>1. CASE x.state = "IfSuspending" /\ level = 0
  <2>1. LevelChange(x, level) = SuspendSm(x)
    BY <1>1 DEF LevelChange
  <2>2. x.h2m = 0
    BY <1>1 DEF Sound
  <2>. QED BY <1>1, <2>1, <2>2, SuspendSmSound
<1>2. CASE x.state = "IfResuming" /\ level = 1
  <2>1. LevelChange(x, level) = ResumeSm(x)
    BY <1>2 DEF LevelChange
  <2>2. /\ Sound(ResumeSm(x))
        /\ x.fsm = "init" => ResumeSm(x).state = "IfResuming"
        /\ x.fsm = "approve" => ResumeSm(x).fsm = "complete"
        /\ x.fsm \notin {"init", "approve"} => ResumeSm(x).state = x.state
    BY <1>2, ResumeSmSound
  <2>. QED BY <1>2, <2>1, <2>2
<1>3. CASE x.state = "IfDown" /\ level = 1
  <2>1. LevelChange(x, level) = ModemResumeSm(x)
    BY <1>3 DEF LevelChange
  <2>. QED BY <1>3, <2>1, ModemResumeSound
<1>4. CASE ~ \/ x.state = "IfSuspending" /\ level = 0
             \/ x.state = "IfResuming" /\ level = 1
             \/ x.state = "IfDown" /\ level = 1
  <2>1. LevelChange(x, level) = x
    BY <1>4 DEF LevelChange
  <2>. QED BY <2>1
<1>. QED BY <1>1, <1>2, <1>3, <1>4

-----------------------------------------------------------------------------
(* The invariant is inductive.                                              *)

\* Outside of the last step of a failed resume the invariant says that the
\* state of the host is sound, and the other way round.
LEMMA InvSound ==
  TypeOK => /\ tmr # "down" => (LineInv /\ FsmInv =>
                 Sound(hi) /\ (con = "resinit" /\ hi.fsm = "approve" => hi.state = "IfResuming"))
            /\ Sound(hi) /\ (con = "resinit" /\ hi.fsm = "approve" => hi.state = "IfResuming") =>
                 LineInv /\ FsmInv
  BY DEF TypeOK, LineInv, FsmInv, Sound, Host

\* What the rest of a step needs: the new state of the host is sound and the
\* timer task is not in a time-out.
LEMMA SoundStep ==
  ASSUME TypeOK', Sound(hi)', tmr' \in {"idle", "fired"},
         (con = "resinit" /\ hi.fsm = "approve" => hi.state = "IfResuming")'
  PROVE  IInv'
  BY DEF IInv, TypeOK, LineInv, FsmInv, TimeoutInv, Sound

LEMMA InitInv == Init => IInv
<1>. SUFFICES ASSUME Init PROVE IInv
  OBVIOUS
<1>1. hi \in Host
  BY DEF Init, Host, IfStates, FsmStates
<1>2. /\ hi.state = "IfDown" /\ hi.fsm = "config" /\ hi.h2m = 0
      /\ tmr = "idle" /\ con = "idle"
  BY DEF Init
<1>3. snd \in [Senders -> {"idle", "want"}]
  BY DEF Init
<1>4. late \in 0..MaxLate /\ given \in 0..MaxCommands
  BY HifcAssumption DEF Init
<1>5. TypeOK
  BY <1>1, <1>2, <1>3, <1>4 DEF Init, TypeOK, Host
<1>. QED BY <1>2, <1>5 DEF IInv, LineInv, FsmInv, TimeoutInv

\* What a step of M2hIsr leaves alone of the host.
LEMMA IrqOffKeeps ==
  ASSUME NEW x \in Host, NEW i \in {"off", "set", "clear"}
  PROVE  /\ [x EXCEPT !.irq = i] \in Host
         /\ [x EXCEPT !.irq = i].state = x.state
         /\ [x EXCEPT !.irq = i].fsm = x.fsm
         /\ [x EXCEPT !.irq = i].h2m = x.h2m
         /\ Sound(x) => Sound([x EXCEPT !.irq = i])
  BY DEF Host, Sound

LEMMA IsrInv == IInv /\ M2hIsr => IInv'
<1>. SUFFICES ASSUME IInv, M2hIsr PROVE IInv'
  OBVIOUS
<1>. DEFINE x == [hi EXCEPT !.irq = "off"]
<1>1. hi \in Host
  BY DEF IInv, TypeOK, Host
<1>2. /\ x \in Host /\ x.state = hi.state /\ x.fsm = hi.fsm /\ x.h2m = hi.h2m
      /\ Sound(hi) => Sound(x)
  BY <1>1, IrqOffKeeps
<1>3. hi' = LevelChange(x, m2h)
  BY DEF M2hIsr
<1>. HIDE DEF x
<1>4. CASE hi.fsm \in {"timeout", "error"}
  <2>1. hi' = x \/ hi' = [x EXCEPT !.fsm = "error"]
    BY <1>2, <1>3, <1>4, FailedStays
  <2>2. /\ hi' \in Host /\ hi'.state = hi.state /\ hi'.h2m = hi.h2m
        /\ hi'.fsm \in {"timeout", "error"}
    BY <1>2, <1>4, <2>1 DEF Host, FsmStates
  <2>3. TypeOK'
    BY <2>2 DEF IInv, TypeOK, Host, M2hIsr
  <2>. QED BY <2>2, <2>3 DEF IInv, LineInv, FsmInv, TimeoutInv, M2hIsr
<1>5. CASE hi.fsm \notin {"timeout", "error"}
  <2>1. tmr \in {"idle", "fired", "retry"} /\ (tmr = "retry" => hi.state = "IfUp")
    BY <1>5 DEF IInv, TypeOK, TimeoutInv
  <2>2. Sound(x) /\ (con = "resinit" /\ x.fsm = "approve" => x.state = "IfResuming")
    BY <1>2, <2>1, InvSound DEF IInv
  <2>3. /\ Sound(hi') /\ (con = "resinit" /\ hi'.fsm = "approve" => hi'.state = "IfResuming")
        /\ x.state = "IfUp" => hi' = x
    BY <1>3, <2>2, LevelChangeSound
  <2>4. TypeOK'
    BY <2>3 DEF IInv, TypeOK, Host, Sound, M2hIsr
  <2>. QED BY <1>2, <2>1, <2>3, <2>4 DEF IInv, LineInv, FsmInv, TimeoutInv, M2hIsr, Sound
<1>. QED BY <1>4, <1>5

\* The timer task from the expiry to the end of a time-out.
LEMMA TimeoutInvStep == IInv /\ (ProtocolExpires \/ TimerTask) => IInv'
<1>. SUFFICES ASSUME IInv, ProtocolExpires \/ TimerTask PROVE IInv'
  OBVIOUS
<1>. hi \in Host
  BY DEF IInv, TypeOK, Host
<1>1. CASE ProtocolExpires
  <2>1. /\ hi' \in Host /\ hi'.state = hi.state /\ hi'.fsm = hi.fsm /\ hi'.h2m = hi.h2m
        /\ tmr = "idle" /\ tmr' = "fired" /\ con' = con
    BY <1>1 DEF ProtocolExpires, TimerTaskFree, Host
  <2>2. late' \in 0..MaxLate
    BY <1>1, HifcAssumption DEF ProtocolExpires, IInv, TypeOK
  <2>3. TypeOK'
    BY <1>1, <2>1, <2>2 DEF IInv, TypeOK, Host, ProtocolExpires
  <2>. QED BY <2>1, <2>3 DEF IInv, LineInv, FsmInv, TimeoutInv
<1>2. CASE TimeoutMark
  <2>1. /\ hi' \in Host /\ hi'.state = hi.state /\ hi'.fsm = "timeout" /\ hi'.h2m = hi.h2m
        /\ tmr = "fired" /\ tmr' = "marked" /\ con' = con
    BY <1>2 DEF TimeoutMark, Host, FsmStates
  <2>2. TypeOK'
    BY <1>2, <2>1 DEF IInv, TypeOK, Host, TimeoutMark
  <2>. QED BY <2>1, <2>2 DEF IInv, LineInv, FsmInv, TimeoutInv
<1>3. CASE TimeoutBranch
  <2>1. /\ tmr = "marked" /\ tmr' \in {"susp", "resm", "idle"}
        /\ tmr' = "susp" => hi.state = "IfSuspending"
        /\ tmr' = "resm" => hi.state = "IfResuming"
        /\ hi' = hi /\ con' = con
    BY <1>3 DEF TimeoutBranch
  <2>2. TypeOK'
    BY <1>3, <2>1 DEF IInv, TypeOK, TimeoutBranch
  <2>. QED BY <2>1, <2>2 DEF IInv, LineInv, FsmInv, TimeoutInv
<1>4. CASE TimeoutSuspending
  <2>1. /\ hi' \in Host /\ hi'.state = "IfUp" /\ hi'.fsm = hi.fsm /\ hi'.h2m = 1
        /\ tmr = "susp" /\ tmr' = "retry" /\ con' = con
    BY <1>4 DEF TimeoutSuspending, Host, IfStates
  <2>2. TypeOK'
    BY <1>4, <2>1 DEF IInv, TypeOK, Host, TimeoutSuspending
  <2>. QED BY <2>1, <2>2 DEF IInv, LineInv, FsmInv, TimeoutInv
<1>5. CASE TimeoutRetry
  <2>1. /\ hi' = HostSuspend(hi) /\ fell' \in BOOLEAN
        /\ tmr = "retry" /\ tmr' = "idle" /\ con' = con
    BY <1>5 DEF TimeoutRetry, SetHi, IInv, TypeOK
  <2>2. Sound(hi) /\ hi.state = "IfUp"
    BY <2>1, InvSound DEF IInv, TimeoutInv
  <2>3. Sound(hi') /\ hi'.fsm = "config"
    BY <2>1, <2>2, HostSuspendSound
  <2>4. TypeOK'
    BY <1>5, <2>1, <2>3 DEF IInv, TypeOK, Host, Sound, TimeoutRetry
  <2>. QED BY <2>1, <2>3, <2>4, SoundStep
<1>6. CASE TimeoutResuming
  <2>1. /\ hi' \in Host /\ hi'.state = hi.state /\ hi'.fsm = hi.fsm /\ hi'.h2m = 0
        /\ tmr = "resm" /\ tmr' = "down" /\ con' = con /\ fell' \in BOOLEAN
    BY <1>6 DEF TimeoutResuming, SetHi, Host, IInv, TypeOK
  <2>2. TypeOK'
    BY <1>6, <2>1 DEF IInv, TypeOK, Host, TimeoutResuming
  <2>. QED BY <2>1, <2>2 DEF IInv, LineInv, FsmInv, TimeoutInv
<1>7. CASE TimeoutDown
  <2>1. /\ hi' \in Host /\ hi'.state = "IfDown" /\ hi'.fsm = hi.fsm /\ hi'.h2m = hi.h2m
        /\ tmr = "down" /\ tmr' = "idle" /\ con' = con
    BY <1>7 DEF TimeoutDown, Host, IfStates
  <2>2. TypeOK'
    BY <1>7, <2>1 DEF IInv, TypeOK, Host, TimeoutDown
  <2>3. hi.fsm \in {"timeout", "error"}
    BY <2>1 DEF IInv, TimeoutInv
  <2>4. hi.h2m = 0
    BY <2>1 DEF IInv, TimeoutInv
  <2>. QED BY <2>1, <2>2, <2>3, <2>4 DEF IInv, LineInv, FsmInv, TimeoutInv
<1>. QED BY <1>1, <1>2, <1>3, <1>4, <1>5, <1>6, <1>7 DEF TimerTask

\* Every other step: the host stays sound and the timer task idle.
LEMMA TaskStep ==
  ASSUME IInv, TimerTaskFree, tmr' = tmr, Sound(hi'),
         con' = "resinit" /\ hi'.fsm = "approve" => hi'.state = "IfResuming",
         fell' \in BOOLEAN, traffic' \in BOOLEAN,
         con' \in {"idle", "sus", "res", "resinit", "restart", "set"},
         snd' \in [Senders -> {"idle", "want"}],
         given' \in 0..MaxCommands, UNCHANGED <<mdm, late>>
  PROVE  IInv'
<1>1. tmr' = "idle"
  BY DEF TimerTaskFree
<1>2. TypeOK'
  BY <1>1 DEF IInv, TypeOK, Sound, Host
<1>. QED BY <1>1, <1>2, SoundStep

\* A field that no part of the invariant reads does not matter.
LEMMA TimersKeep ==
  ASSUME NEW x, Sound(x), NEW b \in BOOLEAN
  PROVE  /\ Sound([x EXCEPT !.inact = b])
         /\ [x EXCEPT !.inact = b].state = x.state
         /\ [x EXCEPT !.inact = b].fsm = x.fsm
         /\ Sound([x EXCEPT !.proto = b])
         /\ [x EXCEPT !.proto = b].state = x.state
         /\ [x EXCEPT !.proto = b].fsm = x.fsm
  BY DEF Sound, Host

LEMMA SenderInvStep ==
  IInv /\ (\/ UartTraffic \/ InactivityExpires
           \/ \E s \in Senders : WantSend(s) \/ RequestGranted(s) \/ RequestResumes(s)) => IInv'
<1>. SUFFICES ASSUME IInv,
                     \/ UartTraffic \/ InactivityExpires
                     \/ \E s \in Senders : WantSend(s) \/ RequestGranted(s) \/ RequestResumes(s)
              PROVE  IInv'
  OBVIOUS
<1>1. TimerTaskFree
  BY DEF UartTraffic, InactivityExpires, WantSend, RequestGranted, RequestResumes
<1>2. Sound(hi) /\ (con = "resinit" /\ hi.fsm = "approve" => hi.state = "IfResuming")
  BY <1>1, InvSound DEF TimerTaskFree, IInv
<1>3. /\ fell \in BOOLEAN /\ traffic \in BOOLEAN
      /\ con \in {"idle", "sus", "res", "resinit", "restart", "set"}
      /\ snd \in [Senders -> {"idle", "want"}] /\ given \in 0..MaxCommands
  BY DEF IInv, TypeOK
<1>4. CASE UartTraffic
  BY <1>1, <1>2, <1>3, <1>4, TaskStep DEF UartTraffic
<1>5. CASE InactivityExpires
  <2>. DEFINE x == [hi EXCEPT !.inact = FALSE]
  <2>1. hi' = hi \/ hi' = HostSuspend(x)
    BY <1>5 DEF InactivityExpires, SetHi
  <2>2. Sound(x) /\ x.state = hi.state /\ x.fsm = hi.fsm
    BY <1>2, TimersKeep
  <2>. HIDE DEF x
  <2>3. /\ Sound(hi')
        /\ con = "resinit" /\ hi'.fsm = "approve" => hi'.state = "IfResuming"
    BY <1>2, <2>1, <2>2, HostSuspendSound
  <2>4. /\ fell' \in BOOLEAN /\ traffic' \in BOOLEAN
        /\ UNCHANGED <<mdm, tmr, con, snd, late, given>>
    BY <1>3, <1>5 DEF InactivityExpires, SetHi
  <2>. QED BY <1>1, <1>3, <2>3, <2>4, TaskStep
<1>6. ASSUME NEW s \in Senders, WantSend(s)
      PROVE  IInv'
  BY <1>1, <1>2, <1>3, <1>6, TaskStep DEF WantSend
<1>7. ASSUME NEW s \in Senders, RequestGranted(s)
      PROVE  IInv'
  BY <1>1, <1>2, <1>3, <1>7, TaskStep DEF RequestGranted
<1>8. ASSUME NEW s \in Senders, RequestResumes(s)
      PROVE  IInv'
  <2>1. hi' = HostResume(hi) /\ hi.state = "IfDown" /\ fell' \in BOOLEAN
        /\ UNCHANGED <<mdm, tmr, con, snd, traffic, late, given>>
    BY <1>3, <1>8 DEF RequestResumes, SetHi
  <2>2. Sound(hi') /\ hi'.state = "IfResuming"
    BY <1>2, <2>1, HostResumeSound
  <2>. QED BY <1>1, <1>3, <2>1, <2>2, TaskStep
<1>. QED BY <1>4, <1>5, <1>6, <1>7, <1>8

LEMMA ConsoleInvStep ==
  IInv /\ (ForceSuspend \/ ForceResume \/ SetInactivityTimer \/ Console) => IInv'
<1>. SUFFICES ASSUME IInv, ForceSuspend \/ ForceResume \/ SetInactivityTimer \/ Console
              PROVE  IInv'
  OBVIOUS
<1>. USE DEF Given, Goes, ConsoleStep, SetHi
<1>1. TimerTaskFree /\ UNCHANGED <<mdm, tmr, snd, traffic, late>>
  BY DEF ForceSuspend, ForceResume, SetInactivityTimer, Console, ForceSuspendGo,
         ForceResumeInit, ForceResumeSm, ForceResumeTimer, SetInactivityTimerStop
<1>2. Sound(hi) /\ (con = "resinit" /\ hi.fsm = "approve" => hi.state = "IfResuming")
  BY <1>1, InvSound DEF TimerTaskFree, IInv
<1>3. hi \in Host /\ fell \in BOOLEAN /\ traffic \in BOOLEAN
      /\ snd \in [Senders -> {"idle", "want"}] /\ given \in 0..MaxCommands
  BY DEF IInv, TypeOK, Host
<1>4. given' \in 0..MaxCommands /\ fell' \in BOOLEAN
  <2>1. given < MaxCommands => given + 1 \in 0..MaxCommands
    BY <1>3, HifcAssumption
  <2>. QED BY <1>3, <2>1
       DEF ForceSuspend, ForceResume, SetInactivityTimer, Console, ForceSuspendGo,
           ForceResumeInit, ForceResumeSm, ForceResumeTimer, SetInactivityTimerStop
<1>5. CASE ForceSuspend
  <2>1. hi' = [hi EXCEPT !.inact = FALSE] /\ con' = "sus"
    BY <1>5 DEF ForceSuspend
  <2>. QED BY <1>1, <1>2, <1>3, <1>4, <2>1, TimersKeep, TaskStep
<1>6. CASE ForceSuspendGo
  <2>1. hi' = HostSuspend(hi) /\ con' = "idle"
    BY <1>6 DEF ForceSuspendGo
  <2>. QED BY <1>1, <1>2, <1>3, <1>4, <2>1, HostSuspendSound, TaskStep
<1>7. CASE ForceResume
  <2>1. hi' = hi /\ con' = "res"
    BY <1>7 DEF ForceResume
  <2>. QED BY <1>1, <1>2, <1>3, <1>4, <2>1, TaskStep
<1>8. CASE ForceResumeInit
  <2>1. hi' = [hi EXCEPT !.irq = "off", !.fsm = "init"] /\ con' = "resinit"
    BY <1>8 DEF ForceResumeInit
  <2>2. Sound(hi') /\ hi'.fsm = "init"
    BY <1>2, <2>1 DEF Sound, Host, FsmStates
  <2>. QED BY <1>1, <1>3, <1>4, <2>1, <2>2, TaskStep
<1>9. CASE ForceResumeSm
  <2>1. con = "resinit" /\ con' \in {"restart", "idle"}
        /\ hi' \in {ResumeSm(hi), [ResumeSm(hi) EXCEPT !.proto = hi.proto]}
    BY <1>9 DEF ForceResumeSm
  <2>2. Sound(ResumeSm(hi))
    BY <1>2, <1>3, <2>1, ResumeSmSound DEF Sound
  <2>3. hi.proto \in BOOLEAN
    BY <1>3 DEF Host
  <2>. DEFINE y == ResumeSm(hi)
              z == [y EXCEPT !.proto = hi.proto]
  <2>4. Sound(z)
    <3>1. Sound(y)
      BY <2>2
    <3>. HIDE DEF y
    <3>. QED BY <2>3, <3>1, TimersKeep
  <2>5. hi' = y \/ hi' = z
    BY <2>1
  <2>. HIDE DEF z
  <2>6. Sound(hi')
    BY <2>2, <2>4, <2>5
  <2>. QED BY <1>1, <1>3, <1>4, <2>1, <2>6, TaskStep
<1>10. CASE ForceResumeTimer
  <2>1. hi' = [hi EXCEPT !.proto = TRUE] /\ con' = "idle"
    BY <1>10 DEF ForceResumeTimer
  <2>. QED BY <1>1, <1>2, <1>3, <1>4, <2>1, TimersKeep, TaskStep
<1>11. CASE SetInactivityTimer
  <2>1. hi' = [hi EXCEPT !.inact = TRUE] /\ con' \in {"set", "idle"}
    BY <1>11 DEF SetInactivityTimer
  <2>. QED BY <1>1, <1>2, <1>3, <1>4, <2>1, TimersKeep, TaskStep
<1>12. CASE SetInactivityTimerStop
  <2>1. hi' = [hi EXCEPT !.inact = FALSE] /\ con' = "idle"
    BY <1>12 DEF SetInactivityTimerStop
  <2>. QED BY <1>1, <1>2, <1>3, <1>4, <2>1, TimersKeep, TaskStep
<1>. QED BY <1>5, <1>6, <1>7, <1>8, <1>9, <1>10, <1>11, <1>12 DEF Console

\* The modem only moves its line.
LEMMA ModemInvStep == IInv /\ (ModemAsks \/ ModemUp \/ ModemDown) => IInv'
<1>. SUFFICES ASSUME IInv, ModemAsks \/ ModemUp \/ ModemDown PROVE IInv'
  OBVIOUS
<1>1. /\ UNCHANGED <<hi, tmr, con, snd, traffic, late, given>>
      /\ mdm' \in {"down", "asking", "up"} /\ fell' \in BOOLEAN
  BY DEF ModemAsks, ModemUp, ModemDown, Modem, IInv, TypeOK
<1>. QED BY <1>1 DEF IInv, TypeOK, LineInv, TimeoutInv, FsmInv

LEMMA NextInv == IInv /\ [Next]_vars => IInv'
<1>1. IInv /\ UNCHANGED vars => IInv'
  BY DEF vars, IInv, TypeOK, LineInv, TimeoutInv, FsmInv
<1>. QED BY <1>1, IsrInv, TimeoutInvStep, SenderInvStep, ConsoleInvStep, ModemInvStep DEF Next

\* IInv is an invariant: the conjunction of what is wanted with what the
\* handlers of a time-out need.
LEMMA Invariance == Spec => []IInv
<1>. QED BY InitInv, NextInv, PTL DEF Spec

\* Every variable keeps its type in every behaviour.
THEOREM TypeCorrect == Spec => []TypeOK
<1>1. IInv => TypeOK
  BY DEF IInv
<1>. QED BY <1>1, Invariance, PTL

\* Whatever the handlers, the senders, the console and the modem do, H2M is high
\* in IfUp and low in IfDown whenever no handler is in the middle of a change
\* (the h2m_set_cb and set_if_state calls of hifc_api.c).
THEOREM LineCorrect == Spec => []LineTellsState
<1>1. IInv => LineTellsState
  BY DEF IInv, LineInv, LineTellsState
<1>. QED BY <1>1, Invariance, PTL

-----------------------------------------------------------------------------
(* No step but the interrupt's ends a suspend, and it reads both lines low. *)

LEMMA SuspendIsr ==
  ASSUME IInv, M2hIsr, hi.state = "IfSuspending", hi'.state = "IfDown"
  PROVE  hi.h2m = 0 /\ m2h = 0
<1>. DEFINE x == [hi EXCEPT !.irq = "off"]
<1>1. hi \in Host
  BY DEF IInv, TypeOK, Host
<1>2. x.state = hi.state /\ x.h2m = hi.h2m /\ (Sound(hi) => Sound(x))
  BY <1>1, IrqOffKeeps
<1>3. hi' = LevelChange(x, m2h)
  BY DEF M2hIsr
<1>4. Sound(hi)
  BY InvSound DEF IInv, TimeoutInv
<1>. HIDE DEF x
<1>. QED BY <1>2, <1>3, <1>4, LevelChangeSound

LEMMA SuspendOthers ==
  ASSUME IInv, [Next]_vars, ~M2hIsr, hi.state = "IfSuspending"
  PROVE  hi'.state # "IfDown"
<1>1. hi \in Host /\ Sound(hi) /\ tmr \notin {"resm", "down", "retry"}
  BY InvSound DEF IInv, TypeOK, TimeoutInv, Host
<1>2. HostSuspend(hi) = hi /\ HostResume(hi) = hi
  BY <1>1, HostSuspendSound, HostResumeSound
<1>3. CASE UNCHANGED vars
  BY <1>3 DEF vars
<1>4. CASE ProtocolExpires \/ TimerTask
  BY <1>1, <1>4
     DEF ProtocolExpires, TimerTask, TimeoutMark, TimeoutBranch, TimeoutSuspending,
         TimeoutRetry, TimeoutResuming, TimeoutDown, Host
<1>5. CASE InactivityExpires
  <2>. DEFINE x == [hi EXCEPT !.inact = FALSE]
  <2>1. hi' = hi \/ hi' = HostSuspend(x)
    BY <1>5 DEF InactivityExpires, SetHi
  <2>2. Sound(x) /\ x.state = hi.state
    BY <1>1, TimersKeep
  <2>. HIDE DEF x
  <2>. QED BY <2>1, <2>2, HostSuspendSound
<1>6. CASE \/ UartTraffic \/ ForceResume \/ ModemAsks \/ ModemUp \/ ModemDown
           \/ \E s \in Senders : WantSend(s) \/ RequestGranted(s)
  BY <1>6 DEF UartTraffic, ForceResume, ModemAsks, ModemUp, ModemDown, Modem,
              WantSend, RequestGranted
<1>7. CASE (\E s \in Senders : RequestResumes(s)) \/ ForceSuspendGo
  BY <1>2, <1>7 DEF RequestResumes, ForceSuspendGo, SetHi
<1>8. CASE ForceSuspend \/ SetInactivityTimer \/ SetInactivityTimerStop
           \/ ForceResumeInit \/ ForceResumeTimer
  BY <1>1, <1>8 DEF ForceSuspend, SetInactivityTimer, SetInactivityTimerStop,
                    ForceResumeInit, ForceResumeTimer, SetHi, Host
<1>9. CASE ForceResumeSm
  <2>1. /\ hi.fsm = "approve" => hi.state = "IfResuming"
        /\ hi' \in {ResumeSm(hi), [ResumeSm(hi) EXCEPT !.proto = hi.proto]}
    BY <1>9 DEF ForceResumeSm, Goes, ConsoleStep, SetHi, IInv, FsmInv
  <2>2. Sound(ResumeSm(hi)) /\ ResumeSm(hi).state # "IfDown"
    BY <1>1, <2>1, ResumeSmSound DEF Sound
  <2>. DEFINE y == ResumeSm(hi)
              z == [y EXCEPT !.proto = hi.proto]
  <2>3. z.state # "IfDown"
    <3>1. Sound(y) /\ y.state # "IfDown" /\ hi.proto \in BOOLEAN
      BY <1>1, <2>2 DEF Host
    <3>. HIDE DEF y
    <3>. QED BY <3>1, TimersKeep
  <2>4. hi' = y \/ hi' = z
    BY <2>1
  <2>. HIDE DEF z
  <2>. QED BY <2>2, <2>3, <2>4
<1>. QED BY <1>3, <1>4, <1>5, <1>6, <1>7, <1>8, <1>9 DEF Next, Console

\* A suspend completes only by agreement: no step of any actor takes the link
\* from IfSuspending to IfDown unless H2M and M2H are both low
\* (hifc_host_suspend_sm, called by hifc_m2h_level_change_callback).
THEOREM SuspendCorrect == Spec => SuspendAgreed
<1>1. IInv /\ [Next]_vars =>
        [hi.state = "IfSuspending" /\ hi'.state = "IfDown" => hi.h2m = 0 /\ m2h = 0]_vars
  BY SuspendIsr, SuspendOthers
<1>. QED BY <1>1, Invariance, PTL DEF Spec, SuspendAgreed

-----------------------------------------------------------------------------
(* The timer runs while the host waits.                                     *)

Waiting(x) == x.state \in {"IfSuspending", "IfResuming"}

\* A state machine that stays in a wait leaves the timer alone or starts it.
LEMMA ModemResumeTimed ==
  ASSUME NEW x, Sound(x), x.state = "IfDown"
  PROVE  ~Waiting(ModemResumeSm(x))
  BY ModemResumeSound DEF Waiting

LEMMA HostSuspendTimed ==
  ASSUME NEW x, Sound(x), x.state = "IfUp"
  PROVE  HostSuspend(x).proto = TRUE
<1>. DEFINE y == [x EXCEPT !.fsm = "init"]
            z == [y EXCEPT !.state = "IfSuspending", !.fsm = "config",
                           !.irq = "clear", !.proto = TRUE, !.h2m = 0]
<1>1. y \in Host /\ y.fsm = "init"
  BY DEF Sound, Host, FsmStates
<1>2. z \in Host /\ z.fsm = "config" /\ z.proto = TRUE
  BY <1>1 DEF Host, IfStates, FsmStates
<1>3. SuspendSm(y) = z
  <2>. HIDE DEF y
  <2>. QED BY <1>1, <1>2 DEF SuspendSm
<1>. QED BY <1>2, <1>3 DEF HostSuspend

\* "approve" is left out: there the fall of M2H would stop the timer.
LEMMA SuspendSmTimed ==
  ASSUME NEW x, Sound(x), x.state = "IfSuspending", x.fsm # "approve"
  PROVE  SuspendSm(x).state = "IfSuspending" => SuspendSm(x).proto \in {TRUE, x.proto}
<1>. x \in Host /\ x.fsm # "complete"
  BY DEF Sound
<1>1. CASE x.fsm = "init"
  <2>. DEFINE z == [x EXCEPT !.state = "IfSuspending", !.fsm = "config",
                             !.irq = "clear", !.proto = TRUE, !.h2m = 0]
  <2>1. z \in Host /\ z.fsm = "config" /\ z.proto = TRUE
    BY DEF Host, IfStates, FsmStates
  <2>2. SuspendSm(x) = z
    BY <1>1, <2>1 DEF SuspendSm
  <2>. QED BY <2>1, <2>2
<1>2. CASE x.fsm = "config"
  <2>. DEFINE y == [x EXCEPT !.proto = FALSE, !.fsm = "complete"]
              w == [y EXCEPT !.fsm = "init"]
              v == ModemResumeSm(w)
  <2>1. y \in Host /\ y.fsm = "complete"
    BY DEF Host, FsmStates
  <2>2. w \in Host /\ w.fsm = "init"
    BY <2>1 DEF Host, FsmStates
  <2>3. v = [w EXCEPT !.fsm = "config", !.irq = "set"]
    BY <2>2 DEF ModemResumeSm, Host
  <2>4. v \in Host
    BY <2>2, <2>3 DEF Host, FsmStates
  <2>5. SuspendSm(x) = [v EXCEPT !.state = "IfDown"]
    BY <1>2, <2>1 DEF SuspendSm
  <2>. HIDE DEF v
  <2>6. SuspendSm(x).state = "IfDown"
    BY <2>4, <2>5 DEF Host
  <2>. QED BY <2>6
<1>3. CASE x.fsm \in {"timeout", "error"}
  <2>. DEFINE z == [x EXCEPT !.fsm = "error"]
  <2>1. z \in Host /\ z.fsm = "error" /\ z.proto = x.proto
    BY DEF Host, FsmStates
  <2>2. SuspendSm(x) = z
    BY <1>3, <2>1 DEF SuspendSm
  <2>. QED BY <2>1, <2>2
<1>. QED BY <1>1, <1>2, <1>3 DEF Host, FsmStates

LEMMA ResumeSmTimed ==
  ASSUME NEW x \in Host
  PROVE  /\ x.fsm # "approve" => ResumeSm(x).proto \in {TRUE, x.proto}
         /\ x.fsm = "init" => ResumeSm(x).proto = TRUE
         /\ x.fsm # "init" /\ ResumeSm(x).fsm = "approve" => ResumeSm(x).irq = "set"
         /\ x.fsm = "approve" => ResumeSm(x).fsm = "complete"
<1>1. CASE x.fsm = "init"
  <2>. DEFINE z == [x EXCEPT !.state = "IfResuming", !.fsm = "approve",
                             !.irq = "set", !.proto = TRUE, !.h2m = 1]
  <2>1. z \in Host /\ z.fsm = "approve" /\ z.proto = TRUE
    BY DEF Host, IfStates, FsmStates
  <2>2. ResumeSm(x) = z
    BY <1>1, <2>1 DEF ResumeSm
  <2>. HIDE DEF z
  <2>. QED BY <1>1, <2>1, <2>2
<1>2. CASE x.fsm = "config"
  <2>. DEFINE z == [x EXCEPT !.proto = TRUE, !.fsm = "approve", !.irq = "set"]
  <2>1. z \in Host /\ z.fsm = "approve" /\ z.proto = TRUE /\ z.irq = "set"
    BY DEF Host, FsmStates
  <2>2. ResumeSm(x) = z
    BY <1>2, <2>1 DEF ResumeSm
  <2>. HIDE DEF z
  <2>. QED BY <1>2, <2>1, <2>2
<1>3. CASE x.fsm = "approve"
  <2>. DEFINE y == [x EXCEPT !.proto = FALSE, !.state = "IfUp", !.fsm = "complete"]
              z == [y EXCEPT !.inact = TRUE]
  <2>1. y \in Host /\ y.state = "IfUp" /\ y.fsm = "complete"
    BY DEF Host, IfStates, FsmStates
  <2>2. z \in Host /\ z.fsm = "complete"
    BY <2>1 DEF Host
  <2>3. ResumeSm(x) = z
    BY <1>3, <2>1 DEF ResumeSm
  <2>. HIDE DEF z
  <2>. QED BY <1>3, <2>2, <2>3
<1>4. CASE x.fsm = "complete"
  <2>. DEFINE z == [x EXCEPT !.inact = TRUE]
  <2>1. z \in Host /\ z.fsm = x.fsm /\ z.proto = x.proto
    BY DEF Host
  <2>2. ResumeSm(x) \in {x, z}
    BY <1>4, <2>1 DEF ResumeSm
  <2>. HIDE DEF z
  <2>. QED BY <1>4, <2>1, <2>2
<1>5. CASE x.fsm \in {"timeout", "error"}
  <2>. DEFINE z == [x EXCEPT !.fsm = "error"]
  <2>1. z \in Host /\ z.fsm = "error" /\ z.proto = x.proto
    BY DEF Host, FsmStates
  <2>2. ResumeSm(x) = z
    BY <1>5, <2>1 DEF ResumeSm
  <2>. HIDE DEF z
  <2>. QED BY <1>5, <2>1, <2>2
<1>. QED BY <1>1, <1>2, <1>3, <1>4, <1>5 DEF Host, FsmStates

LEMMA HostResumeTimed ==
  ASSUME NEW x, Sound(x), x.state = "IfDown"
  PROVE  HostResume(x).proto = TRUE
<1>. DEFINE y == [x EXCEPT !.irq = "off", !.fsm = "init"]
<1>1. y \in Host /\ y.fsm = "init"
  BY DEF Sound, Host, FsmStates
<1>2. HostResume(x) = ResumeSm(y)
  BY DEF HostResume
<1>. HIDE DEF y
<1>. QED BY <1>1, <1>2, ResumeSmTimed

\* The interrupt takes the host into no wait, and leaves it in one with its timer.
LEMMA LevelChangeTimed ==
  ASSUME NEW x, NEW level, Sound(x), x.irq = "off",
         x.state = "IfSuspending" /\ x.fsm = "approve" => level # 0,
         Waiting(LevelChange(x, level))
  PROVE  /\ LevelChange(x, level).state = x.state
         /\ LevelChange(x, level).proto \in {TRUE, x.proto}
         /\ x.state = "IfSuspending" /\ LevelChange(x, level).fsm = "approve" =>
              LevelChange(x, level).irq = "off"
<1>. x \in Host
  BY DEF Sound
<1>1. CASE x.state = "IfSuspending" /\ level = 0
  <2>1. LevelChange(x, level) = SuspendSm(x)
    BY <1>1 DEF LevelChange
  <2>2. /\ SuspendSm(x).state \in {"IfDown", "IfSuspending"}
        /\ SuspendSm(x).fsm = "approve" => x.fsm = "approve"
    BY <1>1, SuspendSmSound
  <2>3. SuspendSm(x).state = "IfSuspending"
    BY <2>1, <2>2 DEF Waiting
  <2>4. SuspendSm(x).proto \in {TRUE, x.proto}
    BY <1>1, <2>3, SuspendSmTimed
  <2>. QED BY <1>1, <2>1, <2>2, <2>3, <2>4
<1>2. CASE x.state = "IfResuming" /\ level = 1
  <2>1. LevelChange(x, level) = ResumeSm(x)
    BY <1>2 DEF LevelChange
  <2>2. Sound(ResumeSm(x)) /\ x.fsm # "complete"
    BY <1>2, ResumeSmSound DEF Sound
  <2>3. /\ x.fsm = "init" => ResumeSm(x).state = "IfResuming"
        /\ x.fsm \notin {"init", "approve"} => ResumeSm(x).state = x.state
    BY <1>2, <2>2, ResumeSmSound
  <2>4. ResumeSm(x).fsm # "complete"
    BY <2>1, <2>2 DEF Sound, Waiting
  <2>5. x.fsm # "approve" /\ ResumeSm(x).proto \in {TRUE, x.proto}
    BY <2>4, ResumeSmTimed
  <2>. QED BY <1>2, <2>1, <2>3, <2>5
<1>3. CASE x.state = "IfDown" /\ level = 1
  <2>1. LevelChange(x, level) = ModemResumeSm(x)
    BY <1>3 DEF LevelChange
  <2>. QED BY <1>3, <2>1, ModemResumeTimed
<1>4. CASE ~ \/ x.state = "IfSuspending" /\ level = 0
             \/ x.state = "IfResuming" /\ level = 1
             \/ x.state = "IfDown" /\ level = 1
  <2>1. LevelChange(x, level) = x
    BY <1>4 DEF LevelChange
  <2>. QED BY <2>1
<1>. QED BY <1>1, <1>2, <1>3, <1>4

LEMMA IsrWait ==
  ASSUME IInv, WaitInv, M2hIsr
  PROVE  WaitInv'
<1>. DEFINE x == [hi EXCEPT !.irq = "off"]
<1>1. hi \in Host /\ tmr' = tmr /\ con' = con /\ m2h \in {0, 1}
  BY DEF IInv, TypeOK, Host, M2hIsr, m2h
<1>2. /\ x \in Host /\ x.state = hi.state /\ x.fsm = hi.fsm /\ x.proto = hi.proto /\ x.irq = "off"
      /\ Sound(hi) => Sound(x)
  BY <1>1, IrqOffKeeps DEF Host
<1>3. hi' = LevelChange(x, m2h)
  BY DEF M2hIsr
<1>4. x.state = "IfSuspending" /\ x.fsm = "approve" => m2h # 0
  BY <1>1, <1>2 DEF WaitInv, M2hIsr, IrqPending
<1>. HIDE DEF x
<1>5. CASE tmr = "down"
  <2>1. hi.fsm \in {"timeout", "error"} /\ hi.state = "IfResuming"
    BY <1>5 DEF IInv, TimeoutInv
  <2>2. hi' = x \/ hi' = [x EXCEPT !.fsm = "error"]
    BY <1>2, <1>3, <2>1, FailedStays
  <2>3. hi'.state = "IfResuming"
    BY <1>2, <2>1, <2>2 DEF Host
  <2>. QED BY <1>1, <1>5, <2>3 DEF WaitInv
<1>6. CASE tmr # "down"
  <2>1. Sound(x)
    BY <1>2, <1>6, InvSound DEF IInv
  <2>2. CASE Waiting(hi')
    <3>1. /\ hi'.state = hi.state /\ hi'.proto \in {TRUE, hi.proto}
          /\ hi.state = "IfSuspending" /\ hi'.fsm = "approve" => hi'.irq = "off"
      BY <1>2, <1>3, <1>4, <2>1, <2>2, LevelChangeTimed
    <3>. QED BY <1>1, <3>1 DEF WaitInv
  <2>3. CASE ~Waiting(hi')
    BY <2>3 DEF WaitInv, Waiting
  <2>. QED BY <2>2, <2>3
<1>. QED BY <1>5, <1>6

LEMMA TimeoutWait ==
  ASSUME IInv, WaitInv, ProtocolExpires \/ TimerTask
  PROVE  WaitInv'
<1>1. hi \in Host
  BY DEF IInv, TypeOK, Host
<1>2. CASE ProtocolExpires
  <2>1. tmr' = "fired" /\ hi'.state = hi.state /\ hi'.fsm = hi.fsm /\ hi'.irq = hi.irq
    BY <1>1, <1>2 DEF ProtocolExpires, Host
  <2>. QED BY <2>1 DEF WaitInv
<1>3. CASE TimeoutMark
  <2>1. tmr' = "marked" /\ hi'.fsm = "timeout"
    BY <1>1, <1>3 DEF TimeoutMark, Host
  <2>. QED BY <2>1 DEF WaitInv
<1>4. CASE TimeoutBranch
  <2>1. hi' = hi /\ (tmr' = "idle" => hi.state \notin {"IfSuspending", "IfResuming"})
    BY <1>4 DEF TimeoutBranch
  <2>. QED BY <2>1 DEF WaitInv
<1>5. CASE TimeoutSuspending \/ TimeoutDown
  <2>1. hi'.state \in {"IfUp", "IfDown"}
    BY <1>1, <1>5 DEF TimeoutSuspending, TimeoutDown, Host
  <2>. QED BY <2>1 DEF WaitInv
<1>6. CASE TimeoutRetry
  <2>1. hi' = HostSuspend(hi) /\ hi.state = "IfUp" /\ Sound(hi)
    BY <1>6, InvSound DEF TimeoutRetry, SetHi, IInv, TimeoutInv
  <2>2. hi'.state = "IfSuspending" /\ hi'.fsm = "config" /\ hi'.proto = TRUE
    BY <2>1, HostSuspendSound, HostSuspendTimed
  <2>. QED BY <2>2 DEF WaitInv
<1>7. CASE TimeoutResuming
  <2>1. tmr' = "down" /\ hi'.state = "IfResuming"
    BY <1>1, <1>7 DEF TimeoutResuming, SetHi, IInv, TimeoutInv, Host
  <2>. QED BY <2>1 DEF WaitInv
<1>. QED BY <1>2, <1>3, <1>4, <1>5, <1>6, <1>7 DEF TimerTask

\* A suspend or a resume that starts, starts the timer.
LEMMA StartsTimed ==
  ASSUME Sound(hi), WaitInv, tmr' = tmr,
         \/ hi' = HostSuspend(hi) /\ (con' = con \/ con # "restart")
         \/ hi.state = "IfDown" /\ hi' = HostResume(hi)
  PROVE  WaitInv'
<1>1. CASE hi' = HostSuspend(hi) /\ hi.state = "IfUp"
  <2>1. hi'.state = "IfSuspending" /\ hi'.fsm = "config" /\ hi'.proto = TRUE
    BY <1>1, HostSuspendSound, HostSuspendTimed
  <2>. QED BY <2>1 DEF WaitInv
<1>2. CASE hi' = hi /\ (con' = con \/ con # "restart")
  BY <1>2 DEF WaitInv
<1>3. CASE hi.state = "IfDown" /\ hi' = HostResume(hi)
  <2>1. hi'.state = "IfResuming" /\ hi'.proto = TRUE
    BY <1>3, HostResumeSound, HostResumeTimed
  <2>. QED BY <2>1 DEF WaitInv
<1>. QED BY <1>1, <1>2, <1>3 DEF HostSuspend

LEMMA TaskWait ==
  ASSUME IInv, WaitInv,
         \/ UartTraffic \/ InactivityExpires
         \/ \E s \in Senders : WantSend(s) \/ RequestGranted(s) \/ RequestResumes(s)
         \/ ModemAsks \/ ModemUp \/ ModemDown
  PROVE  WaitInv'
<1>1. hi \in Host /\ (tmr = "idle" => Sound(hi)) /\ tmr' = tmr /\ con' = con
  BY InvSound
     DEF IInv, TypeOK, Host, UartTraffic, InactivityExpires, WantSend, RequestGranted,
         RequestResumes, ModemAsks, ModemUp, ModemDown, Modem
<1>2. CASE hi' = hi
  BY <1>1, <1>2 DEF WaitInv
<1>3. CASE InactivityExpires /\ hi' # hi
  <2>. DEFINE x == [hi EXCEPT !.inact = FALSE]
  <2>1. hi' = HostSuspend(x) /\ tmr = "idle"
    BY <1>3 DEF InactivityExpires, SetHi, TimerTaskFree
  <2>2. Sound(x) /\ x.state = hi.state /\ x.fsm = hi.fsm /\ x.irq = hi.irq /\ x.proto = hi.proto
    BY <1>1, <2>1, TimersKeep DEF Host
  <2>. HIDE DEF x
  <2>3. CASE x.state = "IfUp"
    <3>1. hi'.state = "IfSuspending" /\ hi'.fsm = "config" /\ hi'.proto = TRUE
      BY <2>1, <2>2, <2>3, HostSuspendSound, HostSuspendTimed
    <3>. QED BY <3>1 DEF WaitInv
  <2>4. CASE x.state # "IfUp"
    BY <1>1, <2>1, <2>2, <2>4 DEF HostSuspend, WaitInv
  <2>. QED BY <2>3, <2>4
<1>4. CASE \E s \in Senders : RequestResumes(s)
  <2>1. hi' = HostResume(hi) /\ hi.state = "IfDown" /\ tmr = "idle"
    BY <1>4 DEF RequestResumes, SetHi, TimerTaskFree
  <2>. QED BY <1>1, <2>1, StartsTimed
<1>. QED BY <1>2, <1>3, <1>4
     DEF UartTraffic, WantSend, RequestGranted, ModemAsks, ModemUp, ModemDown, Modem

LEMMA ConsoleWait ==
  ASSUME IInv, WaitInv, ForceSuspend \/ ForceResume \/ SetInactivityTimer \/ Console
  PROVE  WaitInv'
<1>. USE DEF Given, Goes, ConsoleStep, SetHi
<1>1. tmr' = tmr /\ tmr = "idle" /\ hi \in Host /\ Sound(hi)
  BY InvSound
     DEF IInv, TypeOK, Host, TimerTaskFree, ForceSuspend, ForceResume, SetInactivityTimer, Console,
         ForceSuspendGo, ForceResumeInit, ForceResumeSm, ForceResumeTimer, SetInactivityTimerStop
<1>2. CASE ForceSuspend \/ ForceResume \/ SetInactivityTimer \/ SetInactivityTimerStop
  <2>1. con # "restart" /\ hi' \in {hi, [hi EXCEPT !.inact = FALSE], [hi EXCEPT !.inact = TRUE]}
    BY <1>2 DEF ForceSuspend, ForceResume, SetInactivityTimer, SetInactivityTimerStop
  <2>2. hi'.state = hi.state /\ hi'.fsm = hi.fsm /\ hi'.proto = hi.proto /\ hi'.irq = hi.irq
    BY <1>1, <2>1 DEF Host
  <2>. QED BY <1>1, <2>1, <2>2 DEF WaitInv
<1>3. CASE ForceSuspendGo
  <2>1. hi' = HostSuspend(hi) /\ con # "restart"
    BY <1>3 DEF ForceSuspendGo
  <2>. QED BY <1>1, <2>1, StartsTimed
<1>4. CASE ForceResumeInit
  <2>1. hi' = [hi EXCEPT !.irq = "off", !.fsm = "init"] /\ con # "restart"
    BY <1>4 DEF ForceResumeInit
  <2>2. hi'.state = hi.state /\ hi'.fsm = "init" /\ hi'.proto = hi.proto
    BY <1>1, <2>1 DEF Host
  <2>. QED BY <1>1, <2>1, <2>2 DEF WaitInv
<1>5. CASE ForceResumeSm
  <2>1. con = "resinit" /\ (hi.fsm = "approve" => hi.state = "IfResuming")
        /\ (hi.fsm = "complete" => hi.state = "IfUp")
    BY <1>5 DEF ForceResumeSm, IInv, FsmInv
  <2>2. CASE hi.fsm = "init"
    <3>. DEFINE y == ResumeSm(hi)
    <3>1. hi' = [y EXCEPT !.proto = hi.proto] /\ con' = "restart"
      BY <1>5, <2>2 DEF ForceResumeSm
    <3>2. y \in Host /\ y.state = "IfResuming"
      BY <1>1, <2>1, <2>2, ResumeSmSound DEF Sound
    <3>. HIDE DEF y
    <3>3. hi'.state = "IfResuming"
      BY <3>1, <3>2 DEF Host
    <3>. QED BY <3>1, <3>3 DEF WaitInv
  <2>3. CASE hi.fsm # "init"
    <3>1. hi' = ResumeSm(hi)
      BY <1>5, <2>3 DEF ForceResumeSm
    <3>2. /\ hi.fsm # "approve" => hi'.state = hi.state
          /\ hi.fsm = "approve" => hi'.state = "IfUp"
      BY <1>1, <2>1, <2>3, <3>1, ResumeSmSound
    <3>3. /\ hi.fsm # "approve" => hi'.proto \in {TRUE, hi.proto}
          /\ hi'.fsm = "approve" => hi'.irq = "set"
      BY <1>1, <2>3, <3>1, ResumeSmTimed
    <3>. QED BY <1>1, <2>1, <3>2, <3>3 DEF WaitInv
  <2>. QED BY <2>2, <2>3
<1>6. CASE ForceResumeTimer
  <2>1. hi' = [hi EXCEPT !.proto = TRUE]
    BY <1>6 DEF ForceResumeTimer
  <2>2. hi'.state = hi.state /\ hi'.fsm = hi.fsm /\ hi'.proto = TRUE /\ hi'.irq = hi.irq
    BY <1>1, <2>1 DEF Host
  <2>. QED BY <2>2 DEF WaitInv
<1>. QED BY <1>2, <1>3, <1>4, <1>5, <1>6 DEF Console

\* The host never waits for the modem without protcol_timeout_timer, whatever the
\* console, the senders and late answers do in between: each start of a suspend or a
\* resume starts it, and only the end of the wait stops it.
THEOREM WaitCorrect == Spec => []WaitIsTimed
<1>1. Init => WaitInv
  BY DEF Init, WaitInv
<1>2. IInv /\ WaitInv /\ [Next]_vars => WaitInv'
  <2>1. WaitInv /\ UNCHANGED vars => WaitInv'
    BY DEF vars, WaitInv
  <2>. QED BY <2>1, IsrWait, TimeoutWait, TaskWait, ConsoleWait DEF Next
<1>3. WaitInv => WaitIsTimed
  BY DEF WaitInv, WaitIsTimed, AtRest
<1>. QED BY <1>1, <1>2, <1>3, Invariance, PTL DEF Spec

=============================================================================
