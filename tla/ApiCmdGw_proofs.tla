-------------------------- MODULE ApiCmdGw_proofs ---------------------------
(***************************************************************************)
(* Proofs about the gateway, for every number of callers and echo tasks,   *)
(* every retry count, every list of postponable events and every bound.    *)
(***************************************************************************)
EXTENDS ApiCmdGw, TLAPS

\* Every definition that only groups variables.
USE DEF vars, gateVars, tblVars, thrVars, idVars, rcvVars, finVars, mdmVars, Threads, Gated

-----------------------------------------------------------------------------
(* The inductive invariant *)

\* The response given to this very command was copied for thread t.
Own(t) == got[t] = cmd[t].id /\ cmd[t].id \in answered

\* The transaction counter never wrapped: the id names the command.
IdsFollow == transid = issued

CmdsFollow ==
  /\ \A t \in Threads : cmd[t].transid = cmd[t].id /\ cmd[t].id <= issued
  /\ \A m \in cmds : m.transid = m.id /\ m.id \in 1..issued

\* A thread in __apicmdgw_send has a command; number 0 stands for none.
SendNumbered ==
  \A t \in Threads : pc[t] \in {"gate", "echoWait"} \cup SendPCs => cmd[t].id # 0

\* A response on its way is the response to the command it is numbered for.
AnswerOK(f) == f.res => f.id = f.transid /\ f.id \in answered

FramesOK ==
  /\ AnswerOK(cur)
  /\ \A i \in DOMAIN rx : AnswerOK(rx[i])
  /\ \A i \in DOMAIN replay : AnswerOK(replay[i])

\* Only a call with a response buffer uses the wait table.
WaitersAreSync ==
  \A t \in Threads : pc[t] \in {"addtbl", "wait", "woken", "rem"} => cmd[t].sync

\* A post on a waiter's semaphore comes with a result, or from apicmdgw_fin.
PostedWithResult ==
  \A t \in Threads :
    /\ pc[t] \in {"xmit", "wait", "woken"} /\ cmd[t].sync
    /\ sem[t] = 1 \/ pc[t] = "woken"
    => ~isinit \/ result[t] = "ENOSPC" \/ Own(t)

\* What a call is about to return with, or returns with.
SuccessIsOwn ==
  \A t \in Threads :
    /\ pc[t] \in {"rem", "done"} /\ cmd[t].sync /\ ret[t] = "OK"
    => Own(t)

FinClosed == fin # "idle" => ~isinit

\* An error indication waits for no response.
ReceiverAsync == Receiver \notin tbl /\ ~cmd[Receiver].sync

\* An echo task that is still trying made at most ECHO_RETRYCNT turns.
RetryBound ==
  \A e \in Echoes : pc[e] \notin {"none", "end"} \cup DeadPCs => retry[e] <= EchoRetryCnt

IInv ==
  /\ TypeOK
  /\ IdsFollow /\ CmdsFollow /\ SendNumbered /\ FramesOK
  /\ WaitersAreSync /\ TableMatchesWaiters
  /\ PostedWithResult /\ SuccessIsOwn
  /\ FinClosed /\ RetryBound /\ ReceiverAsync

-----------------------------------------------------------------------------
(* Lemmas on the operators *)

\* While ids are left, the next transaction id is the next command number.
LEMMA NextIdFollows ==
  ASSUME TypeOK, IdsFollow, issued < MaxCmds
  PROVE  CreateTransId = issued + 1 /\ CreateTransId \in 1..MaxTransId
<1>1. /\ issued \in Nat /\ MaxTransId \in Nat /\ issued + 1 < MaxTransId + 1
      /\ transid = issued
  BY BoundAssumption DEF TypeOK, CallTypeOK, IdsFollow
<1>2. (issued + 1) % (MaxTransId + 1) = issued + 1
  BY <1>1
<1> QED
  BY <1>1, <1>2 DEF CreateTransId

\* The command built now is well typed and carries its own number.
LEMMA NewCmdFollows ==
  ASSUME TypeOK, IdsFollow, issued < MaxCmds,
         NEW i \in CmdIds, NEW s \in BOOLEAN, NEW f \in BOOLEAN
  PROVE  /\ NewCmd(i, s, f) \in CmdType
         /\ NewCmd(i, s, f).transid = NewCmd(i, s, f).id
         /\ NewCmd(i, s, f).id = issued + 1
         /\ NewCmd(i, s, f).sync = s
         /\ NewCmd(i, s, f).cmdid = i
<1>1. CreateTransId = issued + 1 /\ CreateTransId \in 1..MaxTransId
  BY NextIdFollows
<1>2. issued + 1 \in 0..MaxCmds
  BY BoundAssumption DEF TypeOK, CallTypeOK
<1> QED
  BY <1>1, <1>2 DEF NewCmd, CmdType

\* The state at power up satisfies the inductive invariant.
LEMMA InitInv == Init => IInv
<1> SUFFICES ASSUME Init PROVE IInv
  OBVIOUS
<1>1. NoCmd \in CmdType /\ NoFrame \in FrameType
  BY BoundAssumption DEF NoCmd, NoFrame, CmdType, FrameType, CmdIds
<1>7. FlagTypeOK
  BY Zenon DEF Init, FlagTypeOK
<1>2. GateTypeOK
  BY BoundAssumption DEF Init, GateTypeOK
<1>3. PcTypeOK
  BY ThreadAssumption DEF Init, PcTypeOK, CallerPCs, EchoPCs, SendPCs, DeadPCs
<1>4. CallTypeOK
  BY <1>1, BoundAssumption, EchoAssumption DEF Init, CallTypeOK, Returns
<1>5. RecvTypeOK /\ ModemTypeOK
  BY <1>1, BoundAssumption DEF Init, RecvTypeOK, ModemTypeOK
<1>6. TypeOK
  BY <1>2, <1>3, <1>4, <1>5, <1>7 DEF TypeOK
<1> QED
  BY <1>6, ThreadAssumption DEF Init, IInv, IdsFollow, CmdsFollow, FramesOK, AnswerOK, NoCmd, NoFrame,
     WaitersAreSync, TableMatchesWaiters, PostedWithResult, SuccessIsOwn, FinClosed, RetryBound,
     SendNumbered, ReceiverAsync, SendPCs, DeadPCs

\* What the receive task does shows in no other thread; itself it is at the
\* gate with an error indication, done with it, or where it was.
LEMMA RecvSteps ==
  ASSUME PcTypeOK, cmd \in [Threads -> CmdType], ret \in [Threads -> Returns], RecvStep
  PROVE  /\ \A t \in Threads \ {Receiver} : pc'[t] = pc[t] /\ cmd'[t] = cmd[t] /\ ret'[t] = ret[t]
         /\ UNCHANGED <<pc, cmd, ret>> \/ pc'[Receiver] \in {"gate", "idle"}
         /\ UNCHANGED <<isinit, gwState, live, retry, tbl, answered>>
<1>1. CASE RecvBad \/ ErrindSent
  <2>1. \A t \in Threads \ {Receiver} : pc'[t] = pc[t] /\ cmd'[t] = cmd[t] /\ ret'[t] = ret[t]
    BY <1>1 DEF RecvBad, ErrindSent, Forget, PcTypeOK
  <2>2. UNCHANGED <<pc, cmd, ret>> \/ pc'[Receiver] \in {"gate", "idle"}
    BY <1>1 DEF RecvBad, ErrindSent, PcTypeOK
  <2> QED
    BY <1>1, <2>1, <2>2 DEF RecvBad, ErrindSent
<1>2. CASE ~RecvBad /\ ~ErrindSent
  BY <1>2 DEF RecvStep, RecvLoop, RecvFrame, RecvAgain, RecvTerminate, WriteTable, HandleEvent
<1> QED
  BY <1>1, <1>2

-----------------------------------------------------------------------------
(* Every step keeps the types *)

\* g_isinit, the existence of the HAL and is_postpone_evt stay flags.
LEMMA FlagTypeStep == FlagTypeOK /\ [Next]_vars => FlagTypeOK'
<1> SUFFICES ASSUME FlagTypeOK, [Next]_vars PROVE FlagTypeOK'
  OBVIOUS
<1> USE DEF FlagTypeOK
<1>1. CASE GwInit
  BY <1>1, Zenon DEF GwInit
<1>2. ASSUME NEW c \in Gated, CallerStep(c) \/ GateStep(c) PROVE FlagTypeOK'
  BY <1>2, Zenon DEF CallerStep, GateStep, Call, Return, GateInit, Gate, EchoWaitTimeout, Forget
<1>3. ASSUME NEW t \in Threads, SendStep(t) PROVE FlagTypeOK'
  BY <1>3, Zenon DEF SendStep, Send, AddTable, AddTableHang, Transmit, TransmitFault, Wake,
     WaitTimeout, TakeResult, RemTable, RemTableHang, LockDeleted
<1>4. ASSUME NEW e \in Echoes, EchoStep(e) PROVE FlagTypeOK'
  BY <1>4, Zenon DEF EchoStep, EchoTry, EchoDone, EchoEnd, Forget
<1>5. CASE RecvStep
  BY <1>5, Zenon DEF RecvStep, RecvLoop, RecvFrame, RecvBad, ErrindSent, Forget, RecvAgain, RecvTerminate,
     WriteTable, HandleEvent
<1>6. CASE FinStep
  BY <1>6, Zenon DEF FinStep, FinStart, FinAbort, FinState, FinJoin, FinRelease, FinDelete
<1>7. CASE AppReady \/ RecvAgainRequest \/ ModemReply \/ ModemEvent
  BY <1>7, Zenon DEF AppReady, RecvAgainRequest, ModemReply, ModemEvent
<1>8. CASE UNCHANGED vars
  BY <1>8, Zenon
<1> QED
  BY <1>1, <1>2, <1>3, <1>4, <1>5, <1>6, <1>7, <1>8 DEF Next

\* The state of the gate, of apicmdgw_fin and of altcom_app_ready, the abort
\* request and g_checkpostpone_sem keep to their values.
LEMMA GateTypeStep == GateTypeOK /\ [Next]_vars => GateTypeOK'
<1> SUFFICES ASSUME GateTypeOK, [Next]_vars PROVE GateTypeOK'
  OBVIOUS
<1> USE DEF GateTypeOK
<1>1. CASE GwInit
  BY <1>1, BoundAssumption DEF GwInit
<1>2. ASSUME NEW c \in Gated, CallerStep(c) \/ GateStep(c) PROVE GateTypeOK'
  BY <1>2 DEF CallerStep, GateStep, Call, Return, GateInit, Gate, EchoWaitTimeout, Forget
<1>3. ASSUME NEW t \in Threads, SendStep(t) PROVE GateTypeOK'
  BY <1>3 DEF SendStep, Send, AddTable, AddTableHang, Transmit, TransmitFault, Wake,
     WaitTimeout, TakeResult, RemTable, RemTableHang, LockDeleted
<1>4. ASSUME NEW e \in Echoes, EchoStep(e) PROVE GateTypeOK'
  BY <1>4 DEF EchoStep, EchoTry, EchoDone, EchoEnd, Forget
<1>5. CASE RecvStep
  BY <1>5 DEF RecvStep, RecvLoop, RecvFrame, RecvBad, ErrindSent, Forget, RecvAgain, RecvTerminate,
     WriteTable, HandleEvent
<1>6. CASE FinStep
  BY <1>6 DEF FinStep, FinStart, FinAbort, FinState, FinJoin, FinRelease, FinDelete
<1>7. CASE AppReady \/ RecvAgainRequest \/ ModemReply \/ ModemEvent
  BY <1>7 DEF AppReady, RecvAgainRequest, ModemReply, ModemEvent
<1>8. CASE UNCHANGED vars
  BY <1>8
<1> QED
  BY <1>1, <1>2, <1>3, <1>4, <1>5, <1>6, <1>7, <1>8 DEF Next

\* A thread stays where its function is: callers in apicmdgw_send, echo tasks
\* in apicmdgw_echotask.
LEMMA PcTypeStep == PcTypeOK /\ [Next]_vars => PcTypeOK'
<1> SUFFICES ASSUME PcTypeOK, [Next]_vars PROVE PcTypeOK'
  OBVIOUS
<1> USE DEF PcTypeOK, CallerPCs, EchoPCs, SendPCs, DeadPCs
<1>1. CASE GwInit
  BY <1>1 DEF GwInit
<1>2. ASSUME NEW c \in Gated, CallerStep(c) \/ GateStep(c) PROVE PcTypeOK'
  BY <1>2, ThreadAssumption DEF CallerStep, GateStep, Call, Return, GateInit, Gate, EchoWaitTimeout, Forget
<1>3. ASSUME NEW t \in Threads, SendStep(t) PROVE PcTypeOK'
  BY <1>3, ThreadAssumption DEF SendStep, Send, AddTable, AddTableHang, Transmit, TransmitFault, Wake,
     WaitTimeout, TakeResult, RemTable, RemTableHang, LockDeleted
<1>4. ASSUME NEW e \in Echoes, EchoStep(e) PROVE PcTypeOK'
  BY <1>4, ThreadAssumption DEF EchoStep, EchoTry, EchoDone, EchoEnd, Forget, Broadcast
<1>5. CASE RecvStep
  <2>1. CASE RecvBad \/ ErrindSent
    BY <2>1, ThreadAssumption DEF RecvBad, ErrindSent
  <2>2. CASE ~RecvBad /\ ~ErrindSent
    BY <1>5, <2>2 DEF RecvStep, RecvLoop, RecvFrame, RecvAgain, RecvTerminate,
       WriteTable, HandleEvent
  <2> QED
    BY <2>1, <2>2
<1>6. CASE FinStep
  BY <1>6, ThreadAssumption DEF FinStep, FinStart, FinAbort, FinState, FinJoin, FinRelease, FinDelete, Broadcast
<1>7. CASE AppReady \/ RecvAgainRequest \/ ModemReply \/ ModemEvent
  BY <1>7 DEF AppReady, RecvAgainRequest, ModemReply, ModemEvent
<1>8. CASE UNCHANGED vars
  BY <1>8
<1> QED
  BY <1>1, <1>2, <1>3, <1>4, <1>5, <1>6, <1>7, <1>8 DEF Next

\* Commands, results and the block tables' binary semaphores stay well typed.
LEMMA CallTypeStep == IInv /\ [Next]_vars => CallTypeOK'
<1> SUFFICES ASSUME IInv, [Next]_vars PROVE CallTypeOK'
  OBVIOUS
<1>t. TypeOK /\ CallTypeOK /\ RecvTypeOK /\ ModemTypeOK /\ IdsFollow /\ FramesOK
  BY DEF IInv, TypeOK
<1>n. NoCmd \in CmdType /\ NoFrame \in FrameType /\ 0 \in 0..MaxCmds
  BY BoundAssumption DEF NoCmd, NoFrame, CmdType, FrameType, CmdIds
<1>d. ASSUME DrawTransId PROVE issued' \in 0..MaxCmds /\ transid' \in 0..MaxTransId
  BY <1>t, <1>d, NextIdFollows, BoundAssumption DEF DrawTransId, CallTypeOK
<1> USE DEF CallTypeOK
<1>1. CASE GwInit
  BY <1>t, <1>1 DEF GwInit
<1>2. ASSUME NEW c \in Gated, CallerStep(c) \/ GateStep(c) PROVE CallTypeOK'
  <2>1. CASE Call(c)
    <3>1. PICK k \in CallKinds : cmd' = [cmd EXCEPT ![c] = NewCmd("CMD", k.sync, k.fevr)]
      BY <2>1 DEF Call
    <3>2. NewCmd("CMD", k.sync, k.fevr) \in CmdType
      BY <1>t, <2>1, NewCmdFollows, KindAssumption DEF Call, DrawTransId, CmdIds
    <3>3. issued' \in 0..MaxCmds /\ transid' \in 0..MaxTransId
      BY <1>d, <2>1 DEF Call
    <3> QED
      BY <1>t, <2>1, <3>1, <3>2, <3>3 DEF Call
  <2>2. CASE Return(c)
    BY <1>t, <1>n, <2>2 DEF Return, Forget, Returns
  <2>3. CASE GateInit(c)
    BY <1>t, <2>3, EchoAssumption DEF GateInit
  <2>4. CASE Gate(c) \/ EchoWaitTimeout(c)
    BY <1>t, <2>4 DEF Gate, EchoWaitTimeout, Returns
  <2> QED
    BY <1>2, <2>1, <2>2, <2>3, <2>4 DEF CallerStep, GateStep
<1>3. ASSUME NEW t \in Threads, SendStep(t) PROVE CallTypeOK'
  BY <1>t, <1>n, <1>3 DEF SendStep, Send, AddTable, AddTableHang, Transmit, TransmitFault, Wake,
     WaitTimeout, TakeResult, RemTable, RemTableHang, LockDeleted, Returns
<1>4. ASSUME NEW e \in Echoes, EchoStep(e) PROVE CallTypeOK'
  <2>1. CASE EchoTry(e)
    <3>0. EchoRetryCnt \in Nat /\ retry[e] \in 0..(EchoRetryCnt + 1)
      BY <1>t, EchoAssumption
    <3>b. retry[e] <= EchoRetryCnt
      BY <2>1 DEF EchoTry, IInv, RetryBound, DeadPCs
    <3>c. retry' \in [Echoes -> 0..(EchoRetryCnt + 1)]
      BY <1>t, <2>1, <3>0, <3>b DEF EchoTry
    <3>1. CASE DrawTransId /\ cmd' = [cmd EXCEPT ![e] = NewCmd("ECHO", TRUE, FALSE)]
      <4>1. NewCmd("ECHO", TRUE, FALSE) \in CmdType
        BY <1>t, <3>1, NewCmdFollows DEF DrawTransId, CmdIds
      <4> QED
        BY <1>t, <1>d, <2>1, <3>c, <3>1, <4>1 DEF EchoTry
    <3>2. CASE UNCHANGED <<idVars, cmd>>
      BY <1>t, <2>1, <3>c, <3>2 DEF EchoTry
    <3> QED
      BY <2>1, <3>1, <3>2 DEF EchoTry
  <2>2. CASE EchoDone(e) \/ EchoEnd(e)
    BY <1>t, <1>n, <2>2 DEF EchoDone, EchoEnd, Forget, Returns
  <2> QED
    BY <1>4, <2>1, <2>2 DEF EchoStep
<1>5. CASE RecvStep
  <2>1. CASE RecvBad
    <3>1. CASE DrawTransId /\ cmd' = [cmd EXCEPT ![Receiver] = NewCmd("ERRIND", FALSE, TRUE)]
      <4>1. NewCmd("ERRIND", FALSE, TRUE) \in CmdType
        BY <1>t, <3>1, NewCmdFollows DEF DrawTransId, CmdIds
      <4> QED
        BY <1>t, <1>d, <2>1, <3>1, <4>1 DEF RecvBad
    <3>2. CASE UNCHANGED <<idVars, cmd>>
      BY <1>t, <2>1, <3>2 DEF RecvBad
    <3> QED
      BY <2>1, <3>1, <3>2 DEF RecvBad
  <2>4. CASE ErrindSent
    BY <1>t, <1>n, <2>4 DEF ErrindSent, Forget, Returns
  <2>2. CASE WriteTable
    <3>1. PICK t \in Waiters(cur) :
            /\ \/ /\ result' = [result EXCEPT ![t] = "OK"]
                  /\ got' = [got EXCEPT ![t] = cur.id]
               \/ /\ result' = [result EXCEPT ![t] = "ENOSPC"]
                  /\ UNCHANGED got
            /\ sem' = [sem EXCEPT ![t] = 1]
      BY <2>2 DEF WriteTable
    <3>2. cur.id \in 0..MaxCmds
      <4>1. cur.res
        BY <3>1 DEF Waiters, Matches
      <4>2. cur.id \in 1..MaxCmds
        BY <1>t, <4>1 DEF ModemTypeOK, FramesOK, AnswerOK
      <4> QED
        BY <4>2, BoundAssumption
    <3> QED
      BY <1>t, <2>2, <3>1, <3>2 DEF WriteTable
  <2>3. CASE RecvLoop \/ RecvFrame \/ RecvAgain \/ RecvTerminate \/ HandleEvent
    BY <1>t, <2>3 DEF RecvLoop, RecvFrame, RecvAgain, RecvTerminate, HandleEvent
  <2> QED
    BY <1>5, <2>1, <2>2, <2>3, <2>4 DEF RecvStep
<1>6. CASE FinStep
  BY <1>t, <1>6 DEF FinStep, FinStart, FinAbort, FinState, FinJoin, FinRelease, FinDelete
<1>7. CASE AppReady \/ RecvAgainRequest \/ ModemReply \/ ModemEvent
  BY <1>t, <1>7 DEF AppReady, RecvAgainRequest, ModemReply, ModemEvent
<1>8. CASE UNCHANGED vars
  BY <1>t, <1>8
<1> QED
  BY <1>1, <1>2, <1>3, <1>4, <1>5, <1>6, <1>7, <1>8 DEF Next

\* The receive task's frame and its lists of frames stay well typed.
LEMMA RecvTypeStep == RecvTypeOK /\ ModemTypeOK /\ [Next]_vars => RecvTypeOK'
<1> SUFFICES ASSUME RecvTypeOK, ModemTypeOK, [Next]_vars PROVE RecvTypeOK'
  OBVIOUS
<1>n. NoFrame \in FrameType
  BY BoundAssumption DEF NoFrame, FrameType, CmdIds
<1> USE DEF RecvTypeOK
<1>1. CASE GwInit
  BY <1>n, <1>1 DEF GwInit
<1>2. ASSUME NEW c \in Gated, CallerStep(c) \/ GateStep(c) PROVE RecvTypeOK'
  BY <1>2 DEF CallerStep, GateStep, Call, Return, GateInit, Gate, EchoWaitTimeout, Forget
<1>3. ASSUME NEW t \in Threads, SendStep(t) PROVE RecvTypeOK'
  BY <1>3 DEF SendStep, Send, AddTable, AddTableHang, Transmit, TransmitFault, Wake,
     WaitTimeout, TakeResult, RemTable, RemTableHang, LockDeleted
<1>4. ASSUME NEW e \in Echoes, EchoStep(e) PROVE RecvTypeOK'
  BY <1>4 DEF EchoStep, EchoTry, EchoDone, EchoEnd, Forget
<1>5. CASE RecvStep
  <2>1. CASE RecvLoop
    <3>1. CASE replay = <<>>
      BY <2>1, <3>1 DEF RecvLoop
    <3>2. CASE replay # <<>>
      BY <2>1, <3>2 DEF RecvLoop
    <3> QED
      BY <3>1, <3>2
  <2>2. CASE RecvFrame
    BY <2>2 DEF RecvFrame, ModemTypeOK
  <2>3. CASE RecvBad \/ ErrindSent
    BY <2>3 DEF RecvBad, ErrindSent
  <2>5. CASE RecvAgain
    BY <2>5 DEF RecvAgain
  <2>7. CASE RecvTerminate
    BY <2>7 DEF RecvTerminate
  <2>6. CASE WriteTable
    BY <2>6 DEF WriteTable
  <2>4. CASE HandleEvent
    <3>1. Append(replay, cur) \in Seq(FrameType) /\ Append(disp, cur) \in Seq(FrameType)
      OBVIOUS
    <3>2. replay' \in Seq(FrameType) /\ disp' \in Seq(FrameType)
      BY <2>4, <3>1, Zenon DEF HandleEvent
    <3> QED
      BY <2>4, <3>2 DEF HandleEvent
  <2> QED
    BY <1>5, <2>1, <2>2, <2>3, <2>4, <2>5, <2>6, <2>7 DEF RecvStep
<1>6. CASE FinStep
  BY <1>6 DEF FinStep, FinStart, FinAbort, FinState, FinJoin, FinRelease, FinDelete
<1>7. CASE AppReady \/ RecvAgainRequest \/ ModemReply \/ ModemEvent
  BY <1>7 DEF AppReady, RecvAgainRequest, ModemReply, ModemEvent
<1>8. CASE UNCHANGED vars
  BY <1>8
<1> QED
  BY <1>1, <1>2, <1>3, <1>4, <1>5, <1>6, <1>7, <1>8 DEF Next

\* What travels to and from the modem stays well typed.
LEMMA ModemTypeStep == IInv /\ [Next]_vars => ModemTypeOK'
<1> SUFFICES ASSUME IInv, [Next]_vars PROVE ModemTypeOK'
  OBVIOUS
<1>t. TypeOK /\ CallTypeOK /\ ModemTypeOK /\ IdsFollow
  BY DEF IInv, TypeOK
<1> USE DEF ModemTypeOK
<1>1. CASE GwInit
  BY <1>t, <1>1 DEF GwInit
<1>2. ASSUME NEW c \in Gated, CallerStep(c) \/ GateStep(c) PROVE ModemTypeOK'
  BY <1>t, <1>2 DEF CallerStep, GateStep, Call, Return, GateInit, Gate, EchoWaitTimeout, Forget
<1>3. ASSUME NEW t \in Threads, SendStep(t) PROVE ModemTypeOK'
  <2>1. CASE Transmit(t)
    <3>1. cmds' = cmds \/ cmds' = cmds \cup {cmd[t]}
      BY <2>1 DEF Transmit
    <3>2. cmd[t] \in CmdType
      BY <1>t DEF CallTypeOK
    <3> QED
      BY <1>t, <2>1, <3>1, <3>2 DEF Transmit
  <2>2. CASE ~Transmit(t)
    BY <1>t, <1>3, <2>2 DEF SendStep, Send, AddTable, AddTableHang, TransmitFault, Wake,
       WaitTimeout, TakeResult, RemTable, RemTableHang, LockDeleted
  <2> QED
    BY <2>1, <2>2
<1>4. ASSUME NEW e \in Echoes, EchoStep(e) PROVE ModemTypeOK'
  BY <1>t, <1>4 DEF EchoStep, EchoTry, EchoDone, EchoEnd, Forget
<1>5. CASE RecvStep
  <2>1. CASE RecvBad
    BY <1>t, <2>1 DEF RecvBad
  <2>2. CASE RecvFrame
    BY <1>t, <2>2 DEF RecvFrame
  <2>3. CASE RecvLoop \/ ErrindSent \/ RecvAgain \/ RecvTerminate \/ WriteTable \/ HandleEvent
    <3>1. UNCHANGED mdmVars
      BY <2>3, Zenon DEF RecvLoop, ErrindSent, RecvAgain, RecvTerminate, WriteTable, HandleEvent
    <3> QED
      BY <1>t, <3>1
  <2> QED
    BY <1>5, <2>1, <2>2, <2>3 DEF RecvStep
<1>6. CASE FinStep
  BY <1>t, <1>6 DEF FinStep, FinStart, FinAbort, FinState, FinJoin, FinRelease, FinDelete
<1>7. CASE ModemReply
  <2>1. PICK m \in cmds :
          /\ rx' = Append(rx, [res |-> TRUE, cmdid |-> m.cmdid, transid |-> m.transid, id |-> m.id])
          /\ answered' = answered \cup {m.id}
    BY <1>7 DEF ModemReply
  <2>2. m.id \in Nat /\ m.id \in 1..MaxCmds
    BY <1>t, BoundAssumption DEF IInv, CmdsFollow, CallTypeOK
  <2>4. m.cmdid \in CmdIds /\ m.transid \in 0..MaxTransId
    BY <1>t DEF CmdType
  <2>3. [res |-> TRUE, cmdid |-> m.cmdid, transid |-> m.transid, id |-> m.id] \in FrameType
    BY <2>2, <2>4 DEF FrameType
  <2>5. rx' \in Seq(FrameType)
    BY <1>t, <2>1, <2>3
  <2>6. answered' \subseteq 1..MaxCmds
    BY <1>t, <2>1, <2>2
  <2> QED
    BY <1>t, <1>7, <2>5, <2>6 DEF ModemReply
<1>8. CASE ModemEvent
  <2>1. PICK i \in EvtIds, n \in 1..MaxCmds :
          rx' = Append(rx, [res |-> FALSE, cmdid |-> i, transid |-> n, id |-> nevt + 1])
    BY <1>8 DEF ModemEvent
  <2>2. nevt + 1 \in 0..MaxEvents /\ n \in 0..MaxTransId
    BY <1>t, <1>8, BoundAssumption DEF ModemEvent
  <2>3. [res |-> FALSE, cmdid |-> i, transid |-> n, id |-> nevt + 1] \in FrameType
    BY <2>2 DEF FrameType
  <2> QED
    BY <1>t, <1>8, <2>1, <2>2, <2>3 DEF ModemEvent
<1>9. CASE AppReady \/ RecvAgainRequest \/ UNCHANGED vars
  BY <1>t, <1>9 DEF AppReady, RecvAgainRequest
<1> QED
  BY <1>1, <1>2, <1>3, <1>4, <1>5, <1>6, <1>7, <1>8, <1>9 DEF Next

\* Every step of the gateway preserves its types.
LEMMA TypeStep == IInv /\ [Next]_vars => TypeOK'
  BY FlagTypeStep, GateTypeStep, PcTypeStep, CallTypeStep, RecvTypeStep, ModemTypeStep
  DEF IInv, TypeOK

-----------------------------------------------------------------------------
(* Every step keeps the rest of the invariant *)

\* A turn of the echo task sends an echo, or draws no id.
LEMMA EchoTryCases ==
  ASSUME NEW e \in Echoes, EchoTry(e)
  PROVE  \/ /\ DrawTransId
            /\ cmd' = [cmd EXCEPT ![e] = NewCmd("ECHO", TRUE, FALSE)]
            /\ pc' = [pc EXCEPT ![e] = "send"]
         \/ /\ UNCHANGED <<transid, issued, cmd>>
            /\ pc' = pc \/ pc' = [pc EXCEPT ![e] = "end"]
<1>1. CASE DrawTransId /\ cmd' = [cmd EXCEPT ![e] = NewCmd("ECHO", TRUE, FALSE)]
           /\ pc' = [pc EXCEPT ![e] = "send"]
  BY <1>1
<1>2. CASE UNCHANGED <<idVars, cmd, pc>>
  BY <1>2
<1>3. CASE pc' = [pc EXCEPT ![e] = "end"] /\ UNCHANGED <<idVars, cmd>>
  BY <1>3
<1> QED
  BY <1>1, <1>2, <1>3, Zenon DEF EchoTry

\* Every step keeps transaction ids equal to command numbers: a transaction id
\* in flight names one command (apicmdgw_createtransid).
LEMMA IdsStep == IInv /\ [Next]_vars => IdsFollow' /\ CmdsFollow'
<1> SUFFICES ASSUME IInv, [Next]_vars PROVE IdsFollow' /\ CmdsFollow'
  OBVIOUS
<1>t. TypeOK /\ CallTypeOK /\ ModemTypeOK /\ IdsFollow /\ CmdsFollow
  BY DEF IInv, TypeOK
<1>i. issued \in Nat /\ cmd \in [Threads -> CmdType]
  BY <1>t, BoundAssumption DEF CallTypeOK
<1>n. NoCmd.id = 0 /\ NoCmd.transid = 0
  BY DEF NoCmd
<1>k. ASSUME cmds' \subseteq cmds, UNCHANGED <<idVars, cmd>> PROVE IdsFollow' /\ CmdsFollow'
  BY <1>t, <1>k DEF IdsFollow, CmdsFollow
<1>d. ASSUME DrawTransId PROVE IdsFollow' /\ issued' = issued + 1
  BY <1>t, <1>d, NextIdFollows DEF DrawTransId, IdsFollow
<1>m. \A m \in cmds : m.transid = m.id /\ m.id \in 1..(issued + 1)
  BY <1>t, <1>i DEF CmdsFollow
<1>1. CASE GwInit
  BY <1>1, <1>k DEF GwInit
<1>2. ASSUME NEW c \in Gated, CallerStep(c) \/ GateStep(c) PROVE IdsFollow' /\ CmdsFollow'
  <2>1. CASE Call(c)
    <3>1. PICK k \in CallKinds : cmd' = [cmd EXCEPT ![c] = NewCmd("CMD", k.sync, k.fevr)]
      BY <2>1 DEF Call
    <3> DEFINE n == NewCmd("CMD", k.sync, k.fevr)
    <3>2. n.transid = n.id /\ n.id = issued + 1
      BY <1>t, <2>1, NewCmdFollows, KindAssumption DEF Call, DrawTransId, CmdIds
    <3>3. IdsFollow' /\ issued' = issued + 1
      BY <1>d, <2>1 DEF Call
    <3>5. cmd' = [cmd EXCEPT ![c] = n]
      BY <3>1
    <3> HIDE DEF n
    <3>4. \A t \in Threads : cmd'[t].transid = cmd'[t].id /\ cmd'[t].id <= issued + 1
      BY <1>t, <1>i, <3>2, <3>5 DEF CmdsFollow, CmdType
    <3> QED
      BY <1>m, <2>1, <3>3, <3>4 DEF Call, CmdsFollow
  <2>2. CASE Return(c)
    BY <1>t, <1>i, <1>n, <2>2 DEF Return, Forget, IdsFollow, CmdsFollow
  <2>3. CASE GateInit(c) \/ Gate(c) \/ EchoWaitTimeout(c)
    BY <1>k, <2>3 DEF GateInit, Gate, EchoWaitTimeout
  <2> QED
    BY <1>2, <2>1, <2>2, <2>3 DEF CallerStep, GateStep
<1>3. ASSUME NEW t \in Threads, SendStep(t) PROVE IdsFollow' /\ CmdsFollow'
  <2>1. CASE Transmit(t)
    <3>1. cmds' \subseteq cmds \cup {cmd[t]} /\ UNCHANGED <<idVars, cmd>>
      BY <2>1 DEF Transmit
    <3>2. cmd[t].transid = cmd[t].id /\ cmd[t].id \in Nat /\ cmd[t].id <= issued
      BY <1>t, <1>i DEF CmdsFollow, CmdType
    <3>3. cmd[t].id # 0
      BY <2>1 DEF Transmit, IInv, SendNumbered, SendPCs
    <3> QED
      BY <1>t, <1>i, <3>1, <3>2, <3>3 DEF IdsFollow, CmdsFollow
  <2>2. CASE ~Transmit(t)
    BY <1>k, <1>3, <2>2 DEF SendStep, Send, AddTable, AddTableHang, TransmitFault, Wake,
       WaitTimeout, TakeResult, RemTable, RemTableHang, LockDeleted
  <2> QED
    BY <2>1, <2>2
<1>4. ASSUME NEW e \in Echoes, EchoStep(e) PROVE IdsFollow' /\ CmdsFollow'
  <2>1. CASE EchoTry(e) /\ DrawTransId /\ cmd' = [cmd EXCEPT ![e] = NewCmd("ECHO", TRUE, FALSE)]
    <3> DEFINE n == NewCmd("ECHO", TRUE, FALSE)
    <3>2. n.transid = n.id /\ n.id = issued + 1
      BY <1>t, <2>1, NewCmdFollows DEF DrawTransId, CmdIds
    <3>3. IdsFollow' /\ issued' = issued + 1
      BY <1>d, <2>1
    <3>1. cmd' = [cmd EXCEPT ![e] = n]
      BY <2>1
    <3> HIDE DEF n
    <3>4. \A t \in Threads : cmd'[t].transid = cmd'[t].id /\ cmd'[t].id <= issued + 1
      BY <1>t, <1>i, <3>1, <3>2 DEF CmdsFollow, CmdType
    <3> QED
      BY <1>m, <2>1, <3>3, <3>4 DEF EchoTry, CmdsFollow
  <2>2. CASE EchoDone(e)
    BY <1>t, <1>i, <1>n, <2>2 DEF EchoDone, Forget, IdsFollow, CmdsFollow
  <2>3. CASE EchoEnd(e)
    BY <1>k, <2>3 DEF EchoEnd
  <2>4. CASE EchoTry(e) /\ UNCHANGED <<transid, issued, cmd>>
    BY <1>k, <2>4 DEF EchoTry
  <2> QED
    BY <1>4, <2>1, <2>2, <2>3, <2>4, EchoTryCases DEF EchoStep
<1>5. CASE RecvStep
  <2>1. CASE RecvBad
    <3>1. CASE DrawTransId /\ cmd' = [cmd EXCEPT ![Receiver] = NewCmd("ERRIND", FALSE, TRUE)]
      <4> DEFINE n == NewCmd("ERRIND", FALSE, TRUE)
      <4>1. n.transid = n.id /\ n.id = issued + 1
        BY <1>t, <3>1, NewCmdFollows DEF DrawTransId, CmdIds
      <4>2. IdsFollow' /\ issued' = issued + 1
        BY <1>d, <3>1
      <4>3. cmd' = [cmd EXCEPT ![Receiver] = n]
        BY <3>1
      <4> HIDE DEF n
      <4>4. \A t \in Threads : cmd'[t].transid = cmd'[t].id /\ cmd'[t].id <= issued + 1
        BY <1>t, <1>i, <4>1, <4>3 DEF CmdsFollow, CmdType
      <4> QED
        BY <1>m, <2>1, <4>2, <4>4 DEF RecvBad, CmdsFollow
    <3>2. CASE UNCHANGED <<idVars, cmd>>
      BY <1>k, <2>1, <3>2 DEF RecvBad
    <3> QED
      BY <2>1, <3>1, <3>2 DEF RecvBad
  <2>3. CASE ErrindSent
    BY <1>t, <1>i, <1>n, <2>3 DEF ErrindSent, Forget, IdsFollow, CmdsFollow
  <2>2. CASE ~RecvBad /\ ~ErrindSent
    BY <1>k, <1>5, <2>2 DEF RecvStep, RecvLoop, RecvFrame, RecvAgain, RecvTerminate,
       WriteTable, HandleEvent
  <2> QED
    BY <2>1, <2>2, <2>3
<1>6. CASE FinStep
  BY <1>k, <1>6 DEF FinStep, FinStart, FinAbort, FinState, FinJoin, FinRelease, FinDelete
<1>7. CASE AppReady \/ RecvAgainRequest \/ ModemReply \/ ModemEvent \/ UNCHANGED vars
  BY <1>k, <1>7 DEF AppReady, RecvAgainRequest, ModemReply, ModemEvent
<1> QED
  BY <1>1, <1>2, <1>3, <1>4, <1>5, <1>6, <1>7 DEF Next

\* A thread in apicmdgw_send has a command from allocbuff at every step.
LEMMA SendNumberedStep == IInv /\ [Next]_vars => SendNumbered'
<1> SUFFICES ASSUME IInv, [Next]_vars PROVE SendNumbered'
  OBVIOUS
<1>t. TypeOK /\ CallTypeOK /\ PcTypeOK /\ IdsFollow /\ SendNumbered
  BY DEF IInv, TypeOK
<1>i. issued + 1 # 0
  BY <1>t, BoundAssumption DEF CallTypeOK
<1> USE DEF SendNumbered, SendPCs
<1>1. CASE GwInit
  BY <1>t, <1>1 DEF GwInit
<1>2. ASSUME NEW c \in Gated, CallerStep(c) \/ GateStep(c) PROVE SendNumbered'
  <2>1. CASE Call(c)
    <3>1. PICK k \in CallKinds : cmd' = [cmd EXCEPT ![c] = NewCmd("CMD", k.sync, k.fevr)]
      BY <2>1 DEF Call
    <3>2. NewCmd("CMD", k.sync, k.fevr).id # 0
      BY <1>t, <1>i, <2>1, NewCmdFollows, KindAssumption DEF Call, DrawTransId, CmdIds
    <3> QED
      BY <1>t, <2>1, <3>1, <3>2 DEF Call, CallTypeOK, PcTypeOK
  <2>2. CASE ~Call(c)
    BY <1>t, <1>2, <2>2 DEF CallerStep, GateStep, Return, GateInit, Gate, EchoWaitTimeout, Forget, CallTypeOK, PcTypeOK
  <2> QED
    BY <2>1, <2>2
<1>3. ASSUME NEW t \in Threads, SendStep(t) PROVE SendNumbered'
  BY <1>t, <1>3 DEF CallTypeOK, PcTypeOK, SendStep, Send, AddTable, AddTableHang, Transmit, TransmitFault, Wake,
     WaitTimeout, TakeResult, RemTable, RemTableHang, LockDeleted
<1>4. ASSUME NEW e \in Echoes, EchoStep(e) PROVE SendNumbered'
  <2>1. CASE EchoTry(e) /\ DrawTransId /\ cmd' = [cmd EXCEPT ![e] = NewCmd("ECHO", TRUE, FALSE)]
    <3>1. NewCmd("ECHO", TRUE, FALSE).id # 0
      BY <1>t, <1>i, <2>1, NewCmdFollows DEF DrawTransId, CmdIds
    <3> QED
      BY <1>t, <2>1, <3>1 DEF EchoTry, CallTypeOK, PcTypeOK
  <2>2. CASE cmd' = cmd /\ (pc' = pc \/ pc' = [pc EXCEPT ![e] = "end"])
    BY <1>t, <2>2 DEF PcTypeOK
  <2>3. CASE EchoDone(e)
    <3>1. \A t \in Threads \ {e} : cmd'[t] = cmd[t] /\ (pc'[t] = pc[t] \/ (pc[t] = "echoWait" /\ pc'[t] = "gate"))
      BY <1>t, <2>3 DEF EchoDone, Forget, Broadcast, CallTypeOK, PcTypeOK
    <3>2. pc'[e] \in {"end", "loop"}
      BY <1>t, <2>3 DEF EchoDone, Broadcast, PcTypeOK
    <3> QED
      BY <1>t, <3>1, <3>2
  <2>4. CASE EchoEnd(e)
    <3>1. \A t \in Threads \ {e} : cmd'[t] = cmd[t] /\ (pc'[t] = pc[t] \/ (pc[t] = "echoWait" /\ pc'[t] = "gate"))
      BY <1>t, <2>4 DEF EchoEnd, Broadcast, PcTypeOK
    <3>2. pc'[e] = "none"
      BY <1>t, <2>4 DEF EchoEnd, Broadcast, PcTypeOK
    <3> QED
      BY <1>t, <3>1, <3>2
  <2> QED
    BY <1>4, <2>1, <2>2, <2>3, <2>4, EchoTryCases DEF EchoStep
<1>5. CASE RecvStep
  <2>1. CASE RecvBad /\ DrawTransId
    <3>0. CASE UNCHANGED <<cmd, pc>>
      BY <1>t, <3>0
    <3>1. CASE cmd' = [cmd EXCEPT ![Receiver] = NewCmd("ERRIND", FALSE, TRUE)]
      <4>1. NewCmd("ERRIND", FALSE, TRUE).id # 0
        BY <1>t, <1>i, <2>1, NewCmdFollows DEF DrawTransId, CmdIds
      <4>2. \A t \in Threads \ {Receiver} : pc'[t] = pc[t]
        BY <1>t, <2>1 DEF RecvBad, PcTypeOK
      <4> QED
        BY <1>t, <3>1, <4>1, <4>2 DEF CallTypeOK
    <3> QED
      BY <2>1, <3>0, <3>1 DEF RecvBad
  <2>2. CASE RecvBad /\ UNCHANGED <<cmd, pc>>
    BY <1>t, <2>2
  <2>3. CASE ErrindSent
    BY <1>t, <2>3 DEF ErrindSent, Forget, CallTypeOK, PcTypeOK
  <2>4. CASE ~RecvBad /\ ~ErrindSent
    BY <1>t, <1>5, <2>4 DEF RecvStep, RecvLoop, RecvFrame, RecvAgain, RecvTerminate,
       WriteTable, HandleEvent
  <2> QED
    BY <2>1, <2>2, <2>3, <2>4 DEF RecvBad
<1>6. CASE FinStep
  BY <1>t, <1>6 DEF FinStep, FinStart, FinAbort, FinState, FinJoin, FinRelease, FinDelete, Broadcast, PcTypeOK
<1>7. CASE AppReady \/ RecvAgainRequest \/ ModemReply \/ ModemEvent \/ UNCHANGED vars
  BY <1>t, <1>7 DEF AppReady, RecvAgainRequest, ModemReply, ModemEvent
<1> QED
  BY <1>1, <1>2, <1>3, <1>4, <1>5, <1>6, <1>7 DEF Next

\* A thread is in the wait table from apicmdgw_addtable to apicmdgw_remtable,
\* whatever the other threads, the receive task and apicmdgw_fin do.
LEMMA TableStep == IInv /\ [Next]_vars => WaitersAreSync' /\ TableMatchesWaiters'
<1> SUFFICES ASSUME IInv, [Next]_vars PROVE WaitersAreSync' /\ TableMatchesWaiters'
  OBVIOUS
<1>t. TypeOK /\ CallTypeOK /\ PcTypeOK /\ WaitersAreSync /\ TableMatchesWaiters
  BY DEF IInv, TypeOK
<1> USE DEF WaitersAreSync, TableMatchesWaiters, DeadPCs
<1>1. CASE GwInit
  BY <1>t, <1>1 DEF GwInit
<1>2. ASSUME NEW c \in Gated, CallerStep(c) \/ GateStep(c) PROVE WaitersAreSync' /\ TableMatchesWaiters'
  <2>1. CASE Call(c)
    BY <1>t, <2>1 DEF Call, CallTypeOK, PcTypeOK
  <2>2. CASE ~Call(c)
    BY <1>t, <1>2, <2>2 DEF CallerStep, GateStep, Return, GateInit, Gate, EchoWaitTimeout, Forget, CallTypeOK, PcTypeOK
  <2> QED
    BY <2>1, <2>2
<1>3. ASSUME NEW t \in Threads, SendStep(t) PROVE WaitersAreSync' /\ TableMatchesWaiters'
  BY <1>t, <1>3 DEF CallTypeOK, PcTypeOK, SendStep, Send, AddTable, AddTableHang, Transmit, TransmitFault, Wake,
     WaitTimeout, TakeResult, RemTable, RemTableHang, LockDeleted
<1>4. ASSUME NEW e \in Echoes, EchoStep(e) PROVE WaitersAreSync' /\ TableMatchesWaiters'
  <2>1. CASE EchoTry(e)
    <3>1. \A t \in Threads \ {e} : cmd'[t] = cmd[t] /\ pc'[t] = pc[t]
      BY <1>t, <2>1, EchoTryCases DEF CallTypeOK, PcTypeOK
    <3>2. pc[e] = "loop" /\ pc'[e] \in {"loop", "send", "end"} /\ tbl' = tbl
      BY <1>t, <2>1 DEF EchoTry, PcTypeOK
    <3> QED
      BY <1>t, <3>1, <3>2
  <2>2. CASE EchoDone(e)
    <3>1. \A t \in Threads \ {e} : cmd'[t] = cmd[t]
      BY <1>t, <2>2 DEF EchoDone, Forget, CallTypeOK
    <3>2. \A t \in Threads \ {e} :
            pc'[t] = pc[t] \/ (pc[t] = "echoWait" /\ pc'[t] = "gate")
      BY <1>t, <2>2 DEF EchoDone, Broadcast, PcTypeOK
    <3>3. pc'[e] \in {"end", "loop"} /\ pc[e] = "done" /\ tbl' = tbl
      BY <1>t, <2>2 DEF EchoDone, Broadcast, PcTypeOK
    <3> QED
      BY <1>t, <3>1, <3>2, <3>3
  <2>3. CASE EchoEnd(e)
    <3>1. \A t \in Threads \ {e} :
            pc'[t] = pc[t] \/ (pc[t] = "echoWait" /\ pc'[t] = "gate")
      BY <1>t, <2>3 DEF EchoEnd, Broadcast, PcTypeOK
    <3>2. pc'[e] = "none" /\ pc[e] = "end" /\ tbl' = tbl /\ cmd' = cmd
      BY <1>t, <2>3 DEF EchoEnd, Broadcast, PcTypeOK
    <3> QED
      BY <1>t, <3>1, <3>2
  <2> QED
    BY <1>4, <2>1, <2>2, <2>3 DEF EchoStep
<1>5. CASE RecvStep
  <2>1. Receiver \notin tbl
    BY DEF IInv, ReceiverAsync
  <2> QED
    BY <1>t, <1>5, <2>1, RecvSteps DEF CallTypeOK
<1>6. CASE FinStep
  BY <1>t, <1>6 DEF FinStep, FinStart, FinAbort, FinState, FinJoin, FinRelease, FinDelete, Broadcast, PcTypeOK
<1>7. CASE AppReady \/ RecvAgainRequest \/ ModemReply \/ ModemEvent \/ UNCHANGED vars
  BY <1>t, <1>7 DEF AppReady, RecvAgainRequest, ModemReply, ModemEvent
<1> QED
  BY <1>1, <1>2, <1>3, <1>4, <1>5, <1>6, <1>7 DEF Next

\* A response in the HAL or in rcvbuff is the one the modem gave to the command
\* of that number.
LEMMA FramesStep == IInv /\ [Next]_vars => FramesOK'
<1> SUFFICES ASSUME IInv, [Next]_vars PROVE FramesOK'
  OBVIOUS
<1>t. TypeOK /\ RecvTypeOK /\ ModemTypeOK /\ FramesOK /\ CmdsFollow
  BY DEF IInv, TypeOK
<1>k. ASSUME UNCHANGED <<cur, rx, replay, answered>> PROVE FramesOK'
  BY <1>t, <1>k DEF FramesOK, AnswerOK
<1>1. CASE GwInit
  BY <1>1 DEF GwInit, FramesOK, AnswerOK, NoFrame
<1>2. ASSUME NEW c \in Gated, CallerStep(c) \/ GateStep(c) PROVE FramesOK'
  BY <1>k, <1>2 DEF CallerStep, GateStep, Call, Return, GateInit, Gate, EchoWaitTimeout, Forget
<1>3. ASSUME NEW t \in Threads, SendStep(t) PROVE FramesOK'
  BY <1>k, <1>3 DEF SendStep, Send, AddTable, AddTableHang, Transmit, TransmitFault, Wake,
     WaitTimeout, TakeResult, RemTable, RemTableHang, LockDeleted
<1>4. ASSUME NEW e \in Echoes, EchoStep(e) PROVE FramesOK'
  BY <1>k, <1>4 DEF EchoStep, EchoTry, EchoDone, EchoEnd, Forget
<1>5. CASE RecvStep
  <2> USE DEF FramesOK, AnswerOK
  <2>1. CASE RecvLoop
    <3>1. CASE UNCHANGED <<cur, replay>>
      BY <1>k, <2>1, <3>1 DEF RecvLoop
    <3>2. CASE replay # <<>> /\ cur' = Head(replay) /\ replay' = Tail(replay)
      BY <1>t, <2>1, <3>2 DEF RecvLoop, RecvTypeOK
    <3> QED
      BY <2>1, <3>1, <3>2, Zenon DEF RecvLoop
  <2>2. CASE RecvFrame
    BY <1>t, <2>2 DEF RecvFrame, ModemTypeOK
  <2>3. CASE RecvBad
    BY <1>t, <2>3 DEF RecvBad, ModemTypeOK
  <2>4. CASE RecvTerminate
    BY <1>t, <2>4 DEF RecvTerminate
  <2>5. CASE HandleEvent
    <3>1. CASE replay' = Append(replay, cur)
      BY <1>t, <2>5, <3>1 DEF HandleEvent, RecvTypeOK
    <3>2. CASE replay' = replay
      BY <1>t, <2>5, <3>2 DEF HandleEvent
    <3> QED
      BY <2>5, <3>1, <3>2, Zenon DEF HandleEvent
  <2>6. CASE ErrindSent \/ RecvAgain \/ WriteTable
    BY <1>k, <2>6 DEF ErrindSent, RecvAgain, WriteTable
  <2> QED
    BY <1>5, <2>1, <2>2, <2>3, <2>4, <2>5, <2>6 DEF RecvStep
<1>6. CASE FinStep
  BY <1>k, <1>6 DEF FinStep, FinStart, FinAbort, FinState, FinJoin, FinRelease, FinDelete
<1>7. CASE ModemReply
  <2>1. PICK m \in cmds :
          /\ rx' = Append(rx, [res |-> TRUE, cmdid |-> m.cmdid, transid |-> m.transid, id |-> m.id])
          /\ answered' = answered \cup {m.id}
    BY <1>7 DEF ModemReply
  <2> DEFINE f == [res |-> TRUE, cmdid |-> m.cmdid, transid |-> m.transid, id |-> m.id]
  <2>2. f.id = f.transid /\ f.id \in answered'
    BY <1>t, <2>1 DEF CmdsFollow
  <2>3. rx' = Append(rx, f)
    BY <2>1
  <2> HIDE DEF f
  <2>4. \A i \in DOMAIN rx' :
          rx'[i].res => rx'[i].id = rx'[i].transid /\ rx'[i].id \in answered'
    BY <1>t, <2>1, <2>2, <2>3 DEF FramesOK, AnswerOK, ModemTypeOK
  <2>5. answered \subseteq answered' /\ UNCHANGED <<cur, replay>>
    BY <1>7, <2>1 DEF ModemReply
  <2> QED
    BY <1>t, <2>4, <2>5 DEF FramesOK, AnswerOK
<1>8. CASE ModemEvent
  <2>1. PICK i \in EvtIds, n \in 1..MaxCmds :
          rx' = Append(rx, [res |-> FALSE, cmdid |-> i, transid |-> n, id |-> nevt + 1])
    BY <1>8 DEF ModemEvent
  <2> DEFINE f == [res |-> FALSE, cmdid |-> i, transid |-> n, id |-> nevt + 1]
  <2>2. ~f.res
    OBVIOUS
  <2>3. rx' = Append(rx, f)
    BY <2>1
  <2> HIDE DEF f
  <2> QED
    BY <1>t, <1>8, <2>2, <2>3 DEF ModemEvent, FramesOK, AnswerOK, ModemTypeOK
<1>9. CASE AppReady \/ RecvAgainRequest \/ UNCHANGED vars
  BY <1>k, <1>9 DEF AppReady, RecvAgainRequest
<1> QED
  BY <1>1, <1>2, <1>3, <1>4, <1>5, <1>6, <1>7, <1>8, <1>9 DEF Next

\* g_isinit stays FALSE while apicmdgw_fin runs.
LEMMA FinClosedStep == IInv /\ [Next]_vars => FinClosed'
<1> SUFFICES ASSUME IInv, [Next]_vars PROVE FinClosed'
  OBVIOUS
<1>t. FinClosed
  BY DEF IInv
<1>k. ASSUME UNCHANGED <<fin, isinit>> PROVE FinClosed'
  BY <1>t, <1>k DEF FinClosed
<1>1. CASE GwInit
  BY <1>1 DEF GwInit, FinClosed
<1>2. ASSUME NEW c \in Gated, CallerStep(c) \/ GateStep(c) PROVE FinClosed'
  BY <1>k, <1>2 DEF CallerStep, GateStep, Call, Return, GateInit, Gate, EchoWaitTimeout, Forget
<1>3. ASSUME NEW t \in Threads, SendStep(t) PROVE FinClosed'
  BY <1>k, <1>3 DEF SendStep, Send, AddTable, AddTableHang, Transmit, TransmitFault, Wake,
     WaitTimeout, TakeResult, RemTable, RemTableHang, LockDeleted
<1>4. ASSUME NEW e \in Echoes, EchoStep(e) PROVE FinClosed'
  BY <1>k, <1>4 DEF EchoStep, EchoTry, EchoDone, EchoEnd, Forget
<1>5. CASE RecvStep
  BY <1>k, <1>5 DEF RecvStep, RecvLoop, RecvFrame, RecvBad, ErrindSent, Forget, RecvAgain, RecvTerminate,
     WriteTable, HandleEvent
<1>6. CASE FinStep
  BY <1>t, <1>6, Zenon DEF FinStep, FinStart, FinAbort, FinState, FinJoin, FinRelease,
     FinDelete, FinClosed
<1>7. CASE AppReady \/ RecvAgainRequest \/ ModemReply \/ ModemEvent \/ UNCHANGED vars
  BY <1>k, <1>7 DEF AppReady, RecvAgainRequest, ModemReply, ModemEvent
<1> QED
  BY <1>1, <1>2, <1>3, <1>4, <1>5, <1>6, <1>7 DEF Next

\* The receive task enters no block table and its command has no response buffer.
LEMMA ReceiverStep == IInv /\ [Next]_vars => ReceiverAsync'
<1> SUFFICES ASSUME IInv, [Next]_vars PROVE ReceiverAsync'
  OBVIOUS
<1>t. CallTypeOK /\ WaitersAreSync /\ ReceiverAsync
  BY DEF IInv, TypeOK
<1>n. NoCmd.sync = FALSE
  BY DEF NoCmd
<1>k. ASSUME UNCHANGED tbl, cmd'[Receiver] = cmd[Receiver] PROVE ReceiverAsync'
  BY <1>t, <1>k DEF ReceiverAsync
<1>1. CASE GwInit
  BY <1>k, <1>1 DEF GwInit
<1>2. ASSUME NEW c \in Callers, CallerStep(c) PROVE ReceiverAsync'
  BY <1>t, <1>k, <1>2, ThreadAssumption DEF CallerStep, Call, Return, Forget, CallTypeOK
<1>9. ASSUME NEW c \in Gated, GateStep(c) PROVE ReceiverAsync'
  BY <1>k, <1>9 DEF GateStep, GateInit, Gate, EchoWaitTimeout
<1>3. ASSUME NEW t \in Threads, SendStep(t) PROVE ReceiverAsync'
  <2>1. CASE AddTable(t)
    BY <1>t, <2>1 DEF AddTable, WaitersAreSync, ReceiverAsync
  <2>2. CASE RemTable(t)
    BY <1>t, <2>2 DEF RemTable, ReceiverAsync
  <2>3. CASE ~AddTable(t) /\ ~RemTable(t)
    BY <1>k, <1>3, <2>3 DEF SendStep, Send, AddTableHang, Transmit, TransmitFault, Wake,
       WaitTimeout, TakeResult, RemTableHang, LockDeleted
  <2> QED
    BY <2>1, <2>2, <2>3
<1>4. ASSUME NEW e \in Echoes, EchoStep(e) PROVE ReceiverAsync'
  <2>1. CASE EchoTry(e)
    <3>1. cmd'[Receiver] = cmd[Receiver]
      BY <1>t, <2>1, EchoTryCases, ThreadAssumption DEF CallTypeOK
    <3> QED
      BY <1>k, <2>1, <3>1 DEF EchoTry
  <2>2. CASE EchoDone(e) \/ EchoEnd(e)
    BY <1>t, <1>k, <2>2, ThreadAssumption DEF EchoDone, EchoEnd, Forget, CallTypeOK
  <2> QED
    BY <1>4, <2>1, <2>2 DEF EchoStep
<1>5. CASE RecvStep
  <2>1. CASE RecvBad
    <3>1. NewCmd("ERRIND", FALSE, TRUE).sync = FALSE
      BY DEF NewCmd
    <3>2. cmd' = cmd \/ cmd' = [cmd EXCEPT ![Receiver] = NewCmd("ERRIND", FALSE, TRUE)]
      BY <2>1 DEF RecvBad
    <3> QED
      BY <1>t, <2>1, <3>1, <3>2 DEF RecvBad, ReceiverAsync, CallTypeOK
  <2>2. CASE ErrindSent
    BY <1>t, <1>n, <2>2 DEF ErrindSent, Forget, ReceiverAsync, CallTypeOK
  <2>3. CASE ~RecvBad /\ ~ErrindSent
    BY <1>k, <1>5, <2>3 DEF RecvStep, RecvLoop, RecvFrame, RecvAgain, RecvTerminate,
       WriteTable, HandleEvent
  <2> QED
    BY <2>1, <2>2, <2>3
<1>6. CASE FinStep
  BY <1>k, <1>6 DEF FinStep, FinStart, FinAbort, FinState, FinJoin, FinRelease, FinDelete
<1>7. CASE AppReady \/ RecvAgainRequest \/ ModemReply \/ ModemEvent \/ UNCHANGED vars
  BY <1>k, <1>7 DEF AppReady, RecvAgainRequest, ModemReply, ModemEvent
<1> QED
  BY <1>1, <1>2, <1>3, <1>4, <1>5, <1>6, <1>7, <1>9 DEF Next

\* A waiter's semaphore is posted with its own response written, with -ENOSPC,
\* or when the gateway is being finalized (writetable, relcondwaitall).
LEMMA PostedStep == IInv /\ [Next]_vars => PostedWithResult'
<1> SUFFICES ASSUME IInv, [Next]_vars PROVE PostedWithResult'
  OBVIOUS
<1>t. TypeOK /\ CallTypeOK /\ PcTypeOK /\ PostedWithResult
  BY DEF IInv, TypeOK
<1> USE DEF PostedWithResult, Own
<1>1. CASE GwInit
  BY <1>t, <1>1 DEF GwInit, DeadPCs
<1>2. ASSUME NEW c \in Gated, CallerStep(c) \/ GateStep(c) PROVE PostedWithResult'
  BY <1>t, <1>2 DEF CallerStep, GateStep, Call, Return, GateInit, Gate, EchoWaitTimeout, Forget, CallTypeOK, PcTypeOK
<1>3. ASSUME NEW t \in Threads, SendStep(t) PROVE PostedWithResult'
  BY <1>t, <1>3 DEF CallTypeOK, PcTypeOK, SendStep, Send, AddTable, AddTableHang, Transmit,
     TransmitFault, Wake, WaitTimeout, TakeResult, RemTable, RemTableHang, LockDeleted
<1>4. ASSUME NEW e \in Echoes, EchoStep(e) PROVE PostedWithResult'
  <2>1. CASE EchoTry(e)
    BY <1>t, <2>1, EchoTryCases DEF EchoTry, CallTypeOK, PcTypeOK
  <2>2. CASE EchoDone(e)
    <3>1. \A t \in Threads \ {e} :
            cmd'[t] = cmd[t] /\ sem'[t] = sem[t] /\ result'[t] = result[t] /\ got'[t] = got[t]
      BY <1>t, <2>2 DEF EchoDone, Forget, CallTypeOK
    <3>2. \A t \in Threads \ {e} :
            pc'[t] = pc[t] \/ (pc[t] = "echoWait" /\ pc'[t] = "gate")
      BY <1>t, <2>2 DEF EchoDone, Broadcast, PcTypeOK
    <3>3. pc'[e] \in {"end", "loop"} /\ isinit' = isinit /\ answered' = answered
      BY <1>t, <2>2 DEF EchoDone, Broadcast, PcTypeOK
    <3> QED
      BY <1>t, <3>1, <3>2, <3>3
  <2>3. CASE EchoEnd(e)
    <3>1. \A t \in Threads \ {e} :
            pc'[t] = pc[t] \/ (pc[t] = "echoWait" /\ pc'[t] = "gate")
      BY <1>t, <2>3 DEF EchoEnd, Broadcast, PcTypeOK
    <3>2. /\ pc'[e] = "none" /\ isinit' = isinit
          /\ UNCHANGED <<cmd, sem, result, got, answered>>
      BY <1>t, <2>3 DEF EchoEnd, Broadcast, PcTypeOK
    <3> QED
      BY <1>t, <3>1, <3>2
  <2> QED
    BY <1>4, <2>1, <2>2, <2>3 DEF EchoStep
<1>5. CASE RecvStep
  <2>1. CASE WriteTable
    <3>1. PICK t \in Waiters(cur) :
            /\ \/ /\ result' = [result EXCEPT ![t] = "OK"]
                  /\ got' = [got EXCEPT ![t] = cur.id]
               \/ /\ result' = [result EXCEPT ![t] = "ENOSPC"]
                  /\ UNCHANGED got
            /\ sem' = [sem EXCEPT ![t] = 1]
      BY <2>1 DEF WriteTable
    <3>2. t \in Threads /\ cur.id = cmd[t].id /\ cur.id \in answered
      BY <1>t, <3>1 DEF Waiters, Matches, IInv, FramesOK, AnswerOK, CmdsFollow, CallTypeOK
    <3>3. UNCHANGED <<pc, cmd, answered, isinit>>
      BY <2>1 DEF WriteTable
    <3> QED
      BY <1>t, <3>1, <3>2, <3>3 DEF CallTypeOK
  <2>2. CASE ErrindSent
    BY <1>t, <2>2 DEF ErrindSent, Forget, CallTypeOK, PcTypeOK
  <2>3. CASE ~WriteTable /\ ~ErrindSent
    <3>1. UNCHANGED <<sem, result, got>>
      BY <1>5, <2>3 DEF RecvStep, RecvLoop, RecvFrame, RecvBad, RecvAgain, RecvTerminate, HandleEvent
    <3> QED
      BY <1>t, <1>5, <3>1, RecvSteps DEF CallTypeOK
  <2> QED
    BY <2>1, <2>2, <2>3
<1>6. CASE FinStep
  <2>1. CASE FinState
    BY <1>t, <2>1 DEF FinState, Broadcast, PcTypeOK
  <2>2. CASE FinRelease
    BY <1>t, <2>2 DEF FinRelease, IInv, FinClosed
  <2>3. CASE FinStart \/ FinAbort \/ FinJoin \/ FinDelete
    BY <1>t, <2>3 DEF FinStart, FinAbort, FinJoin, FinDelete
  <2> QED
    BY <1>6, <2>1, <2>2, <2>3 DEF FinStep
<1>7. CASE AppReady \/ RecvAgainRequest \/ ModemReply \/ ModemEvent \/ UNCHANGED vars
  BY <1>t, <1>7 DEF AppReady, RecvAgainRequest, ModemReply, ModemEvent
<1> QED
  BY <1>1, <1>2, <1>3, <1>4, <1>5, <1>6, <1>7 DEF Next

\* A call that is about to succeed holds its own response.
LEMMA SuccessStep == IInv /\ [Next]_vars => SuccessIsOwn'
<1> SUFFICES ASSUME IInv, [Next]_vars PROVE SuccessIsOwn'
  OBVIOUS
<1>t. TypeOK /\ CallTypeOK /\ PcTypeOK /\ SuccessIsOwn
  BY DEF IInv, TypeOK
<1> USE DEF SuccessIsOwn, Own
<1>1. CASE GwInit
  BY <1>t, <1>1 DEF GwInit
<1>2. ASSUME NEW c \in Gated, CallerStep(c) \/ GateStep(c) PROVE SuccessIsOwn'
  <2>1. CASE Call(c)
    BY <1>t, <2>1 DEF Call, CallTypeOK, PcTypeOK
  <2>2. CASE ~Call(c)
    BY <1>t, <1>2, <2>2 DEF CallerStep, GateStep, Return, GateInit, Gate, EchoWaitTimeout, Forget,
       CallTypeOK, PcTypeOK
  <2> QED
    BY <2>1, <2>2
<1>3. ASSUME NEW t \in Threads, SendStep(t) PROVE SuccessIsOwn'
  <2>1. CASE TakeResult(t)
    <3>1. ret'[t] = "OK" => isinit /\ result[t] = "OK"
      BY <1>t, <2>1 DEF TakeResult, CallTypeOK
    <3>2. \A u \in Threads \ {t} : pc'[u] = pc[u] /\ ret'[u] = ret[u]
      BY <1>t, <2>1 DEF TakeResult, PcTypeOK, CallTypeOK
    <3>3. pc[t] = "woken" /\ UNCHANGED <<cmd, got, answered>>
      BY <2>1 DEF TakeResult
    <3> QED
      BY <1>t, <3>1, <3>2, <3>3 DEF IInv, PostedWithResult
  <2>2. CASE ~TakeResult(t)
    BY <1>t, <1>3, <2>2 DEF CallTypeOK, PcTypeOK, SendStep, Send, AddTable, AddTableHang,
       Transmit, TransmitFault, Wake, WaitTimeout, RemTable, RemTableHang, LockDeleted
  <2> QED
    BY <2>1, <2>2
<1>4. ASSUME NEW e \in Echoes, EchoStep(e) PROVE SuccessIsOwn'
  <2>1. CASE EchoTry(e)
    BY <1>t, <2>1, EchoTryCases DEF EchoTry, CallTypeOK, PcTypeOK
  <2>2. CASE EchoDone(e)
    <3>1. \A t \in Threads \ {e} :
            cmd'[t] = cmd[t] /\ ret'[t] = ret[t] /\ got'[t] = got[t]
      BY <1>t, <2>2 DEF EchoDone, Forget, CallTypeOK
    <3>2. \A t \in Threads \ {e} :
            pc'[t] = pc[t] \/ (pc[t] = "echoWait" /\ pc'[t] = "gate")
      BY <1>t, <2>2 DEF EchoDone, Broadcast, PcTypeOK
    <3>3. pc'[e] \in {"end", "loop"} /\ answered' = answered
      BY <1>t, <2>2 DEF EchoDone, Broadcast, PcTypeOK
    <3> QED
      BY <1>t, <3>1, <3>2, <3>3
  <2>3. CASE EchoEnd(e)
    <3>1. \A t \in Threads \ {e} :
            pc'[t] = pc[t] \/ (pc[t] = "echoWait" /\ pc'[t] = "gate")
      BY <1>t, <2>3 DEF EchoEnd, Broadcast, PcTypeOK
    <3>2. pc'[e] = "none" /\ UNCHANGED <<cmd, ret, got, answered>>
      BY <1>t, <2>3 DEF EchoEnd, Broadcast, PcTypeOK
    <3> QED
      BY <1>t, <3>1, <3>2
  <2> QED
    BY <1>4, <2>1, <2>2, <2>3 DEF EchoStep
<1>5. CASE RecvStep
  <2>1. CASE WriteTable
    <3>1. PICK t \in Waiters(cur) : got' = [got EXCEPT ![t] = cur.id] \/ got' = got
      BY <2>1 DEF WriteTable
    <3>2. t \in Threads /\ cur.id = cmd[t].id /\ cur.id \in answered
      BY <1>t, <3>1 DEF Waiters, Matches, IInv, FramesOK, AnswerOK, CmdsFollow, CallTypeOK
    <3>3. UNCHANGED <<pc, cmd, ret, answered>>
      BY <2>1 DEF WriteTable
    <3> QED
      BY <1>t, <3>1, <3>2, <3>3 DEF CallTypeOK
  <2>2. CASE ErrindSent
    BY <1>t, <2>2 DEF ErrindSent, Forget, CallTypeOK, PcTypeOK
  <2>3. CASE ~WriteTable /\ ~ErrindSent
    <3>1. UNCHANGED got
      BY <1>5, <2>3 DEF RecvStep, RecvLoop, RecvFrame, RecvBad, RecvAgain, RecvTerminate, HandleEvent
    <3> QED
      BY <1>t, <1>5, <3>1, RecvSteps DEF CallTypeOK
  <2> QED
    BY <2>1, <2>2, <2>3
<1>6. CASE FinStep
  BY <1>t, <1>6 DEF FinStep, FinStart, FinAbort, FinState, FinJoin, FinRelease, FinDelete,
     Broadcast, PcTypeOK
<1>7. CASE AppReady \/ RecvAgainRequest \/ ModemReply \/ ModemEvent \/ UNCHANGED vars
  BY <1>t, <1>7 DEF AppReady, RecvAgainRequest, ModemReply, ModemEvent
<1> QED
  BY <1>1, <1>2, <1>3, <1>4, <1>5, <1>6, <1>7 DEF Next

\* An echo task that is still trying did not exceed ECHO_RETRYCNT.
LEMMA RetryStep == IInv /\ [Next]_vars => RetryBound'
<1> SUFFICES ASSUME IInv, [Next]_vars PROVE RetryBound'
  OBVIOUS
<1>t. TypeOK /\ CallTypeOK /\ PcTypeOK /\ RetryBound /\ EchoRetryCnt \in Nat
  BY EchoAssumption DEF IInv, TypeOK
<1> USE DEF RetryBound, DeadPCs
<1>1. CASE GwInit
  BY <1>t, <1>1 DEF GwInit
<1>2. ASSUME NEW c \in Gated, CallerStep(c) \/ GateStep(c) PROVE RetryBound'
  <2>1. CASE GateInit(c)
    BY <1>t, <2>1 DEF GateInit, CallTypeOK, PcTypeOK
  <2>2. CASE ~GateInit(c)
    <3>1. UNCHANGED retry /\ \A e \in Echoes : pc'[e] = pc[e]
      BY <1>t, <1>2, <2>2, ThreadAssumption DEF CallerStep, GateStep, Call, Return, Gate,
         EchoWaitTimeout, PcTypeOK
    <3> QED
      BY <1>t, <3>1
  <2> QED
    BY <2>1, <2>2
<1>3. ASSUME NEW t \in Threads, SendStep(t) PROVE RetryBound'
  <2>1. UNCHANGED retry /\ pc[t] \notin {"none", "end"} \cup DeadPCs
    BY <1>t, <1>3 DEF SendStep, Send, AddTable, AddTableHang, Transmit, TransmitFault, Wake,
       WaitTimeout, TakeResult, RemTable, RemTableHang, LockDeleted
  <2>2. \A e \in Echoes : e # t => pc'[e] = pc[e]
    BY <1>t, <1>3 DEF SendStep, Send, AddTable, AddTableHang, Transmit, TransmitFault, Wake,
       WaitTimeout, TakeResult, RemTable, RemTableHang, LockDeleted, PcTypeOK
  <2> QED
    BY <1>t, <2>1, <2>2
<1>4. ASSUME NEW e \in Echoes, EchoStep(e) PROVE RetryBound'
  <2>1. CASE EchoTry(e)
    <3>1. retry' = [retry EXCEPT ![e] = retry[e] + 1] /\ retry[e] \in Nat
      BY <1>t, <2>1 DEF EchoTry, CallTypeOK
    <3>0. EchoRetryCnt > retry[e] \/ pc' = [pc EXCEPT ![e] = "end"]
      BY <2>1, Zenon DEF EchoTry
    <3>2. retry[e] + 1 <= EchoRetryCnt \/ pc'[e] = "end"
      BY <1>t, <3>0, <3>1 DEF PcTypeOK
    <3>3. \A u \in Echoes \ {e} : pc'[u] = pc[u]
      BY <1>t, <2>1, EchoTryCases DEF PcTypeOK
    <3> QED
      BY <1>t, <3>1, <3>2, <3>3 DEF CallTypeOK
  <2>2. CASE EchoDone(e)
    <3>1. \A u \in Echoes \ {e} : pc'[u] = pc[u]
      BY <1>t, <2>2 DEF EchoDone, Broadcast, PcTypeOK, CallerPCs
    <3>2. UNCHANGED retry /\ pc[e] = "done"
      BY <2>2 DEF EchoDone
    <3> QED
      BY <1>t, <3>1, <3>2
  <2>3. CASE EchoEnd(e)
    BY <1>t, <2>3 DEF EchoEnd, Broadcast, PcTypeOK, CallerPCs
  <2> QED
    BY <1>4, <2>1, <2>2, <2>3 DEF EchoStep
<1>5. CASE RecvStep
  BY <1>t, <1>5, RecvSteps, ThreadAssumption DEF CallTypeOK
<1>6. CASE FinStep
  BY <1>t, <1>6 DEF FinStep, FinStart, FinAbort, FinState, FinJoin, FinRelease, FinDelete,
     Broadcast, PcTypeOK, CallerPCs
<1>7. CASE AppReady \/ RecvAgainRequest \/ ModemReply \/ ModemEvent \/ UNCHANGED vars
  BY <1>t, <1>7 DEF AppReady, RecvAgainRequest, ModemReply, ModemEvent
<1> QED
  BY <1>1, <1>2, <1>3, <1>4, <1>5, <1>6, <1>7 DEF Next

-----------------------------------------------------------------------------
(* The theorems *)

\* IInv holds in every reachable state.
THEOREM Invariance == Spec => []IInv
<1>1. IInv /\ [Next]_vars => IInv'
  BY TypeStep, IdsStep, SendNumberedStep, FramesStep, TableStep, PostedStep, SuccessStep,
     FinClosedStep, RetryStep, ReceiverStep DEF IInv
<1> QED
  BY <1>1, InitInv, PTL DEF Spec

\* Every variable keeps its type; in particular transaction ids stay within 16
\* bits and the wait semaphores are binary.
THEOREM TypeCorrect == Spec => []TypeOK
<1>1. IInv => TypeOK
  BY DEF IInv
<1> QED
  BY <1>1, Invariance, PTL

\* A synchronous call that succeeds returns the modem's response to it.
THEOREM AnswerCorrect == Spec => []AnswerIsOwn
<1>1. IInv => AnswerIsOwn
  BY DEF IInv, SuccessIsOwn, AnswerIsOwn, Own
<1> QED
  BY <1>1, Invariance, PTL

\* The wait table holds exactly the calls that wait for a response.
THEOREM TableCorrect == Spec => []TableMatchesWaiters
<1>1. IInv => TableMatchesWaiters
  BY DEF IInv
<1> QED
  BY <1>1, Invariance, PTL

\* No application command passes the gate before the echo was answered.
THEOREM EchoGateCorrect == Spec => []EchoGate
<1> USE DEF EchoGate, SendPCs
<1>1. Init => EchoGate
  BY DEF Init
<1>2. PcTypeOK /\ EchoGate /\ [Next]_vars => EchoGate'
  <2> SUFFICES ASSUME PcTypeOK, EchoGate, [Next]_vars PROVE EchoGate'
    OBVIOUS
  <2> USE DEF PcTypeOK
  <2>1. CASE GwInit
    BY <2>1, ThreadAssumption DEF GwInit, DeadPCs
  <2>2. ASSUME NEW c \in Gated, CallerStep(c) \/ GateStep(c) PROVE EchoGate'
    BY <2>2, ThreadAssumption DEF CallerStep, GateStep, Call, Return, GateInit, Gate, EchoWaitTimeout
  <2>3. ASSUME NEW t \in Threads, SendStep(t) PROVE EchoGate'
    BY <2>3 DEF SendStep, Send, AddTable, AddTableHang, Transmit, TransmitFault, Wake,
       WaitTimeout, TakeResult, RemTable, RemTableHang, LockDeleted
  <2>4. ASSUME NEW e \in Echoes, EchoStep(e) PROVE EchoGate'
    <3>1. CASE EchoTry(e)
      BY <3>1, EchoTryCases, ThreadAssumption DEF EchoTry
    <3>2. CASE EchoDone(e)
      <4>1. \A c \in Gated : pc'[c] = pc[c] \/ (pc[c] = "echoWait" /\ pc'[c] = "gate")
        BY <3>2, ThreadAssumption DEF EchoDone, Broadcast
      <4>2. gwState' = gwState \/ gwState' = "ECHO_COMPLETED"
        BY <3>2 DEF EchoDone
      <4> QED
        BY <4>1, <4>2
    <3>3. CASE EchoEnd(e)
      <4>1. \A c \in Gated : pc'[c] = pc[c] \/ (pc[c] = "echoWait" /\ pc'[c] = "gate")
        BY <3>3, ThreadAssumption DEF EchoEnd, Broadcast
      <4>2. gwState' = gwState \/ gwState' = "FIN"
        BY <3>3 DEF EchoEnd
      <4> QED
        BY <4>1, <4>2
    <3> QED
      BY <2>4, <3>1, <3>2, <3>3 DEF EchoStep
  <2>5. CASE RecvStep
    BY <2>5 DEF RecvStep, RecvLoop, RecvFrame, RecvBad, ErrindSent, Forget, RecvAgain, RecvTerminate,
       WriteTable, HandleEvent
  <2>6. CASE FinStep
    BY <2>6 DEF FinStep, FinStart, FinAbort, FinState, FinJoin, FinRelease, FinDelete
  <2>7. CASE AppReady \/ RecvAgainRequest \/ ModemReply \/ ModemEvent \/ UNCHANGED vars
    BY <2>7 DEF AppReady, RecvAgainRequest, ModemReply, ModemEvent
  <2> QED
    BY <2>1, <2>2, <2>3, <2>4, <2>5, <2>6, <2>7 DEF Next
<1>3. TypeOK => PcTypeOK
  BY DEF TypeOK
<1> QED
  BY <1>1, <1>2, <1>3, TypeCorrect, PTL DEF Spec

\* The gate is opened only by an echo that got the modem's answer to it.
EchoCmds == \A e \in Echoes : pc[e] \in SendPCs => cmd[e].cmdid = "ECHO" /\ cmd[e].sync

\* What an echo task sends is an echo command with a response buffer.
LEMMA EchoCmdsCorrect == Spec => []EchoCmds
<1> USE DEF EchoCmds, SendPCs
<1>1. Init => EchoCmds
  BY ThreadAssumption DEF Init
<1>2. IInv /\ EchoCmds /\ [Next]_vars => EchoCmds'
  <2> SUFFICES ASSUME IInv, EchoCmds, [Next]_vars PROVE EchoCmds'
    OBVIOUS
  <2>t. TypeOK /\ PcTypeOK /\ CallTypeOK /\ IdsFollow
    BY DEF IInv, TypeOK
  <2>1. CASE GwInit
    BY <2>1 DEF GwInit
  <2>2. ASSUME NEW c \in Gated, CallerStep(c) \/ GateStep(c) PROVE EchoCmds'
    <3>1. \A e \in Echoes : cmd'[e] = cmd[e] /\ (pc'[e] = pc[e] \/ pc'[e] = "loop")
      BY <2>t, <2>2, ThreadAssumption DEF CallerStep, GateStep, Call, Return, Forget, GateInit, Gate,
         EchoWaitTimeout, PcTypeOK, CallTypeOK
    <3> QED
      BY <3>1
  <2>3. ASSUME NEW t \in Threads, SendStep(t) PROVE EchoCmds'
    BY <2>t, <2>3 DEF SendStep, Send, AddTable, AddTableHang, Transmit, TransmitFault, Wake,
       WaitTimeout, TakeResult, RemTable, RemTableHang, LockDeleted, PcTypeOK
  <2>4. ASSUME NEW e \in Echoes, EchoStep(e) PROVE EchoCmds'
    <3>1. CASE EchoTry(e) /\ DrawTransId /\ cmd' = [cmd EXCEPT ![e] = NewCmd("ECHO", TRUE, FALSE)]
      <4>1. NewCmd("ECHO", TRUE, FALSE).cmdid = "ECHO" /\ NewCmd("ECHO", TRUE, FALSE).sync
        BY DEF NewCmd
      <4> QED
        BY <2>t, <3>1, <4>1, EchoTryCases DEF PcTypeOK, CallTypeOK
    <3>2. CASE cmd' = cmd /\ (pc' = pc \/ pc' = [pc EXCEPT ![e] = "end"])
      BY <2>t, <3>2 DEF PcTypeOK
    <3>3. CASE EchoDone(e)
      <4>1. \A u \in Echoes \ {e} : pc'[u] = pc[u] /\ cmd'[u] = cmd[u]
        BY <2>t, <3>3 DEF EchoDone, Broadcast, Forget, PcTypeOK, CallTypeOK, CallerPCs
      <4>2. pc'[e] \in {"end", "loop"}
        BY <2>t, <3>3 DEF EchoDone, Broadcast, PcTypeOK
      <4> QED
        BY <4>1, <4>2
    <3>4. CASE EchoEnd(e)
      BY <2>t, <3>4 DEF EchoEnd, Broadcast, PcTypeOK, CallerPCs
    <3> QED
      BY <2>4, <3>1, <3>2, <3>3, <3>4, EchoTryCases DEF EchoStep
  <2>5. CASE RecvStep
    BY <2>t, <2>5, RecvSteps, ThreadAssumption DEF CallTypeOK
  <2>6. CASE FinStep
    BY <2>t, <2>6 DEF FinStep, FinStart, FinAbort, FinState, FinJoin, FinRelease, FinDelete,
       Broadcast, PcTypeOK
  <2>7. CASE AppReady \/ RecvAgainRequest \/ ModemReply \/ ModemEvent \/ UNCHANGED vars
    BY <2>7 DEF AppReady, RecvAgainRequest, ModemReply, ModemEvent
  <2> QED
    BY <2>1, <2>2, <2>3, <2>4, <2>5, <2>6, <2>7 DEF Next
<1> QED
  BY <1>1, <1>2, Invariance, PTL DEF Spec

\* The gate is opened only by an echo that got the modem's answer to it, or by
\* apicmdgw_init when the echo is bypassed.
THEOREM GateOpensCorrect == Spec => GateOpensOnEcho
<1> DEFINE A == gwState # "ECHO_COMPLETED" /\ gwState' = "ECHO_COMPLETED" =>
                  BypassEcho \/ \E e \in Echoes : /\ cmd[e].cmdid = "ECHO"
                                                 /\ got[e] = cmd[e].id
                                                 /\ got[e] \in answered
<1>1. IInv /\ EchoCmds /\ [Next]_vars => [A]_vars
  <2> SUFFICES ASSUME IInv, EchoCmds, Next PROVE A
    OBVIOUS
  <2>k. ASSUME gwState' = gwState PROVE A
    BY <2>k
  <2>1. CASE GwInit
    <3>1. gwState' = "ECHO_COMPLETED" => BypassEcho
      BY <2>1, Zenon DEF GwInit
    <3> QED
      BY <3>1
  <2>2. ASSUME NEW c \in Gated, CallerStep(c) \/ GateStep(c) PROVE A
    BY <2>2 DEF CallerStep, GateStep, Call, Return, GateInit, Gate, EchoWaitTimeout
  <2>3. ASSUME NEW t \in Threads, SendStep(t) PROVE A
    BY <2>k, <2>3 DEF SendStep, Send, AddTable, AddTableHang, Transmit, TransmitFault, Wake,
       WaitTimeout, TakeResult, RemTable, RemTableHang, LockDeleted
  <2>4. ASSUME NEW e \in Echoes, EchoStep(e) PROVE A
    <3>1. CASE EchoDone(e)
      <4>1. ret[e] = "OK" \/ gwState' = gwState
        BY <3>1 DEF EchoDone
      <4>2. cmd[e].cmdid = "ECHO" /\ cmd[e].sync /\ pc[e] = "done" /\ e \in Threads
        BY <3>1 DEF EchoDone, EchoCmds, SendPCs
      <4>3. ret[e] = "OK" => got[e] = cmd[e].id /\ got[e] \in answered
        BY <4>2 DEF IInv, SuccessIsOwn, Own
      <4> QED
        BY <2>k, <4>1, <4>2, <4>3
    <3>2. CASE EchoTry(e) \/ EchoEnd(e)
      BY <3>2 DEF EchoTry, EchoEnd
    <3> QED
      BY <2>4, <3>1, <3>2 DEF EchoStep
  <2>5. CASE RecvStep
    BY <2>k, <2>5 DEF RecvStep, RecvLoop, RecvFrame, RecvBad, ErrindSent, Forget, RecvAgain, RecvTerminate,
       WriteTable, HandleEvent
  <2>6. CASE FinStep
    BY <2>6 DEF FinStep, FinStart, FinAbort, FinState, FinJoin, FinRelease, FinDelete
  <2>7. CASE AppReady \/ RecvAgainRequest \/ ModemReply \/ ModemEvent
    BY <2>k, <2>7 DEF AppReady, RecvAgainRequest, ModemReply, ModemEvent
  <2> QED
    BY <2>1, <2>2, <2>3, <2>4, <2>5, <2>6, <2>7 DEF Next
<1> QED
  BY <1>1, Invariance, EchoCmdsCorrect, PTL DEF Spec, GateOpensOnEcho

\* apicmdgw_fin destroys the table's mutex and forgets the HAL only after the
\* receive task ended.
JoinInv == (~live \/ fin \in {"release", "delete"}) => ~IsTaskRun

\* The receive task does not run once its mutex and HAL are gone: apicmdgw_fin
\* waits for g_isTaskRun to be cleared.
THEOREM FinJoinsCorrect == Spec => []FinJoinsReceiver
<1> USE DEF JoinInv, IsTaskRun
<1>1. Init => JoinInv
  BY DEF Init
<1>2. JoinInv /\ [Next]_vars => JoinInv'
  <2> SUFFICES ASSUME JoinInv, [Next]_vars PROVE JoinInv'
    OBVIOUS
  <2>k. ASSUME UNCHANGED <<live, fin, rcv>> PROVE JoinInv'
    BY <2>k
  <2>1. CASE GwInit
    <3>1. live' /\ fin' = "idle"
      BY <2>1 DEF GwInit
    <3> QED
      BY <3>1
  <2>2. ASSUME NEW c \in Gated, CallerStep(c) \/ GateStep(c) PROVE JoinInv'
    BY <2>k, <2>2 DEF CallerStep, GateStep, Call, Return, GateInit, Gate, EchoWaitTimeout
  <2>3. ASSUME NEW t \in Threads, SendStep(t) PROVE JoinInv'
    BY <2>k, <2>3 DEF SendStep, Send, AddTable, AddTableHang, Transmit, TransmitFault, Wake,
       WaitTimeout, TakeResult, RemTable, RemTableHang, LockDeleted
  <2>4. ASSUME NEW e \in Echoes, EchoStep(e) PROVE JoinInv'
    BY <2>k, <2>4 DEF EchoStep, EchoTry, EchoDone, EchoEnd
  <2>5. CASE RecvStep
    <3>1. IsTaskRun /\ UNCHANGED <<live, fin>>
      BY <2>5 DEF RecvStep, RecvLoop, RecvFrame, RecvBad, ErrindSent, Forget, RecvAgain, RecvTerminate,
         WriteTable, HandleEvent
    <3> QED
      BY <3>1
  <2>6. CASE FinStep
    BY <2>6 DEF FinStep, FinStart, FinAbort, FinState, FinJoin, FinRelease, FinDelete
  <2>7. CASE AppReady \/ RecvAgainRequest \/ ModemReply \/ ModemEvent \/ UNCHANGED vars
    BY <2>k, <2>7 DEF AppReady, RecvAgainRequest, ModemReply, ModemEvent
  <2> QED
    BY <2>1, <2>2, <2>3, <2>4, <2>5, <2>6, <2>7 DEF Next
<1>3. JoinInv => FinJoinsReceiver
  BY DEF FinJoinsReceiver
<1> QED
  BY <1>1, <1>2, <1>3, PTL DEF Spec

-----------------------------------------------------------------------------
(* Events: their order, and those held back *)

Postponable(f) == f.cmdid \in PostponableIds
IsEvent(f)     == f.res = FALSE

\* Two events of one kind, the first one sent before the second.
Before(f, g) == (Postponable(f) <=> Postponable(g)) => f.id < g.id

\* Nothing is let through before altcom_app_ready, and then the postponed
\* events come before those of the HAL.
PostponeInv ==
  /\ ckSem = 1 => ready # "no"
  /\ ready = "no" /\ rcv # "none" => postpone \/ PostponableIds = {}
  /\ rcv = "none" => disp = <<>>
  /\ postpone => \A i \in DOMAIN disp : ~Postponable(disp[i])
  /\ \A i \in DOMAIN replay : IsEvent(replay[i]) /\ Postponable(replay[i])
  /\ rcv = "recv" /\ ~postpone => replay = <<>>

\* The events on their way, each place behind the one before it: dispatched,
\* in hand (from the replay list), postponed, in hand (from the HAL), received.
RxOrder ==
  /\ \A i, j \in DOMAIN rx : i < j /\ IsEvent(rx[i]) /\ IsEvent(rx[j]) => Before(rx[i], rx[j])
  /\ \A i \in DOMAIN rx : IsEvent(rx[i]) => rx[i].id <= nevt

ReplayOrder ==
  /\ \A i, j \in DOMAIN replay : i < j => replay[i].id < replay[j].id
  /\ \A i \in DOMAIN replay : replay[i].id <= nevt
  /\ \A i \in DOMAIN replay, j \in DOMAIN rx : IsEvent(rx[j]) => Before(replay[i], rx[j])

DispOrder ==
  /\ EventOrder
  /\ \A i \in DOMAIN disp : disp[i].id <= nevt
  /\ \A i \in DOMAIN disp, j \in DOMAIN replay : Before(disp[i], replay[j])
  /\ \A i \in DOMAIN disp, j \in DOMAIN rx : IsEvent(rx[j]) => Before(disp[i], rx[j])

CurOrder ==
  rcv = "frame" /\ IsEvent(cur) =>
    /\ cur.id <= nevt
    /\ \A i \in DOMAIN disp : Before(disp[i], cur)
    /\ \A i \in DOMAIN replay : IF postpone THEN Before(replay[i], cur) ELSE Before(cur, replay[i])
    /\ \A i \in DOMAIN rx : IsEvent(rx[i]) => Before(cur, rx[i])

EventInv == PostponeInv /\ RxOrder /\ ReplayOrder /\ DispOrder /\ CurOrder

eventVars == <<rcv, cur, postpone, replay, disp, rx, nevt, ckSem, ready>>

\* Where the elements of a sequence are after Append and Tail.
LEMMA AppendAt ==
  ASSUME NEW S, NEW s \in Seq(S), NEW x \in S
  PROVE  \A i \in DOMAIN Append(s, x) :
           \/ i \in DOMAIN s /\ Append(s, x)[i] = s[i]
           \/ (\A j \in DOMAIN Append(s, x) : ~(i < j)) /\ Append(s, x)[i] = x
OBVIOUS

LEMMA TailAt ==
  ASSUME NEW S, NEW s \in Seq(S), s # <<>>
  PROVE  /\ 1 \in DOMAIN s /\ Head(s) = s[1]
         /\ \A i \in DOMAIN Tail(s) :
              i \in Int /\ i + 1 \in DOMAIN s /\ 1 < i + 1 /\ Tail(s)[i] = s[i + 1]
OBVIOUS

LEMMA EventStay == EventInv /\ UNCHANGED eventVars => EventInv'
BY DEF EventInv, eventVars, PostponeInv, RxOrder, ReplayOrder, DispOrder, EventOrder, CurOrder,
       Postponable, IsEvent, Before

LEMMA LoopEvents == TypeOK /\ EventInv /\ RecvLoop => EventInv'
<1> SUFFICES ASSUME TypeOK, EventInv, RecvLoop PROVE EventInv'
  OBVIOUS
<1>t. /\ replay \in Seq(FrameType) /\ ckSem \in {0, 1}
  BY DEF TypeOK, RecvTypeOK, GateTypeOK
<1>u. /\ rcv = "idle" /\ UNCHANGED <<disp, rx, nevt, ckSem, ready>>
      /\ postpone' = (postpone /\ ckSem = 0)
  BY DEF RecvLoop
<1>1. CASE postpone' \/ replay = <<>>
  <2>1. rcv' = "recv" /\ UNCHANGED <<cur, replay>>
    BY <1>1, <1>u DEF RecvLoop
  <2>2. PostponeInv'
    BY <1>t, <1>u, <1>1, <2>1 DEF EventInv, PostponeInv, Postponable, IsEvent
  <2>3. RxOrder' /\ ReplayOrder' /\ DispOrder'
    BY <1>u, <2>1 DEF EventInv, RxOrder, ReplayOrder, DispOrder, EventOrder, IsEvent, Before, Postponable
  <2> QED
    BY <2>1, <2>2, <2>3 DEF EventInv, CurOrder
<1>2. CASE ~postpone' /\ replay # <<>>
  <2>1. rcv' = "frame" /\ cur' = replay[1] /\ replay' = Tail(replay)
    <3>1. ~(postpone /\ ckSem = 0)
      BY <1>2, <1>u
    <3>2. rcv' = "frame" /\ cur' = Head(replay) /\ replay' = Tail(replay)
      BY <1>2, <3>1, Zenon DEF RecvLoop
    <3> QED
      BY <1>2, <1>t, <3>2, TailAt
  <2>2. /\ 1 \in DOMAIN replay
        /\ \A i \in DOMAIN replay' : /\ i \in Int /\ i + 1 \in DOMAIN replay /\ 1 < i + 1
                                     /\ replay'[i] = replay[i + 1]
    BY <1>t, <1>2, <2>1, TailAt
  <2>3. PostponeInv'
    BY <1>t, <1>u, <1>2, <2>1, <2>2 DEF EventInv, PostponeInv, Postponable, IsEvent
  <2>4. ReplayOrder'
    BY <1>u, <2>2 DEF EventInv, ReplayOrder, IsEvent, Before, Postponable
  <2>5. RxOrder' /\ DispOrder'
    BY <1>u, <2>2 DEF EventInv, RxOrder, DispOrder, EventOrder, IsEvent, Before, Postponable
  <2>6. CurOrder'
    BY <1>u, <1>2, <2>1, <2>2
       DEF EventInv, ReplayOrder, DispOrder, CurOrder, IsEvent, Before, Postponable
  <2> QED
    BY <2>3, <2>4, <2>5, <2>6 DEF EventInv
<1> QED
  BY <1>1, <1>2

\* A frame that the HAL delivers, a bad one included, is the first of rx.
LEMMA TakenEvents == TypeOK /\ EventInv /\ (RecvFrame \/ RecvBad) => EventInv'
<1> SUFFICES ASSUME TypeOK, EventInv, RecvFrame \/ RecvBad PROVE EventInv'
  OBVIOUS
<1>t. rx \in Seq(FrameType)
  BY DEF TypeOK, ModemTypeOK
<1>u. /\ rcv = "recv" /\ rx # <<>> /\ rx' = Tail(rx)
      /\ UNCHANGED <<postpone, replay, disp, nevt, ckSem, ready>>
      /\ rcv' \in {"errind", "fault"} \/ (rcv' = "frame" /\ cur' = Head(rx))
  BY DEF RecvFrame, RecvBad
<1>1. /\ 1 \in DOMAIN rx /\ Head(rx) = rx[1]
      /\ \A i \in DOMAIN rx' : /\ i \in Int /\ i + 1 \in DOMAIN rx /\ 1 < i + 1
                               /\ rx'[i] = rx[i + 1]
  BY <1>t, <1>u, TailAt
<1>2. PostponeInv'
  BY <1>u DEF EventInv, PostponeInv, Postponable, IsEvent
<1>3. RxOrder'
  BY <1>u, <1>1 DEF EventInv, RxOrder, IsEvent, Before, Postponable
<1>4. ReplayOrder' /\ DispOrder'
  BY <1>u, <1>1 DEF EventInv, ReplayOrder, DispOrder, EventOrder, IsEvent, Before, Postponable
<1>5. CurOrder'
  <2>1. CASE rcv' # "frame"
    BY <2>1 DEF CurOrder
  <2>2. CASE cur' = rx[1]
    <3>1. \A i \in DOMAIN rx' : IsEvent(rx[1]) /\ IsEvent(rx'[i]) => Before(rx[1], rx'[i])
      BY <1>1 DEF EventInv, RxOrder
    <3>2. ~postpone => replay = <<>>
      BY <1>u DEF EventInv, PostponeInv
    <3> QED
      BY <1>u, <1>1, <2>2, <3>1, <3>2
         DEF EventInv, RxOrder, ReplayOrder, DispOrder, CurOrder, IsEvent, Before, Postponable
  <2> QED
    BY <1>u, <1>1, <2>1, <2>2
<1> QED
  BY <1>2, <1>3, <1>4, <1>5 DEF EventInv

LEMMA HandledEvents == TypeOK /\ EventInv /\ HandleEvent => EventInv'
<1> SUFFICES ASSUME TypeOK, EventInv, HandleEvent PROVE EventInv'
  OBVIOUS
<1>t. replay \in Seq(FrameType) /\ disp \in Seq(FrameType) /\ cur \in FrameType
  BY DEF TypeOK, RecvTypeOK
<1>u. /\ rcv = "frame" /\ rcv' = "idle"
      /\ UNCHANGED <<cur, postpone, rx, nevt, ckSem, ready>>
  BY DEF HandleEvent
<1>1. CASE postpone /\ IsEvent(cur) /\ Postponable(cur)
  <2>1. replay' = Append(replay, cur) /\ disp' = disp
    BY <1>1 DEF HandleEvent, Postponable, IsEvent
  <2>2. \A i \in DOMAIN replay' :
          \/ i \in DOMAIN replay /\ replay'[i] = replay[i]
          \/ (\A j \in DOMAIN replay' : ~(i < j)) /\ replay'[i] = cur
    BY <1>t, <2>1, AppendAt
  <2>3. CurOrder
    BY DEF EventInv
  <2>4. PostponeInv'
    BY <1>u, <1>1, <2>1, <2>2 DEF EventInv, PostponeInv, Postponable, IsEvent
  <2>5. ReplayOrder'
    BY <1>u, <1>1, <2>2, <2>3 DEF EventInv, PostponeInv, ReplayOrder, CurOrder, IsEvent, Before, Postponable
  <2>6. DispOrder' /\ RxOrder'
    BY <1>u, <1>1, <2>1, <2>2, <2>3
       DEF EventInv, DispOrder, EventOrder, RxOrder, CurOrder, IsEvent, Before, Postponable
  <2> QED
    BY <1>u, <2>4, <2>5, <2>6 DEF EventInv, CurOrder
<1>2. CASE ~IsEvent(cur)
  <2>1. UNCHANGED <<replay, disp>>
    BY <1>2, <1>t DEF HandleEvent, IsEvent, FrameType
  <2> QED
    BY <1>u, <2>1 DEF EventInv, PostponeInv, RxOrder, ReplayOrder, DispOrder, EventOrder, CurOrder,
       Postponable, IsEvent, Before
<1>3. CASE IsEvent(cur) /\ ~(postpone /\ Postponable(cur))
  <2>1. replay' = replay /\ disp' = Append(disp, cur)
    BY <1>3 DEF HandleEvent, Postponable, IsEvent
  <2>2. \A i \in DOMAIN disp' :
          \/ i \in DOMAIN disp /\ disp'[i] = disp[i]
          \/ (\A j \in DOMAIN disp' : ~(i < j)) /\ disp'[i] = cur
    BY <1>t, <2>1, AppendAt
  <2>3. CurOrder
    BY DEF EventInv
  <2>4. PostponeInv'
    BY <1>u, <1>3, <2>1, <2>2 DEF EventInv, PostponeInv, Postponable, IsEvent
  <2>5. ReplayOrder' /\ RxOrder'
    BY <1>u, <2>1 DEF EventInv, ReplayOrder, RxOrder, IsEvent, Before, Postponable
  <2>6. EventOrder'
    BY <1>u, <1>3, <2>2, <2>3
       DEF EventInv, DispOrder, EventOrder, CurOrder, Before, Postponable
  <2>7. \A i \in DOMAIN replay : Before(cur, replay[i])
    BY <1>u, <1>3, <2>3 DEF EventInv, PostponeInv, CurOrder, Before
  <2>8. DispOrder'
    BY <1>u, <1>3, <2>1, <2>2, <2>3, <2>6, <2>7
       DEF EventInv, DispOrder, CurOrder, IsEvent, Before, Postponable
  <2> QED
    BY <1>u, <2>4, <2>5, <2>8 DEF EventInv, CurOrder
<1> QED
  BY <1>1, <1>2, <1>3

\* The modem numbers its events in the order it sends them.
LEMMA SentEvents == TypeOK /\ EventInv /\ (ModemReply \/ ModemEvent) => EventInv'
<1> SUFFICES ASSUME TypeOK, EventInv, ModemReply \/ ModemEvent PROVE EventInv'
  OBVIOUS
<1>t. /\ rx \in Seq(FrameType) /\ nevt \in Nat
  BY DEF TypeOK, ModemTypeOK
<1>u. UNCHANGED <<rcv, cur, postpone, replay, disp, ckSem, ready>>
  BY DEF ModemReply, ModemEvent
<1>1. /\ nevt' = nevt \/ nevt' = nevt + 1
      /\ \E f : /\ rx' = Append(rx, f)
                /\ IsEvent(f) => f.id = nevt + 1 /\ nevt' = nevt + 1
  <2>1. CASE ModemReply
    <3>1. PICK m \in cmds :
            rx' = Append(rx, [res |-> TRUE, cmdid |-> m.cmdid, transid |-> m.transid, id |-> m.id])
      BY <2>1 DEF ModemReply
    <3> DEFINE f == [res |-> TRUE, cmdid |-> m.cmdid, transid |-> m.transid, id |-> m.id]
    <3>2. ~IsEvent(f)
      BY DEF IsEvent
    <3> QED
      BY <2>1, <3>1, <3>2 DEF ModemReply
  <2>2. CASE ModemEvent
    <3>1. PICK i \in EvtIds, n \in 1..MaxCmds :
            rx' = Append(rx, [res |-> FALSE, cmdid |-> i, transid |-> n, id |-> nevt + 1])
      BY <2>2 DEF ModemEvent
    <3> QED
      BY <2>2, <3>1 DEF ModemEvent
  <2> QED
    BY <2>1, <2>2
<1>2. PICK f : /\ rx' = Append(rx, f)
               /\ IsEvent(f) => f.id = nevt + 1 /\ nevt' = nevt + 1
  BY <1>1
<1>3. \A i \in DOMAIN rx' :
        \/ i \in DOMAIN rx /\ rx'[i] = rx[i]
        \/ (\A j \in DOMAIN rx' : ~(i < j)) /\ rx'[i] = f
  BY <1>t, <1>2
<1> HIDE DEF IsEvent
<1>4. /\ \A i \in DOMAIN rx : rx[i].id \in Nat
      /\ \A i \in DOMAIN replay : replay[i].id \in Nat
      /\ \A i \in DOMAIN disp : disp[i].id \in Nat
      /\ cur.id \in Nat
  <2>1. \A g \in FrameType : g.id \in Nat
    BY DEF FrameType
  <2>2. /\ \A i \in DOMAIN rx : rx[i] \in FrameType
        /\ \A i \in DOMAIN replay : replay[i] \in FrameType
        /\ \A i \in DOMAIN disp : disp[i] \in FrameType
        /\ cur \in FrameType
    BY DEF TypeOK, RecvTypeOK, ModemTypeOK
  <2> QED
    BY <2>1, <2>2
<1>5. /\ \A i \in DOMAIN rx : IsEvent(rx[i]) /\ IsEvent(f) => Before(rx[i], f)
      /\ \A i \in DOMAIN rx' : IsEvent(rx'[i]) => rx'[i].id <= nevt'
  BY <1>t, <1>1, <1>2, <1>3, <1>4 DEF EventInv, RxOrder, Before
<1>6. RxOrder'
  <2>1. \A i, j \in DOMAIN rx' : i < j /\ IsEvent(rx'[i]) /\ IsEvent(rx'[j]) => Before(rx'[i], rx'[j])
    BY <1>3, <1>5 DEF EventInv, RxOrder
  <2> QED
    BY <1>5, <2>1 DEF RxOrder, IsEvent, Before, Postponable
<1>7. ReplayOrder'
  <2>1. \A i \in DOMAIN replay : IsEvent(f) => Before(replay[i], f)
    BY <1>t, <1>2, <1>4 DEF EventInv, ReplayOrder, Before
  <2> QED
    BY <1>t, <1>u, <1>1, <1>3, <1>4, <2>1 DEF EventInv, ReplayOrder, IsEvent, Before, Postponable
<1>8. DispOrder'
  <2>1. \A i \in DOMAIN disp : IsEvent(f) => Before(disp[i], f)
    BY <1>t, <1>2, <1>4 DEF EventInv, DispOrder, Before
  <2> QED
    BY <1>t, <1>u, <1>1, <1>3, <1>4, <2>1
       DEF EventInv, DispOrder, EventOrder, IsEvent, Before, Postponable
<1>9. CurOrder'
  <2>1. rcv = "frame" /\ IsEvent(cur) /\ IsEvent(f) => Before(cur, f)
    BY <1>t, <1>2, <1>4 DEF EventInv, CurOrder, Before
  <2> QED
    BY <1>t, <1>u, <1>1, <1>3, <1>4, <2>1 DEF EventInv, CurOrder, IsEvent, Before, Postponable
<1>10. PostponeInv'
  BY <1>u DEF EventInv, PostponeInv, Postponable, IsEvent
<1> QED
  BY <1>6, <1>7, <1>8, <1>9, <1>10 DEF EventInv

\* Initializing forgets every event; the other steps of the receive task and
\* altcom_app_ready move none.
LEMMA EventsStep == TypeOK /\ EventInv /\ [Next]_vars => EventInv'
<1> SUFFICES ASSUME TypeOK, EventInv, [Next]_vars PROVE EventInv'
  OBVIOUS
<1>1. CASE GwInit
  <2>1. /\ rx' = <<>> /\ replay' = <<>> /\ disp' = <<>> /\ rcv' = "idle" /\ ckSem' = 0
        /\ postpone' = (PostponableIds # {})
    BY <1>1 DEF GwInit
  <2>2. postpone' \/ PostponableIds = {}
    BY <2>1, Zenon
  <2> QED
    BY <2>1, <2>2 DEF EventInv, PostponeInv, RxOrder, ReplayOrder, DispOrder, EventOrder, CurOrder
<1>2. ASSUME NEW c \in Gated, CallerStep(c) \/ GateStep(c) PROVE EventInv'
  <2>1. UNCHANGED eventVars
    BY <1>2 DEF eventVars, CallerStep, GateStep, Call, Return, GateInit, Gate, EchoWaitTimeout
  <2> QED
    BY <2>1, EventStay
<1>3. ASSUME NEW t \in Threads, SendStep(t) PROVE EventInv'
  <2>1. UNCHANGED eventVars
    BY <1>3 DEF eventVars, SendStep, Send, AddTable, AddTableHang, Transmit, TransmitFault, Wake,
       WaitTimeout, TakeResult, RemTable, RemTableHang, LockDeleted
  <2> QED
    BY <2>1, EventStay
<1>4. ASSUME NEW e \in Echoes, EchoStep(e) PROVE EventInv'
  <2>1. UNCHANGED eventVars
    BY <1>4 DEF eventVars, EchoStep, EchoTry, EchoDone, EchoEnd
  <2> QED
    BY <2>1, EventStay
<1>5. CASE WriteTable \/ ErrindSent \/ RecvAgain
  <2>1. UNCHANGED <<cur, postpone, replay, disp, rx, nevt, ckSem, ready>> /\ rcv' \in {"idle", "fault"}
        /\ rcv # "none"
    BY <1>5 DEF WriteTable, ErrindSent, RecvAgain
  <2> QED
    BY <2>1 DEF EventInv, PostponeInv, RxOrder, ReplayOrder, DispOrder, EventOrder, CurOrder,
       Postponable, IsEvent, Before
<1>6. CASE RecvTerminate
  <2>1. /\ UNCHANGED <<postpone, disp, rx, nevt, ckSem, ready>>
        /\ replay' = <<>> /\ rcv' = "gone" /\ rcv = "recv"
    BY <1>6 DEF RecvTerminate
  <2> QED
    BY <2>1 DEF EventInv, PostponeInv, RxOrder, ReplayOrder, DispOrder, EventOrder, CurOrder,
       Postponable, IsEvent, Before
<1>7. CASE FinStep \/ AppReady \/ RecvAgainRequest
  <2>1. /\ UNCHANGED <<rcv, cur, postpone, replay, disp, rx, nevt>>
        /\ \/ UNCHANGED <<ckSem, ready>>
           \/ ckSem' = 0 /\ ready' = ready
           \/ ready' # "no" /\ ready # "no" /\ ckSem' = ckSem
           \/ ready' # "no"
    BY <1>7 DEF FinStep, FinStart, FinAbort, FinState, FinJoin, FinRelease, FinDelete, AppReady,
       RecvAgainRequest
  <2> QED
    BY <2>1 DEF EventInv, PostponeInv, RxOrder, ReplayOrder, DispOrder, EventOrder, CurOrder,
       Postponable, IsEvent, Before
<1>8. CASE UNCHANGED vars
  BY <1>8, EventStay DEF eventVars
<1>9. CASE RecvStep
  BY <1>5, <1>6, <1>9, LoopEvents, TakenEvents, HandledEvents DEF RecvStep
<1> QED
  BY <1>1, <1>2, <1>3, <1>4, <1>7, <1>8, <1>9, SentEvents DEF Next

LEMMA EventInvariance == Spec => []EventInv
<1>1. Init => EventInv
  BY DEF Init, EventInv, PostponeInv, RxOrder, ReplayOrder, DispOrder, EventOrder, CurOrder
<1>2. TypeOK /\ EventInv /\ [Next]_vars => EventInv'
  BY EventsStep
<1> QED
  BY <1>1, <1>2, TypeCorrect, PTL DEF Spec

\* Events of one kind reach the dispatcher in the order the modem sent them,
\* for any number of events and whatever is postponed, replayed or in between.
THEOREM OrderCorrect == Spec => []EventOrder
<1>1. EventInv => EventOrder
  BY DEF EventInv, DispOrder
<1> QED
  BY <1>1, EventInvariance, PTL

\* A postponable event is dispatched before altcom_app_ready under no schedule.
THEOREM HeldCorrect == Spec => []HeldUntilReady
<1>1. EventInv /\ TypeOK => HeldUntilReady
  BY DEF EventInv, PostponeInv, HeldUntilReady, Postponable
<1> QED
  BY <1>1, EventInvariance, TypeCorrect, PTL

-----------------------------------------------------------------------------
(* The gateway implements SyncCall: every step of it is a step of the       *)
(* abstract call, or leaves it alone, under the mapping Promise.            *)

USE DEF Phase

\* What a caller of the gateway shows of its call.
Outcome(c) == IF pc[c] = "done" THEN ret[c] ELSE "NONE"
Data(c)    == IF pc[c] = "done" /\ ret[c] = "OK" THEN got[c] ELSE 0

\* A call on its way out has a result.
RetSet == \A t \in Threads : pc[t] \in {"rem", "done"} => ret[t] # "NONE"

\* A call that is done returns a value: success or one of the errors.
LEMMA RetSetCorrect == Spec => []RetSet
<1> USE DEF RetSet
<1>1. Init => RetSet
  BY DEF Init
<1>2. IInv /\ RetSet /\ [Next]_vars => RetSet'
  <2> SUFFICES ASSUME IInv, RetSet, [Next]_vars PROVE RetSet'
    OBVIOUS
  <2>t. PcTypeOK /\ CallTypeOK
    BY DEF IInv, TypeOK
  <2> USE DEF PcTypeOK, CallTypeOK
  <2>1. CASE GwInit
    BY <2>1 DEF GwInit
  <2>2. ASSUME NEW c \in Gated, CallerStep(c) \/ GateStep(c) PROVE RetSet'
    BY <2>t, <2>2 DEF CallerStep, GateStep, Call, Return, GateInit, Gate, EchoWaitTimeout, Forget
  <2>3. ASSUME NEW t \in Threads, SendStep(t) PROVE RetSet'
    BY <2>t, <2>3 DEF SendStep, Send, AddTable, AddTableHang, Transmit, TransmitFault, Wake,
       WaitTimeout, TakeResult, RemTable, RemTableHang, LockDeleted
  <2>4. ASSUME NEW e \in Echoes, EchoStep(e) PROVE RetSet'
    <3>1. CASE EchoTry(e)
      BY <2>t, <3>1, EchoTryCases DEF EchoTry
    <3>2. CASE EchoDone(e)
      <4>1. \A t \in Threads \ {e} :
              ret'[t] = ret[t] /\ (pc'[t] = pc[t] \/ pc'[t] = "gate")
        BY <2>t, <3>2 DEF EchoDone, Broadcast, Forget
      <4>2. pc'[e] \in {"end", "loop"}
        BY <2>t, <3>2 DEF EchoDone, Broadcast
      <4> QED
        BY <4>1, <4>2
    <3>3. CASE EchoEnd(e)
      <4>1. \A t \in Threads \ {e} :
              ret'[t] = ret[t] /\ (pc'[t] = pc[t] \/ pc'[t] = "gate")
        BY <2>t, <3>3 DEF EchoEnd, Broadcast
      <4>2. pc'[e] = "none"
        BY <2>t, <3>3 DEF EchoEnd, Broadcast
      <4> QED
        BY <4>1, <4>2
    <3> QED
      BY <2>4, <3>1, <3>2, <3>3 DEF EchoStep
  <2>5. CASE RecvStep
    BY <2>t, <2>5, RecvSteps
  <2>6. CASE FinStep
    BY <2>t, <2>6 DEF FinStep, FinStart, FinAbort, FinState, FinJoin, FinRelease, FinDelete,
       Broadcast
  <2>7. CASE AppReady \/ RecvAgainRequest \/ ModemReply \/ ModemEvent \/ UNCHANGED vars
    BY <2>t, <2>7 DEF AppReady, RecvAgainRequest, ModemReply, ModemEvent
  <2> QED
    BY <2>1, <2>2, <2>3, <2>4, <2>5, <2>6, <2>7 DEF Next
<1> QED
  BY <1>1, <1>2, Invariance, PTL DEF Spec

-----------------------------------------------------------------------------
(* How a step of the gateway looks to its callers *)

\* Caller c shows the same before and after the step.
Same(c) ==
  /\ Phase(c)' = Phase(c) /\ cmd'[c].id = cmd[c].id /\ cmd'[c].sync = cmd[c].sync
  /\ Outcome(c)' = Outcome(c) /\ Data(c)' = Data(c)

\* Nothing is seen of a step that leaves callers, ids and answers alone.
LEMMA Invisible ==
  ASSUME \A c \in Callers : Same(c), UNCHANGED <<issued, answered>>
  PROVE  UNCHANGED Promise!vars
BY DEF Same, Outcome, Data, Promise!vars

\* A number drawn by others is OtherStart.
LEMMA OtherDraws ==
  ASSUME \A c \in Callers : Same(c), DrawTransId, UNCHANGED answered
  PROVE  Promise!Next
BY DEF Same, Outcome, Data, DrawTransId, Promise!Next, Promise!OtherStart

\* An answer of the modem is Answer.
LEMMA Answers ==
  ASSUME \A c \in Callers : Same(c), UNCHANGED issued,
         NEW n \in 1..issued, n \notin answered, answered' = answered \cup {n}
  PROVE  Promise!Next
BY DEF Same, Outcome, Data, Promise!Next, Promise!Answer

\* A caller that reaches done with a failure.
LEMMA Fails ==
  ASSUME NEW c \in Callers, \A d \in Callers \ {c} : Same(d), UNCHANGED <<issued, answered>>,
         UNCHANGED cmd, Phase(c) = "busy", pc'[c] = "done",
         ret'[c] \in Returns \ {"NONE", "OK"}
  PROVE  Promise!Next
<1>1. ret'[c] \in Promise!Failures
  BY DEF Returns, Promise!Failures
<1>2. [d \in Callers |-> Data(d)]' = [d \in Callers |-> Data(d)]
  BY DEF Same, Outcome, Data, Returns
<1>3. [d \in Callers |-> Outcome(d)]' = [[d \in Callers |-> Outcome(d)] EXCEPT ![c] = ret'[c]]
  BY DEF Same, Outcome
<1>4. [d \in Callers |-> Phase(d)]' = [[d \in Callers |-> Phase(d)] EXCEPT ![c] = "returned"]
  BY DEF Same
<1>5. Promise!Fail(c)
  BY <1>1, <1>2, <1>3, <1>4 DEF Outcome, Data, Promise!Fail
<1> QED
  BY <1>5 DEF Promise!Next

\* A caller that reaches done with success.
LEMMA Succeeds ==
  ASSUME NEW c \in Callers, \A d \in Callers \ {c} : Same(d), UNCHANGED <<issued, answered>>,
         UNCHANGED cmd, Phase(c) = "busy", pc'[c] = "done", ret'[c] = "OK",
         cmd[c].sync \in BOOLEAN, got'[c] \in 0..MaxCmds,
         cmd[c].sync => got'[c] = cmd[c].id /\ cmd[c].id \in answered
  PROVE  Promise!Next
<1>1. CASE cmd[c].sync
  <2>1. Promise!Succeed(c)
    BY <1>1 DEF Same, Outcome, Data, Promise!Succeed
  <2> QED
    BY <2>1 DEF Promise!Next
<1>2. CASE ~cmd[c].sync
  <2>2. [d \in Callers |-> Data(d)]' = [[d \in Callers |-> Data(d)] EXCEPT ![c] = got'[c]]
    BY DEF Same, Outcome, Data
  <2>3. [d \in Callers |-> Outcome(d)]' = [[d \in Callers |-> Outcome(d)] EXCEPT ![c] = "OK"]
    BY DEF Same, Outcome
  <2>4. [d \in Callers |-> Phase(d)]' = [[d \in Callers |-> Phase(d)] EXCEPT ![c] = "returned"]
    BY DEF Same
  <2>1. Promise!Succeed(c)
    BY <1>2, <2>2, <2>3, <2>4 DEF Outcome, Data, Promise!Succeed
  <2> QED
    BY <2>1 DEF Promise!Next
<1> QED
  BY <1>1, <1>2

\* A step that leaves a thread's call alone leaves it the same.
LEMMA Unmoved ==
  ASSUME NEW d \in Callers, cmd'[d] = cmd[d], ret'[d] = ret[d], got'[d] = got[d],
         pc'[d] = pc[d] \/ (pc[d] = "echoWait" /\ pc'[d] = "gate")
  PROVE  Same(d)
BY DEF Same, Outcome, Data

-----------------------------------------------------------------------------
(* Every step of the gateway is a step of SyncCall or invisible *)

\* The start and the return of a call are SyncCall's.
LEMMA CallerSteps ==
  ASSUME IInv, NEW c \in Callers, CallerStep(c)
  PROVE  Promise!Next \/ UNCHANGED Promise!vars
<1>t. PcTypeOK /\ CallTypeOK /\ IdsFollow /\ TypeOK
  BY DEF IInv, TypeOK
<1> USE DEF PcTypeOK, CallTypeOK
<1>1. CASE Call(c)
  <2>1. PICK k \in CallKinds : cmd' = [cmd EXCEPT ![c] = NewCmd("CMD", k.sync, k.fevr)]
    BY <1>1 DEF Call
  <2> DEFINE n == NewCmd("CMD", k.sync, k.fevr)
  <2>2. n.id = issued + 1 /\ n.sync = k.sync /\ k.sync \in BOOLEAN
    BY <1>t, <1>1, NewCmdFollows, KindAssumption DEF Call, DrawTransId, CmdIds
  <2>3. cmd' = [cmd EXCEPT ![c] = n]
    BY <2>1
  <2> HIDE DEF n
  <2>4. /\ pc[c] = "idle" /\ pc' = [pc EXCEPT ![c] = "gate"]
        /\ issued < MaxCmds /\ issued' = issued + 1
        /\ UNCHANGED <<ret, got, answered>>
    BY <1>1 DEF Call, DrawTransId
  <2>5. /\ [d \in Callers |-> Phase(d)]' = [[d \in Callers |-> Phase(d)] EXCEPT ![c] = "busy"]
        /\ [d \in Callers |-> Outcome(d)]' = [d \in Callers |-> Outcome(d)]
        /\ [d \in Callers |-> Data(d)]' = [d \in Callers |-> Data(d)]
    BY <1>t, <2>4 DEF Outcome, Data
  <2>6. [d \in Callers |-> cmd[d].id]' = [[d \in Callers |-> cmd[d].id] EXCEPT ![c] = issued + 1]
    BY <1>t, <2>2, <2>3
  <2>7. [d \in Callers |-> cmd[d].sync]' = [[d \in Callers |-> cmd[d].sync] EXCEPT ![c] = k.sync]
    BY <1>t, <2>2, <2>3
  <2>8. Promise!Start(c)
    BY <2>2, <2>4, <2>5, <2>6, <2>7 DEF Promise!Start, Outcome, Data
  <2> QED
    BY <2>8 DEF Promise!Next
<1>2. CASE Return(c)
  <2>1. /\ pc[c] = "done" /\ pc' = [pc EXCEPT ![c] = "idle"]
        /\ cmd' = [cmd EXCEPT ![c] = NoCmd]
        /\ ret' = [ret EXCEPT ![c] = "NONE"]
        /\ got' = [got EXCEPT ![c] = 0]
        /\ UNCHANGED <<issued, answered>>
    BY <1>2 DEF Return, Forget
  <2>2. NoCmd.id = 0 /\ NoCmd.sync = FALSE
    BY Zenon DEF NoCmd
  <2>3. /\ [d \in Callers |-> Phase(d)]' = [[d \in Callers |-> Phase(d)] EXCEPT ![c] = "idle"]
        /\ [d \in Callers |-> Outcome(d)]' = [[d \in Callers |-> Outcome(d)] EXCEPT ![c] = "NONE"]
        /\ [d \in Callers |-> Data(d)]' = [[d \in Callers |-> Data(d)] EXCEPT ![c] = 0]
    BY <1>t, <2>1 DEF Outcome, Data
  <2>4. [d \in Callers |-> cmd[d].id]' = [[d \in Callers |-> cmd[d].id] EXCEPT ![c] = 0]
    BY <1>t, <2>1, <2>2
  <2>5. [d \in Callers |-> cmd[d].sync]' = [[d \in Callers |-> cmd[d].sync] EXCEPT ![c] = FALSE]
    BY <1>t, <2>1, <2>2
  <2>6. Promise!Leave(c)
    BY <2>1, <2>3, <2>4, <2>5 DEF Promise!Leave, Outcome, Data
  <2> QED
    BY <2>6 DEF Promise!Next
<1> QED
  BY <1>1, <1>2 DEF CallerStep

\* At the gate of apicmdgw_send a call fails, or the step is not seen; the
\* receive task's passage is not seen at all.
LEMMA GateSteps ==
  ASSUME IInv, NEW c \in Gated, GateStep(c)
  PROVE  Promise!Next \/ UNCHANGED Promise!vars
<1>t. PcTypeOK /\ CallTypeOK
  BY DEF IInv, TypeOK
<1> USE DEF PcTypeOK, CallTypeOK
<1>3. CASE GateInit(c)
  <2>1. \A d \in Callers : pc'[d] = pc[d]
    BY <1>t, <1>3, ThreadAssumption DEF GateInit
  <2>2. UNCHANGED <<cmd, ret, got, issued, answered>>
    BY <1>3 DEF GateInit
  <2>3. \A d \in Callers : Same(d)
    BY <2>1, <2>2, Unmoved
  <2> QED
    BY <2>2, <2>3, Invisible
<1>4. CASE Gate(c) \/ EchoWaitTimeout(c)
  <2>1. /\ UNCHANGED <<cmd, got, issued, answered>>
        /\ \A d \in Callers \ {c} : pc'[d] = pc[d] /\ ret'[d] = ret[d]
        /\ pc[c] \in {"gate", "echoWait"}
    BY <1>t, <1>4 DEF Gate, EchoWaitTimeout
  <2>2. \A d \in Callers \ {c} : Same(d)
    BY <2>1, Unmoved
  <2>3. \/ pc'[c] = "done" /\ ret'[c] \in {"ECONNABORTED", "ETIMEDOUT"}
        \/ pc'[c] \in {"echoWait", "send"}
    BY <1>t, <1>4 DEF Gate, EchoWaitTimeout
  <2>6. CASE c \notin Callers
    BY <2>1, <2>2, <2>6, Invisible
  <2>4. CASE c \in Callers /\ pc'[c] = "done"
    BY <2>1, <2>2, <2>3, <2>4, Fails DEF Returns
  <2>5. CASE c \in Callers /\ pc'[c] \in {"echoWait", "send"}
    <3>1. Same(c)
      BY <2>1, <2>5 DEF Same, Outcome, Data
    <3> QED
      BY <2>1, <2>2, <3>1, Invisible
  <2> QED
    BY <2>3, <2>4, <2>5, <2>6
<1> QED
  BY <1>3, <1>4 DEF GateStep

\* Every step of __apicmdgw_send is a step of SyncCall or is not seen.
LEMMA SendSteps ==
  ASSUME IInv, RetSet, NEW t \in Threads, SendStep(t)
  PROVE  Promise!Next \/ UNCHANGED Promise!vars
<1>t. PcTypeOK /\ CallTypeOK
  BY DEF IInv, TypeOK
<1> USE DEF PcTypeOK, CallTypeOK
<1>1. /\ UNCHANGED <<cmd, issued, answered>>
      /\ \A u \in Threads \ {t} : pc'[u] = pc[u] /\ ret'[u] = ret[u] /\ got'[u] = got[u]
  BY <1>t DEF SendStep, Send, AddTable, AddTableHang, Transmit, TransmitFault, Wake,
     WaitTimeout, TakeResult, RemTable, RemTableHang, LockDeleted
<1>2. \A d \in Callers \ {t} : Same(d)
  BY <1>1, Unmoved
<1>3. CASE t \notin Callers
  BY <1>1, <1>2, <1>3, Invisible
<1>4. ASSUME t \in Callers, pc[t] \in SendPCs \ {"done"}, pc'[t] \in (SendPCs \ {"done"}) \cup DeadPCs
      PROVE  UNCHANGED Promise!vars
  <2>1. Same(t)
    BY <1>1, <1>4 DEF Same, Outcome, Data, SendPCs, DeadPCs
  <2> QED
    BY <1>1, <1>2, <1>4, <2>1, Invisible
<1>5. CASE t \in Callers /\ RemTable(t)
  <2>1. pc[t] = "rem" /\ pc'[t] = "done" /\ ret' = ret /\ got' = got
    BY <1>t, <1>5 DEF RemTable
  <2>2. ret[t] \in Returns \ {"NONE"} /\ got[t] \in 0..MaxCmds /\ cmd[t].sync
    BY <1>t, <2>1 DEF RetSet, IInv, WaitersAreSync
  <2>3. CASE ret[t] = "OK"
    <3>1. got'[t] = cmd[t].id /\ cmd[t].id \in answered
      BY <2>1, <2>2, <2>3 DEF IInv, SuccessIsOwn, Own
    <3>2. cmd[t].sync \in BOOLEAN
      BY <1>t DEF CmdType
    <3> QED
      BY <1>1, <1>2, <1>5, <2>1, <2>2, <2>3, <3>1, <3>2, Succeeds
  <2>4. CASE ret[t] # "OK"
    BY <1>1, <1>2, <1>5, <2>1, <2>2, <2>4, Fails
  <2> QED
    BY <2>3, <2>4
<1>6. CASE t \in Callers /\ Send(t)
  <2>1. \/ pc'[t] \in {"addtbl", "xmit"}
        \/ pc'[t] = "done" /\ ret'[t] = "EPERM"
    BY <1>t, <1>6 DEF Send
  <2>2. pc[t] = "send"
    BY <1>6 DEF Send
  <2>3. CASE pc'[t] = "done"
    BY <1>1, <1>2, <1>6, <2>1, <2>2, <2>3, Fails DEF Returns
  <2> QED
    BY <1>4, <1>6, <2>1, <2>2, <2>3 DEF SendPCs
<1>7. CASE t \in Callers /\ Transmit(t)
  <2>1. \/ cmd[t].sync /\ pc'[t] \in {"wait", "rem"}
        \/ ~cmd[t].sync /\ pc'[t] = "done" /\ ret'[t] \in {"OK", "EIO"}
    BY <1>t, <1>7 DEF Transmit
  <2>2. pc[t] = "xmit" /\ got'[t] \in 0..MaxCmds /\ cmd[t].sync \in BOOLEAN
    BY <1>t, <1>7 DEF Transmit, CmdType
  <2>3. CASE pc'[t] = "done" /\ ret'[t] = "OK"
    BY <1>1, <1>2, <1>7, <2>1, <2>2, <2>3, Succeeds
  <2>4. CASE pc'[t] = "done" /\ ret'[t] = "EIO"
    BY <1>1, <1>2, <1>7, <2>1, <2>2, <2>4, Fails DEF Returns
  <2> QED
    BY <1>4, <1>7, <2>1, <2>2, <2>3, <2>4 DEF SendPCs
<1>8. CASE t \in Callers /\ ~RemTable(t) /\ ~Send(t) /\ ~Transmit(t)
  <2>1. pc[t] \in SendPCs \ {"done"} /\ pc'[t] \in (SendPCs \ {"done"}) \cup DeadPCs
    BY <1>t, <1>8 DEF SendStep, AddTable, AddTableHang, TransmitFault, Wake, WaitTimeout,
       TakeResult, RemTableHang, LockDeleted, SendPCs, DeadPCs
  <2> QED
    BY <1>4, <1>8, <2>1
<1> QED
  BY <1>3, <1>5, <1>6, <1>7, <1>8

\* The echo task is seen only as a request number used by others.
LEMMA EchoSteps ==
  ASSUME IInv, NEW e \in Echoes, EchoStep(e)
  PROVE  Promise!Next \/ UNCHANGED Promise!vars
<1>t. PcTypeOK /\ CallTypeOK /\ IdsFollow
  BY DEF IInv, TypeOK
<1> USE DEF PcTypeOK, CallTypeOK
<1>0. e \notin Callers
  BY ThreadAssumption
<1>1. CASE EchoTry(e)
  <2>1. \A d \in Callers : pc'[d] = pc[d] /\ cmd'[d] = cmd[d]
    BY <1>t, <1>0, <1>1, EchoTryCases
  <2>2. UNCHANGED <<ret, got, answered>>
    BY <1>1 DEF EchoTry
  <2>3. \A d \in Callers : Same(d)
    BY <2>1, <2>2, Unmoved
  <2>4. DrawTransId \/ UNCHANGED issued
    BY <1>1, EchoTryCases
  <2> QED
    BY <2>2, <2>3, <2>4, OtherDraws, Invisible
<1>2. CASE EchoDone(e)
  <2>1. \A d \in Callers :
          /\ cmd'[d] = cmd[d] /\ ret'[d] = ret[d] /\ got'[d] = got[d]
          /\ pc'[d] = pc[d] \/ (pc[d] = "echoWait" /\ pc'[d] = "gate")
    BY <1>t, <1>0, <1>2 DEF EchoDone, Forget, Broadcast
  <2>2. UNCHANGED <<issued, answered>>
    BY <1>2 DEF EchoDone
  <2>3. \A d \in Callers : Same(d)
    BY <2>1, Unmoved
  <2> QED
    BY <2>2, <2>3, Invisible
<1>3. CASE EchoEnd(e)
  <2>1. \A d \in Callers :
          /\ cmd'[d] = cmd[d] /\ ret'[d] = ret[d] /\ got'[d] = got[d]
          /\ pc'[d] = pc[d] \/ (pc[d] = "echoWait" /\ pc'[d] = "gate")
    BY <1>t, <1>0, <1>3 DEF EchoEnd, Broadcast
  <2>2. UNCHANGED <<issued, answered>>
    BY <1>3 DEF EchoEnd
  <2>3. \A d \in Callers : Same(d)
    BY <2>1, Unmoved
  <2> QED
    BY <2>2, <2>3, Invisible
<1> QED
  BY <1>1, <1>2, <1>3 DEF EchoStep

\* The receive task is seen only as the error indications it numbers.
LEMMA ReceiveSteps ==
  ASSUME IInv, RecvStep
  PROVE  Promise!Next \/ UNCHANGED Promise!vars
<1>t. PcTypeOK /\ CallTypeOK /\ TableMatchesWaiters
  BY DEF IInv, TypeOK
<1>1. UNCHANGED answered /\ \A d \in Callers : pc'[d] = pc[d] /\ cmd'[d] = cmd[d] /\ ret'[d] = ret[d]
  BY <1>t, RecvSteps, ThreadAssumption DEF CallTypeOK
<1>2. CASE WriteTable
  <2>1. PICK t \in tbl : got' = got \/ got' = [got EXCEPT ![t] = cur.id]
    BY <1>2 DEF WriteTable, Waiters
  <2>2. pc[t] # "done"
    BY <1>t, <2>1 DEF TableMatchesWaiters, DeadPCs, CallTypeOK
  <2>3. \A d \in Callers : Same(d)
    BY <1>t, <1>1, <2>1, <2>2 DEF Same, Outcome, Data, CallTypeOK
  <2>4. UNCHANGED issued
    BY <1>2 DEF WriteTable
  <2> QED
    BY <1>1, <2>3, <2>4, Invisible
<1>3. CASE ~WriteTable
  <2>1. /\ DrawTransId \/ UNCHANGED issued
        /\ \A d \in Callers : got'[d] = got[d]
    BY <1>t, <1>3, ThreadAssumption DEF RecvStep, RecvLoop, RecvFrame, RecvBad, ErrindSent, Forget,
       RecvAgain, RecvTerminate, HandleEvent, CallTypeOK
  <2>2. \A d \in Callers : Same(d)
    BY <1>1, <2>1, Unmoved
  <2> QED
    BY <1>1, <2>1, <2>2, OtherDraws, Invisible
<1> QED
  BY <1>2, <1>3

\* The modem's response to a command is SyncCall's Answer.
LEMMA ReplySteps ==
  ASSUME IInv, ModemReply
  PROVE  Promise!Next
<1>1. PICK m \in cmds : m.id \notin answered /\ answered' = answered \cup {m.id}
  BY DEF ModemReply
<1>2. m.id \in 1..issued
  BY DEF IInv, CmdsFollow
<1>3. UNCHANGED <<pc, cmd, ret, got, issued>>
  BY DEF ModemReply
<1>4. \A d \in Callers : Same(d)
  BY <1>3, Unmoved
<1> QED
  BY <1>1, <1>2, <1>3, <1>4, Answers

\* apicmdgw_init, apicmdgw_fin and altcom_app_ready are not seen.
LEMMA QuietSteps ==
  ASSUME IInv, GwInit \/ FinStep \/ AppReady \/ RecvAgainRequest \/ ModemEvent \/ UNCHANGED vars
  PROVE  UNCHANGED Promise!vars
<1>t. PcTypeOK
  BY DEF IInv, TypeOK
<1>1. UNCHANGED <<cmd, ret, got, issued, answered>>
  BY DEF GwInit, FinStep, FinStart, FinAbort, FinState, FinJoin, FinRelease, FinDelete, AppReady,
     RecvAgainRequest, ModemEvent
<1>2. pc' = pc \/ pc' = Broadcast(pc)
  BY DEF GwInit, FinStep, FinStart, FinAbort, FinState, FinJoin, FinRelease, FinDelete, AppReady,
     RecvAgainRequest, ModemEvent
<1>3. \A d \in Callers : pc'[d] = pc[d] \/ (pc[d] = "echoWait" /\ pc'[d] = "gate")
  BY <1>t, <1>2 DEF PcTypeOK, Broadcast
<1> QED
  BY <1>1, <1>3, Unmoved, Invisible

\* The state at power up is an initial state of SyncCall.
LEMMA InitMaps == Init => Promise!Init
BY ThreadAssumption DEF Init, Promise!Init, NoCmd

\* The gateway implements the promise of SyncCall: a call is issued under a
\* number of its own, returns once, and succeeds only with the modem's answer
\* to that number, whatever the modem, the echo task, the timeouts and
\* apicmdgw_fin do.
THEOREM Implements == Spec => PromiseSpec
<1>1. IInv /\ RetSet /\ [Next]_vars => [Promise!Next]_(Promise!vars)
  BY CallerSteps, GateSteps, SendSteps, EchoSteps, ReceiveSteps, ReplySteps, QuietSteps DEF Next
<1> QED
  BY <1>1, InitMaps, Invariance, RetSetCorrect, PTL DEF Spec, PromiseSpec, Promise!Spec

=============================================================================
