------------------------------ MODULE ApiCmdGw ------------------------------
(***************************************************************************)
(* The API command gateway of ALTCOM (altcomlib/altcom/gw/apicmdgw.c): the *)
(* synchronous command/response exchange between application threads and   *)
(* the modem (MAP), the echo handshake that gates the first command, the   *)
(* receive task with its postponed events, and finalization.               *)
(*                                                                         *)
(* A frame is a record; the bytes of a frame, its checksums and its        *)
(* payload are not represented: a frame whose checksum fails is the action *)
(* RecvBad.  A critical section of a mutex that does not block inside is   *)
(* one step.  The buffer pool behind allocbuff is the module BuffPool; the *)
(* HAL is the eMUX one (hal_emux_alt125x.c): its abort request is a        *)
(* variable that recv tests whenever it is entered or woken.               *)
(***************************************************************************)
EXTENDS Integers, Sequences, FiniteSets

CONSTANTS
  Callers,        \* application threads that call the synchronous API
  Echoes,         \* the echo tasks that may exist, old sessions' ones included
  Receiver,       \* the receive task, when it sends an error indication
  CallKinds,      \* the calls made: with a response buffer? without timeout?
  EchoRetryCnt,   \* ECHO_RETRYCNT
  BypassEcho,     \* set->bypass_echo
  EvtIds,         \* command ids of the modem's unsolicited events
  PostponableIds, \* set->postponable_evt_list ({} when it is NULL)
  MaxTransId,     \* 2^16 - 1 in the code: the largest transaction id
  MaxCmds,        \* bound: transaction ids drawn
  MaxEvents,      \* bound: events the modem emits
  MaxSessions     \* bound: calls of apicmdgw_init

Threads == Callers \cup Echoes \cup {Receiver}

\* The threads that call apicmdgw_send; an echo task calls __apicmdgw_send.
Gated == Callers \cup {Receiver}

CmdIds == {"CMD", "ECHO", "ERRIND"}

ASSUME ThreadAssumption ==
  /\ Callers \cap Echoes = {}
  /\ Receiver \notin Callers \cup Echoes
ASSUME KindAssumption   == CallKinds \subseteq [sync : BOOLEAN, fevr : BOOLEAN]
ASSUME EchoAssumption   == EchoRetryCnt \in Nat \ {0} /\ BypassEcho \in BOOLEAN
ASSUME EventAssumption  ==
  /\ PostponableIds \subseteq EvtIds
  /\ EvtIds \cap CmdIds = {}
\* No transaction id is reused while an old response may still arrive.
ASSUME BoundAssumption  ==
  /\ MaxTransId \in Nat /\ MaxCmds \in Nat /\ MaxEvents \in Nat
  /\ MaxSessions \in Nat
  /\ MaxCmds <= MaxTransId

VARIABLES
  isinit,    \* g_isinit
  gwState,   \* g_apicmdgwState
  tbl,       \* g_blkinfotbl: the threads whose block table is in the list
  live,      \* g_blkinfotbl_mtx exists and g_hal_if # NULL
  transid,   \* the static counter of apicmdgw_createtransid
  issued,    \* ghost: transaction ids drawn since power up
  pc,        \* where each thread is in apicmdgw_send / apicmdgw_echotask
  cmd,       \* the command each thread is sending
  sem,       \* tbl->waitsem, a binary semaphore
  result,    \* tbl->result
  got,       \* ghost: the command whose response was copied to recvbuff
  ret,       \* what the thread's call returns
  retry,     \* retryCnt of each echo task
  rcv,       \* where the receive task is
  cur,       \* the frame in rcvbuff
  postpone,  \* is_postpone_evt
  replay,    \* replay_evt_list
  ckSem,     \* g_checkpostpone_sem
  abort,     \* g_abort_type of the HAL
  fin,       \* where the thread that runs apicmdgw_fin is
  ready,     \* where the thread that runs altcom_app_ready is
  sessions,  \* ghost: calls of apicmdgw_init
  cmds,      \* commands the modem received
  answered,  \* ghost: the commands it answered
  rx,        \* frames from the modem, in the HAL's receive buffer
  nevt,      \* ghost: events emitted
  disp       \* ghost: events handed to the event dispatcher, in order

gateVars == <<isinit, gwState, live, sessions>>
tblVars  == <<tbl, sem, result, got>>
thrVars  == <<pc, cmd, ret, retry>>
idVars   == <<transid, issued>>
rcvVars  == <<rcv, cur, postpone, replay, disp>>
finVars  == <<fin, ready, ckSem, abort>>
mdmVars  == <<cmds, answered, rx, nevt>>
vars == <<gateVars, tblVars, thrVars, idVars, rcvVars, finVars, mdmVars>>

NoCmd   == [id |-> 0, cmdid |-> "CMD", transid |-> 0, sync |-> FALSE, fevr |-> FALSE]
NoFrame == [res |-> FALSE, cmdid |-> "CMD", transid |-> 0, id |-> 0]

-----------------------------------------------------------------------------
(* Types *)

Returns == {"NONE", "OK", "EPERM", "EIO", "ENOSPC", "ETIMEDOUT", "ECONNABORTED"}

CmdType   == [id : 0..MaxCmds, cmdid : CmdIds, transid : 0..MaxTransId,
              sync : BOOLEAN, fevr : BOOLEAN]
\* res is bit 15 of the command id: APICMDGW_GET_RESCMDID sets it.
FrameType == [res : BOOLEAN, cmdid : CmdIds \cup EvtIds, transid : 0..MaxTransId, id : Nat]

CallerPCs == {"idle", "gate", "echoWait"}
EchoPCs   == {"none", "loop", "end"}
\* A thread that is hung or at fault used an object apicmdgw_fin destroyed.
DeadPCs   == {"hung", "fault"}
SendPCs   == {"send", "addtbl", "xmit", "wait", "woken", "rem", "done"}

FlagTypeOK == isinit \in BOOLEAN /\ live \in BOOLEAN /\ postpone \in BOOLEAN

GateTypeOK ==
  /\ gwState \in {"INIT", "ECHO_TESTING", "ECHO_COMPLETED", "FIN"}
  /\ sessions \in 0..MaxSessions
  /\ fin \in {"idle", "abort", "state", "join", "release", "delete"}
  /\ ready \in {"no", "posted", "done", "fault"}
  /\ ckSem \in {0, 1}
  /\ abort \in {"NONE", "TERMINATE", "AGAIN"}

PcTypeOK ==
  /\ pc \in [Threads -> CallerPCs \cup EchoPCs \cup SendPCs \cup DeadPCs]
  /\ \A c \in Gated : pc[c] \notin EchoPCs
  /\ \A e \in Echoes : pc[e] \notin CallerPCs

CallTypeOK ==
  /\ tbl \subseteq Threads
  /\ transid \in 0..MaxTransId
  /\ issued \in 0..MaxCmds
  /\ cmd \in [Threads -> CmdType]
  /\ sem \in [Threads -> {0, 1}]
  /\ result \in [Threads -> {"OK", "ENOSPC"}]
  /\ got \in [Threads -> 0..MaxCmds]
  /\ ret \in [Threads -> Returns]
  /\ retry \in [Echoes -> 0..(EchoRetryCnt + 1)]

RecvTypeOK ==
  /\ rcv \in {"none", "idle", "recv", "frame", "errind", "gone", "fault"}
  /\ cur \in FrameType
  /\ replay \in Seq(FrameType)
  /\ disp \in Seq(FrameType)

ModemTypeOK ==
  /\ cmds \subseteq CmdType
  /\ answered \subseteq 1..MaxCmds
  /\ rx \in Seq(FrameType)
  /\ nevt \in 0..MaxEvents

TypeOK ==
  FlagTypeOK /\ GateTypeOK /\ PcTypeOK /\ CallTypeOK /\ RecvTypeOK /\ ModemTypeOK

-----------------------------------------------------------------------------
(* Transaction ids *)

\* transid++, and once more when the 16-bit counter wrapped to 0.
CreateTransId ==
  LET next == (transid + 1) % (MaxTransId + 1)
  IN IF next = 0 THEN 1 ELSE next

\* apicmdgw_cmd_allocbuff draws the id of the command under the HAL's lock.
DrawTransId ==
  /\ issued < MaxCmds
  /\ issued' = issued + 1
  /\ transid' = CreateTransId

\* The command that apicmdgw_cmd_allocbuff builds now.
NewCmd(cmdid, sync, fevr) ==
  [id |-> issued + 1, cmdid |-> cmdid, transid |-> CreateTransId,
   sync |-> sync, fevr |-> fevr]

\* Every thread blocked on g_stateCond is released and reads the state again.
Broadcast(p) == [t \in Threads |-> IF p[t] = "echoWait" THEN "gate" ELSE p[t]]

-----------------------------------------------------------------------------
(* apicmdgw_init *)

Init ==
  /\ isinit = FALSE /\ gwState = "FIN" /\ live = FALSE /\ sessions = 0
  /\ tbl = {} /\ sem = [t \in Threads |-> 0]
  /\ result = [t \in Threads |-> "OK"] /\ got = [t \in Threads |-> 0]
  /\ pc = [t \in Threads |-> IF t \in Gated THEN "idle" ELSE "none"]
  /\ cmd = [t \in Threads |-> NoCmd]
  /\ ret = [t \in Threads |-> "NONE"]
  /\ retry = [e \in Echoes |-> 0]
  /\ transid = 0 /\ issued = 0
  /\ rcv = "none" /\ cur = NoFrame /\ postpone = FALSE /\ replay = <<>> /\ disp = <<>>
  /\ fin = "idle" /\ ready = "no" /\ ckSem = 0 /\ abort = "NONE"
  /\ cmds = {} /\ answered = {} /\ rx = <<>> /\ nevt = 0

\* The receive task outranks its creator: it runs up to its first loop test
\* before apicmdgw_init continues.  The application initializes again only when
\* its calls returned; an echo task of the old session may still be asleep.
\* The HAL is created anew before: no abort request, no old bytes.
GwInit ==
  /\ ~isinit /\ fin = "idle" /\ sessions < MaxSessions
  /\ \A t \in Threads : pc[t] \in {"idle", "none", "loop", "end"} \cup DeadPCs
  /\ ready # "posted"
  /\ isinit' = TRUE
  /\ live' = TRUE
  /\ sessions' = sessions + 1
  /\ gwState' = IF BypassEcho THEN "ECHO_COMPLETED" ELSE "INIT"
  /\ rcv' = "idle"
  /\ postpone' = (PostponableIds # {})
  /\ replay' = <<>>
  /\ cur' = NoFrame
  /\ disp' = <<>>
  /\ ckSem' = 0
  /\ abort' = "NONE"
  /\ ready' = "no"
  /\ cmds' = {} /\ rx' = <<>>
  /\ UNCHANGED <<tblVars, thrVars, idVars, fin, answered, nevt>>

-----------------------------------------------------------------------------
(* An API call: apicmdgw_cmd_allocbuff, then apicmdgw_send *)

\* An API function builds a command; sync: it passes a response buffer;
\* fevr: its timeout is ALT_OSAL_TIMEO_FEVR.
Call(c) ==
  /\ pc[c] = "idle"
  /\ isinit
  /\ DrawTransId
  /\ \E k \in CallKinds : cmd' = [cmd EXCEPT ![c] = NewCmd("CMD", k.sync, k.fevr)]
  /\ pc' = [pc EXCEPT ![c] = "gate"]
  /\ UNCHANGED <<gateVars, tblVars, ret, retry, rcvVars, finVars, mdmVars>>

\* The thread's buffers are freed: what they held is forgotten.
Forget(t) ==
  /\ cmd' = [cmd EXCEPT ![t] = NoCmd]
  /\ ret' = [ret EXCEPT ![t] = "NONE"]
  /\ sem' = [sem EXCEPT ![t] = 0]
  /\ result' = [result EXCEPT ![t] = "OK"]
  /\ got' = [got EXCEPT ![t] = 0]

\* The API function frees its buffers and returns.
Return(c) ==
  /\ pc[c] = "done"
  /\ pc' = [pc EXCEPT ![c] = "idle"]
  /\ Forget(c)
  /\ UNCHANGED <<gateVars, tbl, retry, idVars, rcvVars, finVars, mdmVars>>

\* case APICMDGW_INIT: the first sender starts the echo task and tries again.
GateInit(c) ==
  /\ pc[c] = "gate" /\ gwState = "INIT"
  /\ gwState' = "ECHO_TESTING"
  /\ \E e \in Echoes :
       /\ pc[e] = "none"
       /\ pc' = [pc EXCEPT ![e] = "loop"]
       /\ retry' = [retry EXCEPT ![e] = 0]
  /\ UNCHANGED <<isinit, live, sessions, tblVars, cmd, ret, idVars, rcvVars, finVars, mdmVars>>

\* Mutant of Gate: the echo in progress is not waited for.
GateWhileTesting(c) ==
  /\ pc[c] = "gate"
  /\ \/ /\ gwState \in {"ECHO_TESTING", "ECHO_COMPLETED"}
        /\ pc' = [pc EXCEPT ![c] = "send"]
        /\ UNCHANGED ret
     \/ /\ gwState = "FIN"
        /\ pc' = [pc EXCEPT ![c] = "done"]
        /\ ret' = [ret EXCEPT ![c] = "ECONNABORTED"]
  /\ UNCHANGED <<gateVars, tblVars, cmd, retry, idVars, rcvVars, finVars, mdmVars>>

\* The other cases: wait for the echo, go on to __apicmdgw_send, or fail.
Gate(c) ==
  /\ pc[c] = "gate"
  /\ \/ /\ gwState = "ECHO_TESTING"
        /\ pc' = [pc EXCEPT ![c] = "echoWait"]
        /\ UNCHANGED ret
     \/ /\ gwState = "ECHO_COMPLETED"
        /\ pc' = [pc EXCEPT ![c] = "send"]
        /\ UNCHANGED ret
     \/ /\ gwState = "FIN"
        /\ pc' = [pc EXCEPT ![c] = "done"]
        /\ ret' = [ret EXCEPT ![c] = "ECONNABORTED"]
  /\ UNCHANGED <<gateVars, tblVars, cmd, retry, idVars, rcvVars, finVars, mdmVars>>

\* Mutant of EchoWaitTimeout: alt_osal_thread_cond_wait, without the timeout.
EchoWaitForever(c) == FALSE /\ UNCHANGED vars

\* alt_osal_thread_cond_timedwait on g_stateCond timed out.
EchoWaitTimeout(c) ==
  /\ pc[c] = "echoWait" /\ ~cmd[c].fevr
  /\ pc' = [pc EXCEPT ![c] = "done"]
  /\ ret' = [ret EXCEPT ![c] = "ETIMEDOUT"]
  /\ UNCHANGED <<gateVars, tblVars, cmd, retry, idVars, rcvVars, finVars, mdmVars>>

-----------------------------------------------------------------------------
(* __apicmdgw_send, run by application threads and by the echo task *)

Send(t) ==
  /\ pc[t] = "send"
  /\ \/ /\ ~isinit
        /\ pc' = [pc EXCEPT ![t] = "done"]
        /\ ret' = [ret EXCEPT ![t] = "EPERM"]
     \/ /\ isinit
        /\ pc' = [pc EXCEPT ![t] = IF cmd[t].sync THEN "addtbl" ELSE "xmit"]
        /\ UNCHANGED ret
  /\ UNCHANGED <<gateVars, tblVars, cmd, retry, idVars, rcvVars, finVars, mdmVars>>

\* A mutex that apicmdgw_fin deleted is a freed block: the lock still succeeds
\* while the block is untouched and never succeeds once it is used again.
LockDeleted(t) ==
  /\ ~live
  /\ pc' = [pc EXCEPT ![t] = "hung"]
  /\ UNCHANGED <<gateVars, tblVars, cmd, ret, retry, idVars, rcvVars, finVars, mdmVars>>

\* The block table is zeroed by the pool, gets a new semaphore and is pushed.
AddTable(t) ==
  /\ pc[t] = "addtbl"
  /\ pc' = [pc EXCEPT ![t] = "xmit"]
  /\ tbl' = tbl \cup {t}
  /\ sem' = [sem EXCEPT ![t] = 0]
  /\ result' = [result EXCEPT ![t] = "OK"]
  /\ got' = [got EXCEPT ![t] = 0]
  /\ UNCHANGED <<gateVars, cmd, ret, retry, idVars, rcvVars, finVars, mdmVars>>

AddTableHang(t) == pc[t] = "addtbl" /\ LockDeleted(t)

\* The HAL's send under its lock; it may fail.
Transmit(t) ==
  /\ pc[t] = "xmit" /\ live
  /\ \/ /\ cmds' = cmds \cup {cmd[t]}
        /\ pc' = [pc EXCEPT ![t] = IF cmd[t].sync THEN "wait" ELSE "done"]
        /\ ret' = [ret EXCEPT ![t] = IF cmd[t].sync THEN @ ELSE "OK"]
     \/ /\ pc' = [pc EXCEPT ![t] = IF cmd[t].sync THEN "rem" ELSE "done"]
        /\ ret' = [ret EXCEPT ![t] = "EIO"]
        /\ UNCHANGED cmds
  /\ UNCHANGED <<gateVars, tblVars, cmd, retry, idVars, rcvVars, finVars, answered, rx, nevt>>

\* g_hal_if is NULL after apicmdgw_fin.
TransmitFault(t) ==
  /\ pc[t] = "xmit" /\ ~live
  /\ pc' = [pc EXCEPT ![t] = "fault"]
  /\ UNCHANGED <<gateVars, tblVars, cmd, ret, retry, idVars, rcvVars, finVars, mdmVars>>

\* alt_osal_wait_semaphore(&blocktbl->waitsem, timeout_ms)
Wake(t) ==
  /\ pc[t] = "wait" /\ sem[t] = 1
  /\ sem' = [sem EXCEPT ![t] = 0]
  /\ pc' = [pc EXCEPT ![t] = "woken"]
  /\ UNCHANGED <<gateVars, tbl, result, got, cmd, ret, retry, idVars, rcvVars, finVars, mdmVars>>

WaitTimeout(t) ==
  /\ pc[t] = "wait" /\ sem[t] = 0 /\ ~cmd[t].fevr
  /\ pc' = [pc EXCEPT ![t] = "rem"]
  /\ ret' = [ret EXCEPT ![t] = "ETIMEDOUT"]
  /\ UNCHANGED <<gateVars, tblVars, cmd, retry, idVars, rcvVars, finVars, mdmVars>>

\* Mutant of TakeResult: the wake-up of apicmdgw_relcondwaitall is not told
\* from that of apicmdgw_writetable.
TakeResultUnchecked(t) ==
  /\ pc[t] = "woken"
  /\ pc' = [pc EXCEPT ![t] = "rem"]
  /\ ret' = [ret EXCEPT ![t] = result[t]]
  /\ UNCHANGED <<gateVars, tblVars, cmd, retry, idVars, rcvVars, finVars, mdmVars>>

\* A woken thread takes the result of the receive task, unless the gateway was
\* finalized meanwhile.
TakeResult(t) ==
  /\ pc[t] = "woken"
  /\ pc' = [pc EXCEPT ![t] = "rem"]
  /\ ret' = [ret EXCEPT ![t] = IF isinit THEN result[t] ELSE "ECONNABORTED"]
  /\ UNCHANGED <<gateVars, tblVars, cmd, retry, idVars, rcvVars, finVars, mdmVars>>

\* Mutant of RemTable: the block table of a call that failed stays in the list.
RemTableOnSuccess(t) ==
  /\ pc[t] = "rem"
  /\ pc' = [pc EXCEPT ![t] = "done"]
  /\ tbl' = IF ret[t] = "OK" THEN tbl \ {t} ELSE tbl
  /\ UNCHANGED <<gateVars, sem, result, got, cmd, ret, retry, idVars, rcvVars, finVars, mdmVars>>

RemTable(t) ==
  /\ pc[t] = "rem"
  /\ pc' = [pc EXCEPT ![t] = "done"]
  /\ tbl' = tbl \ {t}
  /\ UNCHANGED <<gateVars, sem, result, got, cmd, ret, retry, idVars, rcvVars, finVars, mdmVars>>

RemTableHang(t) == pc[t] = "rem" /\ LockDeleted(t)

-----------------------------------------------------------------------------
(* apicmdgw_echotask *)

\* One turn of while (ECHO_RETRYCNT > retryCnt++): the echo needs the gateway
\* initialized, else the task sleeps and tries again.
EchoTry(e) ==
  /\ pc[e] = "loop"
  /\ retry' = [retry EXCEPT ![e] = @ + 1]
  /\ \/ /\ EchoRetryCnt > retry[e] /\ isinit
        /\ DrawTransId
        /\ cmd' = [cmd EXCEPT ![e] = NewCmd("ECHO", TRUE, FALSE)]
        /\ pc' = [pc EXCEPT ![e] = "send"]
     \/ /\ EchoRetryCnt > retry[e] /\ ~isinit
        /\ UNCHANGED <<idVars, cmd, pc>>
     \/ /\ EchoRetryCnt <= retry[e]
        /\ pc' = [pc EXCEPT ![e] = "end"]
        /\ UNCHANGED <<idVars, cmd>>
  /\ UNCHANGED <<gateVars, tblVars, ret, rcvVars, finVars, mdmVars>>

\* Mutant of EchoDone: a timeout (-ETIMEDOUT) counts as an answer.
EchoDoneOnTimeout(e) ==
  /\ pc[e] = "done"
  /\ \/ /\ ret[e] \in {"OK", "ETIMEDOUT"}
        /\ gwState' = "ECHO_COMPLETED"
        /\ pc' = [Broadcast(pc) EXCEPT ![e] = "end"]
     \/ /\ ret[e] \notin {"OK", "ETIMEDOUT"}
        /\ pc' = [pc EXCEPT ![e] = "loop"]
        /\ UNCHANGED gwState
  /\ Forget(e)
  /\ UNCHANGED <<isinit, live, sessions, tbl, retry, idVars, rcvVars, finVars, mdmVars>>

EchoDone(e) ==
  /\ pc[e] = "done"
  /\ \/ /\ ret[e] = "OK"
        /\ gwState' = "ECHO_COMPLETED"
        /\ pc' = [Broadcast(pc) EXCEPT ![e] = "end"]
     \/ /\ ret[e] # "OK"
        /\ pc' = [pc EXCEPT ![e] = "loop"]
        /\ UNCHANGED gwState
  /\ Forget(e)
  /\ UNCHANGED <<isinit, live, sessions, tbl, retry, idVars, rcvVars, finVars, mdmVars>>

\* After the loop: if (ECHO_RETRYCNT <= retryCnt) the gateway is finished.
EchoEnd(e) ==
  /\ pc[e] = "end"
  /\ \/ /\ EchoRetryCnt <= retry[e]
        /\ gwState' = "FIN"
        /\ pc' = [Broadcast(pc) EXCEPT ![e] = "none"]
     \/ /\ EchoRetryCnt > retry[e]
        /\ pc' = [pc EXCEPT ![e] = "none"]
        /\ UNCHANGED gwState
  /\ UNCHANGED <<isinit, live, sessions, tblVars, cmd, ret, retry, idVars, rcvVars, finVars, mdmVars>>

-----------------------------------------------------------------------------
(* apicmdgw_recvtask *)

\* Mutant of RecvLoop: the result of the wait on g_checkpostpone_sem is ignored.
RecvLoopUntested ==
  /\ rcv = "idle"
  /\ postpone' = FALSE
  /\ IF replay = <<>>
     THEN /\ rcv' = "recv"
          /\ UNCHANGED <<cur, replay>>
     ELSE /\ cur' = Head(replay)
          /\ replay' = Tail(replay)
          /\ rcv' = "frame"
  /\ UNCHANGED <<gateVars, tblVars, thrVars, idVars, disp, finVars, mdmVars>>

\* The top of the loop in the IDLE state: once altcom_app_ready posted
\* g_checkpostpone_sem (it is posted back) nothing is postponed any more, and
\* then the postponed events are read before the HAL.
RecvLoop ==
  /\ rcv = "idle"
  /\ LET postponed == postpone /\ ckSem = 0
     IN /\ postpone' = postponed
        /\ IF postponed \/ replay = <<>>
           THEN /\ rcv' = "recv"
                /\ UNCHANGED <<cur, replay>>
           ELSE /\ cur' = Head(replay)
                /\ replay' = Tail(replay)
                /\ rcv' = "frame"
  /\ UNCHANGED <<gateVars, tblVars, thrVars, idVars, disp, finVars, mdmVars>>

\* The HAL delivers the magic number, the header and the data of a frame.
RecvFrame ==
  /\ rcv = "recv" /\ abort = "NONE" /\ rx # <<>>
  /\ cur' = Head(rx)
  /\ rx' = Tail(rx)
  /\ rcv' = "frame"
  /\ UNCHANGED <<gateVars, tblVars, thrVars, idVars, postpone, replay, disp, finVars, cmds, answered, nevt>>

\* A frame whose header or data checksum is wrong: apicmdgw_errind tells the
\* modem.  It builds a command, which apicmdgw_cmd_allocbuff refuses when the
\* gateway is being finalized, and passes it to apicmdgw_send with timeout 0,
\* which alt_osal_thread_cond_timedwait takes for no timeout.
RecvBad ==
  /\ rcv = "recv" /\ abort = "NONE" /\ rx # <<>>
  /\ rx' = Tail(rx)
  /\ \/ /\ isinit
        /\ DrawTransId
        /\ cmd' = [cmd EXCEPT ![Receiver] = NewCmd("ERRIND", FALSE, TRUE)]
        /\ pc' = [pc EXCEPT ![Receiver] = "gate"]
        /\ rcv' = "errind"
     \/ /\ ~isinit
        /\ rcv' = "fault"
        /\ UNCHANGED <<idVars, cmd, pc>>
  /\ UNCHANGED <<gateVars, tblVars, ret, retry, cur, postpone, replay, disp, finVars, cmds, answered, nevt>>

\* apicmdgw_send returned.  The task asserts that it succeeded, and that
\* apicmdgw_freebuff then freed the buffer, which it refuses when the gateway is
\* being finalized.
ErrindSent ==
  /\ rcv = "errind" /\ pc[Receiver] = "done"
  /\ rcv' = IF ret[Receiver] = "OK" /\ isinit THEN "idle" ELSE "fault"
  /\ pc' = [pc EXCEPT ![Receiver] = "idle"]
  /\ Forget(Receiver)
  /\ UNCHANGED <<gateVars, tbl, retry, idVars, cur, postpone, replay, disp, finVars, mdmVars>>

\* -EAGAIN: the request is consumed and the loop starts again.
RecvAgain ==
  /\ rcv = "recv" /\ abort = "AGAIN"
  /\ abort' = "NONE"
  /\ rcv' = "idle"
  /\ UNCHANGED <<gateVars, tblVars, thrVars, idVars, cur, postpone, replay, disp, fin, ready, ckSem, mdmVars>>

\* -ECONNABORTED: under g_delwaitcondmtx the task frees the postponed events,
\* clears g_isTaskRun, signals apicmdgw_fin and deletes itself.
RecvTerminate ==
  /\ rcv = "recv" /\ abort = "TERMINATE"
  /\ rcv' = "gone"
  /\ replay' = <<>>
  /\ UNCHANGED <<gateVars, tblVars, thrVars, idVars, cur, postpone, disp, finVars, mdmVars>>

\* g_isTaskRun
IsTaskRun == rcv \notin {"none", "gone"}

\* Mutant of Matches: the transaction ids are not compared.
MatchesCmdId(t, f) == f.res /\ cmd[t].cmdid = f.cmdid

\* The search of apicmdgw_writetable: transaction id and command id agree.
Matches(t, f) ==
  f.res /\ cmd[t].cmdid = f.cmdid /\ cmd[t].transid = f.transid

Waiters(f) == {t \in tbl : Matches(t, f)}

\* apicmdgw_writetable: the waiter gets the data, or -ENOSPC when they do not
\* fit its buffer, and its semaphore is posted (a second post is lost).
WriteTable ==
  /\ rcv = "frame"
  /\ \E t \in Waiters(cur) :
       /\ \/ /\ result' = [result EXCEPT ![t] = "OK"]
             /\ got' = [got EXCEPT ![t] = cur.id]
          \/ /\ result' = [result EXCEPT ![t] = "ENOSPC"]
             /\ UNCHANGED got
       /\ sem' = [sem EXCEPT ![t] = 1]
  /\ rcv' = "idle"
  /\ UNCHANGED <<gateVars, tbl, thrVars, idVars, cur, postpone, replay, disp, finVars, mdmVars>>

\* Mutant of HandleEvent: a postponed event is pushed, not appended.
HandleEventPush ==
  /\ rcv = "frame" /\ Waiters(cur) = {}
  /\ IF postpone /\ ~cur.res /\ cur.cmdid \in PostponableIds
     THEN /\ replay' = <<cur>> \o replay
          /\ UNCHANGED disp
     ELSE /\ disp' = IF cur.res THEN disp ELSE Append(disp, cur)
          /\ UNCHANGED replay
  /\ rcv' = "idle"
  /\ UNCHANGED <<gateVars, tblVars, thrVars, idVars, cur, postpone, finVars, mdmVars>>

\* No thread waits for the frame: an event is appended to the postponed ones or
\* dispatched; the dispatcher knows no handler for a late response and the
\* frame is freed.
HandleEvent ==
  /\ rcv = "frame" /\ Waiters(cur) = {}
  /\ IF postpone /\ ~cur.res /\ cur.cmdid \in PostponableIds
     THEN /\ replay' = Append(replay, cur)
          /\ UNCHANGED disp
     ELSE /\ disp' = IF cur.res THEN disp ELSE Append(disp, cur)
          /\ UNCHANGED replay
  /\ rcv' = "idle"
  /\ UNCHANGED <<gateVars, tblVars, thrVars, idVars, cur, postpone, finVars, mdmVars>>

-----------------------------------------------------------------------------
(* apicmdgw_fin *)

FinStart ==
  /\ isinit /\ fin = "idle"
  /\ isinit' = FALSE
  /\ fin' = "abort"
  /\ UNCHANGED <<gwState, live, sessions, tblVars, thrVars, idVars, rcvVars, ready, ckSem, abort, mdmVars>>

\* Mutant of FinAbort: the HAL's abortrecv is not called.
FinWithoutAbort ==
  /\ fin = "abort"
  /\ fin' = "state"
  /\ UNCHANGED <<gateVars, tblVars, thrVars, idVars, rcvVars, ready, ckSem, abort, mdmVars>>

FinAbort ==
  /\ fin = "abort"
  /\ abort' = "TERMINATE"
  /\ fin' = "state"
  /\ UNCHANGED <<gateVars, tblVars, thrVars, idVars, rcvVars, ready, ckSem, mdmVars>>

FinState ==
  /\ fin = "state"
  /\ gwState' = "FIN"
  /\ pc' = Broadcast(pc)
  /\ fin' = "join"
  /\ UNCHANGED <<isinit, live, sessions, tblVars, cmd, ret, retry, idVars, rcvVars, ready, ckSem, abort, mdmVars>>

\* Mutant of FinJoin: g_isTaskRun is not tested.
FinWithoutJoin ==
  /\ fin = "join"
  /\ fin' = "release"
  /\ UNCHANGED <<gateVars, tblVars, thrVars, idVars, rcvVars, ready, ckSem, abort, mdmVars>>

\* do { if (!g_isTaskRun) break; } while (cond_wait(&g_delwaitcond))
FinJoin ==
  /\ fin = "join" /\ ~IsTaskRun
  /\ fin' = "release"
  /\ UNCHANGED <<gateVars, tblVars, thrVars, idVars, rcvVars, ready, ckSem, abort, mdmVars>>

\* apicmdgw_relcondwaitall
FinRelease ==
  /\ fin = "release"
  /\ sem' = [t \in Threads |-> IF t \in tbl THEN 1 ELSE sem[t]]
  /\ fin' = "delete"
  /\ UNCHANGED <<gateVars, tbl, result, got, thrVars, idVars, rcvVars, ready, ckSem, abort, mdmVars>>

\* g_checkpostpone_sem and g_blkinfotbl_mtx are deleted, g_hal_if is cleared.
FinDelete ==
  /\ fin = "delete"
  /\ live' = FALSE
  /\ ckSem' = 0
  /\ fin' = "idle"
  /\ UNCHANGED <<isinit, gwState, sessions, tblVars, thrVars, idVars, rcvVars, ready, abort, mdmVars>>

-----------------------------------------------------------------------------
(* altcom_app_ready: apicmdgw_replay_postponed_event, then apicmdgw_recvagain *)

\* An application that has events postponed is ready once, after initializing.
AppReady ==
  /\ PostponableIds # {}
  /\ ready = "no" /\ isinit
  /\ ckSem' = 1
  /\ ready' = "posted"
  /\ UNCHANGED <<gateVars, tblVars, thrVars, idVars, rcvVars, fin, abort, mdmVars>>

\* Mutant of RecvAgainRequest: the receive task is not woken in the HAL.
ReadyWithoutAgain ==
  /\ ready = "posted"
  /\ ready' = IF live THEN "done" ELSE "fault"
  /\ UNCHANGED <<gateVars, tblVars, thrVars, idVars, rcvVars, fin, ckSem, abort, mdmVars>>

\* The abort request replaces whatever request is pending.
RecvAgainRequest ==
  /\ ready = "posted"
  /\ IF live THEN abort' = "AGAIN" /\ ready' = "done"
             ELSE ready' = "fault" /\ UNCHANGED abort
  /\ UNCHANGED <<gateVars, tblVars, thrVars, idVars, rcvVars, fin, ckSem, mdmVars>>

-----------------------------------------------------------------------------
(* The modem (external): answers commands in any order, or never; emits events *)

ModemReply ==
  /\ \E m \in cmds :
       /\ m.sync /\ m.id \notin answered
       /\ rx' = Append(rx, [res |-> TRUE, cmdid |-> m.cmdid, transid |-> m.transid, id |-> m.id])
       /\ answered' = answered \cup {m.id}
  /\ UNCHANGED <<gateVars, tblVars, thrVars, idVars, rcvVars, finVars, cmds, nevt>>

\* The modem numbers its events on its own: any transaction id may occur.
ModemEvent ==
  /\ nevt < MaxEvents /\ live
  /\ nevt' = nevt + 1
  /\ \E i \in EvtIds, n \in 1..MaxCmds :
       rx' = Append(rx, [res |-> FALSE, cmdid |-> i, transid |-> n, id |-> nevt + 1])
  /\ UNCHANGED <<gateVars, tblVars, thrVars, idVars, rcvVars, finVars, cmds, answered>>

-----------------------------------------------------------------------------
CallerStep(c) == Call(c) \/ Return(c)

GateStep(c) == GateInit(c) \/ Gate(c) \/ EchoWaitTimeout(c)

SendStep(t) ==
  \/ Send(t) \/ AddTable(t) \/ AddTableHang(t) \/ Transmit(t) \/ TransmitFault(t)
  \/ Wake(t) \/ WaitTimeout(t) \/ TakeResult(t) \/ RemTable(t) \/ RemTableHang(t)

EchoStep(e) == EchoTry(e) \/ EchoDone(e) \/ EchoEnd(e)

RecvStep ==
  \/ RecvLoop \/ RecvFrame \/ RecvBad \/ ErrindSent \/ RecvAgain \/ RecvTerminate
  \/ WriteTable \/ HandleEvent

FinStep == FinStart \/ FinAbort \/ FinState \/ FinJoin \/ FinRelease \/ FinDelete

Next ==
  \/ GwInit
  \/ \E c \in Callers : CallerStep(c)
  \/ \E c \in Gated : GateStep(c)
  \/ \E t \in Threads : SendStep(t)
  \/ \E e \in Echoes : EchoStep(e)
  \/ RecvStep
  \/ FinStep
  \/ AppReady \/ RecvAgainRequest
  \/ ModemReply \/ ModemEvent

Spec == Init /\ [][Next]_vars

\* Every task the scheduler can run runs in the end, and a finite timeout fires;
\* no fairness for the modem, the application's next call or FinStart.
Fairness ==
  /\ \A c \in Callers : WF_vars(Return(c))
  /\ \A c \in Gated :
       WF_vars(GateInit(c)) /\ WF_vars(Gate(c)) /\ WF_vars(EchoWaitTimeout(c))
  /\ \A t \in Threads : WF_vars(SendStep(t))
  /\ \A e \in Echoes : WF_vars(EchoStep(e))
  /\ WF_vars(RecvStep)
  /\ WF_vars(FinAbort \/ FinState \/ FinJoin \/ FinRelease \/ FinDelete)
  /\ WF_vars(RecvAgainRequest)

FairSpec == Spec /\ Fairness

-----------------------------------------------------------------------------
(* Safety *)

\* A call with a response buffer that succeeds returns the response the modem
\* gave to this very command: no late, foreign or unsolicited frame, and no
\* wake-up without a response, passes for it (apicmdgw_writetable, the result
\* of __apicmdgw_send, apicmdgw_relcondwaitall).
AnswerIsOwn ==
  \A t \in Threads :
    pc[t] = "done" /\ cmd[t].sync /\ ret[t] = "OK" =>
      got[t] = cmd[t].id /\ cmd[t].id \in answered

\* The wait table holds exactly the calls between apicmdgw_addtable and
\* apicmdgw_remtable: the receive task never writes to the response buffer of
\* a call that returned, whichever way it returned.
TableMatchesWaiters ==
  \A t \in Threads :
    pc[t] \notin DeadPCs =>
      (t \in tbl <=> \/ pc[t] \in {"wait", "woken", "rem"}
                    \/ (pc[t] = "xmit" /\ cmd[t].sync))

\* Until the echo completed (or failed) no command but the echo passes the gate
\* of apicmdgw_send.
EchoGate ==
  gwState \in {"INIT", "ECHO_TESTING"} =>
    \A c \in Gated : pc[c] \notin SendPCs \ {"done"}

\* The gate opens only on the modem's response to an echo.
GateOpensOnEcho ==
  [][gwState # "ECHO_COMPLETED" /\ gwState' = "ECHO_COMPLETED" =>
       BypassEcho \/ \E e \in Echoes : /\ cmd[e].cmdid = "ECHO"
                                      /\ got[e] = cmd[e].id
                                      /\ got[e] \in answered]_vars

\* The receive task never runs without the wait table's mutex and the HAL:
\* apicmdgw_fin destroys them after the task ended.
FinJoinsReceiver == ~live => ~IsTaskRun

\* Events of one kind, postponable or not, reach the dispatcher in the order
\* the modem sent them, although postponed ones are held back and replayed.
EventOrder ==
  \A i, j \in DOMAIN disp :
    (i < j /\ (disp[i].cmdid \in PostponableIds <=> disp[j].cmdid \in PostponableIds)) =>
      disp[i].id < disp[j].id

\* No postponable event is dispatched before altcom_app_ready.
HeldUntilReady ==
  ready = "no" => \A i \in DOMAIN disp : disp[i].cmdid \notin PostponableIds

\* "Non wait to response when parameter of respbuff set NULL": sending its error
\* indication, the receive task does not wait for the response to the echo,
\* which nobody else could receive.
ReceiverNotGated == pc[Receiver] # "echoWait"

-----------------------------------------------------------------------------
(* Liveness, under FairSpec *)

\* A call whose timeout is finite returns, whatever the modem does and whether
\* or not the gateway is finalized meanwhile.
CallReturns ==
  \A c \in Callers :
    (pc[c] # "idle" /\ ~cmd[c].fevr) ~> (pc[c] \in {"idle"} \cup DeadPCs)

\* apicmdgw_fin returns, unless an altcom_app_ready in progress replaces its
\* abort request, or an assertion of apicmdgw_errind stopped the receive task.
FinEnds == (fin = "abort" /\ ready # "posted") ~> (fin = "idle" \/ rcv = "fault")

\* After altcom_app_ready the postponed events are handed over although the
\* receive task may be blocked in the HAL, unless the gateway is finalized or an
\* assertion of apicmdgw_errind stopped the task.
PostponedReplayed ==
  (ready = "done" /\ replay # <<>>) ~> (replay = <<>> \/ ~isinit \/ rcv = "fault")

-----------------------------------------------------------------------------
(* What the gateway promises to its callers *)

Phase(t) == CASE pc[t] = "idle" -> "idle"
              [] pc[t] = "done" -> "returned"
              [] OTHER          -> "busy"

Promise == INSTANCE SyncCall WITH
  Clients  <- Callers,
  phase    <- [c \in Callers |-> Phase(c)],
  req      <- [c \in Callers |-> cmd[c].id],
  waits    <- [c \in Callers |-> cmd[c].sync],
  outcome  <- [c \in Callers |-> IF pc[c] = "done" THEN ret[c] ELSE "NONE"],
  data     <- [c \in Callers |-> IF pc[c] = "done" /\ ret[c] = "OK" THEN got[c] ELSE 0]

\* The gateway implements SyncCall.
PromiseSpec == Promise!Spec

=============================================================================
