------------------------------ MODULE CondVar ------------------------------
(***************************************************************************)
(* The condition variable of the OSAL (osal/Source/freertos_osal.c): a     *)
(* queue of tokens, a count of the waiting tasks and a mutex of its own,   *)
(* built on FreeRTOS queues and mutexes, with the mutex its users hold.    *)
(*                                                                         *)
(* The tokens are all alike, so the queue is their number.  What runs      *)
(* under cond_mutex without blocking is one step.  A send into a full      *)
(* queue blocks and keeps cond_mutex, so it is a place of its own.         *)
(***************************************************************************)
EXTENDS Integers, FiniteSets

CONSTANTS
  Tasks,    \* the tasks that use the condition variable
  NoTask,   \* the holder of a mutex that is free
  QueCap    \* MAX_TASKS_WAITING_ON_COND_VAR

ASSUME CondAssumption == NoTask \notin Tasks /\ QueCap \in Nat \ {0}

VARIABLES
  mtx,      \* the holder of the users' mutex
  cmtx,     \* the holder of cond_mutex, while it blocks in a send
  tokens,   \* the tokens in evtQue
  waiting,  \* num_waiting
  cw        \* where each task is in wait or in signal

condVars == <<mtx, cmtx, tokens, waiting, cw>>

\* Outside; after num_waiting++; in alt_osal_recv_mqueue; before and after the
\* users' mutex was locked again; in alt_osal_send_mqueue.
CondPlaces == {"out", "counted", "recv", "relock", "relocked", "sending"}

\* The places between num_waiting++ and num_waiting--.
InWait == {"counted", "recv", "relock", "relocked"}

CondTypeOK ==
  /\ mtx \in Tasks \cup {NoTask}
  /\ cmtx \in Tasks \cup {NoTask}
  /\ tokens \in 0..QueCap
  /\ waiting \in Nat
  /\ cw \in [Tasks -> CondPlaces]

CondInit ==
  /\ mtx = NoTask /\ cmtx = NoTask
  /\ tokens = 0 /\ waiting = 0
  /\ cw = [t \in Tasks |-> "out"]

Goto(t, place) == cw' = [cw EXCEPT ![t] = place]

-----------------------------------------------------------------------------
(* The users' mutex *)

Lock(t) ==
  /\ mtx = NoTask
  /\ mtx' = t
  /\ UNCHANGED <<cmtx, tokens, waiting, cw>>

Unlock(t) ==
  /\ mtx = t
  /\ mtx' = NoTask
  /\ UNCHANGED <<cmtx, tokens, waiting, cw>>

-----------------------------------------------------------------------------
(* __alt_osal_thread_cond_wait *)

WaitCount(t) ==
  /\ cw[t] = "out" /\ mtx = t /\ cmtx = NoTask
  /\ waiting' = waiting + 1
  /\ Goto(t, "counted")
  /\ UNCHANGED <<mtx, cmtx, tokens>>

WaitUnlock(t) ==
  /\ cw[t] = "counted"
  /\ mtx' = NoTask
  /\ Goto(t, "recv")
  /\ UNCHANGED <<cmtx, tokens, waiting>>

WaitToken(t) ==
  /\ cw[t] = "recv" /\ tokens > 0
  /\ tokens' = tokens - 1
  /\ Goto(t, "relock")
  /\ UNCHANGED <<mtx, cmtx, waiting>>

WaitRelock(t) ==
  /\ cw[t] = "relock" /\ mtx = NoTask
  /\ mtx' = t
  /\ Goto(t, "relocked")
  /\ UNCHANGED <<cmtx, tokens, waiting>>

WaitReturn(t) ==
  /\ cw[t] = "relocked" /\ cmtx = NoTask
  /\ waiting' = waiting - 1
  /\ Goto(t, "out")
  /\ UNCHANGED <<mtx, cmtx, tokens>>

-----------------------------------------------------------------------------
(* alt_osal_signal_thread_cond: true when it returns in this step *)

Signal(t) ==
  /\ cw[t] = "out" /\ cmtx = NoTask
  /\ waiting = 0 \/ tokens < QueCap
  /\ tokens' = IF waiting = 0 THEN tokens ELSE tokens + 1
  /\ UNCHANGED <<mtx, cmtx, waiting, cw>>

\* The queue is full: the send blocks under cond_mutex ...
SignalBlocks(t) ==
  /\ cw[t] = "out" /\ cmtx = NoTask
  /\ waiting > 0 /\ tokens = QueCap
  /\ cmtx' = t
  /\ Goto(t, "sending")
  /\ UNCHANGED <<mtx, tokens, waiting>>

\* ... until a waiting task takes a token.
SignalUnblocks(t) ==
  /\ cw[t] = "sending" /\ tokens < QueCap
  /\ tokens' = tokens + 1
  /\ cmtx' = NoTask
  /\ Goto(t, "out")
  /\ UNCHANGED <<mtx, waiting>>

-----------------------------------------------------------------------------
(* Safety *)

\* num_waiting counts the tasks between its increment and its decrement, and
\* the tasks in the middle of the wait that still or again own the users'
\* mutex are the ones that say so: both counters are changed in other critical
\* sections than the mutex.
WaitingExact ==
  /\ waiting = Cardinality({t \in Tasks : cw[t] \in InWait})
  /\ \A t \in Tasks : cw[t] \in {"counted", "relocked"} => mtx = t

=============================================================================
