------------------------------ MODULE ThrdPool ------------------------------
(***************************************************************************)
(* The thread pool that runs the event handlers                            *)
(* (altcomlib/util/thrdpool.c): workers that take jobs from one bounded     *)
(* queue, and the deletion, which sends every worker an element without a  *)
(* job and waits on a condition variable until the last one terminates.     *)
(*                                                                         *)
(* Who hands jobs over is not part of the pool.  Here any task may, until   *)
(* the deletion starts; that the library keeps to this is shown in          *)
(* EventPath.                                                               *)
(***************************************************************************)
EXTENDS CondVar, Sequences

CONSTANTS
  Workers,    \* thrdinfolist, maxthrdnum of them
  Deleter,    \* the task that calls thrdpool_delete
  Jobs,       \* the jobs that may be handed over, each one once
  NoJob,      \* the element whose job is NULL
  MaxQueNum   \* maxquenum

\* Two workers more than the tokens evtQue holds could block each other: see
\* SignalBlocks.
ASSUME PoolAssumption ==
  /\ Workers # {} /\ IsFiniteSet(Workers)
  /\ Deleter \notin Workers
  /\ Tasks = Workers \cup {Deleter}
  /\ NoJob \notin Jobs
  /\ MaxQueNum \in Nat \ {0}
  /\ Cardinality(Workers) <= QueCap + 1

\* mtx and the rest of CondVar's variables are delwaitcondmtx and delwaitcond.
VARIABLES
  queue,   \* the elements in the job queue
  state,   \* thrdinfolist[].state
  wpc,     \* where each worker is in thrdpool_thrdmain
  job,     \* recvbuf.job of each worker
  dpc,     \* where the deletion is
  nsent,   \* num: elements without a job that were sent
  live,    \* the queue, the condition variable and the table exist
  handed,  \* ghost: the jobs handed over
  ran      \* ghost: the jobs that were run

workVars == <<queue, state, wpc, job, handed, ran>>
delVars  == <<dpc, nsent, live>>
poolVars == <<condVars, workVars, delVars>>

TypeOK ==
  /\ CondTypeOK
  /\ queue \in Seq(Jobs \cup {NoJob}) /\ Len(queue) <= MaxQueNum
  /\ state \in [Workers -> {"WAITING", "RUNNABLE", "TERMINATING"}]
  /\ wpc \in [Workers -> {"recv", "run", "lock", "term", "signal", "unlock", "gone"}]
  /\ job \in [Workers -> Jobs \cup {NoJob}]
  /\ dpc \in {"none", "send", "lock", "check", "wait", "free", "done"}
  /\ nsent \in Nat
  /\ live \in BOOLEAN
  /\ handed \subseteq Jobs /\ ran \subseteq Jobs

\* thrdpool_create
PoolInit ==
  /\ CondInit
  /\ queue = <<>>
  /\ state = [w \in Workers |-> "WAITING"]
  /\ wpc = [w \in Workers |-> "recv"]
  /\ job = [w \in Workers |-> NoJob]
  /\ dpc = "none" /\ nsent = 0 /\ live = TRUE
  /\ handed = {} /\ ran = {}

\* thrdpool_runjob: blocks while the queue is full.
RunJob(j) ==
  /\ j \notin handed
  /\ Len(queue) < MaxQueNum
  /\ queue' = Append(queue, j)
  /\ handed' = handed \cup {j}
  /\ UNCHANGED <<condVars, state, wpc, job, ran, delVars>>

-----------------------------------------------------------------------------
(* thrdpool_thrdmain *)

GoTo(w, place) == wpc' = [wpc EXCEPT ![w] = place]

\* alt_osal_recv_mqueue; an element without a job ends the loop.
Recv(w) ==
  /\ wpc[w] = "recv" /\ queue # <<>>
  /\ queue' = Tail(queue)
  /\ IF Head(queue) = NoJob
     THEN GoTo(w, "lock") /\ UNCHANGED <<state, job>>
     ELSE /\ GoTo(w, "run")
          /\ job' = [job EXCEPT ![w] = Head(queue)]
          /\ state' = [state EXCEPT ![w] = "RUNNABLE"]
  /\ UNCHANGED <<condVars, handed, ran, delVars>>

\* recvbuf.job(recvbuf.arg) returns.
JobReturns(w) ==
  /\ wpc[w] = "run"
  /\ ran' = ran \cup {job[w]}
  /\ job' = [job EXCEPT ![w] = NoJob]
  /\ state' = [state EXCEPT ![w] = "WAITING"]
  /\ GoTo(w, "recv")
  /\ UNCHANGED <<condVars, queue, handed, delVars>>

LockToEnd(w) ==
  /\ wpc[w] = "lock"
  /\ Lock(w)
  /\ GoTo(w, "term")
  /\ UNCHANGED <<queue, state, job, handed, ran, delVars>>

Terminate(w) ==
  /\ wpc[w] = "term"
  /\ state' = [state EXCEPT ![w] = "TERMINATING"]
  /\ GoTo(w, "signal")
  /\ UNCHANGED <<condVars, queue, job, handed, ran, delVars>>

\* Mutant of SignalEnd: the worker does not signal.
NoSignal(w) ==
  /\ wpc[w] = "signal"
  /\ GoTo(w, "unlock")
  /\ UNCHANGED <<condVars, queue, state, job, handed, ran, delVars>>

SignalEnd(w) ==
  /\ wpc[w] = "signal"
  /\ \/ (Signal(w) \/ SignalUnblocks(w)) /\ GoTo(w, "unlock")
     \/ SignalBlocks(w) /\ UNCHANGED wpc
  /\ UNCHANGED <<queue, state, job, handed, ran, delVars>>

\* The worker unlocks and deletes itself: it touches nothing of the pool then.
UnlockGone(w) ==
  /\ wpc[w] = "unlock"
  /\ Unlock(w)
  /\ GoTo(w, "gone")
  /\ UNCHANGED <<queue, state, job, handed, ran, delVars>>

WorkerStep(w) ==
  \/ Recv(w) \/ JobReturns(w)
  \/ LockToEnd(w) \/ Terminate(w) \/ SignalEnd(w) \/ UnlockGone(w)

-----------------------------------------------------------------------------
(* thrdpool_delete *)

DeleteStart ==
  /\ dpc = "none"
  /\ dpc' = "send"
  /\ UNCHANGED <<condVars, workVars, nsent, live>>

\* One element without a job for each worker.
DeleteSend ==
  /\ dpc = "send"
  /\ IF nsent < Cardinality(Workers)
     THEN /\ Len(queue) < MaxQueNum
          /\ queue' = Append(queue, NoJob)
          /\ nsent' = nsent + 1
          /\ UNCHANGED dpc
     ELSE dpc' = "lock" /\ UNCHANGED <<queue, nsent>>
  /\ UNCHANGED <<condVars, state, wpc, job, handed, ran, live>>

DeleteLock ==
  /\ dpc = "lock"
  /\ Lock(Deleter)
  /\ dpc' = "check"
  /\ UNCHANGED <<workVars, nsent, live>>

AllTerminating == \A w \in Workers : state[w] = "TERMINATING"

\* Every worker is terminating: unlock; or else wait.
DeleteCheck ==
  /\ dpc = "check"
  /\ \/ AllTerminating /\ Unlock(Deleter) /\ dpc' = "free"
     \/ ~AllTerminating /\ WaitCount(Deleter) /\ dpc' = "wait"
  /\ UNCHANGED <<workVars, nsent, live>>

DeleteWait ==
  /\ dpc = "wait"
  /\ \/ (WaitUnlock(Deleter) \/ WaitToken(Deleter) \/ WaitRelock(Deleter)) /\ UNCHANGED dpc
     \/ WaitReturn(Deleter) /\ dpc' = "check"
  /\ UNCHANGED <<workVars, nsent, live>>

\* The condition variable, the mutex, the queue and the table are freed.
DeleteFree ==
  /\ dpc = "free"
  /\ live' = FALSE
  /\ dpc' = "done"
  /\ UNCHANGED <<condVars, workVars, nsent>>

DeleteStep == DeleteSend \/ DeleteLock \/ DeleteCheck \/ DeleteWait \/ DeleteFree

-----------------------------------------------------------------------------
PoolNext ==
  \/ \E j \in Jobs : dpc = "none" /\ RunJob(j)
  \/ \E w \in Workers : WorkerStep(w)
  \/ DeleteStart \/ DeleteStep

PoolSpec == PoolInit /\ [][PoolNext]_poolVars

-----------------------------------------------------------------------------
(* Safety *)

\* thrdpool_delete frees the queue, the mutex, the condition variable and the
\* workers' data only when no worker can touch them any more, although each
\* worker signals and unlocks after it set the state the deletion looks at.
FreedAfterLast == ~live => \A w \in Workers : wpc[w] = "gone"

\* When the pool is deleted every job handed over before was run: no worker
\* takes its element without a job before a job, and none is left behind.
JobsBeforeDelete == ~live => ran = handed

=============================================================================
