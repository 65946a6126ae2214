------------------------- MODULE EventPath_proofs -------------------------
(***************************************************************************)
(* Proofs about the event path: first about its thread pool alone, for any *)
(* number of workers and jobs and any length of the queue, then about the  *)
(* library around it, for any number of events and blocks, too.            *)
(*                                                                         *)
(* The pool: a worker is TERMINATING from Terminate on, and from its lock  *)
(* until its last step it holds the mutex.  So when the deletion, holding  *)
(* the mutex, sees every worker TERMINATING, every worker has gone         *)
(* (EndInv).  The elements without a job are all behind the jobs of the    *)
(* queue, so that no job is left once a worker took one (JobInv).          *)
(*                                                                         *)
(* The library hands no job over once the deletion has started: that is    *)
(* the order of lte_destroy, which joins the receive task before it        *)
(* deletes the workers (OrderInv), and with it what is proved of the pool  *)
(* holds of the library.                                                   *)
(*                                                                         *)
(* The blocks: a job is in one place only (RunOnce) and a call belongs to  *)
(* a handler that runs (CallInv), so that each step moves a block between  *)
(* two of the places BlocksAccounted counts, or frees it.                  *)
(***************************************************************************)
EXTENDS EventPath, FiniteSetTheorems, TLAPS

Ending == {"term", "signal", "unlock"}

\* Only the deletion waits, and it owns the mutex where it should.
CondInv ==
  /\ \A w \in Workers : cw[w] \in {"out", "sending"}
  /\ cw[Deleter] \in {"out"} \cup InWait
  /\ waiting = IF cw[Deleter] \in InWait THEN 1 ELSE 0
  /\ cw[Deleter] # "out" => dpc = "wait"
  /\ cw[Deleter] \in {"counted", "relocked"} => mtx = Deleter
  /\ dpc = "check" => mtx = Deleter

EndInv ==
  /\ \A w \in Workers : wpc[w] \in Ending => mtx = w
  /\ \A w \in Workers : state[w] = "TERMINATING" => wpc[w] \in {"signal", "unlock", "gone"}
  /\ dpc \in {"free", "done"} => \A w \in Workers : wpc[w] = "gone"
  /\ ~live => dpc = "done"

Queued(j) == \E i \in 1..Len(queue) : queue[i] = j

JobInv ==
  /\ \A j \in Jobs : j \in handed =>
       j \in ran \/ Queued(j) \/ \E w \in Workers : wpc[w] = "run" /\ job[w] = j
  /\ \A j \in Jobs : Queued(j) => j \in handed
  /\ \A w \in Workers : wpc[w] = "run" => job[w] \in handed
  /\ ran \subseteq handed
  /\ \A i, k \in 1..Len(queue) : i < k /\ queue[i] = NoJob => queue[k] = NoJob
  /\ dpc = "none" => ~Queued(NoJob) /\ \A w \in Workers : wpc[w] \in {"recv", "run"}
  /\ \A w \in Workers : wpc[w] \notin {"recv", "run"} => \A j \in Jobs : ~Queued(j)

IInv == TypeOK /\ CondInv /\ EndInv /\ JobInv

USE DEF CondPlaces, InWait, condVars, workVars, delVars

-----------------------------------------------------------------------------
LEMMA CondInit_ == PoolInit => CondTypeOK /\ CondInv /\ EndInv
BY CondAssumption, PoolAssumption
   DEF PoolInit, CondInit, CondTypeOK, CondInv, EndInv, Ending

LEMMA InitTypeOK == PoolInit => TypeOK
<1>1. PoolInit => CondTypeOK
  BY CondInit_
<1>2. PoolInit => queue \in Seq(Jobs \cup {NoJob}) /\ Len(queue) <= MaxQueNum
  BY PoolAssumption DEF PoolInit
<1> QED
  BY <1>1, <1>2 DEF PoolInit, TypeOK

LEMMA InitJobInv == PoolInit => JobInv
BY DEF PoolInit, JobInv, Queued

-----------------------------------------------------------------------------
(* Types.  The condition variable first: it has only three ways to move in  *)
(* the pool.                                                                *)

\* A step of the pool moves the condition variable as a worker that ends or as
\* the deletion does, or leaves it alone.
CondMove ==
  \/ UNCHANGED condVars
  \/ \E w \in Workers : Lock(w) \/ Unlock(w) \/ Signal(w) \/ SignalBlocks(w) \/ SignalUnblocks(w)
  \/ Lock(Deleter) \/ Unlock(Deleter) \/ WaitCount(Deleter) \/ WaitUnlock(Deleter)
  \/ WaitToken(Deleter) \/ WaitRelock(Deleter) \/ WaitReturn(Deleter)

LEMMA StepMovesCond ==
  ASSUME [PoolNext]_poolVars
  PROVE  CondMove
<1>1. CASE UNCHANGED poolVars
  BY <1>1 DEF poolVars, CondMove
<1>2. CASE \E j \in Jobs : dpc = "none" /\ RunJob(j)
  BY <1>2 DEF RunJob, CondMove
<1>3. ASSUME NEW w \in Workers, WorkerStep(w) PROVE CondMove
  BY <1>3 DEF WorkerStep, Recv, JobReturns, LockToEnd, Terminate, SignalEnd, UnlockGone, CondMove
<1>4. CASE DeleteStart \/ DeleteStep
  BY <1>4 DEF DeleteStart, DeleteStep, DeleteSend, DeleteLock, DeleteCheck, DeleteWait,
              DeleteFree, CondMove
<1> QED
  BY <1>1, <1>2, <1>3, <1>4 DEF PoolNext

LEMMA CondTypeStep ==
  ASSUME CondTypeOK, CondInv, CondMove
  PROVE  CondTypeOK'
<1> USE CondAssumption, PoolAssumption DEF CondTypeOK
<1>1. CASE UNCHANGED condVars
  BY <1>1
<1>2. ASSUME NEW w \in Workers,
             Lock(w) \/ Unlock(w) \/ Signal(w) \/ SignalBlocks(w) \/ SignalUnblocks(w)
      PROVE  CondTypeOK'
  BY <1>2 DEF Lock, Unlock, Signal, SignalBlocks, SignalUnblocks, Goto
<1>3. CASE Lock(Deleter) \/ Unlock(Deleter) \/ WaitCount(Deleter) \/ WaitUnlock(Deleter)
           \/ WaitToken(Deleter) \/ WaitRelock(Deleter)
  BY <1>3 DEF Lock, Unlock, WaitCount, WaitUnlock, WaitToken, WaitRelock, Goto
<1>4. CASE WaitReturn(Deleter)
  BY <1>4 DEF WaitReturn, Goto, CondInv
<1> QED
  BY <1>1, <1>2, <1>3, <1>4 DEF CondMove

LEMMA TypeStep ==
  ASSUME TypeOK, CondInv, JobInv, [PoolNext]_poolVars
  PROVE  TypeOK'
<1>1. CondTypeOK'
  BY StepMovesCond, CondTypeStep DEF TypeOK
<1> USE PoolAssumption DEF TypeOK
<1>2. CASE UNCHANGED poolVars
  BY <1>1, <1>2 DEF poolVars
<1>3. ASSUME NEW j \in Jobs, RunJob(j) PROVE TypeOK'
  BY <1>1, <1>3 DEF RunJob
<1>4. ASSUME NEW w \in Workers, WorkerStep(w) PROVE TypeOK'
  <2>1. CASE Recv(w)
    <3>1. queue' \in Seq(Jobs \cup {NoJob}) /\ Len(queue') <= MaxQueNum
      BY <2>1 DEF Recv
    <3>2. Head(queue) \in Jobs \cup {NoJob}
      BY <2>1 DEF Recv
    <3> QED
      BY <1>1, <2>1, <3>1, <3>2 DEF Recv, GoTo
  <2>2. CASE JobReturns(w)
    <3>1. job[w] \in Jobs
      BY <2>2 DEF JobReturns, JobInv
    <3> QED
      BY <1>1, <2>2, <3>1 DEF JobReturns, GoTo
  <2>3. CASE LockToEnd(w) \/ Terminate(w) \/ SignalEnd(w) \/ UnlockGone(w)
    BY <1>1, <2>3 DEF LockToEnd, Terminate, SignalEnd, UnlockGone, GoTo
  <2> QED
    BY <1>4, <2>1, <2>2, <2>3 DEF WorkerStep
<1>5. CASE DeleteStart \/ DeleteLock \/ DeleteCheck \/ DeleteWait \/ DeleteFree
  BY <1>1, <1>5 DEF DeleteStart, DeleteLock, DeleteCheck, DeleteWait, DeleteFree
<1>6. CASE DeleteSend
  <2>1. CASE nsent < Cardinality(Workers)
    <3>1. queue' \in Seq(Jobs \cup {NoJob}) /\ Len(queue') = Len(queue) + 1
      BY <1>6, <2>1 DEF DeleteSend
    <3> QED
      BY <1>1, <1>6, <2>1, <3>1 DEF DeleteSend
  <2>2. CASE ~(nsent < Cardinality(Workers))
    BY <1>1, <1>6, <2>2 DEF DeleteSend
  <2> QED
    BY <2>1, <2>2
<1> QED
  BY <1>2, <1>3, <1>4, <1>5, <1>6 DEF PoolNext, DeleteStep

-----------------------------------------------------------------------------
(* The steps preserve the three invariants.                                 *)

LEMMA CondStep ==
  ASSUME TypeOK, CondInv, EndInv, [PoolNext]_poolVars
  PROVE  CondInv'
<1> USE PoolAssumption, CondAssumption DEF CondInv, TypeOK, CondTypeOK
<1>1. CASE UNCHANGED poolVars
  BY <1>1 DEF poolVars
<1>2. ASSUME NEW j \in Jobs, dpc = "none" /\ RunJob(j) PROVE CondInv'
  BY <1>2 DEF RunJob
<1>3. ASSUME NEW w \in Workers, WorkerStep(w) PROVE CondInv'
  <2>1. CASE Recv(w) \/ JobReturns(w) \/ Terminate(w)
    BY <2>1 DEF Recv, JobReturns, Terminate
  <2>2. CASE LockToEnd(w)
    BY <2>2 DEF LockToEnd, Lock
  <2>3. CASE SignalEnd(w)
    BY <2>3 DEF SignalEnd, Signal, SignalBlocks, SignalUnblocks, Goto
  <2>4. CASE UnlockGone(w)
    BY <2>4 DEF UnlockGone, Unlock
  <2> QED
    BY <1>3, <2>1, <2>2, <2>3, <2>4 DEF WorkerStep
<1>4. CASE DeleteStart \/ DeleteSend \/ DeleteFree
  BY <1>4 DEF DeleteStart, DeleteSend, DeleteFree
<1>5. CASE DeleteLock
  BY <1>5 DEF DeleteLock, Lock
<1>6. CASE DeleteCheck
  BY <1>6 DEF DeleteCheck, Unlock, WaitCount, Goto
<1>7. CASE DeleteWait
  <2>1. CASE WaitUnlock(Deleter) \/ WaitToken(Deleter) \/ WaitRelock(Deleter)
    BY <1>7, <2>1 DEF DeleteWait, WaitUnlock, WaitToken, WaitRelock, WaitReturn, Goto
  <2>2. CASE WaitReturn(Deleter)
    BY <1>7, <2>2 DEF DeleteWait, WaitReturn, WaitUnlock, WaitToken, WaitRelock, Goto
  <2> QED
    BY <1>7, <2>1, <2>2 DEF DeleteWait
<1> QED
  BY <1>1, <1>2, <1>3, <1>4, <1>5, <1>6, <1>7 DEF PoolNext, DeleteStep

LEMMA EndStep ==
  ASSUME TypeOK, CondInv, EndInv, [PoolNext]_poolVars
  PROVE  EndInv'
<1> USE PoolAssumption, CondAssumption DEF EndInv, TypeOK, CondTypeOK, Ending
<1>1. CASE UNCHANGED poolVars
  BY <1>1 DEF poolVars
<1>2. ASSUME NEW j \in Jobs, dpc = "none" /\ RunJob(j) PROVE EndInv'
  BY <1>2 DEF RunJob
<1>3. ASSUME NEW w \in Workers, WorkerStep(w) PROVE EndInv'
  <2>1. CASE Recv(w)
    BY <2>1 DEF Recv, GoTo
  <2>2. CASE JobReturns(w)
    BY <2>2 DEF JobReturns, GoTo
  <2>3. CASE LockToEnd(w)
    BY <2>3 DEF LockToEnd, Lock, GoTo
  <2>4. CASE Terminate(w)
    BY <2>4 DEF Terminate, GoTo
  <2>5. CASE SignalEnd(w)
    BY <2>5 DEF SignalEnd, Signal, SignalBlocks, SignalUnblocks, GoTo
  <2>6. CASE UnlockGone(w)
    BY <2>6 DEF UnlockGone, Unlock, GoTo
  <2> QED
    BY <1>3, <2>1, <2>2, <2>3, <2>4, <2>5, <2>6 DEF WorkerStep
<1>4. CASE DeleteStart \/ DeleteSend
  BY <1>4 DEF DeleteStart, DeleteSend
<1>5. CASE DeleteLock
  BY <1>5 DEF DeleteLock, Lock
\* The deletion owns the mutex, so no worker is between its lock and its end.
<1>6. CASE DeleteCheck
  <2>1. \A w \in Workers : wpc[w] \notin Ending
    BY <1>6 DEF DeleteCheck, CondInv
  <2>2. AllTerminating => \A w \in Workers : wpc[w] = "gone"
    BY <2>1 DEF AllTerminating
  <2> QED
    BY <1>6, <2>1, <2>2 DEF DeleteCheck, Unlock, WaitCount
<1>7. CASE DeleteWait
  <2>1. mtx' # mtx => mtx = NoTask \/ mtx = Deleter
    BY <1>7 DEF DeleteWait, WaitUnlock, WaitToken, WaitRelock, WaitReturn, CondInv
  <2>2. \A w \in Workers : wpc[w] \in Ending => mtx' = w
    BY <2>1
  <2> QED
    BY <1>7, <2>2 DEF DeleteWait
<1>8. CASE DeleteFree
  BY <1>8 DEF DeleteFree
<1> QED
  BY <1>1, <1>2, <1>3, <1>4, <1>5, <1>6, <1>7, <1>8 DEF PoolNext, DeleteStep

LEMMA JobStep ==
  ASSUME TypeOK, CondInv, EndInv, JobInv, [PoolNext]_poolVars
  PROVE  JobInv'
<1> USE PoolAssumption DEF TypeOK
<1>1. CASE UNCHANGED poolVars
  BY <1>1 DEF poolVars, JobInv, Queued
<1>2. ASSUME NEW j \in Jobs, dpc = "none", RunJob(j) PROVE JobInv'
  <2>1. /\ Len(queue') = Len(queue) + 1
        /\ \A i \in 1..Len(queue) : queue'[i] = queue[i]
        /\ queue'[Len(queue')] = j
    BY <1>2 DEF RunJob
  <2>2. \A k \in Jobs \cup {NoJob} : Queued(k)' <=> Queued(k) \/ k = j
    BY <2>1 DEF Queued
  <2>3. \A i \in 1..Len(queue') : queue'[i] # NoJob
    BY <1>2, <2>1 DEF JobInv, Queued
  <2> QED
    BY <1>2, <2>2, <2>3 DEF RunJob, JobInv
<1>3. ASSUME NEW w \in Workers, Recv(w) PROVE JobInv'
  <2>1. /\ queue # <<>>
        /\ Len(queue') = Len(queue) - 1
        /\ \A i \in 1..Len(queue') : queue'[i] = queue[i + 1]
        /\ Head(queue) = queue[1]
    BY <1>3 DEF Recv
  <2>2. \A k : Queued(k) <=> Queued(k)' \/ k = Head(queue)
    <3>1. \A i \in 1..Len(queue) : i = 1 \/ (i - 1 \in 1..Len(queue') /\ queue'[i - 1] = queue[i])
      BY <2>1
    <3> QED
      BY <2>1, <3>1 DEF Queued
  <2>3. \A i, k \in 1..Len(queue') : i < k /\ queue'[i] = NoJob => queue'[k] = NoJob
    BY <2>1 DEF JobInv
  <2>4. CASE Head(queue) = NoJob
    <3>1. \A k \in Jobs : ~Queued(k)
      BY <2>1, <2>4 DEF JobInv, Queued
    <3>2. dpc # "none"
      BY <2>1, <2>4 DEF JobInv, Queued
    <3> QED
      BY <1>3, <2>2, <2>3, <2>4, <3>1, <3>2 DEF Recv, GoTo, delVars, JobInv
  <2>5. CASE Head(queue) # NoJob
    <3>1. Head(queue) \in Jobs /\ Queued(Head(queue))
      BY <2>1, <2>5 DEF Queued
    <3>2. Head(queue) \in handed
      BY <3>1 DEF JobInv
    <3>3. wpc[w] = "recv" /\ wpc' = [wpc EXCEPT ![w] = "run"] /\ job' = [job EXCEPT ![w] = Head(queue)]
      BY <1>3, <2>5 DEF Recv, GoTo
    <3>4. /\ UNCHANGED <<handed, ran, dpc>>
          /\ \A v \in Workers : v # w => wpc'[v] = wpc[v] /\ job'[v] = job[v]
          /\ wpc'[w] = "run" /\ job'[w] = Head(queue)
      BY <1>3, <3>3 DEF Recv
    <3>5. \A j \in Jobs : j \in handed' =>
            j \in ran' \/ Queued(j)' \/ \E v \in Workers : wpc'[v] = "run" /\ job'[v] = j
      <4> SUFFICES ASSUME NEW j \in Jobs, j \in handed
                   PROVE  j \in ran \/ Queued(j)' \/ \E v \in Workers : wpc'[v] = "run" /\ job'[v] = j
        BY <3>4
      <4>1. CASE j \in ran \/ Queued(j)
        BY <2>2, <3>4, <4>1
      <4>2. CASE \E v \in Workers : wpc[v] = "run" /\ job[v] = j
        BY <3>3, <3>4, <4>2
      <4> QED
        BY <4>1, <4>2 DEF JobInv
    <3> HIDE DEF TypeOK
    <3>6. \A j \in Jobs : Queued(j)' => j \in handed'
      BY <2>2, <3>4 DEF JobInv
    <3>7. \A v \in Workers : wpc'[v] = "run" => job'[v] \in handed'
      BY <3>2, <3>4 DEF JobInv
    <3>8. dpc' = "none" => ~Queued(NoJob)' /\ \A v \in Workers : wpc'[v] \in {"recv", "run"}
      BY <2>2, <3>4 DEF JobInv
    <3>9. \A v \in Workers : wpc'[v] \notin {"recv", "run"} => \A j \in Jobs : ~Queued(j)'
      BY <2>2, <3>4 DEF JobInv
    <3> QED
      BY <2>3, <3>4, <3>5, <3>6, <3>7, <3>8, <3>9 DEF JobInv
  <2> QED
    BY <2>4, <2>5
<1>4. ASSUME NEW w \in Workers, JobReturns(w) PROVE JobInv'
  BY <1>4 DEF JobReturns, GoTo, delVars, JobInv, Queued
<1>5. ASSUME NEW w \in Workers, LockToEnd(w) \/ Terminate(w) \/ SignalEnd(w) \/ UnlockGone(w)
      PROVE  JobInv'
  <2>1. /\ UNCHANGED <<queue, job, handed, ran, dpc>>
        /\ wpc[w] \notin {"recv", "run"}
        /\ wpc'[w] \notin {"recv", "run"}
        /\ \A v \in Workers : v # w => wpc'[v] = wpc[v]
    BY <1>5 DEF LockToEnd, Terminate, SignalEnd, UnlockGone, GoTo
  <2> QED
    BY <2>1 DEF JobInv, Queued
<1>6. CASE DeleteSend
  <2>1. CASE nsent < Cardinality(Workers)
    <3>1. /\ Len(queue') = Len(queue) + 1
          /\ \A i \in 1..Len(queue) : queue'[i] = queue[i]
          /\ queue'[Len(queue')] = NoJob
      BY <1>6, <2>1 DEF DeleteSend
    <3>2. \A k \in Jobs : Queued(k)' <=> Queued(k)
      BY <3>1 DEF Queued
    <3>3. \A i, k \in 1..Len(queue') : i < k /\ queue'[i] = NoJob => queue'[k] = NoJob
      BY <3>1 DEF JobInv
    <3>4. dpc' # "none"
      BY <1>6, <2>1 DEF DeleteSend
    <3> QED
      BY <1>6, <3>2, <3>3, <3>4 DEF DeleteSend, JobInv
  <2>2. CASE ~(nsent < Cardinality(Workers))
    BY <1>6, <2>2 DEF DeleteSend, JobInv, Queued
  <2> QED
    BY <2>1, <2>2
<1>7. CASE DeleteStart \/ DeleteLock \/ DeleteCheck \/ DeleteWait \/ DeleteFree
  <2>1. UNCHANGED workVars /\ dpc' # "none"
    BY <1>7 DEF DeleteStart, DeleteLock, DeleteCheck, DeleteWait, DeleteFree
  <2> QED
    BY <2>1 DEF JobInv, Queued
<1> QED
  BY <1>1, <1>2, <1>3, <1>4, <1>5, <1>6, <1>7 DEF PoolNext, WorkerStep, DeleteStep

-----------------------------------------------------------------------------
LEMMA Invariance == PoolSpec => []IInv
<1>1. PoolInit => IInv
  BY CondInit_, InitTypeOK, InitJobInv DEF IInv
<1>2. IInv /\ [PoolNext]_poolVars => IInv'
  BY TypeStep, CondStep, EndStep, JobStep DEF IInv
<1> QED
  BY <1>1, <1>2, PTL DEF PoolSpec

\* Every variable of the pool keeps its type.
THEOREM TypeCorrect == PoolSpec => []TypeOK
<1>1. IInv => TypeOK
  BY DEF IInv
<1> QED
  BY <1>1, Invariance, PTL

\* num_waiting is exact, whatever tokens are in the queue: only the deletion
\* waits.
THEOREM WaitingCorrect == PoolSpec => []WaitingExact
<1>1. IInv => WaitingExact
  <2> SUFFICES ASSUME IInv PROVE WaitingExact
    OBVIOUS
  <2> DEFINE W == {t \in Tasks : cw[t] \in InWait}
  <2>1. W = IF cw[Deleter] \in InWait THEN {Deleter} ELSE {}
    BY PoolAssumption DEF IInv, CondInv
  <2>2. Cardinality(W) = waiting
    BY <2>1, FS_EmptySet, FS_Singleton DEF IInv, CondInv
  <2>3. \A t \in Tasks : cw[t] \in {"counted", "relocked"} => mtx = t
    BY PoolAssumption DEF IInv, CondInv
  <2> QED
    BY <2>2, <2>3 DEF WaitingExact
<1> QED
  BY <1>1, Invariance, PTL

\* thrdpool_delete frees what the workers share only after the last of them
\* made its last step, for any number of workers.
THEOREM FreedCorrect == PoolSpec => []FreedAfterLast
<1>1. IInv => FreedAfterLast
  BY DEF IInv, EndInv, FreedAfterLast
<1> QED
  BY <1>1, Invariance, PTL

\* For any length of the queue no job is left behind by the deletion.
THEOREM JobsCorrect == PoolSpec => []JobsBeforeDelete
<1>1. IInv => JobsBeforeDelete
  <2> SUFFICES ASSUME IInv, ~live PROVE ran = handed
    BY DEF JobsBeforeDelete
  <2>1. \A w \in Workers : wpc[w] = "gone"
    BY DEF IInv, EndInv
  <2>2. \A j \in Jobs : ~Queued(j)
    BY <2>1, PoolAssumption DEF IInv, JobInv
  <2> QED
    BY <2>1, <2>2 DEF IInv, JobInv, TypeOK
<1> QED
  BY <1>1, Invariance, PTL


-----------------------------------------------------------------------------
(* The event path *)

OrderInv ==
  /\ dpc # "none" => rpc = "gone"
  /\ fpc \in {"release", "workers", "buffers", "down"} => rpc = "gone"
  /\ rpc \in {"alloc", "dispatch"} => evt \in Jobs
  /\ fpc \in {"buffers", "down"} => dpc = "done"

\* A callback moves blocks and its own call only.
LEMMA HandlerFrame ==
  ASSUME NEW w \in Workers, ReportStep(w) \/ CallStep(w)
  PROVE  UNCHANGED <<poolVars, rxVars, finVars>>
BY DEF ReportStep, ReportAlloc, ReportFree, CallStep, CallStart, CallAlloc, CallCheck,
       CallAllocTable, CallWait, CallRemove, CallReturns

LEMMA StepsOfPool ==
  ASSUME OrderInv, [EventNext]_vars
  PROVE  [PoolNext]_poolVars
<1>1. CASE UNCHANGED vars
  BY <1>1 DEF vars
<1>2. CASE \/ \E j \in Jobs : RxEvent(j)
           \/ \E w \in Workers : RxAnswer(w)
           \/ RxRecv \/ RxAborted \/ RxAlloc \/ RxUnsupported \/ RxEnd
  BY <1>2 DEF RxEvent, RxAnswer, RxRecv, RxAborted, RxAlloc, RxUnsupported, RxEnd
<1>3. CASE RxDispatch
  BY <1>3 DEF RxDispatch, OrderInv, PoolNext
<1>4. ASSUME NEW w \in Workers, Take(w) \/ EndJob(w) \/ EndWorker(w)
      PROVE  PoolNext
  BY <1>4 DEF Take, EndJob, EndWorker, PoolNext, WorkerStep
<1>5. ASSUME NEW w \in Workers, ReportStep(w) \/ CallStep(w)
      PROVE  UNCHANGED poolVars
  BY <1>5, HandlerFrame
<1>6. CASE FinStart \/ FinAbort \/ FinJoin \/ FinRelease \/ FinWorkersGone \/ FinBuffers
  BY <1>6 DEF FinStart, FinAbort, FinJoin, FinRelease, FinWorkersGone, FinBuffers
<1>7. CASE FinWorkers
  BY <1>7 DEF FinWorkers, PoolNext
<1> QED
  BY <1>1, <1>2, <1>3, <1>4, <1>5, <1>6, <1>7 DEF EventNext, RxStep, FinStep

LEMMA OrderStep ==
  ASSUME OrderInv, [EventNext]_vars
  PROVE  OrderInv'
<1> USE DEF OrderInv, poolVars, delVars, rxVars, finVars
<1>1. CASE UNCHANGED vars
  BY <1>1 DEF vars
<1>2. CASE \/ \E j \in Jobs : RxEvent(j)
           \/ \E w \in Workers : RxAnswer(w)
           \/ RxRecv \/ RxAborted \/ RxAlloc \/ RxUnsupported \/ RxEnd
  BY <1>2 DEF RxEvent, RxAnswer, RxRecv, RxAborted, RxAlloc, RxUnsupported, RxEnd
<1>3. CASE RxDispatch
  BY <1>3 DEF RxDispatch, RunJob
<1>4. ASSUME NEW w \in Workers, Take(w) \/ EndJob(w) \/ EndWorker(w)
      PROVE  OrderInv'
  BY <1>4 DEF Take, EndJob, EndWorker, Recv, JobReturns, LockToEnd, Terminate, SignalEnd,
              UnlockGone
<1>5. ASSUME NEW w \in Workers, ReportStep(w) \/ CallStep(w)
      PROVE  OrderInv'
  BY <1>5, HandlerFrame
<1>6. CASE FinStart \/ FinAbort \/ FinJoin \/ FinRelease \/ FinWorkersGone \/ FinBuffers
  BY <1>6 DEF FinStart, FinAbort, FinJoin, FinRelease, FinWorkersGone, FinBuffers
<1>7. CASE FinWorkers
  BY <1>7 DEF FinWorkers
<1> QED
  BY <1>1, <1>2, <1>3, <1>4, <1>5, <1>6, <1>7 DEF EventNext, RxStep, FinStep

\* The event path and lte_destroy implement the promise of the thread pool:
\* jobs come only before the deletion, and the pool moves by its own steps.
THEOREM ImplementsPool == EventSpec => PoolSpec
<1>1. EventInit => PoolInit /\ OrderInv
  BY DEF EventInit, PoolInit, OrderInv
<1>2. OrderInv /\ [EventNext]_vars => OrderInv'
  BY OrderStep
<1>3. OrderInv /\ [EventNext]_vars => [PoolNext]_poolVars
  BY StepsOfPool
<1> QED
  BY <1>1, <1>2, <1>3, PTL DEF EventSpec, PoolSpec

\* In the whole library, too, the workers' pool outlives its workers ...
THEOREM LibraryFreed == EventSpec => []FreedAfterLast
BY ImplementsPool, FreedCorrect, PTL

\* ... and every event handed over was handled before the pool is deleted.
THEOREM LibraryJobs == EventSpec => []JobsBeforeDelete
BY ImplementsPool, JobsCorrect, PTL

-----------------------------------------------------------------------------
(* A job is in one place *)

\* One element of the queue, one worker, or done.
RunOnce ==
  /\ \A i, k \in 1..Len(queue) : queue[i] \in Jobs /\ queue[k] = queue[i] => k = i
  /\ \A i \in 1..Len(queue) : queue[i] \notin ran
  /\ \A w \in Workers : wpc[w] = "run" => job[w] \in Jobs \ ran
  /\ \A w \in Workers, i \in 1..Len(queue) : wpc[w] = "run" => queue[i] # job[w]
  /\ \A v, w \in Workers : wpc[v] = "run" /\ wpc[w] = "run" /\ job[v] = job[w] => v = w

LEMMA OnceStep ==
  ASSUME TypeOK, JobInv, RunOnce, [PoolNext]_poolVars
  PROVE  RunOnce'
<1> USE PoolAssumption DEF TypeOK
<1>1. CASE UNCHANGED poolVars
  BY <1>1 DEF poolVars, RunOnce
<1>2. ASSUME NEW j \in Jobs, RunJob(j) PROVE RunOnce'
  <2>1. /\ Len(queue') = Len(queue) + 1
        /\ \A i \in 1..Len(queue) : queue'[i] = queue[i]
        /\ queue'[Len(queue')] = j
    BY <1>2 DEF RunJob
  <2>2. j \notin ran /\ (\A i \in 1..Len(queue) : queue[i] # j)
        /\ \A w \in Workers : wpc[w] = "run" => job[w] # j
    BY <1>2 DEF RunJob, JobInv, Queued
  <2> QED
    BY <1>2, <2>1, <2>2 DEF RunJob, RunOnce
<1>3. ASSUME NEW w \in Workers, Recv(w) PROVE RunOnce'
  <2>1. /\ queue # <<>>
        /\ Len(queue') = Len(queue) - 1
        /\ \A i \in 1..Len(queue') : queue'[i] = queue[i + 1]
        /\ Head(queue) = queue[1] /\ 1 \in 1..Len(queue)
        /\ ran' = ran
    BY <1>3 DEF Recv
  <2>2. /\ \A i, k \in 1..Len(queue') : queue'[i] \in Jobs /\ queue'[k] = queue'[i] => k = i
        /\ \A i \in 1..Len(queue') : queue'[i] \notin ran'
    <3>1. \A i \in 1..Len(queue') : i \in Int /\ i + 1 \in 1..Len(queue) /\ queue'[i] = queue[i + 1]
      BY <2>1
    <3>2. ASSUME NEW i \in 1..Len(queue'), NEW k \in 1..Len(queue'),
                 queue'[i] \in Jobs, queue'[k] = queue'[i]
          PROVE  k = i
      <4>1. k + 1 = i + 1
        BY <3>1, <3>2 DEF RunOnce
      <4> QED
        BY <3>1, <4>1
    <3>3. \A i \in 1..Len(queue') : queue'[i] \notin ran'
      BY <2>1, <3>1 DEF RunOnce
    <3> QED
      BY <3>2, <3>3
  <2>3. CASE Head(queue) = NoJob
    <3>1. \A v \in Workers : wpc'[v] = "run" => wpc[v] = "run" /\ job'[v] = job[v]
      BY <1>3, <2>3 DEF Recv, GoTo
    <3> QED
      BY <2>1, <2>2, <3>1 DEF RunOnce
  <2>4. CASE Head(queue) # NoJob
    <3>1. queue[1] \in Jobs /\ queue[1] \notin ran
      BY <2>1, <2>4 DEF RunOnce
    <3>2. \A i \in 1..Len(queue') : queue'[i] # queue[1]
      BY <2>1, <3>1 DEF RunOnce
    <3>3. /\ \A v \in Workers : v # w => wpc'[v] = wpc[v] /\ job'[v] = job[v]
          /\ wpc'[w] = "run" /\ job'[w] = queue[1]
      BY <1>3, <2>1, <2>4 DEF Recv, GoTo
    <3>4. \A v \in Workers : wpc[v] = "run" => job[v] # queue[1]
      BY <2>1 DEF RunOnce
    <3>5. \A v \in Workers, i \in 1..Len(queue') : wpc'[v] = "run" => queue'[i] # job'[v]
      BY <2>1, <3>2, <3>3 DEF RunOnce
    <3> QED
      BY <2>1, <2>2, <3>1, <3>3, <3>4, <3>5 DEF RunOnce
  <2> QED
    BY <2>3, <2>4
<1>4. ASSUME NEW w \in Workers, JobReturns(w) PROVE RunOnce'
  <2>1. /\ wpc[w] = "run" /\ wpc'[w] # "run"
        /\ \A v \in Workers : v # w => wpc'[v] = wpc[v] /\ job'[v] = job[v]
        /\ ran' = ran \cup {job[w]} /\ queue' = queue
    BY <1>4 DEF JobReturns, GoTo
  <2> QED
    BY <2>1 DEF RunOnce
<1>5. ASSUME NEW w \in Workers, LockToEnd(w) \/ Terminate(w) \/ SignalEnd(w) \/ UnlockGone(w)
      PROVE  RunOnce'
  <2>1. /\ UNCHANGED <<queue, job, ran>>
        /\ \A v \in Workers : wpc'[v] = "run" => wpc[v] = "run"
    BY <1>5 DEF LockToEnd, Terminate, SignalEnd, UnlockGone, GoTo
  <2> QED
    BY <2>1 DEF RunOnce
<1>6. CASE DeleteSend
  <2>1. CASE nsent < Cardinality(Workers)
    <3>1. /\ Len(queue') = Len(queue) + 1
          /\ \A i \in 1..Len(queue) : queue'[i] = queue[i]
          /\ queue'[Len(queue')] = NoJob
      <4>1. queue' = Append(queue, NoJob)
        BY <1>6, <2>1 DEF DeleteSend
      <4> QED
        BY <4>1
    <3>2. UNCHANGED <<wpc, job, ran>>
      BY <1>6 DEF DeleteSend
    <3>3. /\ \A i \in 1..Len(queue') : queue'[i] \notin ran'
          /\ \A v \in Workers, i \in 1..Len(queue') : wpc'[v] = "run" => queue'[i] # job'[v]
      BY <3>2, <3>1 DEF RunOnce
    <3>4. \A i, k \in 1..Len(queue') : queue'[i] \in Jobs /\ queue'[k] = queue'[i] => k = i
      BY <3>1 DEF RunOnce
    <3> QED
      BY <3>2, <3>3, <3>4 DEF RunOnce
  <2>2. CASE ~(nsent < Cardinality(Workers))
    BY <1>6, <2>2 DEF DeleteSend, RunOnce
  <2> QED
    BY <2>1, <2>2
<1>7. CASE DeleteStart \/ DeleteLock \/ DeleteCheck \/ DeleteWait \/ DeleteFree
  <2>1. UNCHANGED workVars
    BY <1>7 DEF DeleteStart, DeleteLock, DeleteCheck, DeleteWait, DeleteFree
  <2> QED
    BY <2>1 DEF RunOnce
<1> QED
  BY <1>1, <1>2, <1>3, <1>4, <1>5, <1>6, <1>7 DEF PoolNext, WorkerStep, DeleteStep

\* thrdpool_runjob's jobs run once: no worker gets a job that another worker
\* has or had, or that is still in the queue.
THEOREM OnceCorrect == PoolSpec => []RunOnce
<1>1. PoolInit => RunOnce
  BY DEF PoolInit, RunOnce
<1>2. IInv /\ RunOnce /\ [PoolNext]_poolVars => RunOnce'
  BY OnceStep DEF IInv
<1> QED
  BY <1>1, <1>2, Invariance, PTL DEF PoolSpec

-----------------------------------------------------------------------------
(* The blocks *)

USE DEF rxVars, finVars, jobVars

\* A call and a report belong to a handler that runs, and nobody deletes the
\* pool while the library is up.
CallInv ==
  /\ isinit <=> fpc = "up"
  /\ fpc \in {"up", "abort", "join", "release"} => dpc = "none"
  /\ \A w \in Workers : call[w] # "none" => Calls(w)
  /\ \A w \in Workers : report[w] # "none" => Reports(w)

\* Once g_isinit is cleared the blocks of the receive task, and those the pool
\* frees itself, are the only ones still freed.
BlockInv ==
  /\ IsFiniteSet(ran)
  /\ InReceive + OfPool <= NBlocks - free
  /\ BlocksAccounted

PathInv == TypeOK /\ JobInv /\ RunOnce /\ OrderInv /\ EventTypeOK /\ CallInv /\ BlockInv

\* A set that gains an element, and one that loses one.
LEMMA Gains ==
  ASSUME NEW S, NEW T, NEW x, IsFiniteSet(S), x \notin S, T = S \cup {x}
  PROVE  IsFiniteSet(T) /\ Cardinality(S) \in Nat /\ Cardinality(T) = Cardinality(S) + 1
BY FS_AddElement, FS_CardinalityType

LEMMA Loses ==
  ASSUME NEW S, NEW T, NEW x, IsFiniteSet(S), x \in S, T = S \ {x}
  PROVE  IsFiniteSet(T) /\ Cardinality(T) \in Nat /\ Cardinality(T) = Cardinality(S) - 1
<1>1. IsFiniteSet(T)
  BY FS_RemoveElement
<1>2. x \notin T /\ S = T \cup {x}
  OBVIOUS
<1>3. Cardinality(T) \in Nat /\ Cardinality(S) = Cardinality(T) + 1
  BY <1>1, <1>2, Gains
<1> QED
  BY <1>1, <1>3

\* The counted sets are finite, in every state.
LEMMA Finite ==
  /\ IsFiniteSet(Running) /\ IsFiniteSet(Reported) /\ IsFiniteSet(Commands)
  /\ IsFiniteSet(Responses) /\ IsFiniteSet(Entries) /\ IsFiniteSet(Semaphores)
<1>1. \A S \in SUBSET Workers : IsFiniteSet(S)
  BY PoolAssumption, FS_Subset
<1>2. /\ Running \in SUBSET Workers /\ Reported \in SUBSET Workers
      /\ Commands \in SUBSET Workers /\ Responses \in SUBSET Workers
      /\ Entries \in SUBSET Workers /\ Semaphores \in SUBSET Workers
  BY DEF Running, Reported, Commands, Responses, Entries, Semaphores
<1> QED
  BY <1>1, <1>2

CountsOK ==
  /\ Cardinality(Running) \in Nat /\ Cardinality(Reported) \in Nat
  /\ Cardinality(Commands) \in Nat /\ Cardinality(Responses) \in Nat
  /\ Cardinality(Entries) \in Nat /\ Cardinality(Semaphores) \in Nat
  /\ OfPool \in Nat /\ InReceive \in {0, 1}

LEMMA Counted == CountsOK
<1>1. /\ Cardinality(Running) \in Nat /\ Cardinality(Reported) \in Nat
      /\ Cardinality(Commands) \in Nat /\ Cardinality(Responses) \in Nat
      /\ Cardinality(Entries) \in Nat /\ Cardinality(Semaphores) \in Nat
  BY Finite, FS_CardinalityType
<1> QED
  BY <1>1 DEF CountsOK, OfPool, InReceive

EventCountsOK ==
  /\ OfEvents \in Nat /\ Len(queue) \in Nat
  /\ IsFiniteSet(ran \cap Unregistered) /\ Cardinality(ran \cap Unregistered) \in Nat

LEMMA CountedEvents == TypeOK /\ IsFiniteSet(ran) => EventCountsOK
<1> SUFFICES ASSUME TypeOK, IsFiniteSet(ran) PROVE EventCountsOK
  OBVIOUS
<1>1. IsFiniteSet(ran \cap Unregistered) /\ Cardinality(ran \cap Unregistered) \in Nat
  BY FS_Subset, FS_CardinalityType
<1>2. Len(queue) \in Nat
  BY DEF TypeOK
<1>3. Cardinality(Running) \in Nat
  BY Counted DEF CountsOK
<1> QED
  BY <1>1, <1>2, <1>3 DEF OfEvents, EventCountsOK

\* The blocks whose freeing lte_destroy does not stop, the free ones included,
\* and all blocks.
Kept  == free + InReceive + OfPool
Total == Kept + OfEvents + Cardinality(Commands)

LEMMA Accounts ==
  ASSUME NEW n \in Int, NEW f \in Int, NEW i \in Int, NEW q \in Int, NEW e \in Nat, NEW c \in Nat
  PROVE  /\ n - f = i + e + q + c <=> f + i + q + e + c = n
         /\ i + q <= n - f <=> f + i + q <= n
         /\ f + i + q + e + c = n => f + i + q <= n
OBVIOUS

LEMMA AddBoth ==
  ASSUME NEW f \in Int, NEW q \in Int, NEW g \in Int, NEW p \in Int, NEW i \in Int, f + q <= g + p
  PROVE  f + i + q <= g + i + p
OBVIOUS

LEMMA BlocksAsTotal ==
  TypeOK /\ IsFiniteSet(ran) /\ free \in Int =>
    /\ BlocksAccounted <=> (isinit => Total = NBlocks)
    /\ InReceive + OfPool <= NBlocks - free <=> Kept <= NBlocks
    /\ Total = NBlocks => Kept <= NBlocks
    /\ Kept \in Int /\ Total \in Int
<1> SUFFICES ASSUME TypeOK, IsFiniteSet(ran), free \in Int
             PROVE  /\ BlocksAccounted <=> (isinit => Total = NBlocks)
                    /\ InReceive + OfPool <= NBlocks - free <=> Kept <= NBlocks
                    /\ Total = NBlocks => Kept <= NBlocks
                    /\ Kept \in Int /\ Total \in Int
  OBVIOUS
<1>1. /\ NBlocks \in Int /\ InReceive \in Int /\ OfPool \in Int
      /\ OfEvents \in Nat /\ Cardinality(Commands) \in Nat
  BY Counted, CountedEvents, EventAssumption DEF CountsOK, EventCountsOK
<1>2. /\ NBlocks - free = InReceive + OfEvents + OfPool + Cardinality(Commands)
           <=> Total = NBlocks
      /\ InReceive + OfPool <= NBlocks - free <=> Kept <= NBlocks
      /\ Total = NBlocks => Kept <= NBlocks
  BY <1>1, Accounts DEF Total, Kept
<1>3. Kept \in Int /\ Total \in Int
  BY <1>1 DEF Total, Kept
<1> QED
  BY <1>2, <1>3 DEF BlocksAccounted

\* A step that frees what it takes from an account keeps the accounts.
LEMMA BlocksMove ==
  ASSUME PathInv, TypeOK', IsFiniteSet(ran'), isinit' => isinit, free' \in Int,
         isinit => Total' = Total,
         ~isinit => Kept' <= Kept
  PROVE  BlockInv'
<1>1. free \in Int /\ NBlocks \in Int
  BY EventAssumption DEF PathInv, EventTypeOK
<1>2. /\ BlocksAccounted <=> (isinit => Total = NBlocks)
      /\ InReceive + OfPool <= NBlocks - free <=> Kept <= NBlocks
      /\ Kept \in Int /\ Total \in Int
  BY <1>1, BlocksAsTotal DEF PathInv, BlockInv
<1>3. /\ BlocksAccounted' <=> (isinit' => Total' = NBlocks)
      /\ InReceive' + OfPool' <= NBlocks - free' <=> Kept' <= NBlocks
      /\ Total' = NBlocks => Kept' <= NBlocks
      /\ Kept' \in Int
  <2>1. (TypeOK /\ IsFiniteSet(ran) /\ free \in Int =>
          /\ BlocksAccounted <=> (isinit => Total = NBlocks)
          /\ InReceive + OfPool <= NBlocks - free <=> Kept <= NBlocks
          /\ Total = NBlocks => Kept <= NBlocks
          /\ Kept \in Int /\ Total \in Int)'
    BY BlocksAsTotal, PTL
  <2> QED
    BY <2>1
<1>4. Kept <= NBlocks /\ (isinit => Total = NBlocks)
  BY <1>2 DEF PathInv, BlockInv
<1>5. isinit' => Total' = NBlocks
  BY <1>4
<1>6. Kept' <= NBlocks
  <2>1. CASE isinit
    BY <1>3, <1>4, <2>1
  <2>2. CASE ~isinit
    BY <1>1, <1>2, <1>3, <1>4, <2>2
  <2> QED
    BY <2>1, <2>2
<1> QED
  BY <1>3, <1>5, <1>6 DEF BlockInv

LEMMA InitBlocks == EventInit => EventTypeOK /\ CallInv /\ BlockInv
<1> SUFFICES ASSUME EventInit PROVE EventTypeOK /\ CallInv /\ BlockInv
  OBVIOUS
<1>0. TypeOK
  BY InitTypeOK DEF EventInit
<1> USE DEF EventInit, PoolInit
<1>1. EventTypeOK
  <2> HIDE DEF PoolInit
  <2>1. isinit \in BOOLEAN
    OBVIOUS
  <2>2. abort \in BOOLEAN
    OBVIOUS
  <2>3. free \in 0..NBlocks
    BY EventAssumption
  <2> QED
    BY <1>0, <2>1, <2>2, <2>3 DEF EventTypeOK, CallPlaces, ReportPlaces
<1>2. CallInv
  BY DEF CallInv
<1>3. /\ Running = {} /\ Reported = {} /\ Commands = {} /\ Responses = {}
      /\ Entries = {} /\ Semaphores = {} /\ ran \cap Unregistered = {}
  BY DEF Running, Reported, Commands, Responses, Entries, Semaphores
<1>4. Cardinality({}) = 0 /\ IsFiniteSet({})
  BY FS_EmptySet
<1>5. OfEvents = 0 /\ OfPool = 0 /\ InReceive = 0 /\ Cardinality(Commands) = 0
  BY <1>3, <1>4 DEF OfEvents, OfPool, InReceive
<1>6. BlockInv
  BY <1>4, <1>5, EventAssumption DEF BlockInv, BlocksAccounted
<1> QED
  BY <1>1, <1>2, <1>6

LEMMA CallInvStep ==
  ASSUME EventTypeOK, OrderInv, CallInv, [EventNext]_vars
  PROVE  CallInv'
<1> USE DEF CallInv, EventTypeOK, TypeOK, Calls, Reports
<1>1. CASE UNCHANGED vars
  BY <1>1 DEF vars, poolVars
<1>2. CASE (\E j \in Jobs : RxEvent(j)) \/ RxRecv \/ RxAborted \/ RxAlloc \/ RxUnsupported \/ RxEnd
  BY <1>2 DEF RxEvent, RxRecv, RxAborted, RxAlloc, RxUnsupported, RxEnd, poolVars
<1>3. ASSUME NEW w \in Workers, RxAnswer(w) PROVE CallInv'
  BY <1>3 DEF RxAnswer, CallGoes, poolVars
<1>4. CASE RxDispatch
  BY <1>4 DEF RxDispatch, RunJob
<1>5. ASSUME NEW w \in Workers, Take(w) PROVE CallInv'
  <2>1. wpc[w] # "run" /\ UNCHANGED <<isinit, fpc, dpc, report, call>>
    BY <1>5 DEF Take, Recv
  <2>2. \A v \in Workers : v # w => wpc'[v] = wpc[v] /\ job'[v] = job[v]
    BY <1>5 DEF Take, Recv, GoTo
  <2> QED
    BY <2>1, <2>2
<1>6. ASSUME NEW w \in Workers, EndJob(w) PROVE CallInv'
  BY <1>6 DEF EndJob, JobReturns, GoTo, CallGoes, ReportGoes
<1>7. ASSUME NEW w \in Workers, EndWorker(w) PROVE CallInv'
  <2>1. wpc[w] # "run" /\ UNCHANGED <<isinit, fpc, dpc, report, call, job>>
    BY <1>7 DEF EndWorker, LockToEnd, Terminate, SignalEnd, UnlockGone
  <2>2. \A v \in Workers : v # w => wpc'[v] = wpc[v]
    BY <1>7 DEF EndWorker, LockToEnd, Terminate, SignalEnd, UnlockGone, GoTo
  <2> QED
    BY <2>1, <2>2
<1>8. ASSUME NEW w \in Workers, ReportStep(w) \/ CallStep(w) PROVE CallInv'
  <2>1. UNCHANGED <<isinit, fpc, dpc, wpc, job>>
    BY <1>8, HandlerFrame DEF poolVars
  <2>2. CASE ReportStep(w)
    <3>1. Reports(w) /\ UNCHANGED call
      BY <2>2 DEF ReportStep, ReportAlloc, ReportFree
    <3>2. \A v \in Workers : v # w => report'[v] = report[v]
      BY <2>2 DEF ReportStep, ReportAlloc, ReportFree, ReportGoes
    <3> QED
      BY <2>1, <3>1, <3>2
  <2>3. CASE CallStep(w)
    <3>1. Calls(w) /\ UNCHANGED report
      BY <2>3 DEF CallStep, CallStart, CallAlloc, CallCheck, CallAllocTable, CallWait,
                  CallRemove, CallReturns
    <3>2. \A v \in Workers : v # w => call'[v] = call[v]
      BY <2>3 DEF CallStep, CallStart, CallAlloc, CallCheck, CallAllocTable, CallWait,
                  CallRemove, CallReturns, CallGoes
    <3> QED
      BY <2>1, <3>1, <3>2
  <2> QED
    BY <1>8, <2>2, <2>3
<1>9. CASE FinStart \/ FinAbort \/ FinJoin \/ FinWorkersGone \/ FinBuffers
  BY <1>9 DEF FinStart, FinAbort, FinJoin, FinWorkersGone, FinBuffers, poolVars
<1>10. CASE FinRelease
  BY <1>10 DEF FinRelease, poolVars
<1>11. CASE FinWorkers
  <2>1. UNCHANGED <<isinit, fpc, report, call, wpc, job>> /\ fpc = "workers"
    BY <1>11 DEF FinWorkers, DeleteStart, DeleteStep, DeleteSend, DeleteLock, DeleteCheck,
                 DeleteWait, DeleteFree
  <2> QED
    BY <2>1
<1> QED
  BY <1>1, <1>2, <1>3, <1>4, <1>5, <1>6, <1>7, <1>8, <1>9, <1>10, <1>11
     DEF EventNext, RxStep, FinStep

\* A step that moves no block.
LEMMA BlocksStay ==
  ASSUME BlockInv, UNCHANGED <<queue, ran, free>>,
         isinit' => isinit,
         UNCHANGED <<InReceive, Running, Reported, Commands, Responses, Entries, Semaphores>>
  PROVE  BlockInv'
BY DEF BlockInv, BlocksAccounted, OfEvents, OfPool

\* The sets of callers and of reports are those of call and report.
LEMMA SameCalls ==
  ASSUME UNCHANGED call
  PROVE  UNCHANGED <<Commands, Responses, Entries, Semaphores>>
BY DEF Commands, Responses, Entries, Semaphores

LEMMA ReceiveBlocks ==
  ASSUME PathInv, TypeOK',
         \/ \E j \in Jobs : RxEvent(j)
         \/ \E w \in Workers : RxAnswer(w)
         \/ RxStep
  PROVE  BlockInv'
<1> USE DEF Running, Reported
<1>0. /\ IsFiniteSet(ran) /\ free \in Int /\ InReceive \in Nat
      /\ Cardinality(Commands) \in Nat /\ OfPool \in Nat /\ OfEvents \in Nat
  BY Counted, CountedEvents, EventAssumption
     DEF PathInv, BlockInv, EventTypeOK, CountsOK, EventCountsOK
<1>1. CASE (\E j \in Jobs : RxEvent(j)) \/ RxRecv \/ RxAborted \/ RxEnd
  <2>1. /\ UNCHANGED <<queue, ran, free, isinit, wpc, report, call>>
        /\ rpc # "dispatch" /\ rpc' # "dispatch"
    BY <1>1 DEF RxEvent, RxRecv, RxAborted, RxEnd, poolVars
  <2> QED
    BY <2>1, BlocksStay, SameCalls DEF PathInv, InReceive
<1>2. ASSUME NEW w \in Workers, RxAnswer(w) PROVE BlockInv'
  <2>1. /\ UNCHANGED <<queue, ran, free, isinit, wpc, report>>
        /\ rpc # "dispatch" /\ rpc' # "dispatch"
    BY <1>2 DEF RxAnswer, poolVars
  <2>2. call[w] = "wait" /\ call' = [call EXCEPT ![w] = "woken"]
    BY <1>2 DEF RxAnswer, CallGoes
  <2>3. UNCHANGED <<Commands, Responses, Entries, Semaphores>>
    BY <2>2 DEF Commands, Responses, Entries, Semaphores, PathInv, EventTypeOK
  <2> QED
    BY <2>1, <2>3, BlocksStay DEF PathInv, InReceive
<1>3. CASE RxAlloc
  <2>1. /\ UNCHANGED <<queue, ran, isinit, wpc, report, call>>
        /\ rpc = "alloc" /\ rpc' = "dispatch" /\ free' = free - 1
    BY <1>3 DEF RxAlloc, poolVars
  <2>2. OfEvents' = OfEvents /\ OfPool' = OfPool /\ Commands' = Commands
    BY <2>1, SameCalls DEF OfEvents, OfPool
  <2>3. InReceive' = InReceive + 1
    BY <2>1 DEF InReceive
  <2> QED
    BY <1>0, <2>1, <2>2, <2>3, BlocksMove DEF Total, Kept
<1>4. CASE RxDispatch
  <2>1. /\ UNCHANGED <<free, ran, isinit, wpc, report, call>>
        /\ rpc = "dispatch" /\ rpc' = "idle" /\ queue' = Append(queue, evt)
    BY <1>4 DEF RxDispatch, RunJob
  <2>2. OfPool' = OfPool /\ Commands' = Commands
    BY <2>1, SameCalls DEF OfPool
  <2>3. InReceive' = InReceive - 1
    BY <2>1 DEF InReceive
  <2>4. Len(queue') = Len(queue) + 1
    BY <2>1 DEF PathInv, TypeOK, EventTypeOK
  <2>5. OfEvents' = OfEvents + 1
    BY <1>0, <2>1, <2>4, CountedEvents, Counted DEF OfEvents, PathInv, EventCountsOK, CountsOK
  <2> QED
    BY <1>0, <2>1, <2>2, <2>3, <2>5, BlocksMove DEF Total, Kept
<1>5. CASE RxUnsupported
  <2>1. /\ UNCHANGED <<queue, ran, isinit, wpc, report, call>>
        /\ rpc = "dispatch" /\ rpc' = "idle" /\ free' = free + 1
    BY <1>5 DEF RxUnsupported, poolVars
  <2>2. OfEvents' = OfEvents /\ OfPool' = OfPool /\ Commands' = Commands
    BY <2>1, SameCalls DEF OfEvents, OfPool
  <2>3. InReceive' = InReceive - 1
    BY <2>1 DEF InReceive
  <2> QED
    BY <1>0, <2>1, <2>2, <2>3, BlocksMove DEF Total, Kept
<1> QED
  BY <1>1, <1>2, <1>3, <1>4, <1>5 DEF RxStep

LEMMA TakeBlocks ==
  ASSUME PathInv, TypeOK', NEW w \in Workers, Take(w)
  PROVE  BlockInv'
<1>0. /\ IsFiniteSet(ran) /\ free \in Int /\ InReceive \in Nat
      /\ Cardinality(Commands) \in Nat /\ OfPool \in Nat /\ OfEvents \in Nat
  BY Counted, CountedEvents, EventAssumption
     DEF PathInv, BlockInv, EventTypeOK, CountsOK, EventCountsOK
<1>1. /\ UNCHANGED <<ran, free, isinit, rpc, report, call>>
      /\ wpc[w] = "recv" /\ queue # <<>> /\ queue' = Tail(queue)
  BY DEF Take, Recv
<1>2. UNCHANGED <<InReceive, OfPool, Commands>>
  BY <1>1, SameCalls DEF InReceive, OfPool, Reported
<1>3. Len(queue) \in Nat /\ Len(queue') = Len(queue) - 1
  BY <1>1 DEF PathInv, TypeOK
<1>4. ASSUME isinit PROVE Cardinality(Running') = Cardinality(Running) + 1
  <2>1. Head(queue) # NoJob
    <3>1. dpc = "none"
      BY <1>4 DEF PathInv, CallInv
    <3>2. Head(queue) = queue[1] /\ 1 \in 1..Len(queue)
      BY <1>1 DEF PathInv, TypeOK
    <3> QED
      BY <3>1, <3>2 DEF PathInv, JobInv, Queued
  <2>2. wpc' = [wpc EXCEPT ![w] = "run"]
    BY <2>1 DEF Take, Recv, GoTo
  <2>3. w \notin Running /\ Running' = Running \cup {w}
    BY <1>1, <2>2 DEF Running, PathInv, TypeOK
  <2> QED
    BY <2>3, Finite, Gains
<1>5. isinit => OfEvents' = OfEvents
  BY <1>0, <1>1, <1>3, <1>4, Counted, CountedEvents
     DEF OfEvents, PathInv, EventCountsOK, CountsOK
<1> QED
  BY <1>0, <1>1, <1>2, <1>5, BlocksMove DEF Total, Kept

LEMMA EndJobBlocks ==
  ASSUME PathInv, TypeOK', NEW w \in Workers, EndJob(w)
  PROVE  BlockInv'
<1> DEFINE lost == ran \cap Unregistered
<1>0. /\ IsFiniteSet(ran) /\ free \in Int /\ InReceive \in Nat
      /\ Cardinality(Commands) \in Nat /\ OfPool \in Nat /\ OfEvents \in Nat
  BY Counted, CountedEvents, EventAssumption
     DEF PathInv, BlockInv, EventTypeOK, CountsOK, EventCountsOK
<1>1. /\ UNCHANGED <<queue, isinit, rpc>>
      /\ wpc[w] = "run" /\ wpc' = [wpc EXCEPT ![w] = "recv"]
      /\ ran' = ran \cup {job[w]}
      /\ call' = [call EXCEPT ![w] = "none"] /\ report' = [report EXCEPT ![w] = "none"]
  BY DEF EndJob, JobReturns, GoTo, CallGoes, ReportGoes
<1>2. free' = free + (IF Frees(w) THEN 1 ELSE 0)
  BY DEF EndJob
<1>3. call[w] \in {"none", "over"} /\ report[w] \in {"none", "over"}
  BY DEF EndJob, PathInv, CallInv
<1>4. UNCHANGED <<InReceive, Commands, Responses, Entries, Semaphores, Reported>>
  BY <1>1, <1>3
     DEF InReceive, Commands, Responses, Entries, Semaphores, Reported, PathInv, EventTypeOK
<1>5. UNCHANGED OfPool
  BY <1>4 DEF OfPool
<1>6. Cardinality(Running) \in Nat /\ Cardinality(Running') = Cardinality(Running) - 1
  <2>1. w \in Running /\ Running' = Running \ {w}
    BY <1>1 DEF Running, PathInv, TypeOK
  <2> QED
    BY <2>1, Finite, Loses, Counted DEF CountsOK
<1>7. IsFiniteSet(ran')
  BY <1>0, <1>1, FS_AddElement
<1>8. job[w] \notin ran
  BY <1>1 DEF PathInv, RunOnce
<1>9. Len(queue) \in Nat /\ IsFiniteSet(lost) /\ Cardinality(lost) \in Nat
  BY <1>0, CountedEvents DEF PathInv, EventCountsOK
<1>10. CASE job[w] \in Unregistered
  <2>1. Cardinality(lost') = Cardinality(lost) + 1
    <3>1. job[w] \notin lost /\ lost' = lost \cup {job[w]}
      BY <1>1, <1>8, <1>10
    <3> QED
      BY <1>9, <3>1, Gains
  <2>2. free' = free
    <3>1. ~Frees(w)
      BY <1>10 DEF Frees
    <3> QED
      BY <1>0, <1>2, <3>1
  <2>3. OfEvents' = OfEvents
    BY <1>1, <1>6, <1>9, <2>1 DEF OfEvents
  <2> QED
    BY <1>0, <1>1, <1>4, <1>5, <1>7, <2>2, <2>3, BlocksMove DEF Total, Kept
<1>11. CASE job[w] \notin Unregistered
  <2>1. Cardinality(lost') = Cardinality(lost)
    <3>1. lost' = lost
      BY <1>1, <1>11
    <3> QED
      BY <3>1
  <2>2. /\ isinit => free' = free + 1
        /\ ~isinit => free' = free
    <3>1. Frees(w) <=> isinit
      BY <1>11 DEF Frees
    <3> QED
      BY <1>0, <1>2, <3>1
  <2>3. OfEvents' = OfEvents - 1
    BY <1>1, <1>6, <1>9, <2>1 DEF OfEvents
  <2> QED
    BY <1>0, <1>1, <1>4, <1>5, <1>7, <2>2, <2>3, BlocksMove DEF Total, Kept
<1> QED
  BY <1>10, <1>11

\* What a step of a handler moves goes to its report or its call.
LEMMA HandlerMoves ==
  ASSUME PathInv, TypeOK', NEW w \in Workers, ReportStep(w) \/ CallStep(w), free' \in Int,
         isinit => free' + OfPool' + Cardinality(Commands')
                     = free + OfPool + Cardinality(Commands),
         ~isinit => free' + OfPool' <= free + OfPool
  PROVE  BlockInv'
<1>1. UNCHANGED <<queue, ran, isinit, rpc, wpc>>
  BY HandlerFrame DEF poolVars
<1>2. InReceive' = InReceive /\ OfEvents' = OfEvents
  BY <1>1 DEF InReceive, OfEvents, Running
<1>3. IsFiniteSet(ran) /\ OfEvents \in Nat /\ free \in Int
  BY CountedEvents, EventAssumption DEF PathInv, BlockInv, EventTypeOK, EventCountsOK
<1>4. InReceive \in Nat /\ OfPool \in Nat /\ Cardinality(Commands) \in Nat
  BY Counted DEF CountsOK
<1>5. OfPool' \in Nat /\ Cardinality(Commands') \in Nat
  <2>1. CountsOK'
    BY Counted, PTL
  <2> QED
    BY <2>1 DEF CountsOK
<1>6. isinit => Total' = Total
  BY <1>2, <1>3, <1>4, <1>5 DEF Total, Kept
<1>7. ASSUME ~isinit PROVE Kept' <= Kept
  <2>1. free' + OfPool' <= free + OfPool
    BY <1>7
  <2>2. free' + InReceive + OfPool' <= free + InReceive + OfPool
    <3>1. free' \in Int /\ OfPool' \in Int /\ free \in Int /\ OfPool \in Int /\ InReceive \in Int
      BY <1>3, <1>4, <1>5
    <3> QED
      BY <2>1, <3>1, AddBoth
  <2> QED
    BY <1>2, <2>2 DEF Kept
<1> QED
  BY <1>1, <1>3, <1>6, <1>7, BlocksMove

LEMMA ReportBlocks ==
  ASSUME PathInv, TypeOK', NEW w \in Workers, ReportStep(w)
  PROVE  BlockInv'
<1>1. UNCHANGED <<Commands, Responses, Entries, Semaphores>>
  <2>1. UNCHANGED call
    BY DEF ReportStep, ReportAlloc, ReportFree
  <2> QED
    BY <2>1, SameCalls
<1>2. report \in [Workers -> ReportPlaces] /\ free \in Int
      /\ Cardinality(Commands) \in Nat /\ OfPool \in Nat
  BY Counted, EventAssumption DEF PathInv, EventTypeOK, CountsOK
<1>3. CASE ReportAlloc(w)
  <2>1. free' = free - 1 /\ report[w] = "none" /\ report' = [report EXCEPT ![w] = "held"]
    BY <1>3 DEF ReportAlloc, ReportGoes
  <2>2. w \notin Reported /\ Reported' = Reported \cup {w}
    BY <1>2, <2>1 DEF Reported
  <2>3. OfPool' = OfPool + 1
    <3>1. Cardinality(Reported') = Cardinality(Reported) + 1
      BY <2>2, Finite, Gains
    <3> QED
      BY <1>1, <3>1, Counted DEF OfPool, CountsOK
  <2>4. Cardinality(Commands') = Cardinality(Commands)
    BY <1>1, <1>2
  <2> QED
    BY <1>2, <2>1, <2>3, <2>4, HandlerMoves
<1>4. CASE ReportFree(w)
  <2>1. free' = free + 1 /\ report[w] = "held" /\ report' = [report EXCEPT ![w] = "over"]
    BY <1>4 DEF ReportFree, ReportGoes
  <2>2. w \in Reported /\ Reported' = Reported \ {w}
    BY <1>2, <2>1 DEF Reported
  <2>3. OfPool' = OfPool - 1
    <3>1. Cardinality(Reported') = Cardinality(Reported) - 1
      BY <2>2, Finite, Loses
    <3> QED
      BY <1>1, <3>1, Counted DEF OfPool, CountsOK
  <2>4. Cardinality(Commands') = Cardinality(Commands)
    BY <1>1, <1>2
  <2> QED
    BY <1>2, <2>1, <2>3, <2>4, HandlerMoves
<1> QED
  BY <1>3, <1>4 DEF ReportStep

LEMMA CallBlocks ==
  ASSUME PathInv, TypeOK', NEW w \in Workers, CallStep(w)
  PROVE  BlockInv'
<1>1. Reported' = Reported
  BY DEF CallStep, CallStart, CallAlloc, CallCheck, CallAllocTable, CallWait, CallRemove,
         CallReturns, Reported
<1>2. call \in [Workers -> CallPlaces] /\ free \in Int
      /\ Cardinality(Commands) \in Nat /\ OfPool \in Nat
  BY Counted, EventAssumption DEF PathInv, EventTypeOK, CountsOK
<1> USE DEF CallGoes
<1>3. CASE CallStart(w) \/ CallCheck(w) \/ CallWait(w)
  <2>1. free' = free
    BY <1>3 DEF CallStart, CallCheck, CallWait
  <2>2. /\ \/ call[w] = "none" /\ call' = [call EXCEPT ![w] = "cmd"]
           \/ call[w] = "none" /\ call' = [call EXCEPT ![w] = "over"]
           \/ call[w] = "got" /\ call' = [call EXCEPT ![w] = "tbl"]
           \/ call[w] = "got" /\ call' = [call EXCEPT ![w] = "back"]
           \/ call[w] = "passed" /\ call' = [call EXCEPT ![w] = "wait"]
    BY <1>3 DEF CallStart, CallCheck, CallWait
  <2>3. UNCHANGED <<Commands, Responses, Entries, Semaphores>>
    BY <1>2, <2>2 DEF Commands, Responses, Entries, Semaphores
  <2>4. UNCHANGED <<queue, ran, isinit, rpc, wpc>>
    BY HandlerFrame DEF poolVars
  <2> QED
    BY <1>1, <2>1, <2>3, <2>4, BlocksStay DEF PathInv, InReceive, Running
<1>4. CASE CallAlloc(w) /\ call[w] = "cmd"
  <2>1. free' = free - 1 /\ call[w] = "cmd" /\ call' = [call EXCEPT ![w] = "res"]
    BY <1>4 DEF CallAlloc
  <2>2. w \notin Commands /\ Commands' = Commands \cup {w}
        /\ UNCHANGED <<Responses, Entries, Semaphores>>
    BY <1>2, <2>1 DEF Commands, Responses, Entries, Semaphores
  <2>3. Cardinality(Commands') = Cardinality(Commands) + 1
    BY <2>2, Finite, Gains
  <2>4. OfPool' = OfPool
    BY <1>1, <2>2, Counted DEF OfPool, CountsOK
  <2> QED
    BY <1>2, <2>1, <2>3, <2>4, HandlerMoves
<1>5. CASE CallAlloc(w) /\ call[w] = "res"
  <2>1. free' = free - 1 /\ call[w] = "res" /\ call' = [call EXCEPT ![w] = "got"]
    BY <1>5 DEF CallAlloc
  <2>2. w \notin Responses /\ Responses' = Responses \cup {w}
        /\ UNCHANGED <<Commands, Entries, Semaphores>>
    BY <1>2, <2>1 DEF Commands, Responses, Entries, Semaphores
  <2>3. Cardinality(Commands') = Cardinality(Commands)
    BY <1>2, <2>2
  <2>4. OfPool' = OfPool + 1
    <3>1. Cardinality(Responses') = Cardinality(Responses) + 1
      BY <2>2, Finite, Gains
    <3> QED
      BY <1>1, <2>2, <3>1, Counted DEF OfPool, CountsOK
  <2> QED
    BY <1>2, <2>1, <2>3, <2>4, HandlerMoves
<1>6. CASE CallAllocTable(w) /\ call[w] = "tbl"
  <2>1. free' = free - 1 /\ call[w] = "tbl" /\ call' = [call EXCEPT ![w] = "sem"]
    BY <1>6 DEF CallAllocTable
  <2>2. w \notin Entries /\ Entries' = Entries \cup {w}
        /\ UNCHANGED <<Commands, Responses, Semaphores>>
    BY <1>2, <2>1 DEF Commands, Responses, Entries, Semaphores
  <2>3. Cardinality(Commands') = Cardinality(Commands)
    BY <1>2, <2>2
  <2>4. OfPool' = OfPool + 1
    <3>1. Cardinality(Entries') = Cardinality(Entries) + 1
      BY <2>2, Finite, Gains
    <3> QED
      BY <1>1, <2>2, <3>1, Counted DEF OfPool, CountsOK
  <2> QED
    BY <1>2, <2>1, <2>3, <2>4, HandlerMoves
<1>7. CASE CallAllocTable(w) /\ call[w] = "sem"
  <2>1. free' = free - 1 /\ call[w] = "sem" /\ call' = [call EXCEPT ![w] = "passed"]
    BY <1>7 DEF CallAllocTable
  <2>2. w \notin Semaphores /\ Semaphores' = Semaphores \cup {w}
        /\ UNCHANGED <<Commands, Responses, Entries>>
    BY <1>2, <2>1 DEF Commands, Responses, Entries, Semaphores
  <2>3. Cardinality(Commands') = Cardinality(Commands)
    BY <1>2, <2>2
  <2>4. OfPool' = OfPool + 1
    <3>1. Cardinality(Semaphores') = Cardinality(Semaphores) + 1
      BY <2>2, Finite, Gains
    <3> QED
      BY <1>1, <2>2, <3>1, Counted DEF OfPool, CountsOK
  <2> QED
    BY <1>2, <2>1, <2>3, <2>4, HandlerMoves
<1>8. CASE CallRemove(w)
  <2>1. free' = free + 2 /\ call[w] = "woken" /\ call' = [call EXCEPT ![w] = "back"]
    BY <1>8 DEF CallRemove
  <2>2. /\ w \in Entries /\ Entries' = Entries \ {w}
        /\ w \in Semaphores /\ Semaphores' = Semaphores \ {w}
        /\ UNCHANGED <<Commands, Responses>>
    BY <1>2, <2>1 DEF Commands, Responses, Entries, Semaphores
  <2>3. Cardinality(Commands') = Cardinality(Commands)
    BY <1>2, <2>2
  <2>4. Cardinality(Entries') = Cardinality(Entries) - 1
    BY <2>2, Finite, Loses
  <2>5. Cardinality(Semaphores') = Cardinality(Semaphores) - 1
    BY <2>2, Finite, Loses
  <2>6. OfPool' = OfPool - 2
    BY <1>1, <2>2, <2>4, <2>5, Counted DEF OfPool, CountsOK
  <2> QED
    BY <1>2, <2>1, <2>3, <2>6, HandlerMoves
<1>9. CASE CallReturns(w)
  <2>1. call[w] = "back" /\ call' = [call EXCEPT ![w] = "over"]
    BY <1>9 DEF CallReturns
  <2>2. /\ w \in Responses /\ Responses' = Responses \ {w}
        /\ w \in Commands /\ Commands' = Commands \ {w}
        /\ UNCHANGED <<Entries, Semaphores>>
    BY <1>2, <2>1 DEF Commands, Responses, Entries, Semaphores
  <2>3. Cardinality(Commands') = Cardinality(Commands) - 1
    BY <2>2, Finite, Loses
  <2>4. Cardinality(Responses') = Cardinality(Responses) - 1
    BY <2>2, Finite, Loses
  <2>5. OfPool' = OfPool - 1
    BY <1>1, <2>2, <2>4, Counted DEF OfPool, CountsOK
  <2>6. /\ isinit => free' = free + 2
        /\ ~isinit => free' = free + 1
    BY <1>9 DEF CallReturns, PathInv, EventTypeOK
  <2> QED
    BY <1>2, <2>3, <2>5, <2>6, HandlerMoves
<1>10. /\ CallAlloc(w) => call[w] \in {"cmd", "res"}
       /\ CallAllocTable(w) => call[w] \in {"tbl", "sem"}
  BY DEF CallAlloc, CallAllocTable
<1> QED
  BY <1>3, <1>4, <1>5, <1>6, <1>7, <1>8, <1>9, <1>10 DEF CallStep

LEMMA FinBlocks ==
  ASSUME PathInv, TypeOK', FinStart \/ FinStep
  PROVE  BlockInv'
<1>1. CASE FinStart
  <2>1. UNCHANGED <<queue, ran, free, rpc, wpc, report, call>> /\ isinit' = FALSE
    BY <1>1 DEF FinStart, poolVars
  <2> QED
    BY <2>1, BlocksStay, SameCalls DEF PathInv, InReceive, Running, Reported
<1>2. CASE FinAbort \/ FinJoin \/ FinWorkersGone \/ FinBuffers
  <2>1. UNCHANGED <<queue, ran, free, isinit, rpc, wpc, report, call>>
    BY <1>2 DEF FinAbort, FinJoin, FinWorkersGone, FinBuffers, poolVars
  <2> QED
    BY <2>1, BlocksStay, SameCalls DEF PathInv, InReceive, Running, Reported
<1>3. CASE FinRelease
  <2>1. UNCHANGED <<queue, ran, free, isinit, rpc, wpc, report>>
    BY <1>3 DEF FinRelease, poolVars
  <2>2. \A w \in Workers : call'[w] = IF call[w] = "wait" THEN "woken" ELSE call[w]
    BY <1>3 DEF FinRelease
  <2>3. UNCHANGED <<Commands, Responses, Entries, Semaphores>>
    BY <2>2 DEF Commands, Responses, Entries, Semaphores
  <2> QED
    BY <2>1, <2>3, BlocksStay DEF PathInv, InReceive, Running, Reported
<1>4. CASE FinWorkers
  <2>1. UNCHANGED <<ran, free, isinit, rpc, report, call>> /\ fpc = "workers"
    BY <1>4 DEF FinWorkers, DeleteStart, DeleteStep, DeleteSend, DeleteLock, DeleteCheck,
                DeleteWait, DeleteFree
  <2>2. ~isinit /\ ~isinit'
    BY <2>1 DEF PathInv, CallInv
  <2>3. UNCHANGED <<InReceive, OfPool>>
    BY <2>1, SameCalls DEF InReceive, OfPool, Reported
  <2> QED
    BY <2>1, <2>2, <2>3 DEF PathInv, BlockInv, BlocksAccounted
<1> QED
  BY <1>1, <1>2, <1>3, <1>4 DEF FinStep

LEMMA BlockStep ==
  ASSUME PathInv, TypeOK', [EventNext]_vars
  PROVE  BlockInv'
<1>1. CASE UNCHANGED vars
  <2>1. UNCHANGED <<queue, ran, free, isinit, rpc, wpc, report, call>>
    BY <1>1 DEF vars, poolVars
  <2> QED
    BY <2>1, BlocksStay, SameCalls DEF PathInv, InReceive, Running, Reported
<1>2. ASSUME NEW w \in Workers, EndWorker(w) PROVE BlockInv'
  <2>1. UNCHANGED <<queue, ran, free, isinit, rpc, report, call>> /\ wpc[w] # "run"
    BY <1>2 DEF EndWorker, LockToEnd, Terminate, SignalEnd, UnlockGone
  <2>2. Running' = Running
    BY <1>2 DEF EndWorker, LockToEnd, Terminate, SignalEnd, UnlockGone, GoTo, Running,
                PathInv, TypeOK
  <2> QED
    BY <2>1, <2>2, BlocksStay, SameCalls DEF PathInv, InReceive, Reported
<1> QED
  BY <1>1, <1>2, ReceiveBlocks, TakeBlocks, EndJobBlocks, ReportBlocks, CallBlocks, FinBlocks
     DEF EventNext

-----------------------------------------------------------------------------
(* Types.  That no more blocks are freed than the pool has follows from the *)
(* accounts.                                                                *)

LEMMA FreeInt ==
  ASSUME PathInv, [EventNext]_vars
  PROVE  free' \in Int /\ free' >= 0
<1> USE DEF EventTypeOK
<1>0. NBlocks \in Nat /\ free \in 0..NBlocks
  BY EventAssumption DEF PathInv
<1>1. CASE UNCHANGED vars
  BY <1>0, <1>1 DEF vars
<1>2. CASE (\E j \in Jobs : RxEvent(j)) \/ (\E w \in Workers : RxAnswer(w)) \/ RxStep
  BY <1>0, <1>2 DEF RxEvent, RxAnswer, RxStep, RxRecv, RxAborted, RxAlloc, RxDispatch,
                    RxUnsupported, RxEnd
<1>3. ASSUME NEW w \in Workers, Take(w) \/ EndWorker(w) PROVE free' = free
  BY <1>3 DEF Take, EndWorker
<1>4. ASSUME NEW w \in Workers, EndJob(w) PROVE free' = free \/ free' = free + 1
  <2>1. free' = free + (IF Frees(w) THEN 1 ELSE 0)
    BY <1>4 DEF EndJob
  <2> QED
    BY <1>0, <2>1
<1>5. ASSUME NEW w \in Workers, CallReturns(w) PROVE free' = free + 1 \/ free' = free + 2
  BY <1>0, <1>5 DEF CallReturns
<1>6. ASSUME NEW w \in Workers, ReportAlloc(w) \/ CallAlloc(w) \/ CallAllocTable(w)
      PROVE  free' = free - 1 /\ free > 0
  BY <1>6 DEF ReportAlloc, CallAlloc, CallAllocTable
<1>7. ASSUME NEW w \in Workers, ReportFree(w) \/ CallRemove(w)
      PROVE  free' = free + 1 \/ free' = free + 2
  BY <1>7 DEF ReportFree, CallRemove
<1>8. ASSUME NEW w \in Workers, CallStart(w) \/ CallCheck(w) \/ CallWait(w) PROVE free' = free
  BY <1>8 DEF CallStart, CallCheck, CallWait
<1>9. CASE FinStart \/ FinStep
  BY <1>0, <1>9 DEF FinStart, FinStep, FinAbort, FinJoin, FinRelease, FinWorkers,
                    FinWorkersGone, FinBuffers
<1>10. ASSUME NEW w \in Workers, Take(w) \/ EndWorker(w) \/ EndJob(w) \/ ReportStep(w) \/ CallStep(w)
       PROVE  free' \in Int /\ free' >= 0
  <2>1. free' = free \/ free' = free + 1 \/ free' = free + 2 \/ (free' = free - 1 /\ free > 0)
    BY <1>3, <1>4, <1>5, <1>6, <1>7, <1>8, <1>10 DEF ReportStep, CallStep
  <2> QED
    BY <1>0, <2>1
<1> QED
  BY <1>1, <1>2, <1>9, <1>10 DEF EventNext

LEMMA FreeStep ==
  ASSUME PathInv, BlockInv', [EventNext]_vars
  PROVE  free' \in 0..NBlocks
<1>1. CountsOK'
  BY Counted, PTL
<1>2. OfPool' \in Nat /\ InReceive' \in Nat /\ InReceive' + OfPool' <= NBlocks - free'
  BY <1>1 DEF CountsOK, BlockInv
<1>3. NBlocks \in Nat
  BY EventAssumption
<1> QED
  BY <1>2, <1>3, FreeInt

LEMMA EventTypeStep ==
  ASSUME PathInv, TypeOK', free' \in 0..NBlocks, [EventNext]_vars
  PROVE  EventTypeOK'
<1> USE DEF EventTypeOK
<1>0. EventTypeOK
  BY DEF PathInv
<1>10. ASSUME NEW w \in Workers, ReportStep(w) \/ CallStep(w) PROVE UNCHANGED <<rxVars, finVars>>
  BY <1>10, HandlerFrame
<1>1. isinit' \in BOOLEAN
  <2>1. isinit' = isinit \/ isinit' = FALSE
    BY <1>10 DEF EventNext, vars, RxEvent, RxAnswer, RxStep, RxRecv, RxAborted, RxAlloc, RxDispatch,
           RxUnsupported, RxEnd, Take, EndJob, EndWorker, FinStart, FinStep, FinAbort, FinJoin, FinRelease,
           FinWorkers, FinWorkersGone, FinBuffers
  <2> QED
    BY <1>0, <2>1
<1>2. abort' \in BOOLEAN
  <2>1. abort' = abort \/ abort' = TRUE
    BY <1>10 DEF EventNext, vars, RxEvent, RxAnswer, RxStep, RxRecv, RxAborted, RxAlloc, RxDispatch,
           RxUnsupported, RxEnd, Take, EndJob, EndWorker, FinStart, FinStep, FinAbort, FinJoin, FinRelease,
           FinWorkers, FinWorkersGone, FinBuffers
  <2> QED
    BY <1>0, <2>1
<1>3. CASE UNCHANGED vars
  BY <1>0, <1>3, <1>1, <1>2 DEF vars
<1>4. CASE (\E j \in Jobs : RxEvent(j)) \/ RxStep
  BY <1>0, <1>1, <1>2, <1>4 DEF RxEvent, RxStep, RxRecv, RxAborted, RxAlloc, RxDispatch,
                        RxUnsupported, RxEnd
<1>5. ASSUME NEW w \in Workers, RxAnswer(w) PROVE EventTypeOK'
  <2>1. call' \in [Workers -> CallPlaces]
    BY <1>0, <1>5 DEF RxAnswer, CallGoes, CallPlaces
  <2> QED
    BY <1>0, <1>1, <1>2, <1>5, <2>1 DEF RxAnswer
<1>6. ASSUME NEW w \in Workers, Take(w) \/ EndWorker(w) PROVE EventTypeOK'
  BY <1>0, <1>1, <1>2, <1>6 DEF Take, EndWorker
<1>7. ASSUME NEW w \in Workers, EndJob(w) \/ ReportStep(w) \/ CallStep(w) PROVE EventTypeOK'
  <2>1. UNCHANGED <<fpc, rpc, evt, arrived>>
    BY <1>7, <1>10 DEF EndJob
  <2>2. report' = report \/ \E place \in ReportPlaces : ReportGoes(w, place)
    BY <1>7 DEF EndJob, ReportStep, ReportAlloc, ReportFree, ReportPlaces, CallStep, CallStart,
                CallAlloc, CallCheck, CallAllocTable, CallWait, CallRemove, CallReturns
  <2>3. call' = call \/ \E place \in CallPlaces : CallGoes(w, place)
    BY <1>7 DEF EndJob, ReportStep, ReportAlloc, ReportFree, CallPlaces, CallStep, CallStart,
                CallAlloc, CallCheck, CallAllocTable, CallWait, CallRemove, CallReturns
  <2>4. report' \in [Workers -> ReportPlaces]
    BY <1>0, <2>2 DEF ReportGoes
  <2>5. call' \in [Workers -> CallPlaces]
    BY <1>0, <2>3 DEF CallGoes
  <2> QED
    BY <1>0, <1>1, <1>2, <2>1, <2>4, <2>5
<1>8. CASE FinRelease
  <2>1. call' \in [Workers -> CallPlaces]
    BY <1>0, <1>8 DEF FinRelease, CallPlaces
  <2> QED
    BY <1>0, <1>1, <1>2, <1>8, <2>1 DEF FinRelease
<1>9. CASE FinStart \/ FinAbort \/ FinJoin \/ FinWorkers \/ FinWorkersGone \/ FinBuffers
  BY <1>0, <1>1, <1>2, <1>9 DEF FinStart, FinAbort, FinJoin, FinWorkers, FinWorkersGone, FinBuffers
<1> QED
  BY <1>3, <1>4, <1>5, <1>6, <1>7, <1>8, <1>9 DEF EventNext, FinStep

LEMMA PathInvariance == EventSpec => []PathInv
<1>1. EventInit => PathInv
  BY InitTypeOK, InitJobInv, InitBlocks DEF PathInv, EventInit, PoolInit, RunOnce, OrderInv
<1>2. IInv /\ PathInv /\ [EventNext]_vars => PathInv'
  <2> SUFFICES ASSUME IInv, PathInv, [EventNext]_vars PROVE PathInv'
    OBVIOUS
  <2>1. [PoolNext]_poolVars
    BY StepsOfPool DEF PathInv
  <2>2. TypeOK' /\ JobInv' /\ RunOnce'
    BY <2>1, TypeStep, JobStep, OnceStep DEF IInv, PathInv
  <2>3. OrderInv' /\ CallInv' /\ BlockInv'
    BY <2>2, OrderStep, CallInvStep, BlockStep DEF PathInv
  <2>4. EventTypeOK'
    BY <2>2, <2>3, FreeStep, EventTypeStep
  <2> QED
    BY <2>2, <2>3, <2>4 DEF PathInv
<1>3. EventSpec => []IInv
  BY ImplementsPool, Invariance, PTL
<1> QED
  BY <1>1, <1>2, <1>3, PTL DEF EventSpec

\* While the library is up no block is lost, freed twice or used by two, for
\* any number of blocks, events and workers: what is not free belongs to one
\* place, but for the events whose handler returns early without a callback.
THEOREM BlocksCorrect == EventSpec => []BlocksAccounted
<1>1. PathInv => BlocksAccounted
  BY DEF PathInv, BlockInv
<1> QED
  BY <1>1, PathInvariance, PTL

\* Every variable keeps its type; the pool never has more free blocks than it
\* was made with, lte_destroy included.
THEOREM EventTypeCorrect == EventSpec => []EventTypeOK
<1>1. PathInv => EventTypeOK
  BY DEF PathInv
<1> QED
  BY <1>1, PathInvariance, PTL

=============================================================================
