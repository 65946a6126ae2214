----------------------------- MODULE EventPath -----------------------------
(***************************************************************************)
(* The path of an event, from the receive task of the gateway to its       *)
(* handler, and the end of it all in lte_destroy:                          *)
(*                                                                         *)
(*   apicmdgw_recvtask -> buffer pool -> evtdisp_dispatch -> job queue ->  *)
(*   a worker -> the application's callback, which may call an API that    *)
(*   waits for a response, which the receive task reads.                   *)
(*                                                                         *)
(* The job queue and the workers are ThrdPool's; the caller of lte_destroy *)
(* is its Deleter.  The buffer pool is the number of its free blocks, one  *)
(* class of blocks (BuffPool has the classes), without the receive task's  *)
(* own buffer.  Every allocation waits for a free block.                   *)
(***************************************************************************)
EXTENDS ThrdPool

CONSTANTS
  NBlocks,      \* the blocks of the pool
  Calling,      \* the events whose callback calls an API and waits
  Reporting,    \* the events whose handler allocates the data it reports
  Unregistered, \* the events whose handler finds no callback
  Unsupported   \* the events no handler accepts

ASSUME EventAssumption ==
  /\ NBlocks \in Nat \ {0}
  /\ Calling \subseteq Jobs
  /\ Reporting \subseteq Jobs
  /\ Unregistered \subseteq Jobs \ (Calling \cup Reporting)
  /\ Unsupported \subseteq Jobs \ (Calling \cup Reporting \cup Unregistered)

VARIABLES
  isinit,   \* g_isinit
  abort,    \* the HAL was told to terminate the receive
  fpc,      \* where lte_destroy is
  rpc,      \* where the receive task is
  evt,      \* the event it carries
  arrived,  \* ghost: the events it has taken from the HAL
  free,     \* the free blocks of the pool
  report,   \* the report data of each worker's handler
  call      \* the API call of each worker's callback

rxVars  == <<rpc, evt, arrived>>
finVars == <<isinit, abort, fpc>>
jobVars == <<report, call>>
vars    == <<poolVars, rxVars, finVars, free, jobVars>>

\* Before the call; in need of the block of the command, of the response (cmd,
\* res); with both, before the checks of __apicmdgw_send (got); in need of the
\* entry of the block table, of the semaphore's memory (tbl, sem); with all
\* four: before the block table, in it, out of the wait (passed, wait, woken);
\* with the first two again (back); after the call.
CallPlaces ==
  {"none", "cmd", "res", "got", "tbl", "sem", "passed", "wait", "woken", "back", "over"}

\* Not allocated yet, allocated, freed.
ReportPlaces == {"none", "held", "over"}

EventTypeOK ==
  /\ TypeOK
  /\ isinit \in BOOLEAN /\ abort \in BOOLEAN
  /\ fpc \in {"up", "abort", "join", "release", "workers", "buffers", "down"}
  /\ rpc \in {"idle", "recv", "alloc", "dispatch", "ending", "gone"}
  /\ evt \in Jobs \cup {NoJob}
  /\ arrived \subseteq Jobs
  /\ free \in 0..NBlocks
  /\ report \in [Workers -> ReportPlaces]
  /\ call \in [Workers -> CallPlaces]

\* After lte_buildmain, with the gateway ready.
EventInit ==
  /\ PoolInit
  /\ isinit = TRUE /\ abort = FALSE /\ fpc = "up"
  /\ rpc = "idle" /\ evt = NoJob /\ arrived = {}
  /\ free = NBlocks
  /\ report = [w \in Workers |-> "none"]
  /\ call = [w \in Workers |-> "none"]

CallGoes(w, place)   == call' = [call EXCEPT ![w] = place]
ReportGoes(w, place) == report' = [report EXCEPT ![w] = place]

-----------------------------------------------------------------------------
(* The receive task *)

\* The HAL looks for an abort before it waits for data.
RxRecv ==
  /\ rpc = "idle"
  /\ rpc' = IF abort THEN "ending" ELSE "recv"
  /\ UNCHANGED <<poolVars, evt, arrived, finVars, free, jobVars>>

RxAborted ==
  /\ rpc = "recv" /\ abort
  /\ rpc' = "ending"
  /\ UNCHANGED <<poolVars, evt, arrived, finVars, free, jobVars>>

\* A frame that apicmdgw_writetable finds no caller for.
RxEvent(j) ==
  /\ rpc = "recv" /\ j \notin arrived
  /\ rpc' = "alloc"
  /\ evt' = j
  /\ arrived' = arrived \cup {j}
  /\ UNCHANGED <<poolVars, finVars, free, jobVars>>

\* Mutant of RxAnswer: the caller is not found, and not woken.
RxAnswerLost(w) ==
  /\ rpc = "recv" /\ call[w] = "wait"
  /\ rpc' = "idle"
  /\ UNCHANGED <<poolVars, evt, arrived, finVars, free, jobVars>>

\* A frame that answers the caller w.
RxAnswer(w) ==
  /\ rpc = "recv" /\ call[w] = "wait"
  /\ rpc' = "idle"
  /\ CallGoes(w, "woken")
  /\ UNCHANGED <<poolVars, evt, arrived, finVars, free, report>>

\* allocbuff: blocks until there is a block.
RxAlloc ==
  /\ rpc = "alloc" /\ free > 0
  /\ free' = free - 1
  /\ rpc' = "dispatch"
  /\ UNCHANGED <<poolVars, evt, arrived, finVars, jobVars>>

\* The handler of the event passes the block on to a worker.
RxDispatch ==
  /\ rpc = "dispatch" /\ evt \notin Unsupported
  /\ RunJob(evt)
  /\ rpc' = "idle" /\ evt' = NoJob
  /\ UNCHANGED <<arrived, finVars, free, jobVars>>

\* No handler takes it: the receive task frees the block itself.
RxUnsupported ==
  /\ rpc = "dispatch" /\ evt \in Unsupported
  /\ free' = free + 1
  /\ rpc' = "idle" /\ evt' = NoJob
  /\ UNCHANGED <<poolVars, arrived, finVars, jobVars>>

RxEnd ==
  /\ rpc = "ending"
  /\ rpc' = "gone"
  /\ UNCHANGED <<poolVars, evt, arrived, finVars, free, jobVars>>

RxStep ==
  \/ RxRecv \/ RxAborted \/ RxAlloc \/ RxDispatch \/ RxUnsupported \/ RxEnd

-----------------------------------------------------------------------------
(* The workers *)

Take(w) == Recv(w) /\ UNCHANGED <<rxVars, finVars, free, jobVars>>

Calls(w)   == wpc[w] = "run" /\ job[w] \in Calling
Reports(w) == wpc[w] = "run" /\ job[w] \in Reporting

\* The data of the report, allocated before the callback is called.
ReportAlloc(w) ==
  /\ Reports(w) /\ report[w] = "none" /\ free > 0
  /\ free' = free - 1
  /\ ReportGoes(w, "held")
  /\ UNCHANGED <<poolVars, rxVars, finVars, call>>

\* Freed by the pool itself after the callback returned.
ReportFree(w) ==
  /\ report[w] = "held"
  /\ Calls(w) => call[w] = "over"
  /\ free' = free + 1
  /\ ReportGoes(w, "over")
  /\ UNCHANGED <<poolVars, rxVars, finVars, call>>

ReportStep(w) == ReportAlloc(w) \/ ReportFree(w)

\* apicmdgw_cmd_allocbuff fails when the gateway is not initialized.
CallStart(w) ==
  /\ Calls(w) /\ call[w] = "none"
  /\ Reports(w) => report[w] = "held"
  /\ CallGoes(w, IF isinit THEN "cmd" ELSE "over")
  /\ UNCHANGED <<poolVars, rxVars, finVars, free, report>>

\* The blocks of the command, then of the response.
CallAlloc(w) ==
  /\ call[w] \in {"cmd", "res"} /\ free > 0
  /\ free' = free - 1
  /\ CallGoes(w, IF call[w] = "cmd" THEN "res" ELSE "got")
  /\ UNCHANGED <<poolVars, rxVars, finVars, report>>

\* The checks of __apicmdgw_send.
CallCheck(w) ==
  /\ call[w] = "got"
  /\ CallGoes(w, IF isinit THEN "tbl" ELSE "back")
  /\ UNCHANGED <<poolVars, rxVars, finVars, free, report>>

\* The blocks of the entry of the block table, then of its semaphore: after
\* the checks, which are not made again.
CallAllocTable(w) ==
  /\ call[w] \in {"tbl", "sem"} /\ free > 0
  /\ free' = free - 1
  /\ CallGoes(w, IF call[w] = "tbl" THEN "sem" ELSE "passed")
  /\ UNCHANGED <<poolVars, rxVars, finVars, report>>

\* apicmdgw_addtable, the sending, and the wait without time-out.
CallWait(w) ==
  /\ call[w] = "passed"
  /\ CallGoes(w, "wait")
  /\ UNCHANGED <<poolVars, rxVars, finVars, free, report>>

\* Mutant of CallRemove: the memory of the semaphore is not freed.
CallRemoveKeeps(w) ==
  /\ call[w] = "woken"
  /\ free' = free + 1
  /\ CallGoes(w, "back")
  /\ UNCHANGED <<poolVars, rxVars, finVars, report>>

\* apicmdgw_remtable: the semaphore and the entry are freed by the pool itself.
CallRemove(w) ==
  /\ call[w] = "woken"
  /\ free' = free + 2
  /\ CallGoes(w, "back")
  /\ UNCHANGED <<poolVars, rxVars, finVars, report>>

\* The command is freed by apicmdgw_freebuff, which does nothing once the
\* gateway is not initialized, the response by the pool itself.
CallReturns(w) ==
  /\ call[w] = "back"
  /\ free' = free + (IF isinit THEN 2 ELSE 1)
  /\ CallGoes(w, "over")
  /\ UNCHANGED <<poolVars, rxVars, finVars, report>>

CallStep(w) ==
  \/ CallStart(w) \/ CallAlloc(w) \/ CallCheck(w) \/ CallAllocTable(w)
  \/ CallWait(w) \/ CallRemove(w) \/ CallReturns(w)

\* altcom_free_cmd, unless the handler returned early for want of a callback.
Frees(w) == isinit /\ job[w] \notin Unregistered

\* The callback returned and the data it reported is freed.
EndJob(w) ==
  /\ Calls(w) => call[w] = "over"
  /\ Reports(w) => report[w] = "over"
  /\ JobReturns(w)
  /\ free' = free + (IF Frees(w) THEN 1 ELSE 0)
  /\ CallGoes(w, "none") /\ ReportGoes(w, "none")
  /\ UNCHANGED <<rxVars, finVars>>

EndWorker(w) ==
  /\ LockToEnd(w) \/ Terminate(w) \/ SignalEnd(w) \/ UnlockGone(w)
  /\ UNCHANGED <<rxVars, finVars, free, jobVars>>

-----------------------------------------------------------------------------
(* lte_destroy *)

FinStart ==
  /\ fpc = "up"
  /\ isinit' = FALSE
  /\ fpc' = "abort"
  /\ UNCHANGED <<poolVars, rxVars, abort, free, jobVars>>

FinAbort ==
  /\ fpc = "abort"
  /\ abort' = TRUE
  /\ fpc' = "join"
  /\ UNCHANGED <<poolVars, rxVars, isinit, free, jobVars>>

\* Mutant of FinJoin: the receive task is not waited for.
FinJoinNot ==
  /\ fpc = "join"
  /\ fpc' = "release"
  /\ UNCHANGED <<poolVars, rxVars, isinit, abort, free, jobVars>>

FinJoin ==
  /\ fpc = "join" /\ rpc = "gone"
  /\ fpc' = "release"
  /\ UNCHANGED <<poolVars, rxVars, isinit, abort, free, jobVars>>

\* apicmdgw_relcondwaitall wakes the callers in the block table.
FinRelease ==
  /\ fpc = "release"
  /\ fpc' = "workers"
  /\ call' = [w \in Workers |-> IF call[w] = "wait" THEN "woken" ELSE call[w]]
  /\ UNCHANGED <<poolVars, rxVars, isinit, abort, free, report>>

FinWorkers ==
  /\ fpc = "workers"
  /\ (DeleteStart \/ DeleteStep) /\ UNCHANGED fpc
  /\ UNCHANGED <<rxVars, isinit, abort, free, jobVars>>

FinWorkersGone ==
  /\ fpc = "workers" /\ dpc = "done"
  /\ fpc' = "buffers"
  /\ UNCHANGED <<poolVars, rxVars, isinit, abort, free, jobVars>>

\* buffpool_delete frees every block, the ones still allocated too.
FinBuffers ==
  /\ fpc = "buffers"
  /\ fpc' = "down"
  /\ UNCHANGED <<poolVars, rxVars, isinit, abort, free, jobVars>>

FinStep ==
  FinAbort \/ FinJoin \/ FinRelease \/ FinWorkers \/ FinWorkersGone \/ FinBuffers

-----------------------------------------------------------------------------
EventNext ==
  \/ \E j \in Jobs : RxEvent(j)
  \/ \E w \in Workers : RxAnswer(w)
  \/ RxStep
  \/ \E w \in Workers : 
       \/ Take(w) \/ EndJob(w) \/ EndWorker(w)
       \/ ReportStep(w) \/ CallStep(w)
  \/ FinStart \/ FinStep

\* The tasks run; the modem answers the calls while it is read.
Fairness ==
  /\ WF_vars(RxStep) /\ WF_vars(FinStep)
  /\ \A w \in Workers :
       /\ WF_vars(RxAnswer(w))
       /\ WF_vars(Take(w))
       /\ WF_vars(EndJob(w))
       /\ WF_vars(EndWorker(w))
       /\ WF_vars(ReportStep(w))
       /\ WF_vars(CallStep(w))

EventSpec == EventInit /\ [][EventNext]_vars /\ Fairness

-----------------------------------------------------------------------------
(* Safety *)

\* The handlers that run, those with data of a report, and the calls that hold
\* the block of their command, of the response, of the entry of the block table
\* and of the semaphore.
Running    == {w \in Workers : wpc[w] = "run"}
Reported   == {w \in Workers : report[w] = "held"}
Commands   == {w \in Workers : call[w] \notin {"none", "cmd", "over"}}
Responses  == {w \in Commands : call[w] # "res"}
Entries    == {w \in Workers : call[w] \in {"sem", "passed", "wait", "woken"}}
Semaphores == {w \in Entries : call[w] # "sem"}

\* The block of the receive task.
InReceive == IF rpc = "dispatch" THEN 1 ELSE 0

\* The blocks of the events: in the queue, at the handlers, and the lost ones.
OfEvents == Len(queue) + Cardinality(Running) + Cardinality(ran \cap Unregistered)

\* The blocks that are freed by the pool itself, lte_destroy or not.
OfPool ==
  Cardinality(Reported) + Cardinality(Responses) + Cardinality(Entries)
  + Cardinality(Semaphores)

\* While the library is up every block that is not free belongs to the event
\* of the receive task, of the queue or of a handler, to the report of a handler
\* or to a call: a block of an event changes hands three times and is freed by
\* whoever has it last, in another task than the one that allocated it, and a
\* call takes its four blocks one by one between those of the others.  The
\* handlers that return early for want of a callback are the only ones that
\* lose theirs.
BlocksAccounted ==
  isinit => NBlocks - free = InReceive + OfEvents + OfPool + Cardinality(Commands)

-----------------------------------------------------------------------------
(* Liveness *)

\* Every event the receive task takes is handled while the library is up,
\* although the task blocks in the buffer pool and in the full job queue,
\* handlers block in the pool with the blocks of their event, their report and
\* half of a call, and wait for an answer that only this task can read to them.
EventsHandled ==
  \A j \in Jobs \ Unsupported : (evt = j) ~> (j \in ran \/ ~isinit)

\* The calls that apicmdgw_relcondwaitall came too early for.
Late == \E w \in Workers : call[w] \in {"passed", "wait"} /\ fpc = "workers"

\* lte_destroy ends, although the receive task may be blocked in the buffer
\* pool or in the job queue when it is told to terminate, and handlers that
\* still run free nothing once g_isinit is cleared.  Only a callback's call that
\* was past the checks of apicmdgw_send, and entered the block table after
\* everyone was released, keeps it from ending.
DestroyEnds == (fpc = "abort") ~> (fpc = "down" \/ Late)

=============================================================================
