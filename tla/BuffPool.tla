------------------------------ MODULE BuffPool ------------------------------
(***************************************************************************)
(* The buffer pool of ALTCOM (altcomlib/util/buffpool.c): blocks of several *)
(* sizes, allocated by any thread and waited for on one binary semaphore    *)
(* when every block that fits is in use.                                    *)
(*                                                                          *)
(* The classes of blocks are numbered in ascending size, as the table is    *)
(* sorted by buffpool_insertblockinfo.  The two lists of a class are sets:  *)
(* which free block is taken makes no difference.  The counters freecnt and *)
(* usedcnt are the sizes of these sets.  A request is known by the smallest *)
(* class that fits it; one that no class fits returns NULL at once and      *)
(* changes nothing.  A critical section of buffmtx is one step.             *)
(***************************************************************************)
EXTENDS Integers, FiniteSets

CONSTANTS
  Threads,   \* threads that use the pool
  NClasses,  \* sizes of blocks
  Cap,       \* blocks of each class
  Requests,  \* the smallest classes that fit the sizes asked for
  MaxHold    \* bound: blocks a thread holds at once

Classes == 1..NClasses

ASSUME ClassAssumption ==
  /\ NClasses \in Nat \ {0}
  /\ Cap \in [Classes -> Nat \ {0}]
  /\ Requests \subseteq Classes
  /\ MaxHold \in Nat

VARIABLES
  freelist,  \* the blocks in the free lists
  own,       \* the blocks each thread got and will free
  sem,       \* wait_sem, a binary semaphore
  pc,        \* where each thread is in buffpool_alloc or buffpool_free
  req,       \* the class its request starts from
  at         \* the class whose list buffpool_getbuffer looks at next

vars == <<freelist, own, sem, pc, req, at>>

Blocks == UNION {{c} \X (1..Cap[c]) : c \in Classes}

\* The free blocks of class c.
FreeOf(c) == {b \in freelist : b[1] = c}

TypeOK ==
  /\ freelist \subseteq Blocks
  /\ own \in [Threads -> SUBSET Blocks]
  /\ sem \in {0, 1}
  /\ pc \in [Threads -> {"run", "scan", "wait", "post"}]
  /\ req \in [Threads -> Classes]
  /\ at \in [Threads -> Classes]

\* buffpool_create: every block is free, the semaphore counts 0.
Init ==
  /\ freelist = Blocks
  /\ own = [t \in Threads |-> {}]
  /\ sem = 0
  /\ pc = [t \in Threads |-> "run"]
  /\ req = [t \in Threads |-> 1]
  /\ at = [t \in Threads |-> 1]

\* buffpool_alloc is called.
Alloc(t) ==
  /\ pc[t] = "run" /\ Cardinality(own[t]) < MaxHold
  /\ \E r \in Requests : req' = [req EXCEPT ![t] = r] /\ at' = [at EXCEPT ![t] = r]
  /\ pc' = [pc EXCEPT ![t] = "scan"]
  /\ UNCHANGED <<freelist, own, sem>>

\* Mutant of TakeBlock: the block is not pulled from the free list.
TakeBlockUnpulled(t) ==
  /\ pc[t] = "scan"
  /\ \E b \in FreeOf(at[t]) : own' = [own EXCEPT ![t] = @ \cup {b}]
  /\ pc' = [pc EXCEPT ![t] = "run"]
  /\ UNCHANGED <<freelist, sem, req, at>>

\* buffpool_getbuffer, under the lock: a block of this class is free.
TakeBlock(t) ==
  /\ pc[t] = "scan"
  /\ \E b \in FreeOf(at[t]) :
       /\ freelist' = freelist \ {b}
       /\ own' = [own EXCEPT ![t] = @ \cup {b}]
  /\ pc' = [pc EXCEPT ![t] = "run"]
  /\ UNCHANGED <<sem, req, at>>

\* None is: the next larger class, or alt_osal_wait_semaphore(FEVR) at the end.
NextClass(t) ==
  /\ pc[t] = "scan" /\ FreeOf(at[t]) = {}
  /\ IF at[t] < NClasses
     THEN at' = [at EXCEPT ![t] = @ + 1] /\ UNCHANGED pc
     ELSE pc' = [pc EXCEPT ![t] = "wait"] /\ UNCHANGED at
  /\ UNCHANGED <<freelist, own, sem, req>>

\* Mutant of Retry: the search goes on where it ended.
RetryFromLast(t) ==
  /\ pc[t] = "wait" /\ sem = 1
  /\ sem' = 0
  /\ pc' = [pc EXCEPT ![t] = "scan"]
  /\ UNCHANGED <<freelist, own, req, at>>

\* The semaphore was posted: search again from the first class that fits.
Retry(t) ==
  /\ pc[t] = "wait" /\ sem = 1
  /\ sem' = 0
  /\ pc' = [pc EXCEPT ![t] = "scan"]
  /\ at' = [at EXCEPT ![t] = req[t]]
  /\ UNCHANGED <<freelist, own, req>>

\* buffpool_free, under the lock.
Free(t) ==
  /\ pc[t] = "run"
  /\ \E b \in own[t] :
       /\ own' = [own EXCEPT ![t] = @ \ {b}]
       /\ freelist' = freelist \cup {b}
  /\ pc' = [pc EXCEPT ![t] = "post"]
  /\ UNCHANGED <<sem, req, at>>

\* Mutant of Post: the semaphore was created without max_count 1.
PostCounting(t) ==
  /\ pc[t] = "post"
  /\ sem' = sem + 1
  /\ pc' = [pc EXCEPT ![t] = "run"]
  /\ UNCHANGED <<freelist, own, req, at>>

\* ... and alt_osal_post_semaphore after it: max_count is 1, a second post is lost.
Post(t) ==
  /\ pc[t] = "post"
  /\ sem' = 1
  /\ pc' = [pc EXCEPT ![t] = "run"]
  /\ UNCHANGED <<freelist, own, req, at>>

Next ==
  \E t \in Threads :
    Alloc(t) \/ TakeBlock(t) \/ NextClass(t) \/ Retry(t) \/ Free(t) \/ Post(t)

Spec == Init /\ [][Next]_vars

-----------------------------------------------------------------------------
(* Safety *)

\* Every block is in the free list or held by exactly one thread: none is given
\* out twice and none is lost (the two lists of a class, and the assertions
\* freecnt + usedcnt == totalcnt).
Conserved ==
  \A b \in Blocks :
    \/ b \in freelist /\ \A t \in Threads : b \notin own[t]
    \/ b \notin freelist /\ \E t \in Threads : \A u \in Threads : b \in own[u] <=> u = t

\* A thread that will still reach the semaphore or the lists of the pool: it is
\* searching, it is about to post, or it runs and holds a block to free.
Active(t) == pc[t] \in {"scan", "post"} \/ (pc[t] = "run" /\ own[t] # {})

\* A thread with a request under way, and a block that would do for each of them.
Asking(t) == pc[t] \in {"scan", "wait"}
FitsAll(b) == \A t \in Threads : Asking(t) => b[1] >= req[t]

\* buffpool_alloc does not sleep beside a free block that fits every request under
\* way with nobody left to wake it, however requests of several sizes come and go
\* and whichever of them a post wakes.  (A block that is too small for one of them
\* may stay free beside another: the post can wake the wrong thread.)
NotStranded ==
  \A t \in Threads, b \in freelist :
    pc[t] = "wait" /\ FitsAll(b) => sem = 1 \/ \E u \in Threads : Active(u)

=============================================================================
