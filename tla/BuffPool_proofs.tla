-------------------------- MODULE BuffPool_proofs ---------------------------
(***************************************************************************)
(* Proofs about the buffer pool, for every number of threads, classes and  *)
(* blocks and every bound on the blocks a thread holds.                    *)
(***************************************************************************)
EXTENDS BuffPool, TLAPS

-----------------------------------------------------------------------------
(* Types and ownership *)

\* Every step of the pool preserves its types.
LEMMA TypeStep == TypeOK /\ [Next]_vars => TypeOK'
<1> SUFFICES ASSUME TypeOK, [Next]_vars PROVE TypeOK'
  OBVIOUS
<1> USE ClassAssumption DEF TypeOK, Classes
<1>1. ASSUME NEW t \in Threads, Alloc(t) PROVE TypeOK'
  BY <1>1 DEF Alloc
<1>2. ASSUME NEW t \in Threads, TakeBlock(t) PROVE TypeOK'
  <2>1. PICK b \in FreeOf(at[t]) :
          freelist' = freelist \ {b} /\ own' = [own EXCEPT ![t] = @ \cup {b}]
    BY <1>2 DEF TakeBlock
  <2>2. b \in Blocks
    BY <2>1 DEF FreeOf
  <2>3. own[t] \cup {b} \in SUBSET Blocks
    BY <2>2
  <2>4. own' \in [Threads -> SUBSET Blocks] /\ freelist' \subseteq Blocks
    BY <2>1, <2>3
  <2> QED
    BY <1>2, <2>4 DEF TakeBlock
<1>3. ASSUME NEW t \in Threads, NextClass(t) PROVE TypeOK'
  <2>1. CASE at[t] < NClasses
    <3>1. at[t] + 1 \in 1..NClasses
      BY <2>1
    <3> QED
      BY <1>3, <2>1, <3>1 DEF NextClass
  <2>2. CASE ~(at[t] < NClasses)
    BY <1>3, <2>2 DEF NextClass
  <2> QED
    BY <2>1, <2>2
<1>4. ASSUME NEW t \in Threads, Retry(t) PROVE TypeOK'
  BY <1>4 DEF Retry
<1>5. ASSUME NEW t \in Threads, Free(t) PROVE TypeOK'
  <2>1. PICK b \in own[t] :
          own' = [own EXCEPT ![t] = @ \ {b}] /\ freelist' = freelist \cup {b}
    BY <1>5 DEF Free
  <2>2. own[t] \in SUBSET Blocks /\ own[t] \ {b} \in SUBSET Blocks
    OBVIOUS
  <2>3. own' \in [Threads -> SUBSET Blocks] /\ freelist' \subseteq Blocks
    BY <2>1, <2>2
  <2> QED
    BY <1>5, <2>3 DEF Free
<1>6. ASSUME NEW t \in Threads, Post(t) PROVE TypeOK'
  BY <1>6 DEF Post
<1>7. CASE UNCHANGED vars
  BY <1>7 DEF vars
<1> QED
  BY <1>1, <1>2, <1>3, <1>4, <1>5, <1>6, <1>7 DEF Next

\* The pool's lists, its threads and its binary semaphore stay well typed.
THEOREM TypeCorrect == Spec => []TypeOK
<1>1. Init => TypeOK
  BY ClassAssumption DEF Init, TypeOK, Classes
<1> QED
  BY <1>1, TypeStep, PTL DEF Spec

\* No step gives out a block twice or loses one.
LEMMA ConservedStep == TypeOK /\ Conserved /\ [Next]_vars => Conserved'
<1> SUFFICES ASSUME TypeOK, Conserved, [Next]_vars PROVE Conserved'
  OBVIOUS
<1>1. CASE \E t \in Threads : TakeBlock(t)
  <2>1. PICK t \in Threads : TakeBlock(t)
    BY <1>1
  <2>2. PICK b \in FreeOf(at[t]) :
          freelist' = freelist \ {b} /\ own' = [own EXCEPT ![t] = @ \cup {b}]
    BY <2>1 DEF TakeBlock
  <2>3. b \in freelist /\ b \in Blocks /\ \A u \in Threads : b \notin own[u]
    BY <2>2 DEF FreeOf, Conserved, TypeOK
  <2>4. /\ own'[t] = own[t] \cup {b}
        /\ \A u \in Threads \ {t} : own'[u] = own[u]
    BY <2>2 DEF TypeOK
  <2> QED
    BY <2>2, <2>3, <2>4 DEF Conserved
<1>2. CASE \E t \in Threads : Free(t)
  <2>1. PICK t \in Threads : Free(t)
    BY <1>2
  <2>2. PICK b \in own[t] :
          own' = [own EXCEPT ![t] = @ \ {b}] /\ freelist' = freelist \cup {b}
    BY <2>1 DEF Free
  <2>3. b \in Blocks /\ \A u \in Threads : b \in own[u] <=> u = t
    BY <2>2 DEF Conserved, TypeOK
  <2>4. /\ own'[t] = own[t] \ {b}
        /\ \A u \in Threads \ {t} : own'[u] = own[u]
    BY <2>2 DEF TypeOK
  <2> QED
    BY <2>2, <2>3, <2>4 DEF Conserved
<1>3. CASE UNCHANGED <<freelist, own>>
  BY <1>3 DEF Conserved
<1> QED
  BY <1>1, <1>2, <1>3 DEF Next, vars, Alloc, NextClass, Retry, Post

\* Every block is free or held by exactly one thread.
THEOREM ConservedCorrect == Spec => []Conserved
<1>1. Init => Conserved
  BY DEF Init, Conserved
<1> QED
  BY <1>1, TypeCorrect, ConservedStep, PTL DEF Spec

-----------------------------------------------------------------------------
(* Wake-ups *)

\* Thread t will not look at class c again before it is woken.
Passed(t, c) == pc[t] = "wait" \/ (pc[t] = "scan" /\ at[t] > c)

\* Somebody will look at class c, or will post the semaphore.
Attended(c) ==
  \/ sem = 1
  \/ \E u \in Threads : \/ pc[u] = "post"
                        \/ pc[u] = "run" /\ own[u] # {}
                        \/ pc[u] = "scan" /\ at[u] <= c

\* A free block that fits every request under way and that a thread has passed by
\* was freed after that, or kept from one that asked for more and has since got its
\* block: the post that follows, or what it set going, is still under way.  Whoever
\* takes the post looks at this block, since it fits.
WakeInv ==
  \A b \in freelist :
    FitsAll(b) /\ (\E t \in Threads : Passed(t, b[1])) => Attended(b[1])

\* Going on to the next class passes no class but the one looked at.
LEMMA NextPasses ==
  ASSUME NEW i \in Int, NEW j \in Int, j # i
  PROVE  (i + 1 > j => i > j) /\ (i <= j => i + 1 <= j)
OBVIOUS

\* No class is passed before the last one that is above it.
LEMMA LastPasses ==
  ASSUME NEW i \in Int, NEW j \in Int, NEW n \in Int, j # i, j <= n, i <= n, ~(i < n)
  PROVE  i > j /\ ~(i <= j)
OBVIOUS

\* Every step keeps each passed free block that fits attended.
LEMMA WakeStep == TypeOK /\ WakeInv /\ [Next]_vars => WakeInv'
<1> SUFFICES ASSUME TypeOK, WakeInv, [Next]_vars PROVE WakeInv'
  OBVIOUS
<1>0. \A b \in Blocks : b[1] \in Classes
  BY DEF Blocks
<1> USE ClassAssumption DEF TypeOK, Classes
<1>1. ASSUME NEW t \in Threads, Alloc(t) PROVE WakeInv'
  <2>1. PICK r \in Requests : req' = [req EXCEPT ![t] = r] /\ at' = [at EXCEPT ![t] = r]
    BY <1>1 DEF Alloc
  <2>2. /\ pc'[t] = "scan" /\ at'[t] = req'[t] /\ at'[t] \in Int /\ freelist' = freelist
    BY <1>1, <2>1 DEF Alloc
  <2>3. ASSUME NEW b \in freelist, FitsAll(b)' PROVE Attended(b[1])'
    <3>1. at'[t] <= b[1]
      BY <2>2, <2>3, <1>0 DEF FitsAll, Asking
    <3> QED
      BY <2>2, <3>1 DEF Attended
  <2> QED
    BY <2>2, <2>3 DEF WakeInv
<1>2. ASSUME NEW t \in Threads, TakeBlock(t) PROVE WakeInv'
  <2>1. pc'[t] = "run" /\ own'[t] # {}
    BY <1>2 DEF TakeBlock
  <2> QED
    BY <2>1 DEF WakeInv, Attended
<1>3. ASSUME NEW t \in Threads, NextClass(t) PROVE WakeInv'
  <2>1. SUFFICES ASSUME NEW b \in freelist, NEW u \in Threads, FitsAll(b)', Passed(u, b[1])'
                 PROVE  Attended(b[1])'
    BY <1>3 DEF NextClass, WakeInv
  <2>f. FitsAll(b)
    BY <1>3, <2>1 DEF NextClass, FitsAll, Asking
  <2>2. b[1] \in Classes /\ b[1] # at[t]
    BY <1>0, <1>3 DEF NextClass, FreeOf
  <2>t. /\ b[1] \in Int /\ 1 <= b[1] /\ b[1] <= NClasses /\ NClasses \in Int
        /\ \A v \in Threads : at[v] \in Int /\ 1 <= at[v] /\ at[v] <= NClasses
    BY <2>2
  <2>a. at[t] \in Int /\ b[1] \in Int /\ NClasses \in Int /\ b[1] # at[t] /\ at[t] <= NClasses
    BY <2>2, <2>t
  <2>3. CASE at[t] < NClasses
    <3>1. /\ pc' = pc /\ sem' = sem /\ own' = own /\ pc[t] = "scan"
          /\ at'[t] = at[t] + 1 /\ \A v \in Threads \ {t} : at'[v] = at[v]
      BY <1>3, <2>3 DEF NextClass
    <3>0. at[t] + 1 > b[1] => at[t] > b[1]
      BY <2>a, NextPasses
    <3>2. Passed(u, b[1])
      <4>1. CASE u = t
        BY <2>1, <3>0, <3>1, <4>1 DEF Passed
      <4>2. CASE u # t
        BY <2>1, <3>1, <4>2 DEF Passed
      <4> QED
        BY <4>1, <4>2
    <3>3. Attended(b[1])
      BY <2>1, <2>f, <3>2 DEF WakeInv
    <3>4. at[t] <= b[1] => at[t] + 1 <= b[1]
      BY <2>a, NextPasses
    <3>5. ASSUME NEW v \in Threads, at[v] <= b[1] PROVE at'[v] <= b[1]
      <4>1. CASE v = t
        BY <3>1, <3>4, <3>5, <4>1
      <4>2. CASE v # t
        BY <3>1, <3>5, <4>2
      <4> QED
        BY <4>1, <4>2
    <3> QED
      BY <3>1, <3>3, <3>5 DEF Attended
  <2>4. CASE ~(at[t] < NClasses)
    <3>1. /\ at' = at /\ sem' = sem /\ own' = own /\ pc[t] = "scan"
          /\ pc'[t] = "wait" /\ \A v \in Threads \ {t} : pc'[v] = pc[v]
      BY <1>3, <2>4 DEF NextClass
    <3>2. at[t] > b[1] /\ ~(at[t] <= b[1])
      BY <2>a, <2>4, <2>t, LastPasses
    <3>3. Passed(u, b[1])
      BY <2>1, <3>1, <3>2 DEF Passed
    <3>4. Attended(b[1])
      BY <2>1, <2>f, <3>3 DEF WakeInv
    <3> QED
      BY <3>1, <3>2, <3>4 DEF Attended
  <2> QED
    BY <2>3, <2>4
<1>4. ASSUME NEW t \in Threads, Retry(t) PROVE WakeInv'
  <2>1. /\ pc'[t] = "scan" /\ at'[t] = req'[t] /\ at'[t] \in Int /\ freelist' = freelist
    BY <1>4 DEF Retry
  <2>2. ASSUME NEW b \in freelist, FitsAll(b)' PROVE Attended(b[1])'
    <3>1. at'[t] <= b[1]
      BY <2>1, <2>2, <1>0 DEF FitsAll, Asking
    <3> QED
      BY <2>1, <3>1 DEF Attended
  <2> QED
    BY <2>1, <2>2 DEF WakeInv
<1>5. ASSUME NEW t \in Threads, Free(t) PROVE WakeInv'
  <2>1. pc'[t] = "post"
    BY <1>5 DEF Free
  <2> QED
    BY <2>1 DEF WakeInv, Attended
<1>6. ASSUME NEW t \in Threads, Post(t) PROVE WakeInv'
  BY <1>6 DEF Post, WakeInv, Attended
<1>7. CASE UNCHANGED vars
  BY <1>7 DEF vars, WakeInv, FitsAll, Asking, Passed, Attended
<1> QED
  BY <1>1, <1>2, <1>3, <1>4, <1>5, <1>6, <1>7 DEF Next

\* For any threads, classes and requests a thread does not sleep in buffpool_alloc
\* beside a free block that fits every request under way with nobody left to wake it.
THEOREM NotStrandedCorrect == Spec => []NotStranded
<1>1. Init => WakeInv
  BY DEF Init, WakeInv, Passed
<1>2. TypeOK /\ WakeInv /\ [Next]_vars => WakeInv'
  BY WakeStep
<1>3. WakeInv => NotStranded
  BY DEF WakeInv, NotStranded, Passed, Attended, Active
<1> QED
  BY <1>1, <1>2, <1>3, TypeCorrect, PTL DEF Spec

=============================================================================
