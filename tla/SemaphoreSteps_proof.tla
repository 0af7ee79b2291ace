------------------------- MODULE SemaphoreSteps_proof -------------------------
(***************************************************************************)
(* What each step of the semaphores does to the counts, to the tasks that   *)
(* wait and to the state of CountingSemaphore: the lemmas behind            *)
(* Semaphore_proof, for any number of tasks, priorities and semaphores.     *)
(***************************************************************************)
EXTENDS Semaphore, SchedLists_proof

-----------------------------------------------------------------------------
(* Counting the waiters *)

\* The tasks that wait for s according to w.
WaitersOf(w, s) == {t \in Task : w[t] = s}

\* The counts c are negative by the number of the tasks that wait according to w.
Counts(c, w) ==
  \A s \in Sem : Cardinality(WaitersOf(w, s)) = IF c[s] < 0 THEN -c[s] ELSE 0

(* The waiters of a semaphore are finitely many. *)
LEMMA FiniteWaiters ==
  ASSUME NEW w, NEW s
  PROVE  /\ IsFiniteSet(WaitersOf(w, s))
         /\ Cardinality(WaitersOf(w, s)) \in Nat
         /\ Cardinality(WaitersOf(w, s)) = 0 <=> \A t \in Task : w[t] # s
<1> DEFINE W == WaitersOf(w, s)
<1>1. IsFiniteSet(W)
  BY FiniteTasks, FS_Subset DEF WaitersOf
<1>2. Cardinality(W) \in Nat /\ (Cardinality(W) = 0 <=> W = {})
  BY <1>1, FS_CardinalityType, FS_EmptySet
<1>3. W = {} <=> \A t \in Task : w[t] # s
  BY DEF WaitersOf
<1> QED BY <1>1, <1>2, <1>3

(* A task that begins to wait is one more waiter of its semaphore. *)
LEMMA CountsEnqueue ==
  ASSUME NEW c \in [Sem -> Int], NEW w \in [Task -> Sem \union {None}], Counts(c, w),
         NEW t \in Task, w[t] = None, NEW s \in Sem, c[s] <= 0
  PROVE  Counts([c EXCEPT ![s] = c[s] - 1], [w EXCEPT ![t] = s])
<1> DEFINE d == [c EXCEPT ![s] = c[s] - 1]
           v == [w EXCEPT ![t] = s]
           W(r) == WaitersOf(w, r)
           V(r) == WaitersOf(v, r)
<1>1. None \notin Sem
  BY SemAssumption
<1>2. V(s) = W(s) \union {t} /\ t \notin W(s) /\ \A r \in Sem \ {s} : V(r) = W(r)
  BY <1>1 DEF WaitersOf
<1>3. d[s] = c[s] - 1 /\ \A r \in Sem \ {s} : d[r] = c[r]
  OBVIOUS
<1>4. Cardinality(V(s)) = Cardinality(W(s)) + 1
  BY <1>2, FiniteWaiters, FS_AddElement
<1>5. \A r \in Sem : Cardinality(W(r)) = IF c[r] < 0 THEN -c[r] ELSE 0
  BY DEF Counts
<1> HIDE DEF W, V, d, v
<1>6. Cardinality(V(s)) = IF d[s] < 0 THEN -d[s] ELSE 0
  BY <1>3, <1>4, <1>5
<1>7. \A r \in Sem : Cardinality(V(r)) = IF d[r] < 0 THEN -d[r] ELSE 0
  BY <1>2, <1>3, <1>5, <1>6
<1> QED BY <1>7 DEF Counts, V, d, v

(* A wait that ends takes one off: the count of its semaphore was negative. *)
LEMMA CountsDequeue ==
  ASSUME NEW c \in [Sem -> Int], NEW w \in [Task -> Sem \union {None}], Counts(c, w),
         NEW t \in Task, NEW s \in Sem, w[t] = s
  PROVE  c[s] < 0 /\ Counts([c EXCEPT ![s] = c[s] + 1], [w EXCEPT ![t] = None])
<1> DEFINE d == [c EXCEPT ![s] = c[s] + 1]
           v == [w EXCEPT ![t] = None]
           W(r) == WaitersOf(w, r)
           V(r) == WaitersOf(v, r)
<1>1. None \notin Sem
  BY SemAssumption
<1>2. V(s) = W(s) \ {t} /\ t \in W(s) /\ \A r \in Sem \ {s} : V(r) = W(r)
  BY <1>1 DEF WaitersOf
<1>3. d[s] = c[s] + 1 /\ \A r \in Sem \ {s} : d[r] = c[r]
  OBVIOUS
<1>4. Cardinality(V(s)) = Cardinality(W(s)) - 1 /\ Cardinality(W(s)) \in Nat /\ Cardinality(W(s)) # 0
  <2>1. IsFiniteSet(W(s)) /\ Cardinality(W(s)) \in Nat /\ Cardinality(W(s)) # 0
    BY FiniteWaiters
  <2> HIDE DEF W, V
  <2>2. Cardinality(W(s) \ {t}) = Cardinality(W(s)) - 1
    BY <1>2, <2>1, FS_RemoveElement
  <2> QED BY <1>2, <2>1, <2>2
<1>5. \A r \in Sem : Cardinality(W(r)) = IF c[r] < 0 THEN -c[r] ELSE 0
  BY DEF Counts
<1> HIDE DEF W, V, d, v
<1>6. c[s] < 0 /\ Cardinality(V(s)) = IF d[s] < 0 THEN -d[s] ELSE 0
  BY <1>3, <1>4, <1>5
<1>7. \A r \in Sem : Cardinality(V(r)) = IF d[r] < 0 THEN -d[r] ELSE 0
  BY <1>2, <1>3, <1>5, <1>6
<1> QED BY <1>6, <1>7 DEF Counts, V, d, v

(* The count of a semaphore without waiters may become any natural number. *)
LEMMA CountsSet ==
  ASSUME NEW c \in [Sem -> Int], NEW w, Counts(c, w), NEW s \in Sem, c[s] >= 0, NEW n \in Nat
  PROVE  Counts([c EXCEPT ![s] = n], w)
<1> DEFINE d == [c EXCEPT ![s] = n]
<1>1. d[s] = n /\ \A r \in Sem \ {s} : d[r] = c[r]
  OBVIOUS
<1> HIDE DEF d
<1>2. Counts(d, w)
  BY <1>1 DEF Counts
<1> QED BY <1>2 DEF d

(* There is a waiter exactly when the count is negative. *)
LEMMA CountsSome ==
  ASSUME NEW c \in [Sem -> Int], NEW w, Counts(c, w), NEW s \in Sem
  PROVE  c[s] < 0 <=> \E t \in Task : w[t] = s
<1>1. Cardinality(WaitersOf(w, s)) = IF c[s] < 0 THEN -c[s] ELSE 0
  BY DEF Counts
<1> QED BY <1>1, FiniteWaiters

-----------------------------------------------------------------------------
(* The inductive invariant *)

\* The types of what the scheduler does not know of; nxsem_reset() is called on a semaphore.
SemTypes ==
  /\ semcount \in [Sem -> Int]
  /\ \A s \in Sem : semcount[s] <= SEM_VALUE_MAX
  /\ waitsem \in [Task -> Sem \union {None}]
  /\ waitdog \in [Task -> {"none", "idle", "active"}]
  /\ pterrno \in [Task -> {"OK", "EINTR", "ETIMEDOUT"}]
  /\ at \in [Task -> At]
  /\ owns \in [Task -> SUBSET Mutex]
  /\ \A t \in Task : at[t].op = "reset" => at[t].sem \in Sem

\* A task that waits is in one of the waiting calls and has not been told of a failure;
\* a task that resets a semaphore keeps the processor.
CallInv ==
  /\ \A t \in Task : waitsem[t] # None => at[t].op \in WaitOps /\ pterrno[t] = "OK"
  /\ \A t \in Task : at[t].op = "reset" => t = rtcb /\ k.lockcount[t] > 0

SInv ==
  /\ Safe(k)
  /\ SemTypes
  /\ WaitsemWhileWaiting
  /\ Counts(semcount, waitsem)
  /\ CallInv

(* What the invariant says of the running task and of IDLE. *)
LEMMA Running ==
  ASSUME SInv
  PROVE  /\ KernelInv(k)
         /\ rtcb \in Task
         /\ k.task_state[rtcb] = "running"
         /\ waitsem[rtcb] = None
         /\ waitsem[Idle] = None
         /\ k.task_state[Idle] \in {"readytorun", "running"}
         /\ k.lockcount \in [Task -> Nat]
<1>1. /\ KernelInv(k) /\ rtcb \in Task /\ k.task_state[rtcb] = "running"
      /\ k.task_state[Idle] \in {"readytorun", "running"}
  BY RunningTask DEF SInv, Safe, rtcb
<1>2. k.lockcount \in [Task -> Nat]
  BY <1>1, Fields DEF KernelInv, KernelTypeOK
<1> QED BY <1>1, <1>2, IdleAssumption DEF SInv, WaitsemWhileWaiting

(* nxsem_post() finds a waiter whenever the count is negative, and the one it finds *)
(* has the highest priority among the waiters of the semaphore.                      *)
LEMMA FindsWaiter ==
  ASSUME SInv, NEW s \in Sem, semcount[s] < 0
  PROVE  /\ ~NoWaiter(s)
         /\ FirstWaiter(s) \in Task \ {Idle}
         /\ waitsem[FirstWaiter(s)] = s
         /\ k.task_state[FirstWaiter(s)] = "waitsem"
         /\ \A u \in Task : waitsem[u] = s => k.sched_priority[u] <= k.sched_priority[FirstWaiter(s)]
<1> DEFINE list == k.waitingforsemaphore
           T == {i \in 1 .. Len(list) : waitsem[list[i]] = s}
           P(i) == waitsem[list[i]] = s /\ \A j \in 1 .. i - 1 : waitsem[list[j]] # s
           f == CHOOSE i \in 1 .. Len(list) : P(i)
<1>1. /\ KernelInv(k) /\ list \in Seq(Task) /\ k.sched_priority \in [Task -> Int]
      /\ \A t \in Task : InList(list, t) <=> k.task_state[t] = "waitsem"
      /\ Prioritized(list, k.sched_priority)
  BY Running, Fields DEF KernelInv, KernelTypeOK, ListsMatchStates, ListsPrioritized
<1>2. Len(list) \in Nat /\ \A j \in 1 .. Len(list) : list[j] \in Task
  BY <1>1, ListElements
<1>3. None \notin Sem /\ waitsem[Idle] = None
  BY SemAssumption, Running
<1>4. \A u \in Task : waitsem[u] = s => \E i \in 1 .. Len(list) : list[i] = u
  BY <1>1, <1>3 DEF SInv, WaitsemWhileWaiting, InList
<1>5. PICK t \in Task : waitsem[t] = s
  BY CountsSome DEF SInv, SemTypes
<1> HIDE DEF list
<1>6. T # {} /\ T \subseteq Nat
  BY <1>2, <1>4, <1>5
<1>7. PICK i \in T : \A y \in T : i <= y
  BY <1>6, LeastNatural
<1>8. i \in 1 .. Len(list) /\ P(i)
  BY <1>2, <1>7
<1>9. f \in 1 .. Len(list) /\ P(f)
  BY <1>8
<1>10. FirstWaiter(s) = list[f]
  BY DEF FirstWaiter, list
<1> HIDE DEF f
<1>11. list[f] \in Task /\ waitsem[list[f]] = s
  BY <1>2, <1>9
<1>12. ~NoWaiter(s)
  BY <1>9 DEF NoWaiter, list
<1>13. k.task_state[list[f]] = "waitsem" /\ list[f] # Idle
  BY <1>3, <1>11 DEF SInv, WaitsemWhileWaiting
<1>14. ASSUME NEW u \in Task, waitsem[u] = s
       PROVE  k.sched_priority[u] <= k.sched_priority[list[f]]
  <2>1. PICK j \in 1 .. Len(list) : list[j] = u
    BY <1>4, <1>14
  <2>2. ~(j < f)
    BY <1>2, <1>9, <1>14, <2>1
  <2>3. j = f \/ (f < j /\ k.sched_priority[list[f]] >= k.sched_priority[list[j]])
    BY <1>1, <1>2, <1>9, <2>1, <2>2 DEF Prioritized
  <2> QED BY <1>1, <1>2, <1>9, <2>1, <2>3
<1> QED BY <1>10, <1>11, <1>12, <1>13, <1>14

(* Waking a task that waits leaves every other waiting task waiting. *)
LEMMA WakeKeepsWaits ==
  ASSUME SInv, NEW t \in Task \ {Idle}, waitsem[t] # None,
         k' = up_unblock_task(k, t), waitsem' = [waitsem EXCEPT ![t] = None]
  PROVE  Safe(k') /\ WaitsemWhileWaiting' /\ waitsem' \in [Task -> Sem \union {None}]
<1>1. k.task_state[t] = "waitsem" /\ waitsem \in [Task -> Sem \union {None}]
  BY DEF SInv, WaitsemWhileWaiting, SemTypes
<1>2. Safe(k') /\ k'.task_state[t] \in Runnable /\ Frame(k, k', t)
  BY <1>1, UnblockTask DEF SInv
<1>3. \A u \in Task : k'.task_state[u] = "waitsem" <=> k.task_state[u] = "waitsem" /\ u # t
  BY <1>2 DEF Frame, Runnable
<1> QED BY <1>1, <1>2, <1>3 DEF SInv, WaitsemWhileWaiting

-----------------------------------------------------------------------------
(* The steps, as the invariant and as CountingSemaphore see them *)

\* What a step does to the kernel, the counts and the waits is sound.
Sound ==
  /\ Safe(k')
  /\ semcount' \in [Sem -> Int]
  /\ \A s \in Sem : semcount'[s] <= SEM_VALUE_MAX
  /\ waitsem' \in [Task -> Sem \union {None}]
  /\ WaitsemWhileWaiting'
  /\ Counts(semcount', waitsem')

\* The step is one of CountingSemaphore, or none at all.
Abstract == Counting!Next \/ UNCHANGED Counting!vars

\* A count is given by a post or by nxsem_destroy() only.
Conserving == \A s \in Sem : Gives(s) => Posts(s) \/ nxsem_destroy(s)

(* The state of CountingSemaphore is typed. *)
LEMMA AbstractTypes ==
  ASSUME SInv
  PROVE  /\ Free \in [Sem -> Nat]
         /\ waitsem \in [Task -> Sem \union {None}]
         /\ None \notin Sem
         /\ at \in [Task -> At]
         /\ \A t \in Task : waitsem[t] # None => Ended[t] = "none"
         /\ \A t \in Task : at[t].op \notin WaitOps => Ended[t] = "none"
  BY SemAssumption DEF SInv, SemTypes, Free, Ended

(* Nobody resets a semaphore unless the running task does. *)
LEMMA NoReset ==
  ASSUME SInv, at[rtcb].op # "reset"
  PROVE  /\ \A t \in Task : at[t].op # "reset" /\ Resets[t] = None /\ Left[t] = 0
         /\ \A s \in Sem : Counting!Open(s)
<1>1. \A t \in Task : at[t].op # "reset"
  BY DEF SInv, CallInv
<1>2. \A t \in Task : Resets[t] = None /\ Left[t] = 0
  BY <1>1 DEF Resets, Left
<1> QED BY <1>1, <1>2, SemAssumption DEF Counting!Open

(* A step outside the calls leaves what they have come to. *)
LEMMA CallsKept ==
  ASSUME waitsem' = waitsem, at' = at, pterrno' = pterrno
  PROVE  Ended' = Ended /\ Resets' = Resets /\ Left' = Left
  BY DEF Ended, Resets, Left

(* A task that leaves a call, other than nxsem_reset(), learns how its wait ended. *)
LEMMA LeaveCall ==
  ASSUME SInv, NEW t \in Task, NEW c \in At, c.op \notin WaitOps, c.op # "reset",
         at[t].op # "reset", at' = [at EXCEPT ![t] = c], waitsem' = waitsem,
         \A u \in Task \ {t} : pterrno'[u] = pterrno[u]
  PROVE  Ended' = [Ended EXCEPT ![t] = "none"] /\ Resets' = Resets /\ Left' = Left
<1>1. at \in [Task -> At] /\ at'[t] = c /\ \A u \in Task \ {t} : at'[u] = at[u]
  BY AbstractTypes
<1>2. ASSUME NEW u \in Task
      PROVE  Resets'[u] = Resets[u] /\ Left'[u] = Left[u]
  BY <1>1 DEF Resets, Left
<1>3. ASSUME NEW u \in Task
      PROVE  Ended'[u] = IF u = t THEN "none" ELSE Ended[u]
  BY <1>1 DEF Ended
<1>4. Resets' = Resets /\ Left' = Left
  BY <1>2 DEF Resets, Left
<1>5. Ended' = [Ended EXCEPT ![t] = "none"]
  BY <1>3 DEF Ended
<1> QED BY <1>4, <1>5

(* What it means to give a count. *)
LEMMA GivesMeans ==
  ASSUME SInv, NEW s \in Sem, Gives(s)
  PROVE  /\ Resets' = Resets /\ Left' = Left
         /\ \/ Free'[s] = Free[s] + 1 /\ waitsem' = waitsem
            \/ /\ Free' = Free
               /\ \E t \in Task : /\ waitsem[t] = s /\ waitsem'[t] = None
                                  /\ Ended'[t] = "count"
                                  /\ waitsem' = [waitsem EXCEPT ![t] = None]
<1>1. Free \in [Sem -> Nat] /\ Ended \in [Task -> {"none", "count", "failed"}]
      /\ waitsem \in [Task -> Sem \union {None}]
  BY AbstractTypes DEF Ended
<1>2. CASE Counting!Give(s)
  BY <1>1, <1>2 DEF Counting!Give
<1>3. CASE \E t \in Task : Counting!Grant(t, s)
  <2>1. PICK t \in Task : Counting!Grant(t, s)
    BY <1>3
  <2>2. /\ waitsem[t] = s /\ waitsem' = [waitsem EXCEPT ![t] = None]
        /\ Ended' = [Ended EXCEPT ![t] = "count"]
        /\ Free' = Free /\ Resets' = Resets /\ Left' = Left
    BY <2>1 DEF Counting!Grant, Counting!EndWait, Counting!Waiting
  <2> QED BY <1>1, <2>2
<1> QED BY <1>2, <1>3 DEF Gives

(* A step that leaves the counts, the waits and the waiting tasks alone; t may learn how *)
(* its wait ended.                                                                        *)
LEMMA QuietStep ==
  ASSUME SInv, Safe(k'), semcount' = semcount, waitsem' = waitsem,
         \A u \in Task : k'.task_state[u] = "waitsem" <=> k.task_state[u] = "waitsem",
         NEW t \in Task, Ended' = Ended \/ Ended' = [Ended EXCEPT ![t] = "none"],
         Resets' = Resets, Left' = Left
  PROVE  Sound /\ Abstract /\ Conserving
<1>1. Sound
  BY DEF SInv, SemTypes, Sound, WaitsemWhileWaiting
<1>2. Free' = Free
  BY DEF Free
<1>3. Abstract
  <2>1. CASE Ended' = Ended
    BY <1>2, <2>1 DEF Counting!vars, Abstract
  <2>2. CASE Ended' # Ended
    <3>1. Ended' = [Ended EXCEPT ![t] = "none"] /\ Ended[t] # "none"
      BY <2>2 DEF Ended
    <3>2. Counting!Return(t)
      BY <1>2, <3>1 DEF Counting!Return
    <3> QED BY <3>2 DEF Abstract, Counting!Next
  <2> QED BY <2>1, <2>2
<1>4. ASSUME NEW s \in Sem, Gives(s) PROVE FALSE
  BY <1>2, <1>4, AbstractTypes, GivesMeans
<1> QED BY <1>1, <1>3, <1>4 DEF Conserving

(* A count that is free is taken. *)
LEMMA TakeStep ==
  ASSUME SInv, InTask, NEW s \in Sem, Take(s)
  PROVE  Sound /\ Abstract /\ Conserving
<1>1. /\ k' = k /\ semcount[s] > 0 /\ semcount' = [semcount EXCEPT ![s] = semcount[s] - 1]
      /\ waitsem' = [waitsem EXCEPT ![rtcb] = None]
      /\ pterrno' = pterrno /\ at' = at
  BY DEF Take
<1>2. semcount \in [Sem -> Int] /\ waitsem \in [Task -> Sem \union {None}]
      /\ (\A r \in Sem : semcount[r] <= SEM_VALUE_MAX) /\ SEM_VALUE_MAX \in Int
  BY ValueAssumption DEF SInv, SemTypes
<1>3. waitsem' = waitsem
  BY <1>1, <1>2, Running
<1>4. semcount' \in [Sem -> Int] /\ \A r \in Sem : semcount'[r] <= SEM_VALUE_MAX
  BY <1>1, <1>2
<1>5. Counts(semcount', waitsem')
  <2>1. semcount[s] >= 0 /\ semcount[s] - 1 \in Nat /\ Counts(semcount, waitsem)
    BY <1>1, <1>2 DEF SInv
  <2> QED BY <1>1, <1>2, <1>3, <2>1, CountsSet
<1>6. Sound
  BY <1>1, <1>2, <1>3, <1>4, <1>5 DEF SInv, Sound, WaitsemWhileWaiting
<1>7. Free \in [Sem -> Nat] /\ Free[s] > 0 /\ Free' = [Free EXCEPT ![s] = Free[s] - 1]
  <2>1. semcount'[s] = semcount[s] - 1 /\ \A r \in Sem \ {s} : semcount'[r] = semcount[r]
    BY <1>1, <1>2
  <2>2. Free \in [Sem -> Nat] /\ Free[s] = semcount[s] /\ Free[s] > 0
    BY <1>1, AbstractTypes DEF Free
  <2>3. ASSUME NEW r \in Sem PROVE Free'[r] = IF r = s THEN Free[s] - 1 ELSE Free[r]
    BY <1>1, <1>2, <2>1 DEF Free
  <2>4. Free' = [Free EXCEPT ![s] = Free[s] - 1]
    BY <2>3 DEF Free
  <2> QED BY <2>2, <2>4
<1>8. Counting!Take(s)
  BY <1>1, <1>3, <1>7, NoReset, CallsKept DEF InTask, Counting!Take
<1>9. ASSUME NEW r \in Sem, Gives(r) PROVE FALSE
  BY <1>3, <1>7, <1>9, AbstractTypes, GivesMeans
<1> QED BY <1>6, <1>8, <1>9 DEF Abstract, Counting!Next, Conserving

(* No count is free and the running task waits. *)
LEMMA EnqueueStep ==
  ASSUME SInv, InTask, NEW s \in Sem, NEW op \in WaitOps, Enqueue(s, op)
  PROVE  Sound /\ Abstract /\ Conserving
<1>1. /\ rtcb # Idle /\ semcount[s] <= 0
      /\ semcount' = [semcount EXCEPT ![s] = semcount[s] - 1]
      /\ waitsem' = [waitsem EXCEPT ![rtcb] = s]
      /\ pterrno' = [pterrno EXCEPT ![rtcb] = "OK"]
      /\ k' = up_block_task(k, rtcb, "waitsem")
      /\ at' = [at EXCEPT ![rtcb] = [op |-> op, sem |-> s, count |-> 0]]
  BY DEF Enqueue
<1>2. semcount \in [Sem -> Int] /\ waitsem \in [Task -> Sem \union {None}]
      /\ (\A r \in Sem : semcount[r] <= SEM_VALUE_MAX) /\ SEM_VALUE_MAX \in Int
      /\ pterrno \in [Task -> {"OK", "EINTR", "ETIMEDOUT"}] /\ at \in [Task -> At]
  BY ValueAssumption DEF SInv, SemTypes
<1>3. rtcb \in Task /\ waitsem[rtcb] = None /\ None \notin Sem
  BY Running, SemAssumption
<1>4. Safe(k') /\ k'.task_state[rtcb] = "waitsem" /\ Frame(k, k', rtcb)
  BY <1>1, BlockTask DEF SInv, rtcb
<1>5. \A u \in Task : k'.task_state[u] = "waitsem" <=> k.task_state[u] = "waitsem" \/ u = rtcb
  BY <1>3, <1>4 DEF Frame, Runnable
<1>6. WaitsemWhileWaiting'
  BY <1>1, <1>2, <1>3, <1>5 DEF SInv, WaitsemWhileWaiting
<1>7. Counts(semcount', waitsem')
  BY <1>1, <1>2, <1>3, CountsEnqueue DEF SInv
<1>8. Sound
  BY <1>1, <1>2, <1>3, <1>4, <1>6, <1>7 DEF Sound
<1>9. Free[s] = 0 /\ Free' = Free
  BY <1>1, <1>2 DEF Free
<1>10. /\ at'[rtcb].op = op /\ op # "reset" /\ op \in WaitOps /\ at[rtcb].op = "none"
       /\ \A u \in Task \ {rtcb} : at'[u] = at[u] /\ pterrno'[u] = pterrno[u] /\ waitsem'[u] = waitsem[u]
       /\ waitsem'[rtcb] = s
  BY <1>1, <1>2, <1>3 DEF InTask, WaitOps
<1>11. ASSUME NEW u \in Task
       PROVE  Ended'[u] = Ended[u] /\ Resets'[u] = Resets[u] /\ Left'[u] = Left[u]
  <2>1. CASE u = rtcb
    BY <1>3, <1>10, <2>1 DEF Ended, Resets, Left, WaitOps
  <2>2. CASE u # rtcb
    BY <1>10, <2>2 DEF Ended, Resets, Left
  <2> QED BY <2>1, <2>2
<1>12. Ended' = Ended /\ Resets' = Resets /\ Left' = Left
  BY <1>11 DEF Ended, Resets, Left
<1>13. Ended[rtcb] = "none" /\ Counting!Open(s)
  BY <1>3, <1>10, NoReset DEF Ended, WaitOps
<1>14. Counting!Wait(rtcb, s)
  BY <1>1, <1>3, <1>9, <1>12, <1>13 DEF Counting!Wait
<1>15. ASSUME NEW r \in Sem, Gives(r) PROVE FALSE
  <2>1. Free[r] \in Nat
    BY AbstractTypes
  <2>2. PICK t \in Task : waitsem[t] = r /\ waitsem' = [waitsem EXCEPT ![t] = None]
    BY <1>9, <1>15, <2>1, GivesMeans
  <2> QED BY <1>2, <1>3, <1>10, <2>2
<1> QED BY <1>3, <1>8, <1>14, <1>15 DEF Abstract, Counting!Next, Conserving

(* A count goes to a task that waits, or becomes free if there is none. *)
LEMMA PostEffect ==
  ASSUME SInv, NEW s \in Sem, Post(s)
  PROVE  /\ Sound
         /\ \/ \E t \in Task : /\ waitsem[t] = s /\ waitsem' = [waitsem EXCEPT ![t] = None]
                               /\ Free' = Free
            \/ /\ \A t \in Task : waitsem[t] # s
               /\ waitsem' = waitsem
               /\ Free' = [Free EXCEPT ![s] = Free[s] + 1]
<1>1. /\ semcount[s] < SEM_VALUE_MAX /\ semcount' = [semcount EXCEPT ![s] = semcount[s] + 1]
  BY DEF Post
<1>2. semcount \in [Sem -> Int] /\ waitsem \in [Task -> Sem \union {None}]
      /\ (\A r \in Sem : semcount[r] <= SEM_VALUE_MAX) /\ SEM_VALUE_MAX \in Int
      /\ None \notin Sem
  BY ValueAssumption, SemAssumption DEF SInv, SemTypes
<1>3. semcount' \in [Sem -> Int] /\ \A r \in Sem : semcount'[r] <= SEM_VALUE_MAX
  BY <1>1, <1>2
<1>4. CASE semcount[s] < 0
  <2> DEFINE t == FirstWaiter(s)
  <2>1. ~NoWaiter(s) /\ t \in Task \ {Idle} /\ waitsem[t] = s /\ k.task_state[t] = "waitsem"
    BY <1>4, FindsWaiter
  <2>2. waitsem' = [waitsem EXCEPT ![t] = None] /\ k' = up_unblock_task(k, t)
    BY <1>4, <2>1 DEF Post
  <2> HIDE DEF t
  <2>3. Safe(k') /\ WaitsemWhileWaiting' /\ waitsem' \in [Task -> Sem \union {None}]
    BY <1>2, <2>1, <2>2, WakeKeepsWaits
  <2>4. Counts(semcount', waitsem')
    BY <1>1, <1>2, <2>1, <2>2, CountsDequeue DEF SInv
  <2>5. Free' = Free
    BY <1>1, <1>2, <1>4 DEF Free
  <2> QED BY <1>3, <2>1, <2>2, <2>3, <2>4, <2>5 DEF Sound
<1>5. CASE ~(semcount[s] < 0)
  <2>1. waitsem' = waitsem /\ k' = k
    BY <1>5 DEF Post
  <2>2. Counts(semcount', waitsem')
    <3>1. semcount[s] >= 0 /\ semcount[s] + 1 \in Nat /\ Counts(semcount, waitsem)
      BY <1>2, <1>5 DEF SInv
    <3> QED BY <1>1, <1>2, <2>1, <3>1, CountsSet
  <2>3. Sound
    BY <1>2, <1>3, <2>1, <2>2 DEF Sound, SInv, WaitsemWhileWaiting
  <2>4. \A t \in Task : waitsem[t] # s
    BY <1>2, <1>5, CountsSome DEF SInv
  <2>5. semcount'[s] = semcount[s] + 1 /\ \A r \in Sem \ {s} : semcount'[r] = semcount[r]
    BY <1>1, <1>2
  <2>6. ASSUME NEW r \in Sem PROVE Free'[r] = IF r = s THEN Free[s] + 1 ELSE Free[r]
    BY <1>2, <1>5, <2>5 DEF Free
  <2>7. Free' = [Free EXCEPT ![s] = Free[s] + 1]
    BY <2>6 DEF Free
  <2> QED BY <2>1, <2>3, <2>4, <2>7
<1> QED BY <1>4, <1>5

(* A task whose wait ends finds in pterrno whether it has got the count. *)
LEMMA WaitEnds ==
  ASSUME SInv, NEW t \in Task, waitsem[t] # None, waitsem' = [waitsem EXCEPT ![t] = None],
         \A u \in Task : at'[u].op = at[u].op,
         \A u \in Task \ {t} : pterrno'[u] = pterrno[u]
  PROVE  Ended' = [Ended EXCEPT ![t] = IF pterrno'[t] = "OK" THEN "count" ELSE "failed"]
<1>1. at[t].op \in WaitOps
  BY DEF SInv, CallInv
<1>2. waitsem'[t] = None /\ \A u \in Task \ {t} : waitsem'[u] = waitsem[u]
  BY AbstractTypes
<1>3. ASSUME NEW u \in Task
      PROVE  Ended'[u] = IF u = t THEN IF pterrno'[t] = "OK" THEN "count" ELSE "failed" ELSE Ended[u]
  BY <1>1, <1>2 DEF Ended
<1> QED BY <1>3 DEF Ended

(* A post gives one count of its semaphore. *)
LEMMA PostStep ==
  ASSUME SInv, NEW s \in Sem, Posts(s)
  PROVE  Sound /\ Abstract /\ Conserving /\ Gives(s)
<1>1. Post(s) /\ at' = at /\ pterrno' = pterrno /\ at[rtcb].op # "reset"
  BY DEF Posts, nxsem_post, nxsem_post_lock, Interruptible, InTask
<1>2. Sound
  BY <1>1, PostEffect
<1>3. /\ Free \in [Sem -> Nat] /\ waitsem \in [Task -> Sem \union {None}] /\ None \notin Sem
      /\ Resets' = Resets /\ Left' = Left /\ Counting!Open(s)
  BY <1>1, AbstractTypes, NoReset DEF Resets, Left
<1>4. CASE \E t \in Task : waitsem[t] = s /\ waitsem' = [waitsem EXCEPT ![t] = None] /\ Free' = Free
  <2>1. PICK t \in Task : waitsem[t] = s /\ waitsem' = [waitsem EXCEPT ![t] = None] /\ Free' = Free
    BY <1>4
  <2>2. waitsem[t] # None /\ pterrno'[t] = "OK"
    BY <1>1, <1>3, <2>1 DEF SInv, CallInv
  <2>3. Ended' = [Ended EXCEPT ![t] = "count"]
    BY <1>1, <2>1, <2>2, WaitEnds
  <2>4. Counting!Grant(t, s)
    BY <1>3, <2>1, <2>3 DEF Counting!Grant, Counting!EndWait, Counting!Waiting
  <2>5. ASSUME NEW r \in Sem, Gives(r) PROVE r = s
    <3>1. PICK u \in Task : waitsem[u] = r /\ waitsem' = [waitsem EXCEPT ![u] = None]
      BY <1>3, <2>1, <2>5, GivesMeans
    <3> QED BY <1>3, <2>1, <2>2, <3>1
  <2> QED BY <1>2, <2>4, <2>5 DEF Abstract, Counting!Next, Conserving, Gives
<1>5. CASE /\ \A t \in Task : waitsem[t] # s
           /\ waitsem' = waitsem /\ Free' = [Free EXCEPT ![s] = Free[s] + 1]
  <2>1. Ended' = Ended
    BY <1>1, <1>5, CallsKept
  <2>2. Counting!Give(s)
    BY <1>3, <1>5, <2>1 DEF Counting!Give, Counting!Waiting
  <2>3. ASSUME NEW r \in Sem, Gives(r) PROVE r = s
    BY <1>3, <1>5, <2>3, GivesMeans
  <2> QED BY <1>2, <2>2, <2>3 DEF Abstract, Counting!Next, Conserving, Gives
<1> QED BY <1>1, <1>4, <1>5, PostEffect

(* A wait that a timeout or a signal ends gives back the count it asked for, and no more. *)
LEMMA WaitIrqStep ==
  ASSUME SInv, Interruptible, NEW t \in Task, NEW e \in {"EINTR", "ETIMEDOUT"},
         nxsem_wait_irq(t, e), at' = at
  PROVE  Sound /\ Abstract /\ Conserving
<1>1. CASE k.task_state[t] # "waitsem"
  BY <1>1, QuietStep, CallsKept DEF nxsem_wait_irq, SInv
<1>2. CASE k.task_state[t] = "waitsem"
  <2> DEFINE s == waitsem[t]
  <2>1. semcount \in [Sem -> Int] /\ waitsem \in [Task -> Sem \union {None}]
        /\ (\A r \in Sem : semcount[r] <= SEM_VALUE_MAX) /\ SEM_VALUE_MAX \in Nat
        /\ None \notin Sem /\ pterrno \in [Task -> {"OK", "EINTR", "ETIMEDOUT"}]
    BY ValueAssumption, SemAssumption DEF SInv, SemTypes
  <2>2. t \in Task \ {Idle} /\ s \in Sem /\ s # None
    BY <1>2, <2>1, Running DEF SInv, WaitsemWhileWaiting
  <2>3. /\ semcount' = [semcount EXCEPT ![s] = semcount[s] + 1]
        /\ waitsem' = [waitsem EXCEPT ![t] = None]
        /\ pterrno' = [pterrno EXCEPT ![t] = e]
        /\ k' = up_unblock_task(k, t)
    BY <1>2 DEF nxsem_wait_irq
  <2>4. Safe(k') /\ WaitsemWhileWaiting' /\ waitsem' \in [Task -> Sem \union {None}]
    BY <2>2, <2>3, WakeKeepsWaits
  <2>5. waitsem[t] = s
    OBVIOUS
  <2> HIDE DEF s
  <2>6. semcount[s] < 0 /\ Counts(semcount', waitsem')
    BY <2>1, <2>2, <2>3, <2>5, CountsDequeue DEF SInv
  <2>7. semcount' \in [Sem -> Int] /\ \A r \in Sem : semcount'[r] <= SEM_VALUE_MAX
    BY <2>1, <2>2, <2>3, <2>6
  <2>8. Free' = Free
    BY <2>1, <2>2, <2>3, <2>6 DEF Free
  <2>9. Ended' = [Ended EXCEPT ![t] = "failed"]
    BY <2>1, <2>2, <2>3, <2>5, WaitEnds
  <2>10. Resets' = Resets /\ Left' = Left /\ Counting!Open(s)
    BY <2>2, NoReset DEF Interruptible, Resets, Left
  <2>11. Counting!Abandon(t, s)
    BY <2>3, <2>5, <2>8, <2>9, <2>10 DEF Counting!Abandon, Counting!EndWait, Counting!Waiting
  <2>12. ASSUME NEW r \in Sem, Gives(r) PROVE FALSE
    <3>1. PICK u \in Task : /\ waitsem[u] = r /\ waitsem' = [waitsem EXCEPT ![u] = None]
                            /\ Ended'[u] = "count"
      BY <2>8, <2>12, AbstractTypes, GivesMeans
    <3>2. u = t
      BY <2>1, <2>2, <2>3, <2>5, <3>1
    <3> QED BY <2>9, <3>1, <3>2 DEF Ended
  <2> QED BY <2>2, <2>4, <2>6, <2>7, <2>11, <2>12 DEF Sound, Abstract, Counting!Next, Conserving
<1> QED BY <1>1, <1>2

(* The count of a semaphore is set, unless a task waits for it. *)
LEMMA SetEffect ==
  ASSUME SInv, NEW s \in Sem, NEW n \in 0 .. SEM_VALUE_MAX, k' = k, waitsem' = waitsem,
         semcount' = [semcount EXCEPT ![s] = IF semcount[s] >= 0 THEN n ELSE semcount[s]]
  PROVE  /\ Sound
         /\ Counting!Waiting(s) = {} <=> semcount[s] >= 0
         /\ Free' = [Free EXCEPT ![s] = IF Counting!Waiting(s) = {} THEN n ELSE Free[s]]
<1>1. semcount \in [Sem -> Int] /\ waitsem \in [Task -> Sem \union {None}]
      /\ (\A r \in Sem : semcount[r] <= SEM_VALUE_MAX) /\ SEM_VALUE_MAX \in Int /\ n \in Nat
      /\ Counts(semcount, waitsem)
  BY ValueAssumption DEF SInv, SemTypes
<1>2. Counts(semcount', waitsem')
  <2>1. CASE semcount[s] >= 0
    BY <1>1, <2>1, CountsSet
  <2>2. CASE ~(semcount[s] >= 0)
    BY <1>1, <2>2
  <2> QED BY <2>1, <2>2
<1>3. semcount' \in [Sem -> Int] /\ \A r \in Sem : semcount'[r] <= SEM_VALUE_MAX
  BY <1>1
<1>4. Sound
  BY <1>1, <1>2, <1>3 DEF Sound, SInv, WaitsemWhileWaiting
<1>5. Counting!Waiting(s) = {} <=> semcount[s] >= 0
  <2>1. Counting!Waiting(s) = {} <=> ~\E t \in Task : waitsem[t] = s
    BY DEF Counting!Waiting
  <2>2. semcount[s] < 0 <=> \E t \in Task : waitsem[t] = s
    BY <1>1, CountsSome
  <2> QED BY <1>1, <2>1, <2>2
<1> DEFINE none == Counting!Waiting(s) = {}
<1> HIDE DEF none
<1>6. none <=> semcount[s] >= 0
  BY <1>5 DEF none
<1>7. ASSUME NEW r \in Sem
      PROVE  Free'[r] = IF r = s THEN IF none THEN n ELSE Free[s] ELSE Free[r]
  BY <1>1, <1>6 DEF Free
<1>8. Free' = [Free EXCEPT ![s] = IF none THEN n ELSE Free[s]]
  BY <1>7 DEF Free
<1> QED BY <1>4, <1>5, <1>8 DEF none

(* The running task t comes to c in its call on the semaphore it resets, or begins one. *)
LEMMA ResetCall ==
  ASSUME SInv, NEW t \in Task, NEW c \in At, at' = [at EXCEPT ![t] = c],
         c.op \notin WaitOps, at[t].op \notin WaitOps, waitsem' = waitsem, pterrno' = pterrno
  PROVE  /\ Ended' = Ended
         /\ Resets' = [Resets EXCEPT ![t] = IF c.op = "reset" THEN c.sem ELSE None]
         /\ Left' = [Left EXCEPT ![t] = IF c.op = "reset" THEN c.count ELSE 0]
<1>1. at'[t] = c /\ \A u \in Task \ {t} : at'[u] = at[u]
  BY AbstractTypes
<1>2. ASSUME NEW u \in Task
      PROVE  /\ Ended'[u] = Ended[u]
             /\ Resets'[u] = IF u = t THEN IF c.op = "reset" THEN c.sem ELSE None ELSE Resets[u]
             /\ Left'[u] = IF u = t THEN IF c.op = "reset" THEN c.count ELSE 0 ELSE Left[u]
  BY <1>1 DEF Ended, Resets, Left
<1>3. Ended' = Ended
  BY <1>2 DEF Ended
<1>4. Resets' = [Resets EXCEPT ![t] = IF c.op = "reset" THEN c.sem ELSE None]
  BY <1>2 DEF Resets
<1>5. Left' = [Left EXCEPT ![t] = IF c.op = "reset" THEN c.count ELSE 0]
  BY <1>2 DEF Left
<1> QED BY <1>3, <1>4, <1>5

(* nxsem_reset() begins. *)
LEMMA ResetStep ==
  ASSUME SInv, NEW s \in Sem, NEW count \in 0 .. SEM_VALUE_MAX, nxsem_reset(s, count)
  PROVE  Sound /\ Abstract /\ Conserving
<1> DEFINE c == [op |-> "reset", sem |-> s, count |-> count]
<1>1. /\ k' = sched_lock(k) /\ semcount' = semcount /\ waitsem' = waitsem /\ pterrno' = pterrno
      /\ at' = [at EXCEPT ![rtcb] = c] /\ at[rtcb].op = "none" /\ rtcb \in Task
  BY Running DEF nxsem_reset, InTask
<1>2. c \in At /\ c.op = "reset" /\ c.sem = s /\ c.count = count
      /\ SEM_VALUE_MAX \in Nat /\ count \in Nat
  BY ValueAssumption DEF At
<1> HIDE DEF c
<1>3. Safe(k') /\ k'.task_state = k.task_state
  BY <1>1, Lock DEF SInv
<1>4. Sound
  BY <1>1, <1>3 DEF SInv, SemTypes, Sound, WaitsemWhileWaiting
<1>5. /\ Ended' = Ended /\ Resets' = [Resets EXCEPT ![rtcb] = s]
      /\ Left' = [Left EXCEPT ![rtcb] = count]
  <2>1. c.op \notin WaitOps /\ at[rtcb].op \notin WaitOps
    BY <1>1, <1>2 DEF WaitOps
  <2> QED BY <1>1, <1>2, <2>1, ResetCall
<1>6. Counting!Open(s) /\ Resets[rtcb] = None /\ Free' = Free /\ None \notin Sem
  BY <1>1, NoReset, AbstractTypes DEF Free
<1>7. Left'[rtcb] = count /\ Resets'[rtcb] = s
  BY <1>1, <1>5 DEF Left, Resets
<1>8. Counting!ResetBegin(rtcb, s)
  BY <1>1, <1>2, <1>5, <1>6, <1>7 DEF Counting!ResetBegin
<1>9. ASSUME NEW r \in Sem, Gives(r) PROVE FALSE
  BY <1>6, <1>7, <1>9, GivesMeans
<1> QED BY <1>1, <1>4, <1>8, <1>9 DEF Abstract, Counting!Next, Conserving

(* A turn of its loop hands out one of its counts. *)
LEMMA ResetPostStep ==
  ASSUME SInv, nxsem_reset_post
  PROVE  Sound /\ Abstract /\ Conserving
<1> DEFINE s == at[rtcb].sem
           n == at[rtcb].count
           c == [at[rtcb] EXCEPT !.count = n - 1]
<1>1. /\ Post(s) /\ at[rtcb].op = "reset" /\ semcount[s] < 0 /\ n > 0
      /\ at' = [at EXCEPT ![rtcb] = c] /\ pterrno' = pterrno
  BY DEF nxsem_reset_post
<1>2. /\ rtcb \in Task /\ s \in Sem /\ n \in 0 .. SEM_VALUE_MAX /\ SEM_VALUE_MAX \in Nat
      /\ at[rtcb] \in At /\ None \notin Sem /\ at \in [Task -> At]
      /\ semcount \in [Sem -> Int] /\ waitsem \in [Task -> Sem \union {None}]
  BY <1>1, Running, ValueAssumption, SemAssumption DEF SInv, SemTypes, At
<1>3. c.op = "reset" /\ c.sem = s /\ c.count = n - 1
  BY <1>1, <1>2 DEF At
<1>4. Resets[rtcb] = s /\ Left[rtcb] = n
  BY <1>1, <1>2 DEF Resets, Left
<1> HIDE DEF s, n, c
<1>5. at'[rtcb] = c /\ \A u \in Task \ {rtcb} : at'[u] = at[u]
  BY <1>1, <1>2
<1>6. PICK t \in Task : waitsem[t] = s /\ waitsem' = [waitsem EXCEPT ![t] = None] /\ Free' = Free
  <2>1. \E t \in Task : waitsem[t] = s
    BY <1>1, <1>2, CountsSome DEF SInv
  <2> QED BY <1>1, <1>2, <2>1, PostEffect
<1>7. waitsem[t] # None /\ pterrno'[t] = "OK" /\ \A u \in Task : at'[u].op = at[u].op
  BY <1>1, <1>2, <1>3, <1>5, <1>6 DEF SInv, CallInv
<1>8. Ended' = [Ended EXCEPT ![t] = "count"]
  BY <1>1, <1>6, <1>7, WaitEnds
<1>9. ASSUME NEW u \in Task
      PROVE  Resets'[u] = Resets[u] /\ Left'[u] = IF u = rtcb THEN n - 1 ELSE Left[u]
  <2>1. CASE u = rtcb
    BY <1>2, <1>3, <1>4, <1>5, <2>1 DEF Resets, Left
  <2>2. CASE u # rtcb
    BY <1>5, <2>2 DEF Resets, Left
  <2> QED BY <2>1, <2>2
<1>10. Resets' = Resets /\ Left' = [Left EXCEPT ![rtcb] = Left[rtcb] - 1]
  BY <1>4, <1>9 DEF Resets, Left
<1>11. Counting!ResetGrant(rtcb, t, s)
  BY <1>1, <1>4, <1>6, <1>8, <1>10 DEF Counting!ResetGrant, Counting!EndWait, Counting!Waiting
<1>12. ASSUME NEW r \in Sem, Gives(r) PROVE FALSE
  <2>1. Left' = Left
    BY <1>12, GivesMeans
  <2>2. Left'[rtcb] = n - 1 /\ n \in Int
    BY <1>2, <1>9
  <2> QED BY <1>4, <2>1, <2>2
<1> QED BY <1>1, <1>2, <1>11, <1>12, PostEffect DEF Abstract, Counting!Next, Conserving

(* The loop ends and what is left becomes the count. *)
LEMMA ResetSetStep ==
  ASSUME SInv, nxsem_reset_set
  PROVE  Sound /\ Abstract /\ Conserving
<1> DEFINE s == at[rtcb].sem
           n == at[rtcb].count
           c == [InCode EXCEPT !.op = "unlock"]
<1>1. /\ at[rtcb].op = "reset" /\ ~(semcount[s] < 0 /\ n > 0)
      /\ semcount' = [semcount EXCEPT ![s] = IF semcount[s] >= 0 THEN n ELSE semcount[s]]
      /\ at' = [at EXCEPT ![rtcb] = c] /\ pterrno' = pterrno /\ k' = k /\ waitsem' = waitsem
  BY DEF nxsem_reset_set
<1>2. /\ rtcb \in Task /\ s \in Sem /\ n \in 0 .. SEM_VALUE_MAX /\ SEM_VALUE_MAX \in Nat
      /\ None \notin Sem /\ semcount \in [Sem -> Int]
  BY <1>1, Running, ValueAssumption, SemAssumption DEF SInv, SemTypes, At
<1>3. c \in At /\ c.op = "unlock"
  BY <1>2 DEF At, InCode
<1>4. Resets[rtcb] = s /\ Left[rtcb] = n
  BY <1>1, <1>2 DEF Resets, Left
<1> HIDE DEF s, n, c
<1>5. /\ Sound /\ (Counting!Waiting(s) = {} <=> semcount[s] >= 0)
      /\ Free' = [Free EXCEPT ![s] = IF Counting!Waiting(s) = {} THEN n ELSE Free[s]]
  BY <1>1, <1>2, SetEffect
<1>6. /\ Ended' = Ended /\ Resets' = [Resets EXCEPT ![rtcb] = None]
      /\ Left' = [Left EXCEPT ![rtcb] = 0]
  <2>1. c.op \notin WaitOps /\ at[rtcb].op \notin WaitOps /\ c.op # "reset"
    BY <1>1, <1>3 DEF WaitOps
  <2> QED BY <1>1, <1>2, <1>3, <2>1, ResetCall
<1>7. n = 0 \/ Counting!Waiting(s) = {}
  BY <1>1, <1>2, <1>5
<1>8. Counting!ResetEnd(rtcb, s)
  BY <1>1, <1>4, <1>5, <1>6, <1>7 DEF Counting!ResetEnd
<1>9. ASSUME NEW r \in Sem, Gives(r) PROVE FALSE
  <2>1. Resets' = Resets /\ Resets'[rtcb] = None
    BY <1>2, <1>6, <1>9, GivesMeans DEF Resets
  <2> QED BY <1>2, <1>4, <2>1
<1> QED BY <1>2, <1>5, <1>8, <1>9 DEF Abstract, Counting!Next, Conserving

(* nxsem_destroy() sets the count to 1 unless a task waits. *)
LEMMA DestroyStep ==
  ASSUME SInv, NEW s \in Sem, nxsem_destroy(s)
  PROVE  Sound /\ Abstract /\ Conserving
<1>1. /\ semcount' = [semcount EXCEPT ![s] = IF semcount[s] >= 0 THEN 1 ELSE semcount[s]]
      /\ k' = k /\ waitsem' = waitsem /\ at' = at /\ pterrno' = pterrno /\ at[rtcb].op = "none"
      /\ 1 \in 0 .. SEM_VALUE_MAX
  BY ValueAssumption DEF nxsem_destroy, InTask
<1>2. /\ Sound
      /\ Free' = [Free EXCEPT ![s] = IF Counting!Waiting(s) = {} THEN 1 ELSE Free[s]]
  BY <1>1, SetEffect
<1>3. Ended' = Ended /\ Resets' = Resets /\ Left' = Left /\ Counting!Open(s)
      /\ Free \in [Sem -> Nat]
  BY <1>1, CallsKept, NoReset, AbstractTypes
<1>4. ASSUME Counting!Waiting(s) = {} PROVE Abstract
  <2>1. Counting!Destroy(s)
    BY <1>1, <1>2, <1>3, <1>4 DEF Counting!Destroy
  <2> QED BY <2>1 DEF Abstract, Counting!Next
<1>5. ASSUME Counting!Waiting(s) # {} PROVE Abstract
  <2>1. Free' = Free
    BY <1>2, <1>3, <1>5
  <2> QED BY <1>1, <1>3, <2>1 DEF Abstract, Counting!vars
<1>6. ASSUME NEW r \in Sem, Gives(r) PROVE r = s
  <2>1. Free'[r] = Free[r] + 1
    BY <1>1, <1>6, AbstractTypes, GivesMeans
  <2> QED BY <1>2, <1>3, <2>1
<1> QED BY <1>2, <1>4, <1>5, <1>6 DEF Conserving

=============================================================================
