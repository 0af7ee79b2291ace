--------------------------- MODULE Semaphore_proof ---------------------------
(***************************************************************************)
(* The semaphores count their waiters and implement CountingSemaphore, for  *)
(* any number of tasks, priorities and semaphores, as long as no task is    *)
(* deleted while it waits.                                                  *)
(***************************************************************************)
EXTENDS SemaphoreSteps_proof

\* The types of the variables that neither the counts nor the waits depend on.
RestTypes ==
  /\ waitdog \in [Task -> {"none", "idle", "active"}]
  /\ pterrno \in [Task -> {"OK", "EINTR", "ETIMEDOUT"}]
  /\ at \in [Task -> At]
  /\ owns \in [Task -> SUBSET Mutex]
  /\ \A t \in Task : at[t].op = "reset" => at[t].sem \in Sem

(* Every step keeps those types. *)
LEMMA RestStep ==
  ASSUME SInv, Next
  PROVE  RestTypes'
<1>1. RestTypes /\ rtcb \in Task
  BY Running DEF SInv, SemTypes, RestTypes
<1>2. InCode \in At /\ InCode.op = "none" /\ SEM_VALUE_MAX \in Nat \ {0}
  BY ValueAssumption DEF InCode, At
<1>3. ASSUME NEW c \in At, NEW t \in Task, at' = [at EXCEPT ![t] = c], c.op = "reset" => c.sem \in Sem
      PROVE  at' \in [Task -> At] /\ \A u \in Task : at'[u].op = "reset" => at'[u].sem \in Sem
  BY <1>1, <1>3 DEF RestTypes
<1>4. ASSUME NEW s \in Sem, Take(s)
      PROVE  RestTypes'
  BY <1>1, <1>4 DEF Take, Acquired, RestTypes
<1>5. ASSUME NEW s \in Sem, NEW op \in {"wait", "timedwait", "tickwait"}, Enqueue(s, op),
             waitdog' \in [Task -> {"none", "idle", "active"}]
      PROVE  RestTypes'
  <2> DEFINE c == [op |-> op, sem |-> s, count |-> 0]
  <2>1. c \in At /\ c.op # "reset" /\ at' = [at EXCEPT ![rtcb] = c]
    BY <1>2, <1>5 DEF Enqueue, At
  <2>2. at' \in [Task -> At] /\ \A u \in Task : at'[u].op = "reset" => at'[u].sem \in Sem
    BY <1>1, <1>3, <2>1
  <2> QED BY <1>1, <1>5, <2>2 DEF Enqueue, RestTypes
<1>6. ASSUME NEW s \in Sem, nxsem_wait(s) \/ nxsem_trywait(s)
      PROVE  RestTypes'
  BY <1>1, <1>4, <1>5, <1>6 DEF nxsem_wait, nxsem_trywait, RestTypes
<1>7. ASSUME NEW s \in Sem, NEW op \in {"timedwait", "tickwait"}, nxsem_timedwait(s, op)
      PROVE  RestTypes'
  <2>1. CASE Take(s)
    BY <1>4, <2>1
  <2>2. CASE Enqueue(s, op) /\ waitdog' = [waitdog EXCEPT ![rtcb] = "active"]
    BY <1>1, <1>5, <2>2 DEF RestTypes
  <2> QED BY <1>7, <2>1, <2>2 DEF nxsem_timedwait
<1>8. CASE nxsem_wait_return \/ nxsem_timedwait_delete
  <2>1. at' = [at EXCEPT ![rtcb] = InCode]
    BY <1>8 DEF nxsem_wait_return, nxsem_timedwait_delete
  <2>2. at' \in [Task -> At] /\ \A u \in Task : at'[u].op = "reset" => at'[u].sem \in Sem
    BY <1>1, <1>2, <1>3, <2>1
  <2> QED BY <1>1, <1>8, <2>2 DEF nxsem_wait_return, nxsem_timedwait_delete, Acquired, RestTypes
<1>9. CASE nxsem_timedwait_return
  <2> DEFINE c == [at[rtcb] EXCEPT !.op = "wd_delete"]
  <2>1. c \in At /\ c.op # "reset" /\ at' = [at EXCEPT ![rtcb] = c]
    BY <1>1, <1>9 DEF nxsem_timedwait_return, At, RestTypes
  <2>2. at' \in [Task -> At] /\ \A u \in Task : at'[u].op = "reset" => at'[u].sem \in Sem
    BY <1>1, <1>3, <2>1
  <2>3. waitdog' \in [Task -> {"none", "idle", "active"}]
    BY <1>1, <1>9 DEF nxsem_timedwait_return, RestTypes
  <2> QED BY <1>1, <1>9, <2>2, <2>3 DEF nxsem_timedwait_return, Acquired, RestTypes
<1>10. ASSUME NEW s \in Sem, nxsem_post(s) \/ nxsem_post_lock(s) \/ nxsem_destroy(s)
       PROVE  RestTypes'
  BY <1>1, <1>10 DEF nxsem_post, nxsem_post_lock, nxsem_destroy, RestTypes
<1>11. ASSUME NEW t \in Task, nxsem_timeout(t) \/ nxsig_dispatch(t)
       PROVE  RestTypes'
  BY <1>1, <1>11 DEF nxsem_timeout, nxsig_dispatch, nxsem_wait_irq, RestTypes
<1>12. ASSUME NEW s \in Sem, NEW count \in 0 .. SEM_VALUE_MAX, nxsem_reset(s, count)
       PROVE  RestTypes'
  <2> DEFINE c == [op |-> "reset", sem |-> s, count |-> count]
  <2>1. c \in At /\ c.sem \in Sem /\ at' = [at EXCEPT ![rtcb] = c]
    BY <1>12 DEF nxsem_reset, At
  <2>2. at' \in [Task -> At] /\ \A u \in Task : at'[u].op = "reset" => at'[u].sem \in Sem
    BY <1>1, <1>3, <2>1
  <2> QED BY <1>1, <1>12, <2>2 DEF nxsem_reset, RestTypes
<1>13. CASE nxsem_reset_post
  <2> DEFINE c == [at[rtcb] EXCEPT !.count = at[rtcb].count - 1]
  <2>1. at[rtcb] \in At /\ at[rtcb].count > 0 /\ at[rtcb].op = "reset" /\ at[rtcb].sem \in Sem
    BY <1>1, <1>13 DEF nxsem_reset_post, RestTypes
  <2>2. c \in At /\ c.sem \in Sem
    BY <1>2, <2>1 DEF At
  <2>3. at' = [at EXCEPT ![rtcb] = c]
    BY <1>13 DEF nxsem_reset_post
  <2>4. at' \in [Task -> At] /\ \A u \in Task : at'[u].op = "reset" => at'[u].sem \in Sem
    BY <1>1, <1>3, <2>2, <2>3
  <2> QED BY <1>1, <1>13, <2>4 DEF nxsem_reset_post, RestTypes
<1>14. ASSUME nxsem_reset_set \/ \E t \in Task, p \in Priority : SetParam(t, p)
       PROVE  RestTypes'
  <2> DEFINE c == [InCode EXCEPT !.op = "unlock"]
  <2>1. c \in At /\ c.op # "reset" /\ at' = [at EXCEPT ![rtcb] = c]
    BY <1>2, <1>14 DEF nxsem_reset_set, SetParam, At, InCode
  <2>2. at' \in [Task -> At] /\ \A u \in Task : at'[u].op = "reset" => at'[u].sem \in Sem
    BY <1>1, <1>3, <2>1
  <2> QED BY <1>1, <1>14, <2>2 DEF nxsem_reset_set, SetParam, RestTypes
<1>15. CASE SchedLock \/ SchedUnlock \/ \E t \in Task \ {Idle}, p \in Priority : task_create(t, p)
  BY <1>1, <1>15 DEF SchedLock, SchedUnlock, task_create, RestTypes
<1>16. CASE UnlockReturn
  <2>1. at' \in [Task -> At] /\ \A u \in Task : at'[u].op = "reset" => at'[u].sem \in Sem
    BY <1>1, <1>2, <1>3, <1>16 DEF UnlockReturn
  <2> QED BY <1>1, <1>16, <2>1 DEF UnlockReturn, RestTypes
<1>17. ASSUME NEW t \in Task, Released(t)
       PROVE  RestTypes'
  <2>1. at' \in [Task -> At] /\ \A u \in Task : at'[u].op = "reset" => at'[u].sem \in Sem
    BY <1>1, <1>2, <1>3, <1>17 DEF Released
  <2> QED BY <1>1, <1>17, <2>1 DEF Released, RestTypes
<1>18. CASE TaskExit \/ \E t \in Task : task_delete(t)
  BY <1>1, <1>17, <1>18 DEF TaskExit, task_delete
<1> QED BY <1>6, <1>7, <1>8, <1>9, <1>10, <1>11, <1>12, <1>13, <1>14, <1>15, <1>16, <1>18 DEF Next

(* Every step leaves the tasks that wait in their calls, and a reset with the processor. *)
LEMMA CallStep ==
  ASSUME SInv, Next
  PROVE  CallInv'
<1>1. /\ Safe(k) /\ rtcb \in Task /\ waitsem[rtcb] = None /\ None \notin Sem
      /\ waitsem \in [Task -> Sem \union {None}] /\ at \in [Task -> At]
      /\ pterrno \in [Task -> {"OK", "EINTR", "ETIMEDOUT"}] /\ k.lockcount \in [Task -> Nat]
  BY Running, SemAssumption DEF SInv, SemTypes
<1>2. \A t \in Task : waitsem[t] # None => at[t].op \in WaitOps /\ pterrno[t] = "OK"
  BY DEF SInv, CallInv
<1>3. \A t \in Task \ {rtcb} : at[t].op # "reset"
  BY DEF SInv, CallInv
<1>4. InCode.op = "none" /\ [InCode EXCEPT !.op = "unlock"].op = "unlock"
  BY DEF InCode
<1>5. ASSUME NEW t \in Task, NEW c, at' = [at EXCEPT ![t] = c], c.op # "reset", t = rtcb \/ at[rtcb].op # "reset",
             waitsem[t] = None, waitsem' = waitsem, \A u \in Task \ {t} : pterrno'[u] = pterrno[u]
      PROVE  CallInv'
  BY <1>1, <1>2, <1>3, <1>5 DEF CallInv
<1>6. ASSUME at[rtcb].op # "reset", at' = at, \A u \in Task : waitsem'[u] \in {waitsem[u], None},
             \A u \in Task : waitsem'[u] # None => pterrno'[u] = pterrno[u]
      PROVE  CallInv'
  BY <1>1, <1>2, <1>3, <1>6 DEF CallInv
<1>7. ASSUME NEW s \in Sem, Take(s), InTask PROVE CallInv'
  BY <1>1, <1>6, <1>7 DEF Take, InTask
<1>8. ASSUME NEW s \in Sem, NEW op \in WaitOps, Enqueue(s, op) PROVE CallInv'
  <2> DEFINE c == [op |-> op, sem |-> s, count |-> 0]
  <2>1. at'[rtcb] = c /\ c.op = op /\ pterrno'[rtcb] = "OK" /\ op # "reset"
    BY <1>1, <1>8 DEF Enqueue, WaitOps
  <2>2. \A u \in Task \ {rtcb} : at'[u] = at[u] /\ waitsem'[u] = waitsem[u] /\ pterrno'[u] = pterrno[u]
    BY <1>1, <1>8 DEF Enqueue
  <2> HIDE DEF c
  <2> QED BY <1>2, <1>3, <2>1, <2>2 DEF CallInv
<1>9. ASSUME NEW s \in Sem, Post(s)
      PROVE  \A u \in Task : waitsem'[u] \in {waitsem[u], None}
  BY <1>1, <1>9 DEF Post
<1>10. CASE \E s \in Sem : nxsem_wait(s) \/ nxsem_trywait(s)
  BY <1>7, <1>8, <1>10 DEF nxsem_wait, nxsem_trywait, WaitOps
<1>11. CASE \E s \in Sem, op \in {"timedwait", "tickwait"} : nxsem_timedwait(s, op)
  BY <1>7, <1>8, <1>11 DEF nxsem_timedwait, WaitOps
<1>12. CASE \E s \in Sem : nxsem_post(s) \/ nxsem_post_lock(s)
  BY <1>6, <1>9, <1>12 DEF nxsem_post, nxsem_post_lock, Interruptible, InTask
<1>13. CASE nxsem_wait_return \/ nxsem_timedwait_delete \/ UnlockReturn \/ nxsem_reset_set
         \/ \E t \in Task, p \in Priority : SetParam(t, p)
  <2>1. /\ at' = [at EXCEPT ![rtcb] = InCode] \/ at' = [at EXCEPT ![rtcb] = [InCode EXCEPT !.op = "unlock"]]
        /\ waitsem' = waitsem /\ \A u \in Task \ {rtcb} : pterrno'[u] = pterrno[u]
    BY <1>1, <1>13 DEF nxsem_wait_return, nxsem_timedwait_delete, UnlockReturn, nxsem_reset_set, SetParam
  <2> QED BY <1>1, <1>4, <1>5, <2>1
<1>14. CASE nxsem_timedwait_return
  <2> DEFINE c == [at[rtcb] EXCEPT !.op = "wd_delete"]
  <2>1. /\ at' = [at EXCEPT ![rtcb] = c] /\ c.op = "wd_delete"
        /\ waitsem' = waitsem /\ \A u \in Task \ {rtcb} : pterrno'[u] = pterrno[u]
    BY <1>1, <1>14 DEF nxsem_timedwait_return, At
  <2> HIDE DEF c
  <2> QED BY <1>1, <1>5, <2>1
<1>15. CASE \E t \in Task : nxsem_timeout(t) \/ nxsig_dispatch(t)
  <2>1. PICK t \in Task : nxsem_timeout(t) \/ nxsig_dispatch(t)
    BY <1>15
  <2>2. at' = at /\ at[rtcb].op # "reset"
    BY <2>1 DEF nxsem_timeout, nxsig_dispatch, Interruptible
  <2>3. \A u \in Task : /\ waitsem'[u] \in {waitsem[u], None}
                        /\ waitsem'[u] # None => pterrno'[u] = pterrno[u]
    BY <1>1, <2>1 DEF nxsem_timeout, nxsig_dispatch, nxsem_wait_irq
  <2> QED BY <1>6, <2>2, <2>3
<1>16. CASE \E s \in Sem, count \in 0 .. SEM_VALUE_MAX : nxsem_reset(s, count)
  <2>1. /\ k' = sched_lock(k) /\ waitsem' = waitsem /\ pterrno' = pterrno
        /\ \A u \in Task \ {rtcb} : at'[u] = at[u]
    BY <1>1, <1>16 DEF nxsem_reset
  <2>2. rtcb' = rtcb /\ k'.lockcount = [k.lockcount EXCEPT ![rtcb] = k.lockcount[rtcb] + 1]
    BY <1>1, <2>1, Lock DEF rtcb
  <2>3. k'.lockcount[rtcb] > 0
    BY <1>1, <2>2
  <2> QED BY <1>1, <1>2, <1>3, <2>1, <2>2, <2>3 DEF CallInv
<1>17. CASE nxsem_reset_post
  <2> DEFINE s == at[rtcb].sem
  <2>1. Post(s) /\ semcount[s] < 0 /\ at[rtcb].op = "reset" /\ pterrno' = pterrno /\ s \in Sem
    BY <1>1, <1>17 DEF nxsem_reset_post, SInv, SemTypes
  <2>2. \A u \in Task : at'[u].op = at[u].op
    BY <1>1, <1>17 DEF nxsem_reset_post, At
  <2> HIDE DEF s
  <2>3. /\ k' = up_unblock_task(k, FirstWaiter(s)) /\ FirstWaiter(s) \in Task \ {Idle}
        /\ k.task_state[FirstWaiter(s)] = "waitsem"
    BY <2>1, FindsWaiter DEF Post
  <2>4. k.lockcount[rtcb] > 0
    BY <1>1, <2>1 DEF SInv, CallInv
  <2>5. rtcb' = rtcb /\ k'.lockcount = k.lockcount
    BY <1>1, <2>3, <2>4, UnblockTask DEF rtcb
  <2> QED BY <1>2, <1>3, <1>9, <2>1, <2>2, <2>4, <2>5 DEF CallInv
<1>18. CASE \/ \E s \in Sem : nxsem_destroy(s)
            \/ SchedLock \/ SchedUnlock
            \/ \E t \in Task \ {Idle}, p \in Priority : task_create(t, p)
  BY <1>6, <1>18 DEF nxsem_destroy, SchedLock, SchedUnlock, task_create, InTask
<1>19. ASSUME NEW t \in Task, Released(t), at[rtcb].op # "reset" PROVE CallInv'
  <2>1. \A u \in Task \ {t} : at'[u] = at[u] /\ waitsem'[u] = waitsem[u] /\ pterrno'[u] = pterrno[u]
    BY <1>1, <1>19 DEF Released
  <2>2. at'[t].op = "none" /\ waitsem'[t] = None
    BY <1>1, <1>4, <1>19 DEF Released
  <2> QED BY <1>2, <1>3, <1>19, <2>1, <2>2 DEF CallInv
<1>20. CASE TaskExit \/ \E t \in Task : task_delete(t)
  BY <1>1, <1>19, <1>20 DEF TaskExit, task_delete, InTask
<1> QED BY <1>10, <1>11, <1>12, <1>13, <1>14, <1>15, <1>16, <1>17, <1>18, <1>20 DEF Next

(* Every step keeps the invariant and is a step of CountingSemaphore, as long as no task *)
(* is deleted while it waits; a count is given by a post or by nxsem_destroy() only.      *)
LEMMA NextStep ==
  ASSUME DebugAssertions = TRUE, DeleteBlocked = FALSE, SInv, Next
  PROVE  Sound /\ Abstract /\ Conserving
<1>1. /\ Safe(k) /\ KernelInv(k) /\ rtcb \in Task /\ k.task_state[rtcb] = "running"
      /\ waitsem[rtcb] = None /\ waitsem \in [Task -> Sem \union {None}]
      /\ k.task_state[Idle] \in {"readytorun", "running"}
      /\ at \in [Task -> At] /\ pterrno \in [Task -> {"OK", "EINTR", "ETIMEDOUT"}]
      /\ InCode \in At /\ InCode.op = "none" /\ "none" \notin WaitOps
  BY Running, ValueAssumption DEF SInv, SemTypes, At, InCode, WaitOps
<1>2. ASSUME NEW s \in Sem, nxsem_wait(s) \/ nxsem_trywait(s)
      PROVE  Sound /\ Abstract /\ Conserving
  <2>1. InTask /\ (Take(s) \/ Enqueue(s, "wait")) /\ "wait" \in WaitOps
    BY <1>2 DEF nxsem_wait, nxsem_trywait, WaitOps
  <2> QED BY <2>1, TakeStep, EnqueueStep
<1>3. ASSUME NEW s \in Sem, NEW op \in {"timedwait", "tickwait"}, nxsem_timedwait(s, op)
      PROVE  Sound /\ Abstract /\ Conserving
  <2>1. InTask /\ (Take(s) \/ Enqueue(s, op)) /\ op \in WaitOps
    BY <1>3 DEF nxsem_timedwait, WaitOps
  <2> QED BY <2>1, TakeStep, EnqueueStep
<1>4. CASE nxsem_wait_return \/ nxsem_timedwait_return \/ nxsem_timedwait_delete
  <2>1. /\ k' = k /\ semcount' = semcount /\ waitsem' = waitsem /\ at[rtcb].op # "reset"
        /\ \A u \in Task \ {rtcb} : pterrno'[u] = pterrno[u]
    BY <1>1, <1>4 DEF nxsem_wait_return, nxsem_timedwait_return, nxsem_timedwait_delete
  <2>2. PICK c \in At : c.op \in {"none", "wd_delete"} /\ at' = [at EXCEPT ![rtcb] = c]
    <3> DEFINE c == [at[rtcb] EXCEPT !.op = "wd_delete"]
    <3>1. c \in At /\ c.op = "wd_delete"
      BY <1>1 DEF At
    <3>2. at' = [at EXCEPT ![rtcb] = c] \/ at' = [at EXCEPT ![rtcb] = InCode]
      BY <1>4 DEF nxsem_wait_return, nxsem_timedwait_return, nxsem_timedwait_delete
    <3> QED BY <1>1, <3>1, <3>2
  <2>3. c.op \notin WaitOps /\ c.op # "reset"
    BY <2>2 DEF WaitOps
  <2>4. Ended' = [Ended EXCEPT ![rtcb] = "none"] /\ Resets' = Resets /\ Left' = Left
    BY <1>1, <2>1, <2>2, <2>3, LeaveCall
  <2> QED BY <1>1, <2>1, <2>4, QuietStep
<1>5. ASSUME NEW s \in Sem, nxsem_post(s) \/ nxsem_post_lock(s)
      PROVE  Sound /\ Abstract /\ Conserving
  BY <1>5, PostStep DEF Posts
<1>6. ASSUME NEW t \in Task, nxsem_timeout(t) \/ nxsig_dispatch(t)
      PROVE  Sound /\ Abstract /\ Conserving
  BY <1>6, WaitIrqStep DEF nxsem_timeout, nxsig_dispatch
<1>7. CASE nxsem_reset_post \/ nxsem_reset_set
  BY <1>7, ResetPostStep, ResetSetStep
<1>8. ASSUME NEW s \in Sem, nxsem_destroy(s)
      PROVE  Sound /\ Abstract /\ Conserving
  BY <1>8, DestroyStep
<1>9. ASSUME NEW s \in Sem, NEW count \in 0 .. SEM_VALUE_MAX, nxsem_reset(s, count)
      PROVE  Sound /\ Abstract /\ Conserving
  BY <1>9, ResetStep
<1>10. CASE SchedLock
  <2>1. k' = sched_lock(k) /\ semcount' = semcount /\ waitsem' = waitsem
        /\ at' = at /\ pterrno' = pterrno
    BY <1>10 DEF SchedLock
  <2>2. Safe(k') /\ k'.task_state = k.task_state
    BY <1>1, <2>1, Lock
  <2> QED BY <1>1, <2>1, <2>2, QuietStep, CallsKept
<1>11. CASE SchedUnlock \/ UnlockReturn
  <2>1. k' = sched_unlock(k) /\ semcount' = semcount /\ waitsem' = waitsem
    BY <1>11 DEF SchedUnlock, UnlockReturn
  <2>2. /\ Safe(k')
        /\ \A u \in Task : \/ k'.task_state[u] = k.task_state[u]
                           \/ {k.task_state[u], k'.task_state[u]} \subseteq Runnable
    BY <1>1, <2>1, Unlock
  <2>3. \A u \in Task : k'.task_state[u] = "waitsem" <=> k.task_state[u] = "waitsem"
    BY <2>2 DEF Runnable
  <2>4. CASE SchedUnlock
    <3>1. Ended' = Ended /\ Resets' = Resets /\ Left' = Left
      BY <2>4, CallsKept DEF SchedUnlock
    <3> QED BY <1>1, <2>1, <2>2, <2>3, <3>1, QuietStep
  <2>5. CASE UnlockReturn
    <3>1. at' = [at EXCEPT ![rtcb] = InCode] /\ at[rtcb].op = "unlock" /\ pterrno' = pterrno
      BY <2>5 DEF UnlockReturn
    <3>2. Ended' = [Ended EXCEPT ![rtcb] = "none"] /\ Resets' = Resets /\ Left' = Left
      BY <1>1, <2>1, <3>1, LeaveCall
    <3> QED BY <1>1, <2>1, <2>2, <2>3, <3>2, QuietStep
  <2> QED BY <1>11, <2>4, <2>5
<1>12. ASSUME NEW t \in Task, NEW p \in Priority, SetParam(t, p)
       PROVE  Sound /\ Abstract /\ Conserving
  <2> DEFINE l == sched_lock(k)
  <2>1. /\ k' = nxsched_setpriority(l, t, p) /\ semcount' = semcount /\ waitsem' = waitsem
        /\ t \in Task \ {Idle} /\ k.task_state[t] # "invalid"
    BY <1>12 DEF SetParam
  <2>2. Safe(l) /\ l.task_state = k.task_state
    BY <1>1, Lock
  <2> HIDE DEF l
  <2>3. /\ Safe(k') /\ Frame(l, k', t)
        /\ \/ k'.task_state[t] = l.task_state[t]
           \/ {l.task_state[t], k'.task_state[t]} \subseteq Runnable
    BY <2>1, <2>2, SetPriority
  <2>4. \A u \in Task : k'.task_state[u] = "waitsem" <=> k.task_state[u] = "waitsem"
    BY <2>2, <2>3 DEF Frame, Runnable
  <2> DEFINE c == [InCode EXCEPT !.op = "unlock"]
  <2>5. /\ c \in At /\ c.op \notin WaitOps /\ c.op # "reset" /\ at[rtcb].op = "none"
        /\ at' = [at EXCEPT ![rtcb] = c] /\ pterrno' = pterrno
    BY <1>1, <1>12 DEF SetParam, InTask, InCode, At, WaitOps
  <2> HIDE DEF c
  <2>6. Ended' = [Ended EXCEPT ![rtcb] = "none"] /\ Resets' = Resets /\ Left' = Left
    BY <1>1, <2>1, <2>5, LeaveCall
  <2> QED BY <1>1, <2>1, <2>3, <2>4, <2>6, QuietStep
<1>13. ASSUME NEW t \in Task \ {Idle}, NEW p \in Priority, task_create(t, p)
       PROVE  Sound /\ Abstract /\ Conserving
  <2> DEFINE l == thread_schedsetup(k, t, p)
  <2>1. /\ k' = up_unblock_task(l, t) /\ semcount' = semcount /\ waitsem' = waitsem
        /\ k.task_state[t] = "invalid" /\ at' = at /\ pterrno' = pterrno
    BY <1>13 DEF task_create
  <2>2. Safe(l) /\ NewState(k, l, t, "inactive")
    BY <1>1, <2>1, Setup
  <2>3. l.task_state[t] = "inactive"
    BY <2>2 DEF NewState
  <2> HIDE DEF l
  <2>4. Safe(k') /\ k'.task_state[t] \in Runnable /\ Frame(l, k', t)
    BY <2>1, <2>2, <2>3, UnblockTask
  <2>5. \A u \in Task : k'.task_state[u] = "waitsem" <=> k.task_state[u] = "waitsem"
    BY <2>1, <2>2, <2>4 DEF NewState, Frame, Runnable
  <2> QED BY <1>1, <2>1, <2>4, <2>5, QuietStep, CallsKept
<1>14. ASSUME NEW t \in Task, task_delete(t)
       PROVE  Sound /\ Abstract /\ Conserving
  <2>1. /\ k' = task_terminate(k, t) /\ nxsem_recover(t)
        /\ waitsem' = [waitsem EXCEPT ![t] = None]
        /\ at' = [at EXCEPT ![t] = InCode] /\ pterrno' = [pterrno EXCEPT ![t] = "OK"]
        /\ t \in Task \ {Idle} /\ k.task_state[t] \notin {"invalid", "running", "waitsem"}
    BY <1>14 DEF task_delete, Released
  <2>2. Safe(k') /\ NewState(k, k', t, "invalid")
    BY <1>1, <2>1, DeleteTask
  <2>3. waitsem[t] = None
    BY <2>1 DEF SInv, WaitsemWhileWaiting
  <2>4. waitsem' = waitsem
    BY <1>1, <2>1, <2>3
  <2>5. \A u \in Task : k'.task_state[u] = "waitsem" <=> k.task_state[u] = "waitsem"
    BY <2>1, <2>2 DEF NewState
  <2>6. semcount' = semcount
    BY <2>1, <2>2 DEF NewState, nxsem_recover
  <2>7. at[t].op # "reset" /\ \A u \in Task \ {t} : pterrno'[u] = pterrno[u]
    BY <1>1, <2>1 DEF SInv, CallInv
  <2>8. Ended' = [Ended EXCEPT ![t] = "none"] /\ Resets' = Resets /\ Left' = Left
    BY <1>1, <2>1, <2>4, <2>7, LeaveCall
  <2> QED BY <2>2, <2>4, <2>5, <2>6, <2>8, QuietStep
<1>15. CASE TaskExit
  <2>1. /\ k' = task_exit(k) /\ nxsem_recover(rtcb) /\ rtcb # Idle
        /\ waitsem' = [waitsem EXCEPT ![rtcb] = None]
        /\ at' = [at EXCEPT ![rtcb] = InCode] /\ pterrno' = [pterrno EXCEPT ![rtcb] = "OK"]
        /\ at[rtcb].op = "none"
    BY <1>15 DEF TaskExit, Released, InTask
  <2>2. Safe(k') /\ k'.task_state[rtcb] = "invalid" /\ Frame(k, k', rtcb)
    BY <1>1, <2>1, ExitTask DEF rtcb
  <2>3. waitsem' = waitsem
    BY <1>1, <2>1
  <2>4. \A u \in Task : k'.task_state[u] = "waitsem" <=> k.task_state[u] = "waitsem"
    BY <1>1, <2>2 DEF Frame, Runnable
  <2>5. semcount' = semcount
    BY <2>1, <2>2 DEF nxsem_recover
  <2>6. \A u \in Task \ {rtcb} : pterrno'[u] = pterrno[u]
    BY <1>1, <2>1
  <2>7. Ended' = [Ended EXCEPT ![rtcb] = "none"] /\ Resets' = Resets /\ Left' = Left
    BY <1>1, <2>1, <2>3, <2>6, LeaveCall
  <2> QED BY <1>1, <2>2, <2>3, <2>4, <2>5, <2>7, QuietStep
<1> QED BY <1>2, <1>3, <1>4, <1>5, <1>6, <1>7, <1>8, <1>9, <1>10, <1>11, <1>12, <1>13, <1>14, <1>15
        DEF Next

(* The boot state satisfies the invariant and is an initial state of CountingSemaphore. *)
LEMMA InitSInv ==
  Init => SInv /\ Counting!Init
<1> SUFFICES ASSUME Init PROVE SInv /\ Counting!Init
  OBVIOUS
<1>1. /\ k = BootState /\ semcount = [s \in Sem |-> IF s \in Mutex THEN 1 ELSE 0]
      /\ waitsem = [t \in Task |-> None] /\ waitdog = [t \in Task |-> "none"]
      /\ pterrno = [t \in Task |-> "OK"] /\ at = [t \in Task |-> InCode]
      /\ owns = [t \in Task |-> {}]
  BY DEF Init
<1>2. /\ Safe(k) /\ \A t \in Task : k.task_state[t] # "waitsem"
  BY <1>1, BootIsSafe
<1>3. InCode \in At /\ InCode.op = "none" /\ SEM_VALUE_MAX \in Nat \ {0} /\ None \notin Sem
  BY ValueAssumption, SemAssumption DEF InCode, At
<1>4. SemTypes
  BY <1>1, <1>3 DEF SemTypes
<1>5. WaitsemWhileWaiting
  BY <1>1, <1>2 DEF WaitsemWhileWaiting
<1>6. \A s \in Sem : Cardinality(WaitersOf(waitsem, s)) = 0 /\ ~(semcount[s] < 0)
  BY <1>1, <1>3, FiniteWaiters
<1>7. Counts(semcount, waitsem)
  BY <1>6 DEF Counts
<1>8. CallInv
  BY <1>1, <1>3 DEF CallInv
<1>9. Free \in [Sem -> Nat]
  BY <1>1 DEF Free
<1>10. /\ Ended = [t \in Task |-> "none"] /\ Resets = [t \in Task |-> None]
       /\ Left = [t \in Task |-> 0]
  BY <1>1, <1>3 DEF Ended, Resets, Left, WaitOps
<1>11. Counting!Init
  BY <1>1, <1>9, <1>10 DEF Counting!Init
<1> QED BY <1>2, <1>4, <1>5, <1>7, <1>8, <1>11 DEF SInv

(* The invariant is inductive. *)
LEMMA NextSInv ==
  ASSUME DebugAssertions = TRUE, DeleteBlocked = FALSE, SInv, [Next]_vars
  PROVE  SInv'
<1>1. CASE Next
  <2>1. Sound /\ RestTypes' /\ CallInv'
    BY <1>1, NextStep, RestStep, CallStep
  <2> QED BY <2>1 DEF Sound, RestTypes, SInv, SemTypes
<1>2. CASE UNCHANGED vars
  BY <1>2 DEF vars, SInv, SemTypes, WaitsemWhileWaiting, CallInv, rtcb
<1> QED BY <1>1, <1>2

(* The inductive invariant holds in every reachable state. *)
THEOREM SemInductive ==
  ASSUME DebugAssertions = TRUE, DeleteBlocked = FALSE
  PROVE  Spec => []SInv
<1>1. SInv /\ [Next]_vars => SInv'
  BY NextSInv
<1>2. Init => SInv
  BY InitSInv
<1> QED BY <1>1, <1>2, PTL DEF Spec

(* Every variable stays within its type; no count exceeds SEM_VALUE_MAX. *)
THEOREM SemTypeCorrect ==
  ASSUME DebugAssertions = TRUE, DeleteBlocked = FALSE
  PROVE  Spec => []TypeOK
<1>1. SInv => TypeOK
  BY DEF SInv, SemTypes, Safe, KernelInv, TypeOK
<1> QED BY <1>1, SemInductive, PTL

(* A negative count is the number of tasks that wait: nxsem_post() never panics and no *)
(* task waits for a semaphore that has a count to give.                                *)
THEOREM CountsWaitersAlways ==
  ASSUME DebugAssertions = TRUE, DeleteBlocked = FALSE
  PROVE  Spec => []CountsWaiters
<1>1. SInv => CountsWaiters
  BY DEF SInv, Counts, WaitersOf, CountsWaiters, Waiters
<1> QED BY <1>1, SemInductive, PTL

(* waitsem is set exactly while the task is in g_waitingforsemaphore. *)
THEOREM WaitsemWhileWaitingAlways ==
  ASSUME DebugAssertions = TRUE, DeleteBlocked = FALSE
  PROVE  Spec => []WaitsemWhileWaiting
<1>1. SInv => WaitsemWhileWaiting
  BY DEF SInv
<1> QED BY <1>1, SemInductive, PTL

(* A posted count goes to a waiter of the highest priority. *)
THEOREM WakesHighestAlways ==
  ASSUME DebugAssertions = TRUE, DeleteBlocked = FALSE
  PROVE  Spec => WakesHighest
<1> DEFINE Step == \A s \in Sem, t \in Task :
             (\/ nxsem_post(s) \/ nxsem_post_lock(s)) /\ waitsem[t] = s /\ waitsem'[t] = None =>
               \A u \in Waiters(s) : k.sched_priority[u] <= k.sched_priority[t]
<1>1. SInv /\ [Next]_vars => [Step]_vars
  <2> SUFFICES ASSUME SInv, NEW s \in Sem, NEW t \in Task, Post(s),
                      waitsem[t] = s, waitsem'[t] = None, NEW u \in Waiters(s)
               PROVE  k.sched_priority[u] <= k.sched_priority[t]
    BY DEF nxsem_post, nxsem_post_lock
  <2>1. semcount \in [Sem -> Int] /\ waitsem \in [Task -> Sem \union {None}]
        /\ None \notin Sem /\ Counts(semcount, waitsem)
    BY SemAssumption DEF SInv, SemTypes
  <2>2. semcount[s] < 0
    BY <2>1, CountsSome
  <2>3. /\ ~NoWaiter(s) /\ FirstWaiter(s) \in Task /\ waitsem[FirstWaiter(s)] = s
        /\ \A v \in Task : waitsem[v] = s => k.sched_priority[v] <= k.sched_priority[FirstWaiter(s)]
    BY <2>2, FindsWaiter
  <2>4. waitsem' = [waitsem EXCEPT ![FirstWaiter(s)] = None]
    BY <2>2, <2>3 DEF Post
  <2>5. t = FirstWaiter(s)
    BY <2>1, <2>3, <2>4
  <2> QED BY <2>3, <2>5 DEF Waiters
<1> QED BY <1>1, SemInductive, PTL DEF Spec, WakesHighest

(* The semaphores of the kernel are counting semaphores: every count that is posted goes *)
(* to one waiting task or becomes free, nothing else gives one, and a wait that fails     *)
(* takes none.                                                                            *)
THEOREM ImplementsCountingSemaphore ==
  ASSUME DebugAssertions = TRUE, DeleteBlocked = FALSE
  PROVE  Spec => CountingSpec
<1>1. Init => Counting!Init
  BY InitSInv
<1>2. SInv /\ [Next]_vars => [Counting!Next]_(Counting!vars)
  <2>1. ASSUME SInv, Next PROVE Abstract
    BY <2>1, NextStep
  <2>2. ASSUME UNCHANGED vars PROVE UNCHANGED Counting!vars
    BY <2>2 DEF vars, Counting!vars, Free, Ended, Resets, Left
  <2> QED BY <2>1, <2>2 DEF Abstract
<1>3. SInv /\ [Next]_vars => [PostsGiveCounts]_vars
  <2>1. ASSUME SInv, Next PROVE PostsGiveCounts
    <3>1. Conserving
      BY <2>1, NextStep
    <3>2. ASSUME NEW s \in Sem, Posts(s) PROVE Gives(s)
      BY <2>1, <3>2, PostStep
    <3> QED BY <3>1, <3>2 DEF Conserving, PostsGiveCounts
  <2> QED BY <2>1
<1> QED BY <1>1, <1>2, <1>3, SemInductive, PTL DEF Spec, CountingSpec, Counting!Spec

=============================================================================
