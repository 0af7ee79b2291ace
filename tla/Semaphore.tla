------------------------------ MODULE Semaphore ------------------------------
(***************************************************************************)
(* The counting semaphores of the kernel (sched/semaphore), without         *)
(* priority inheritance (the default), on top of the task lists.  A         *)
(* negative semcount is the number of tasks that wait, but which ones is    *)
(* only known from waitsem and from g_waitingforsemaphore, a list that all  *)
(* semaphores share.                                                        *)
(*                                                                          *)
(* A critical section belongs to the task that entered it: a task that      *)
(* blocks in nxsem_wait() gives the processor away with interrupts masked   *)
(* and gets it back with interrupts masked.  So an action is the code from  *)
(* the entry of a critical section to its end or to the context switch in   *)
(* it, and nothing happens between a switch back to a waiter and its next   *)
(* step.  Time passes only in that a running watchdog may expire.           *)
(***************************************************************************)
EXTENDS SchedLists

CONSTANTS
  Sem,
  None,             \* NULL in waitsem
  Mutex,            \* the semaphores used as locks: posted only by a task that took one
  SEM_VALUE_MAX,
  MaxLock,          \* bound on nested sched_lock() calls
  DeleteBlocked     \* whether a task that waits for a semaphore may be deleted

ASSUME SemAssumption == None \notin Sem /\ Mutex \subseteq Sem
ASSUME ValueAssumption == SEM_VALUE_MAX \in Nat \ {0}
ASSUME LockAssumption == MaxLock \in Nat
ASSUME DeleteAssumption == DeleteBlocked \in BOOLEAN
ASSUME FiniteTasks == IsFiniteSet(Task)

VARIABLES
  k,                \* the kernel state: task lists and TCB fields
  semcount,         \* the count of every semaphore
  waitsem,          \* the TCB field: the semaphore the task waits for
  waitdog,          \* the TCB field: its watchdog, "none", "idle" or "active"
  pterrno,          \* the TCB field, as nxsem_wait() and nxsem_wait_irq() use it
  at,               \* where each task is in a semaphore call
  owns              \* the locks each task took and has not posted (the tasks' own knowledge)

vars == <<k, semcount, waitsem, waitdog, pterrno, at, owns>>

WaitOps == {"wait", "timedwait", "tickwait"}

InCode == [op |-> "none", sem |-> None, count |-> 0]

At == [op    : {"none", "wait", "timedwait", "tickwait", "wd_delete", "reset", "unlock"},
       sem   : Sem \union {None},
       count : 0 .. SEM_VALUE_MAX]

Init ==
  /\ k = BootState
  /\ semcount = [s \in Sem |-> IF s \in Mutex THEN 1 ELSE 0]
  /\ waitsem = [t \in Task |-> None]
  /\ waitdog = [t \in Task |-> "none"]
  /\ pterrno = [t \in Task |-> "OK"]
  /\ at = [t \in Task |-> InCode]
  /\ owns = [t \in Task |-> {}]

rtcb == this_task(k)

\* The running task is executing its own code, between two calls.
InTask == at[rtcb].op = "none"

\* Interrupts are enabled.
Interruptible == at[rtcb].op \notin {"wait", "timedwait", "tickwait", "reset"}

-----------------------------------------------------------------------------
(* Taking a count *)

\* The task t returns from its call with a count of s.
Acquired(t, s) == owns' = [owns EXCEPT ![t] = @ \union ({s} \intersect Mutex)]

\* The branch of nxsem_wait() and nxsem_trywait() that finds a count.
Take(s) ==
  /\ semcount[s] > 0
  /\ semcount' = [semcount EXCEPT ![s] = @ - 1]
  /\ waitsem' = [waitsem EXCEPT ![rtcb] = None]
  /\ Acquired(rtcb, s)
  /\ UNCHANGED <<k, waitdog, pterrno, at>>

\* The branch of nxsem_wait() that blocks, for a caller that is in op.
Enqueue(s, op) ==
  /\ rtcb # Idle
  /\ semcount[s] <= 0
  /\ semcount' = [semcount EXCEPT ![s] = @ - 1]
  /\ waitsem' = [waitsem EXCEPT ![rtcb] = s]
  /\ pterrno' = [pterrno EXCEPT ![rtcb] = "OK"]
  /\ k' = up_block_task(k, rtcb, "waitsem")
  /\ at' = [at EXCEPT ![rtcb] = [op |-> op, sem |-> s, count |-> 0]]
  /\ UNCHANGED owns

nxsem_wait(s) ==
  /\ InTask
  /\ \/ Take(s)
     \/ Enqueue(s, "wait") /\ UNCHANGED waitdog

\* The rest of nxsem_wait() when the task gets the processor back: ret is -pterrno.
nxsem_wait_return ==
  /\ at[rtcb].op = "wait"
  /\ IF pterrno[rtcb] = "OK" THEN Acquired(rtcb, at[rtcb].sem) ELSE UNCHANGED owns
  /\ pterrno' = [pterrno EXCEPT ![rtcb] = "OK"]
  /\ at' = [at EXCEPT ![rtcb] = InCode]
  /\ UNCHANGED <<k, semcount, waitsem, waitdog>>

\* Fails without a change of state when no count is free.
nxsem_trywait(s) ==
  /\ InTask
  /\ Take(s)

\* nxsem_timedwait() and nxsem_tickwait() up to the wait.  The watchdog that is
\* created and deleted again when no wait is needed, or possible, is left out.
nxsem_timedwait(s, op) ==
  /\ InTask
  /\ \/ Take(s)
     \/ Enqueue(s, op) /\ waitdog' = [waitdog EXCEPT ![rtcb] = "active"]

\* Faulty variant: the watchdog is left running when the wait succeeded.
nxsem_timedwait_return_NotCancelled ==
  /\ at[rtcb].op \in {"timedwait", "tickwait"}
  /\ IF pterrno[rtcb] = "OK" THEN Acquired(rtcb, at[rtcb].sem) ELSE UNCHANGED owns
  /\ pterrno' = [pterrno EXCEPT ![rtcb] = "OK"]
  /\ at' = [at EXCEPT ![rtcb] = InCode]
  /\ UNCHANGED <<k, semcount, waitsem, waitdog>>

\* Faulty variant: a wait that timed out or was interrupted counts as successful.
nxsem_timedwait_return_AnyError ==
  /\ at[rtcb].op \in {"timedwait", "tickwait"}
  /\ Acquired(rtcb, at[rtcb].sem)
  /\ waitdog' = [waitdog EXCEPT ![rtcb] = "idle"]
  /\ pterrno' = [pterrno EXCEPT ![rtcb] = "OK"]
  /\ at' = [at EXCEPT ![rtcb] = [@ EXCEPT !.op = "wd_delete"]]
  /\ UNCHANGED <<k, semcount, waitsem>>

\* The rest of nxsem_wait() and the end of the critical section around it;
\* nxsem_tickwait() leaves the watchdog running when the wait failed.
nxsem_timedwait_return ==
  /\ at[rtcb].op \in {"timedwait", "tickwait"}
  /\ IF pterrno[rtcb] = "OK" THEN Acquired(rtcb, at[rtcb].sem) ELSE UNCHANGED owns
  /\ waitdog' = [waitdog EXCEPT ![rtcb] =
                   IF at[rtcb].op = "tickwait" /\ pterrno[rtcb] # "OK" THEN @ ELSE "idle"]
  /\ pterrno' = [pterrno EXCEPT ![rtcb] = "OK"]
  /\ at' = [at EXCEPT ![rtcb] = [@ EXCEPT !.op = "wd_delete"]]
  /\ UNCHANGED <<k, semcount, waitsem>>

\* wd_delete() cancels the watchdog if it is still running.
nxsem_timedwait_delete ==
  /\ at[rtcb].op = "wd_delete"
  /\ waitdog' = [waitdog EXCEPT ![rtcb] = "none"]
  /\ at' = [at EXCEPT ![rtcb] = InCode]
  /\ UNCHANGED <<k, semcount, waitsem, pterrno, owns>>

-----------------------------------------------------------------------------
(* Giving a count, and giving up a wait *)

\* The first task of g_waitingforsemaphore that waits for s.
FirstWaiter(s) ==
  LET list == k.waitingforsemaphore
  IN  list[CHOOSE i \in 1 .. Len(list) :
             waitsem[list[i]] = s /\ \A j \in 1 .. i - 1 : waitsem[list[j]] # s]

\* "This should not happen": the search of nxsem_post() runs off the list.
NoWaiter(s) == \A i \in 1 .. Len(k.waitingforsemaphore) : waitsem[k.waitingforsemaphore[i]] # s

\* Faulty variant: no limit on the count.
Post_Unlimited(s) ==
  /\ semcount' = [semcount EXCEPT ![s] = @ + 1]
  /\ IF semcount[s] < 0 /\ ~NoWaiter(s)
     THEN /\ waitsem' = [waitsem EXCEPT ![FirstWaiter(s)] = None]
          /\ k' = up_unblock_task(k, FirstWaiter(s))
     ELSE UNCHANGED <<k, waitsem>>

\* The body of nxsem_post(); without a waiter to be found it is DEBUGPANIC().
Post(s) ==
  /\ semcount[s] < SEM_VALUE_MAX
  /\ semcount' = [semcount EXCEPT ![s] = @ + 1]
  /\ IF semcount[s] < 0 /\ ~NoWaiter(s)
     THEN /\ waitsem' = [waitsem EXCEPT ![FirstWaiter(s)] = None]
          /\ k' = up_unblock_task(k, FirstWaiter(s))
     ELSE UNCHANGED <<k, waitsem>>

\* By an interrupt handler or a task.
nxsem_post(s) ==
  /\ s \notin Mutex
  /\ Interruptible
  /\ Post(s)
  /\ UNCHANGED <<waitdog, pterrno, at, owns>>

\* By the task that took the lock.
nxsem_post_lock(s) ==
  /\ s \in owns[rtcb]
  /\ InTask
  /\ Post(s)
  /\ owns' = [owns EXCEPT ![rtcb] = @ \ {s}]
  /\ UNCHANGED <<waitdog, pterrno, at>>

\* Faulty variant: the count the wait took is not given back.
nxsem_wait_irq_NoCount(wtcb, errcode) ==
  IF k.task_state[wtcb] = "waitsem"
  THEN /\ waitsem' = [waitsem EXCEPT ![wtcb] = None]
       /\ pterrno' = [pterrno EXCEPT ![wtcb] = errcode]
       /\ k' = up_unblock_task(k, wtcb)
       /\ UNCHANGED semcount
  ELSE UNCHANGED <<k, semcount, waitsem, pterrno>>

\* Faulty variant: the waiter is not told that its wait failed.
nxsem_wait_irq_NoErrno(wtcb, errcode) ==
  IF k.task_state[wtcb] = "waitsem"
  THEN /\ semcount' = [semcount EXCEPT ![waitsem[wtcb]] = @ + 1]
       /\ waitsem' = [waitsem EXCEPT ![wtcb] = None]
       /\ k' = up_unblock_task(k, wtcb)
       /\ UNCHANGED pterrno
  ELSE UNCHANGED <<k, semcount, waitsem, pterrno>>

\* Faulty variant: waitsem is left set.
nxsem_wait_irq_KeepsWaitsem(wtcb, errcode) ==
  IF k.task_state[wtcb] = "waitsem"
  THEN /\ semcount' = [semcount EXCEPT ![waitsem[wtcb]] = @ + 1]
       /\ pterrno' = [pterrno EXCEPT ![wtcb] = errcode]
       /\ k' = up_unblock_task(k, wtcb)
       /\ UNCHANGED waitsem
  ELSE UNCHANGED <<k, semcount, waitsem, pterrno>>

nxsem_wait_irq(wtcb, errcode) ==
  IF k.task_state[wtcb] = "waitsem"
  THEN /\ semcount' = [semcount EXCEPT ![waitsem[wtcb]] = @ + 1]
       /\ waitsem' = [waitsem EXCEPT ![wtcb] = None]
       /\ pterrno' = [pterrno EXCEPT ![wtcb] = errcode]
       /\ k' = up_unblock_task(k, wtcb)
  ELSE UNCHANGED <<k, semcount, waitsem, pterrno>>

\* Faulty variant: an expiry while pre-emption is disabled is lost.
nxsem_timeout_Lost(t) ==
  /\ Interruptible
  /\ waitdog[t] = "active"
  /\ waitdog' = [waitdog EXCEPT ![t] = "idle"]
  /\ IF k.lockcount[rtcb] = 0
     THEN nxsem_wait_irq(t, "ETIMEDOUT")
     ELSE UNCHANGED <<k, semcount, waitsem, pterrno>>
  /\ UNCHANGED <<at, owns>>

\* The watchdog of a timed wait expires.
nxsem_timeout(t) ==
  /\ Interruptible
  /\ waitdog[t] = "active"
  /\ waitdog' = [waitdog EXCEPT ![t] = "idle"]
  /\ nxsem_wait_irq(t, "ETIMEDOUT")
  /\ UNCHANGED <<at, owns>>

\* A signal is sent to a waiting task, by a task or an interrupt handler.
nxsig_dispatch(t) ==
  /\ Interruptible
  /\ k.task_state[t] = "waitsem"
  /\ nxsem_wait_irq(t, "EINTR")
  /\ UNCHANGED <<waitdog, at, owns>>

\* nxsem_reset(): pre-emption and interrupts are disabled for the whole loop.
nxsem_reset(s, count) ==
  /\ s \notin Mutex
  /\ InTask
  /\ k.lockcount[rtcb] < MaxLock
  /\ k' = sched_lock(k)
  /\ at' = [at EXCEPT ![rtcb] = [op |-> "reset", sem |-> s, count |-> count]]
  /\ UNCHANGED <<semcount, waitsem, waitdog, pterrno, owns>>

\* One turn of the loop: a count goes to a waiting task.
nxsem_reset_post ==
  LET s == at[rtcb].sem
  IN  /\ at[rtcb].op = "reset"
      /\ semcount[s] < 0
      /\ at[rtcb].count > 0
      /\ Post(s)
      /\ at' = [at EXCEPT ![rtcb].count = @ - 1]
      /\ UNCHANGED <<waitdog, pterrno, owns>>

\* The loop ends: what is left of the counts is the new count if no task waits.
nxsem_reset_set ==
  LET s == at[rtcb].sem
  IN  /\ at[rtcb].op = "reset"
      /\ ~(semcount[s] < 0 /\ at[rtcb].count > 0)
      /\ semcount' = [semcount EXCEPT ![s] = IF @ >= 0 THEN at[rtcb].count ELSE @]
      /\ at' = [at EXCEPT ![rtcb] = [InCode EXCEPT !.op = "unlock"]]
      /\ UNCHANGED <<k, waitsem, waitdog, pterrno, owns>>

\* One step, although the code tests and sets the count with interrupts enabled: nobody
\* may use a semaphore while it is destroyed.
nxsem_destroy(s) ==
  /\ s \notin Mutex
  /\ InTask
  /\ semcount' = [semcount EXCEPT ![s] = IF @ >= 0 THEN 1 ELSE @]
  /\ UNCHANGED <<k, waitsem, waitdog, pterrno, at, owns>>

-----------------------------------------------------------------------------
(* What else a task does with the scheduler *)

SchedLock ==
  /\ InTask
  /\ k.lockcount[rtcb] < MaxLock
  /\ k' = sched_lock(k)
  /\ UNCHANGED <<semcount, waitsem, waitdog, pterrno, at, owns>>

SchedUnlock ==
  /\ InTask
  /\ k.lockcount[rtcb] > 0
  /\ k' = sched_unlock(k)
  /\ UNCHANGED <<semcount, waitsem, waitdog, pterrno, at, owns>>

\* nxsched_setparam() up to its sched_unlock().
SetParam(t, priority) ==
  /\ InTask
  /\ t # Idle
  /\ k.task_state[t] # "invalid"
  /\ k.lockcount[rtcb] < MaxLock
  /\ k' = nxsched_setpriority(sched_lock(k), t, priority)
  /\ at' = [at EXCEPT ![rtcb] = [InCode EXCEPT !.op = "unlock"]]
  /\ UNCHANGED <<semcount, waitsem, waitdog, pterrno, owns>>

\* The sched_unlock() at the end of nxsem_reset() and nxsched_setparam().
UnlockReturn ==
  /\ at[rtcb].op = "unlock"
  /\ k' = sched_unlock(k)
  /\ at' = [at EXCEPT ![rtcb] = InCode]
  /\ UNCHANGED <<semcount, waitsem, waitdog, pterrno, owns>>

task_create(t, priority) ==
  /\ InTask
  /\ k.task_state[t] = "invalid"
  /\ k' = up_unblock_task(thread_schedsetup(k, t, priority), t)
  /\ UNCHANGED <<semcount, waitsem, waitdog, pterrno, at, owns>>

\* The TCB fields of a released task; wd_recover() deletes its watchdog.
Released(t) ==
  /\ waitsem' = [waitsem EXCEPT ![t] = None]
  /\ waitdog' = [waitdog EXCEPT ![t] = "none"]
  /\ pterrno' = [pterrno EXCEPT ![t] = "OK"]
  /\ at' = [at EXCEPT ![t] = InCode]
  /\ owns' = [owns EXCEPT ![t] = {}]

\* Gives back the count of a task that ends while it waits.  The task state it looks
\* at is the one that task_terminate() has left, and that is never "waitsem".
nxsem_recover(t) ==
  IF k'.task_state[t] = "waitsem"
  THEN semcount' = [semcount EXCEPT ![waitsem[t]] = @ + 1]
  ELSE UNCHANGED semcount

task_delete(t) ==
  /\ InTask
  /\ t # Idle
  /\ k.task_state[t] \notin {"invalid", "running"}
  /\ k.task_state[t] = "waitsem" => DeleteBlocked
  /\ k' = task_terminate(k, t)
  /\ nxsem_recover(t)
  /\ Released(t)

TaskExit ==
  /\ InTask
  /\ rtcb # Idle
  /\ k' = task_exit(k)
  /\ nxsem_recover(rtcb)
  /\ Released(rtcb)

-----------------------------------------------------------------------------

Next ==
  \/ \E s \in Sem : nxsem_wait(s) \/ nxsem_trywait(s) \/ nxsem_post(s) \/ nxsem_post_lock(s)
  \/ \E s \in Sem, op \in {"timedwait", "tickwait"} : nxsem_timedwait(s, op)
  \/ nxsem_wait_return
  \/ nxsem_timedwait_return
  \/ nxsem_timedwait_delete
  \/ \E t \in Task : nxsem_timeout(t) \/ nxsig_dispatch(t)
  \/ \E s \in Sem, count \in 0 .. SEM_VALUE_MAX : nxsem_reset(s, count)
  \/ nxsem_reset_post
  \/ nxsem_reset_set
  \/ \E s \in Sem : nxsem_destroy(s)
  \/ SchedLock
  \/ SchedUnlock
  \/ \E t \in Task, p \in Priority : SetParam(t, p)
  \/ UnlockReturn
  \/ \E t \in Task \ {Idle}, p \in Priority : task_create(t, p)
  \/ \E t \in Task : task_delete(t)
  \/ TaskExit

Spec == Init /\ [][Next]_vars

\* The code that runs with interrupts masked.
Masked == nxsem_wait_return \/ nxsem_timedwait_return \/ nxsem_reset_post \/ nxsem_reset_set

\* The processor executes the code that keeps interrupts masked, and the timer
\* interrupt stays pending meanwhile: a watchdog that is left running expires.
\* Nothing is assumed of the tasks: they may run forever or never call again.
FairSpec ==
  /\ Spec
  /\ WF_vars(Masked)
  /\ \A t \in Task : SF_vars(nxsem_timeout(t))

-----------------------------------------------------------------------------
(* Properties *)

Waiters(s) == {t \in Task : waitsem[t] = s}

TypeOK ==
  /\ KernelTypeOK(k)
  /\ semcount \in [Sem -> Int]
  /\ \A s \in Sem : semcount[s] <= SEM_VALUE_MAX
  /\ waitsem \in [Task -> Sem \union {None}]
  /\ waitdog \in [Task -> {"none", "idle", "active"}]
  /\ pterrno \in [Task -> {"OK", "EINTR", "ETIMEDOUT"}]
  /\ at \in [Task -> At]
  /\ owns \in [Task -> SUBSET Mutex]

\* The count of a semaphore is negative by exactly the number of tasks that wait
\* for it: nxsem_post() finds a waiter whenever it looks for one (its DEBUGPANIC()
\* "should not happen") and no task waits for a count that is free.
CountsWaiters ==
  \A s \in Sem : Cardinality(Waiters(s)) = IF semcount[s] < 0 THEN -semcount[s] ELSE 0

\* waitsem is set exactly while the task is in g_waitingforsemaphore: the assertions
\* of nxsem_wait(), nxsem_wait_irq() and nxsem_recover().
WaitsemWhileWaiting ==
  \A t \in Task : waitsem[t] # None <=> k.task_state[t] = "waitsem"

\* t took the lock s, or has been handed it and is about to return from its wait.
HoldsLock(t, s) ==
  \/ s \in owns[t]
  \/ /\ at[t].op \in WaitOps
     /\ at[t].sem = s
     /\ waitsem[t] = None
     /\ pterrno[t] = "OK"

\* A semaphore that starts at 1 and is posted only by its holder has one holder at
\* most and is never both held and free, whatever races between posts, timeouts,
\* signals, deletions and changes of priority.
MutualExclusion ==
  \A s \in Mutex :
    /\ \A t, u \in Task : HoldsLock(t, s) /\ HoldsLock(u, s) => t = u
    /\ semcount[s] <= 1
    /\ semcount[s] = 1 => \A t \in Task : ~HoldsLock(t, s)

\* A watchdog only ever ends the timed wait that started it: a plain nxsem_wait()
\* never fails with ETIMEDOUT, and none runs after the call has returned.
TimeoutsInTimedWaits ==
  \A t \in Task :
    /\ pterrno[t] = "ETIMEDOUT" => at[t].op \in {"timedwait", "tickwait"}
    /\ waitdog[t] = "active" => at[t].op \in {"timedwait", "tickwait", "wd_delete"}

\* A posted count goes to a waiting task of the highest priority, whatever the order
\* in which the waits began and the priorities were changed: "This is a prioritized
\* list so the first one we encounter is the one that we want" (sem_post.c).
WakesHighest ==
  [][ \A s \in Sem, t \in Task :
        (\/ nxsem_post(s) \/ nxsem_post_lock(s)) /\ waitsem[t] = s /\ waitsem'[t] = None =>
          \A u \in Waiters(s) : k.sched_priority[u] <= k.sched_priority[t] ]_vars

\* The state of CountingSemaphore: the count as far as it is positive is free, the tasks
\* that wait are the ones with waitsem, and a task that was woken finds in pterrno how
\* its wait ended.
Free == [s \in Sem |-> IF semcount[s] > 0 THEN semcount[s] ELSE 0]

Ended ==
  [t \in Task |->
     IF at[t].op \in WaitOps /\ waitsem[t] = None
     THEN IF pterrno[t] = "OK" THEN "count" ELSE "failed"
     ELSE "none"]

Resets == [t \in Task |-> IF at[t].op = "reset" THEN at[t].sem ELSE None]

Left == [t \in Task |-> IF at[t].op = "reset" THEN at[t].count ELSE 0]

Counting == INSTANCE CountingSemaphore WITH
  free <- Free, waits <- waitsem, ended <- Ended, resets <- Resets, left <- Left

Posts(s) == nxsem_post(s) \/ nxsem_post_lock(s)

\* One count of s is given: a task that waits gets it, or it becomes free.
Gives(s) == Counting!Give(s) \/ \E t \in Task : Counting!Grant(t, s)

\* A post gives one count, and nothing else does (but the 1 of nxsem_destroy() and the
\* counts of nxsem_reset(), which are steps of their own in CountingSemaphore).
PostsGiveCounts ==
  \A s \in Sem :
    /\ Posts(s) => Gives(s)
    /\ Gives(s) => Posts(s) \/ nxsem_destroy(s)

\* The one signed count, the waitsem and pterrno fields and the shared list implement a
\* set of counting semaphores: no count is lost or made up, however posts, timeouts,
\* signals, resets and deletions compete for the waiting tasks.
CountingSpec == Counting!Spec /\ [][PostsGiveCounts]_vars

\* A task in a timed wait does not wait forever, even if no count is ever given and
\* however the other tasks keep the processor busy.
TimedWaitEnds ==
  \A t \in Task :
    (waitsem[t] # None /\ waitdog[t] = "active") ~> (waitsem[t] = None)

=============================================================================
