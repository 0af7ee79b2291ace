# A TLA+ verification of the NuttX scheduler and semaphores

This directory holds a formal model of the kernel of the repository (NuttX, under
`src/nuttx`; the applications are under `src/apps`): TLA+ modules translated from the C
code, configurations with which TLC checks them on small instances, and theorems with
proofs that TLAPS checks for every number of tasks, priorities and semaphores.

The build that is modelled is the default one of a single-CPU ARMv7-M board:
`CONFIG_SMP`, `CONFIG_PRIORITY_INHERITANCE` and `CONFIG_SCHED_SPORADIC` off,
`CONFIG_RR_INTERVAL` greater than zero. `CONFIG_DEBUG_ASSERTIONS` is a constant of the
model, because the code behaves differently with and without it.

## 1. The system

| Part | State | Operations | What makes it hard |
|---|---|---|---|
| Task lists (`sched/sched`) | `g_readytorun`, `g_pendingtasks`, one list per blocked state; `task_state`, `sched_priority`, `lockcount` of a TCB | `sched_addreadytorun`, `sched_removereadytorun`, `sched_mergepending`, `sched_addblocked`, `sched_removeblocked` | a task must be in exactly the list its state names; the pending list must be merged on every way the processor changes hands |
| Context switch (`arch/arm/src/armv7-m`) | the head of `g_readytorun` runs | `up_block_task`, `up_unblock_task`, `up_release_pending`, `up_reprioritize_rtr` | whether to switch is worked out from changes of the head |
| Pre-emption, priority, policy | `lockcount`, `timeslice` | `sched_lock`, `sched_unlock`, `sched_yield`, `nxsched_setparam`, `sched_roundrobin_process` | `nxsched_setparam` is interruptible between its steps; a locked task can still give the processor away |
| Life of a task (`sched/task`) | the TCB | `thread_schedsetup`, `task_activate`, `task_delete`, `task_exit`, `task_terminate`, `task_recover` | recovery of what a deleted task was waiting for |
| Semaphores (`sched/semaphore`) | `semcount`, and in the TCB `waitsem`, `waitdog`, `pterrno` | `nxsem_wait`, `trywait`, `timedwait`, `tickwait`, `post`, `wait_irq`, `timeout`, `reset`, `destroy` | posts, timeouts, signals and deletions race for the same waiter |
| Priority inheritance (`sem_holder.c`) | holder lists, `base_priority` | boost and restore | nested boosts, restore on post, on cancellation and from interrupts |
| Watchdogs (`sched/wdog`) | a list of time differences | `wd_start`, `wd_cancel`, `wd_timer` | every insertion and removal has to correct a neighbour |
| Message queues, signals, pthreads, work queues, timers, task groups | queues and masks on top of the above | send, receive, dispatch, lock, wait, queue | the same races, one level up |
| Memory manager, file systems, network, drivers, libraries, applications | | | mostly sequential data handling, or a project of their own |

Interactions: semaphores, message queues and signals block and wake tasks through
`up_block_task` and `up_unblock_task`; timed waits use watchdogs, which run in the timer
interrupt; everything else in the kernel is built on semaphores.

Critical sections. On a single CPU `enter_critical_section` masks interrupts, and the mask
is part of the context of the task: a task that blocks inside a critical section gives the
processor away, and when it gets it back interrupts are masked again until it leaves the
section. An action of the models is therefore the code from the entry of a critical section
to its end or to the context switch inside it.

## 2. The modules

| Module | Contents |
|---|---|
| `SchedLists` | the kernel state as a record and every list function as an operator from a state to the next, named as in the code |
| `Scheduler` | the callers of these functions: tasks and interrupt handlers |
| `CountingSemaphore` | what counting semaphores promise, with no word on how: free counts, tasks that wait, how each wait ended, resets |
| `Semaphore` | the semaphores on top of `SchedLists` |
| `MCScheduler`, `MCSemaphore` | the small instances for TLC |
| `ListLemmas` | insertion, removal and merge of sequences, as statements about places |
| `SchedLists_proof` | one lemma per list function |
| `SemaphoreSteps_proof` | one lemma per step of the semaphores, as the invariant and as `CountingSemaphore` see it |
| `Scheduler_proof`, `Semaphore_proof` | the inductive invariants and the theorems |

How state and actions correspond to the code:

* A kernel state has the fields `readytorun`, `pendingtasks` and `waitingforsemaphore`
  (the doubly linked lists, head first) and `task_state`, `sched_priority` and `lockcount`
  (the TCB fields). `g_inactivetasks` is never ordered, so the state `"inactive"` stands
  for it. Of the lists of blocked tasks only the one of the semaphores is there; the code
  treats the others alike.
* `sched_mergepending` is given in closed form (which task ends up at which place) and not
  as the loop, so that it can be reasoned about. `MCScheduler!MergeLoop` is the loop of the
  code, round by round, with the place in `g_readytorun` that it keeps from one round to
  the next and the case of a new head; the invariant `MergeIsTheLoop` checks that both
  yield the same lists and task states wherever the code merges.
* `nxsched_setparam` is three actions (`SetParam`, `SetParamReprioritize`,
  `SetParamUnlock`), since interrupts are enabled between them. In `Semaphore`, where its
  races are not the subject, it is two.
* `nxsem_wait` is two actions, up to the switch and after it. `nxsem_timedwait` and
  `nxsem_tickwait` have a third, `wd_delete`, with interrupts enabled; they share the
  actions and differ in whether the watchdog is cancelled after a failed wait.
* `task_terminate` is one action although it leaves its critical section before the exit
  hooks: the TCB is out of every list by then, and the hooks are not modelled.
* A released TCB is used again for a new task; its fields are those of a zeroed TCB.
* Configuration switches that change what the code does are constants
  (`DebugAssertions`), and so are bounds (`MaxLock`, `SEM_VALUE_MAX`, `Slice`) and one
  restriction on the environment (`DeleteBlocked`, see finding 3).
* `Mutex` is the set of semaphores that are used as locks: posted only by a task that
  took them, never reset or destroyed. `owns` is what the tasks know, not a kernel field.
* `Semaphore` implements `CountingSemaphore` under this mapping: a positive count is free;
  the tasks with `waitsem` set wait; a task that was woken in a waiting call finds in
  `pterrno` whether its wait ended with a count or without (`Ended`); `nxsem_reset` is in
  progress from its `sched_lock` to the end of its critical section (`Resets`), with the
  counts it still has to hand out (`Left`). A granted and an abandoned wait are different
  steps of `CountingSemaphore`, and a count may be given only by `Give` and `Grant`, by a
  reset, or by `Destroy`. Since a step of the kernel that does not show in this state would
  pass for no step at all, `CountingSpec` says besides (`PostsGiveCounts`) that every
  `nxsem_post` is a `Give` or a `Grant` of its semaphore, so that no post is lost, and that
  nothing but a post or `nxsem_destroy` is one.

Definitions whose name ends in an underscore and a word (`Post_Unlimited`) are faulty
variants of the definition that follows them. They are in no specification; each one, put
in place of its original, makes TLC report the property it is paired with in
`PROJECT.json`.

## 3. What TLC checks

| Run | Instance | Properties | Result |
|---|---|---|---|
| `scheduler` | 3 tasks and IDLE, 2 priorities, 2 nested locks, all round robin with a slice of 1 tick | `TypeOK`, `StatesNameLists`, `ListsInOrder`, `NoneStranded`, `HighestRuns`, `TargetAlive`, `MergeIsTheLoop`, `NotPreemptedWhileLocked`, `FifoAmongEquals` | holds, 423,890 states |
| `scheduler_live` | 3 tasks and IDLE, 2 priorities, two tasks round robin with a slice of 2 ticks | `RoundRobinTurns` | holds, 668,084 states |
| `scheduler_share` | as `scheduler_live` | `EqualsShareTime` | violated, finding 4 |
| `scheduler_no_assert` | as `scheduler`, assertions compiled out | `ListsInOrder` | violated, finding 1 |
| `scheduler_locked` | as `scheduler` | `LockedRunsAlone` | violated, finding 2 |
| `semaphore` | 2 tasks and IDLE, a lock and a signalling semaphore, counts up to 2 | `TypeOK`, `WaitsemWhileWaiting`, `CountsWaiters`, `TimeoutsInTimedWaits`, `WakesHighest`, `CountingSpec` | holds, 630,754 states |
| `semaphore_lock` | 3 tasks and IDLE, one lock | `MutualExclusion` | holds, 601,173 states |
| `semaphore_live` | 2 tasks and IDLE, one signalling semaphore | `TimedWaitEnds` | holds, 10,062 states |
| `semaphore_delete` | as `semaphore`, waiting tasks may be deleted | `CountsWaiters` | violated, finding 3 |

Bounds. Three tasks and two priorities give a running task, an equal and a higher one;
two of them can be pending or waiting at once, and a slice can be renewed by a third task
while an equal stays ready. A slice of two ticks tells a renewed slice from one that has
just begun. A lock may be counted up to 2, so that `MutualExclusion` would notice a count
too many. Two nested locks are needed for a task that
calls `nxsched_setparam` with pre-emption already disabled. Two semaphores are needed for
a wait list shared by waiters of different semaphores, a maximal count of 2 for a count
that goes through -2 .. 2. User tasks are interchangeable, which `SYMMETRY` uses in the
runs without liveness. In a real system priorities run to 255 and counts to `SEM_VALUE_MAX`;
the theorems of section 4 do not depend on these values.

Fairness. `RoundRobinTurns` and `EqualsShareTime` carry their premise themselves: they
speak of a ready task whose equals are charged ticks, with pre-emption enabled, again and
again. `RoundRobinTurns` then needs no fairness and is checked under `Spec`; it says that
the ready task cannot stay in line for ever while only tasks of its own priority or below
run. `EqualsShareTime` drops that last condition, which is what the user's guide promises,
and fails (finding 4); its run adds that timer interrupts keep coming
(`Scheduler!FairSpec`), and nothing else.
`Semaphore!FairSpec` assumes that the processor executes code that has interrupts masked
(weak fairness), and that a watchdog that is left running expires (strong fairness: the
timer interrupt stays pending while interrupts are masked). No task is assumed to ever
post, unlock or yield.

Deadlock is checked in every run: the IDLE task always has something it can do.

### Findings

1. `sched_readytorun_setpriority` (`sched_setpriority.c:251` and `:259`) removes and
   inserts the TCB inside `DEBUGASSERT()`. Without `CONFIG_DEBUG_ASSERTIONS` the list is
   not touched, and `g_readytorun` is no longer in order of priority.
2. `sched_lock` promises that the caller is the only task to run until it unlocks or
   blocks. A caller that yields or sets its own priority is switched out all the same.
3. `task_terminate` (`task_terminate.c:163`) sets the task state to invalid before
   `nxsem_recover` looks for `TSTATE_WAIT_SEM`. The count of a deleted waiter is never
   given back, contrary to the comment in `sem_recover.c`; a later `nxsem_post` finds no
   waiter. `nxmq_recover` has the same test.
4. `sched_resume_scheduler` (`sched_resumescheduler.c:83`) gives a task a full time slice
   whenever it gets the processor back. If a task of higher priority pre-empts it between
   any two ticks, its slice never ends, and as a pre-empted task stays ahead of its equals
   these never run. The user's guide (`NuttxUserGuide.html:1842`) says that round robin
   tasks of equal priority share the CPU time.

Two observations that are not properties of a run: the round robin branch of
`sched_unlock` that resets the time slice of a task that was switched out cannot take
effect, since `up_release_pending` returns only when the task runs again and its slice has
been renewed by `sched_resume_scheduler`; and `task_exit` does not renew the slice of the
task that follows (the call is compiled for SMP only).

## 4. What is proved

All theorems assume that assertions are compiled in (`DebugAssertions = TRUE`), because of
finding 1; those of `Semaphore_proof` assume that no task is deleted while it waits
(`DeleteBlocked = FALSE`), because of finding 3. They hold for every set of tasks
(`Semaphore_proof`: every finite set), every `MaxPrio`, `Slice`, `MaxLock` and
`SEM_VALUE_MAX` that satisfy the named assumptions of the modules.

* `Scheduler_proof`: `TypeCorrect`, `StatesNameListsAlways`, `ListsInOrderAlways`,
  `NoneStrandedEver`, `HighestRunsAlways`, `TargetAliveAlways` and
  `NeverPreemptedWhileLocked`. The inductive invariant `IInv` says that the kernel state
  is `Safe` (typed, lists and states agree, lists in order, nothing pending behind a
  running task that has pre-emption enabled) and that a task in the middle of
  `nxsched_setparam` still runs, locked, and its target still exists. The last part is
  what makes a change of priority safe, and it needs the first: it is because a locked
  task is not pre-empted that the target cannot be deleted meanwhile. `HighestRuns` is not
  inductive alone; it follows from the order of the list and from `NoneStranded`.
* `Semaphore_proof`: `SemTypeCorrect`, `CountsWaitersAlways`, `WaitsemWhileWaitingAlways`,
  `WakesHighestAlways`, and `ImplementsCountingSemaphore`: the count, the `waitsem` and
  `pterrno` fields and the shared list implement `CountingSemaphore`, no post is lost, and
  no count is made up. The inductive invariant `SInv` is `Safe` with the types,
  `WaitsemWhileWaiting`, `CountsWaiters` and `CallInv`. To know that a post finds a waiter
  one needs the count for the existence of a task with `waitsem` set,
  `WaitsemWhileWaiting` for its being in the list, and the order of the list for its being
  the one with the highest priority. `CallInv` is needed for the refinement: a task that
  waits is in a waiting call with `pterrno` clear, so that a post is seen as a count and a
  timeout as a failure; and a task that resets a semaphore runs with pre-emption disabled,
  so that nobody touches the semaphore between the turns of its loop.

The argument is built from the bottom. `ListLemmas` shows, place by place, that an
insertion in front of the first task of lower priority, a removal and the merge keep a list
ordered and free of duplicates. `SchedLists_proof` turns this into one lemma per function
of the kernel (for example `BlockTask`: `up_block_task` leads from a safe state to a safe
state and changes no other task's blocked state). The step of the invariant is then one
case per action.

Only model-checked: `FifoAmongEquals`, `MergeIsTheLoop`, `MutualExclusion`,
`TimeoutsInTimedWaits` (to be proved later), and the liveness properties
`RoundRobinTurns` and `TimedWaitEnds`, as liveness is out of reach of the proof system used.

## 5. What is not modelled

* Other builds: SMP, priority inheritance, sporadic scheduling, tickless timers.
* The policy of a task is fixed; `sched_setscheduler` is not an action.
* Signal handlers that run inside an interrupted wait. A signal only interrupts the wait.
* Time: a watchdog may expire at any moment after it was started.
* The watchdog that a timed wait creates and deletes when it finds a count at once.
* The window in `nxsem_destroy`. The code tests the count and stores 1 without a critical
  section (`sem_destroy.c:91-93`); a post in between would be lost and the count of a new
  waiter overwritten. The function's description (`sem_destroy.c:58-63`) makes the use of a
  destroyed semaphore undefined until it is initialized again, and likewise the destruction
  of one that tasks wait for, so its callers may not let that happen; the model takes the
  test and the store as one step and goes on with a semaphore of count 1.
* Memory exhaustion and invalid arguments: calls that fail without a change of state.
* The wrap of a count past `SEM_VALUE_MAX` in a build without assertions.

## 6. Plan

In order; each item is a module (or a pair with its abstract specification), its runs and,
where it pays, its proof.

1. `Wdog`: the list of time differences refines a set of absolute deadlines; `wd_start`
   and `wd_cancel` at every place, expiry of several watchdogs in one tick.
2. `PrioInherit`: holders, boosts and restores, with the hazards listed in `PROJECT.json`
   (a cancelled waiter, a post from an interrupt handler, `nxsem_trywait` without holder).
3. `MessageQueue`: send and receive with `nwaitnotempty` and `nwaitnotfull`, timeouts,
   and the recovery of deleted waiters.
4. `PthreadMutex` and `PthreadCond` on top of `CountingSemaphore`; joins.
5. `Signals`: masks, pending signals, handlers inside a wait; `sig_timedwait`.
6. `WorkQueue`; `waitpid` and task groups.
7. `MMHeap`: allocation and coalescing as operators, checked against a reference.
8. `CriticalSection`: the SMP lock protocol of `irq_csection.c`.
9. Proofs of `MutualExclusion`, `TimeoutsInTimedWaits` and `FifoAmongEquals`, then of the
   refinement of `Wdog`.
