----------------------------- MODULE SchedLists -----------------------------
(***************************************************************************)
(* The task lists of the single-CPU NuttX scheduler (CONFIG_SMP off) and    *)
(* the functions that move a TCB between them.  Every one of these          *)
(* functions runs inside a critical section (interrupts disabled), so each  *)
(* is an operator from one kernel state to the next, and a handler that     *)
(* calls several of them is the composition of the operators.               *)
(*                                                                          *)
(* A kernel state k is a record with                                        *)
(*   readytorun           g_readytorun, head first; the head is running     *)
(*   pendingtasks         g_pendingtasks                                    *)
(*   waitingforsemaphore  g_waitingforsemaphore                             *)
(*   task_state           the task_state field of every TCB                 *)
(*   sched_priority       the sched_priority field of every TCB             *)
(*   lockcount            the lockcount field of every TCB                  *)
(* The order of g_inactivetasks is never looked at: its tasks are the ones  *)
(* whose state is "inactive".  "invalid" is TSTATE_TASK_INVALID, the state  *)
(* of a TCB that is in no list (not yet set up, or already released).       *)
(***************************************************************************)
EXTENDS Integers, Sequences, FiniteSets, SequencesExt

CONSTANTS
  Task,             \* the TCBs
  Idle,             \* the IDLE task, at the tail of g_readytorun
  MaxPrio,          \* SCHED_PRIORITY_MAX
  DebugAssertions   \* CONFIG_DEBUG_ASSERTIONS: what is inside DEBUGASSERT() is compiled

ASSUME IdleAssumption == Idle \in Task
ASSUME PrioAssumption == MaxPrio \in Nat \ {0}
ASSUME DebugAssumption == DebugAssertions \in BOOLEAN

\* SCHED_PRIORITY_MIN .. SCHED_PRIORITY_MAX; the IDLE task alone has SCHED_PRIORITY_IDLE (0)
Priority == 1 .. MaxPrio

TaskState == {"invalid", "inactive", "waitsem", "pending", "readytorun", "running"}

KernelState ==
  [readytorun          : Seq(Task),
   pendingtasks        : Seq(Task),
   waitingforsemaphore : Seq(Task),
   task_state          : [Task -> TaskState],
   sched_priority      : [Task -> Int],
   lockcount           : [Task -> Nat]]

\* After os_start: only the IDLE task exists, and it is running.
BootState ==
  [readytorun          |-> <<Idle>>,
   pendingtasks        |-> <<>>,
   waitingforsemaphore |-> <<>>,
   task_state          |-> [t \in Task |-> IF t = Idle THEN "running" ELSE "invalid"],
   sched_priority      |-> [t \in Task |-> 0],
   lockcount           |-> [t \in Task |-> 0]]

this_task(k) == Head(k.readytorun)

-----------------------------------------------------------------------------
(* The prioritized lists *)

InList(list, tcb) == \E i \in 1 .. Len(list) : list[i] = tcb

\* Faulty variant: a task is put ahead of the tasks of its own priority.
FirstBelow_BeforeEquals(list, prio, p) ==
  CHOOSE i \in 1 .. Len(list) + 1 :
    /\ \A j \in 1 .. i - 1 : p < prio[list[j]]
    /\ i <= Len(list) => prio[list[i]] <= p

\* The place of the first task of the list that ranks below priority p, or one past the end.
FirstBelow(list, prio, p) ==
  CHOOSE i \in 1 .. Len(list) + 1 :
    /\ \A j \in 1 .. i - 1 : p <= prio[list[j]]
    /\ i <= Len(list) => prio[list[i]] < p

sched_addprioritized(list, prio, tcb) ==
  InsertAt(list, FirstBelow(list, prio, prio[tcb]), tcb)

dq_rem(list, tcb) ==
  RemoveAt(list, CHOOSE i \in 1 .. Len(list) : list[i] = tcb)

\* Faulty variant: the pre-emption lock of the running task is not looked at.
sched_addreadytorun_IgnoresLock(k, btcb) ==
  LET rtcb == this_task(k)
      list == sched_addprioritized(k.readytorun, k.sched_priority, btcb)
  IN  [k EXCEPT
         !.readytorun = list,
         !.task_state = IF Head(list) = btcb
                        THEN [@ EXCEPT ![btcb] = "running", ![rtcb] = "readytorun"]
                        ELSE [@ EXCEPT ![btcb] = "readytorun"]]

sched_addreadytorun(k, btcb) ==
  LET rtcb == this_task(k)
      list == sched_addprioritized(k.readytorun, k.sched_priority, btcb)
  IN  IF k.lockcount[rtcb] > 0 /\ k.sched_priority[rtcb] < k.sched_priority[btcb]
      THEN [k EXCEPT
              !.pendingtasks = sched_addprioritized(@, k.sched_priority, btcb),
              !.task_state[btcb] = "pending"]
      ELSE [k EXCEPT
              !.readytorun = list,
              !.task_state = IF Head(list) = btcb
                             THEN [@ EXCEPT ![btcb] = "running", ![rtcb] = "readytorun"]
                             ELSE [@ EXCEPT ![btcb] = "readytorun"]]

\* The next task is marked running at once when the head is the one removed.
sched_removereadytorun(k, rtcb) ==
  LET list == dq_rem(k.readytorun, rtcb)
  IN  [k EXCEPT
         !.readytorun = list,
         !.task_state = [@ EXCEPT ![rtcb] = "invalid", ![Head(list)] = "running"]]

\* The loop over g_pendingtasks puts the j-th pending task behind every ready task
\* that does not rank below it and behind the pending tasks before it: at this place.
MergePlace(k, j) ==
  j - 1 + FirstBelow(k.readytorun, k.sched_priority, k.sched_priority[k.pendingtasks[j]])

\* How many pending tasks end up at place i or before.
MergedBy(k, i) == Cardinality({j \in 1 .. Len(k.pendingtasks) : MergePlace(k, j) <= i})

MergedList(k) ==
  [i \in 1 .. Len(k.readytorun) + Len(k.pendingtasks) |->
     IF \E j \in 1 .. Len(k.pendingtasks) : MergePlace(k, j) = i
     THEN k.pendingtasks[MergedBy(k, i)]
     ELSE k.readytorun[i - MergedBy(k, i)]]

\* Faulty variant: the old head of g_readytorun keeps its state.
sched_mergepending_OldHeadRunning(k) ==
  LET list == MergedList(k)
  IN  [k EXCEPT
         !.readytorun   = list,
         !.pendingtasks = <<>>,
         !.task_state   = [t \in Task |->
             IF t = list[1] THEN "running"
             ELSE IF InList(k.pendingtasks, t) THEN "readytorun"
             ELSE k.task_state[t]]]

sched_mergepending(k) ==
  LET list == MergedList(k)
  IN  [k EXCEPT
         !.readytorun   = list,
         !.pendingtasks = <<>>,
         !.task_state   = [t \in Task |->
             IF t = list[1] THEN "running"
             ELSE IF t = this_task(k) \/ InList(k.pendingtasks, t) THEN "readytorun"
             ELSE k.task_state[t]]]

-----------------------------------------------------------------------------
(* Blocking, unblocking and reprioritizing (arch/arm/src/armv7-m) *)

\* Every list of blocked tasks is prioritized but g_inactivetasks.
sched_addblocked(k, btcb, state) ==
  [k EXCEPT
     !.waitingforsemaphore =
        IF state = "waitsem" THEN sched_addprioritized(@, k.sched_priority, btcb) ELSE @,
     !.task_state[btcb] = state]

sched_removeblocked(k, btcb) ==
  [k EXCEPT
     !.waitingforsemaphore = IF k.task_state[btcb] = "waitsem" THEN dq_rem(@, btcb) ELSE @,
     !.task_state[btcb] = "invalid"]

\* Faulty variant: the pending tasks are not merged when the running task blocks.
up_block_task_NoMerge(k, tcb, state) ==
  sched_addblocked(sched_removereadytorun(k, tcb), tcb, state)

up_block_task(k, tcb, state) ==
  sched_mergepending(sched_addblocked(sched_removereadytorun(k, tcb), tcb, state))

up_unblock_task(k, tcb) ==
  sched_addreadytorun(sched_removeblocked(k, tcb), tcb)

up_release_pending(k) ==
  sched_mergepending(k)

\* Faulty variant: the pending tasks are not merged before the context switch.
up_reprioritize_rtr_NoMerge(k, tcb, priority) ==
  sched_addreadytorun(
    [sched_removereadytorun(k, tcb) EXCEPT !.sched_priority[tcb] = priority], tcb)

\* The context switch, and with it the merge, happens when exactly one of the
\* removal and the insertion changed the head of g_readytorun.
up_reprioritize_rtr(k, tcb, priority) ==
  LET removed == sched_removereadytorun(k, tcb)
      added   == sched_addreadytorun([removed EXCEPT !.sched_priority[tcb] = priority], tcb)
  IN  IF (this_task(k) = tcb) # (this_task(added) = tcb)
      THEN sched_mergepending(added)
      ELSE added

sched_running_setpriority(k, tcb, priority) ==
  IF priority <= k.sched_priority[k.readytorun[2]]
  THEN up_reprioritize_rtr(k, tcb, priority)
  ELSE [k EXCEPT !.sched_priority[tcb] = priority]

\* Both list operations of the second branch stand inside DEBUGASSERT().
sched_readytorun_setpriority(k, tcb, priority) ==
  IF priority > k.sched_priority[this_task(k)]
  THEN up_reprioritize_rtr(k, tcb, priority)
  ELSE IF DebugAssertions
       THEN sched_addreadytorun(
              [sched_removereadytorun(k, tcb) EXCEPT !.sched_priority[tcb] = priority], tcb)
       ELSE [k EXCEPT !.sched_priority[tcb] = priority]

\* Faulty variant: the task keeps its place in its list.
sched_blocked_setpriority_InPlace(k, tcb, priority) ==
  [k EXCEPT !.sched_priority[tcb] = priority]

sched_blocked_setpriority(k, tcb, priority) ==
  LET prio == [k.sched_priority EXCEPT ![tcb] = priority]
      requeue(list) == sched_addprioritized(dq_rem(list, tcb), prio, tcb)
  IN  [k EXCEPT
         !.pendingtasks = IF k.task_state[tcb] = "pending" THEN requeue(@) ELSE @,
         !.waitingforsemaphore = IF k.task_state[tcb] = "waitsem" THEN requeue(@) ELSE @,
         !.sched_priority = prio]

nxsched_setpriority(k, tcb, priority) ==
  CASE k.task_state[tcb] = "running"    -> sched_running_setpriority(k, tcb, priority)
    [] k.task_state[tcb] = "readytorun" -> sched_readytorun_setpriority(k, tcb, priority)
    [] OTHER                            -> sched_blocked_setpriority(k, tcb, priority)

-----------------------------------------------------------------------------
(* Pre-emption, and the life of a task *)

sched_lock(k) == [k EXCEPT !.lockcount[this_task(k)] = @ + 1]

sched_unlock(k) ==
  LET rtcb     == this_task(k)
      unlocked == [k EXCEPT !.lockcount[rtcb] = IF @ > 0 THEN @ - 1 ELSE 0]
  IN  IF unlocked.lockcount[rtcb] = 0 THEN up_release_pending(unlocked) ELSE unlocked

\* A new TCB, all zero from kmm_zalloc(), goes into g_inactivetasks.
thread_schedsetup(k, tcb, priority) ==
  [k EXCEPT !.task_state[tcb] = "inactive",
            !.sched_priority[tcb] = priority]

\* The TCB leaves the list its state names and is released: a released TCB is all zero.
task_terminate(k, dtcb) ==
  [k EXCEPT
     !.readytorun = IF k.task_state[dtcb] = "readytorun" THEN dq_rem(@, dtcb) ELSE @,
     !.pendingtasks = IF k.task_state[dtcb] = "pending" THEN dq_rem(@, dtcb) ELSE @,
     !.waitingforsemaphore = IF k.task_state[dtcb] = "waitsem" THEN dq_rem(@, dtcb) ELSE @,
     !.task_state[dtcb] = "invalid",
     !.sched_priority[dtcb] = 0,
     !.lockcount[dtcb] = 0]

task_exit(k) ==
  LET dtcb == this_task(k)
  IN  sched_mergepending(
        task_terminate(sched_addblocked(sched_removereadytorun(k, dtcb), dtcb, "inactive"), dtcb))

-----------------------------------------------------------------------------
(* What every function above keeps *)

NoDuplicates(list) == \A i, j \in 1 .. Len(list) : list[i] = list[j] => i = j

Prioritized(list, prio) ==
  \A i, j \in 1 .. Len(list) : i < j => prio[list[i]] >= prio[list[j]]

KernelTypeOK(k) ==
  /\ k \in KernelState
  /\ k.sched_priority[Idle] = 0
  /\ \A t \in Task \ {Idle} : k.task_state[t] # "invalid" => k.sched_priority[t] \in Priority

\* The state of a TCB names the one list that holds it, once; the running task is the head.
ListsMatchStates(k) ==
  /\ NoDuplicates(k.readytorun)
  /\ NoDuplicates(k.pendingtasks)
  /\ NoDuplicates(k.waitingforsemaphore)
  /\ \A t \in Task :
       /\ InList(k.readytorun, t) <=> k.task_state[t] \in {"readytorun", "running"}
       /\ InList(k.pendingtasks, t) <=> k.task_state[t] = "pending"
       /\ InList(k.waitingforsemaphore, t) <=> k.task_state[t] = "waitsem"
       /\ k.task_state[t] = "running" <=> t = this_task(k)

\* Each list is in order of priority and the IDLE task ends the ready-to-run list.
ListsPrioritized(k) ==
  /\ Prioritized(k.readytorun, k.sched_priority)
  /\ Prioritized(k.pendingtasks, k.sched_priority)
  /\ Prioritized(k.waitingforsemaphore, k.sched_priority)
  /\ Len(k.readytorun) > 0
  /\ k.readytorun[Len(k.readytorun)] = Idle

\* A task waits in g_pendingtasks only while the running task has pre-emption disabled.
PendingOnlyWhileLocked(k) ==
  Len(k.pendingtasks) > 0 => k.lockcount[this_task(k)] > 0

=============================================================================
