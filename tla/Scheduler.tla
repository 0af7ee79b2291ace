------------------------------ MODULE Scheduler ------------------------------
(***************************************************************************)
(* The single-CPU scheduler as its callers drive it: the running task       *)
(* disables and enables pre-emption, blocks, yields, changes priorities,    *)
(* creates, deletes and ends tasks; interrupt handlers wake tasks and the   *)
(* timer interrupt ends time slices.  An action is one critical section of  *)
(* the code.  nxsched_setparam() is three: pre-emption is disabled around   *)
(* the change of priority, but interrupts are not.                          *)
(***************************************************************************)
EXTENDS SchedLists

CONSTANTS
  RoundRobin,       \* the tasks whose policy is SCHED_RR
  Slice,            \* MSEC2TICK(CONFIG_RR_INTERVAL)
  MaxLock           \* bound on nested sched_lock() calls

ASSUME RoundRobinAssumption == RoundRobin \subseteq Task \ {Idle}
ASSUME SliceAssumption == Slice \in Nat \ {0}
ASSUME MaxLockAssumption == MaxLock \in Nat

VARIABLES
  k,                \* the kernel state: task lists and TCB fields
  call,             \* how far each task is in a call of nxsched_setparam()
  timeslice         \* the timeslice field of every TCB

vars == <<k, call, timeslice>>

NoCall == [at |-> "none", tcb |-> Idle, priority |-> 0]

Call == [at : {"none", "reprioritize", "unlock"}, tcb : Task, priority : 0 .. MaxPrio]

Init ==
  /\ k = BootState
  /\ call = [t \in Task |-> NoCall]
  /\ timeslice = [t \in Task |-> 0]

rtcb == this_task(k)

\* The running task is executing its own code, between two calls.
InTask == call[rtcb].at = "none"

\* Called at every context switch (but the one that ends a task): the task that
\* gets the processor starts a new time slice, whatever its policy.
sched_resume_scheduler(slices) ==
  IF this_task(k') = rtcb THEN slices ELSE [slices EXCEPT ![this_task(k')] = Slice]

-----------------------------------------------------------------------------
(* Calls of the running task *)

SchedLock ==
  /\ InTask
  /\ k.lockcount[rtcb] < MaxLock
  /\ k' = sched_lock(k)
  /\ UNCHANGED <<call, timeslice>>

SchedUnlock ==
  /\ InTask
  /\ k.lockcount[rtcb] > 0
  /\ k' = sched_unlock(k)
  /\ timeslice' = sched_resume_scheduler(timeslice)
  /\ UNCHANGED call

\* A wait for an event, with or without pre-emption disabled.
Block ==
  /\ InTask
  /\ rtcb # Idle
  /\ k' = up_block_task(k, rtcb, "waitsem")
  /\ timeslice' = sched_resume_scheduler(timeslice)
  /\ UNCHANGED call

SchedYield ==
  /\ InTask
  /\ rtcb # Idle
  /\ k' = nxsched_setpriority(k, rtcb, k.sched_priority[rtcb])
  /\ timeslice' = sched_resume_scheduler(timeslice)
  /\ UNCHANGED call

\* Faulty variant: pre-emption is not disabled.
SetParam_Unlocked(tcb, priority) ==
  /\ InTask
  /\ tcb # Idle
  /\ k.task_state[tcb] # "invalid"
  /\ call' = [call EXCEPT ![rtcb] = [at |-> "reprioritize", tcb |-> tcb, priority |-> priority]]
  /\ UNCHANGED <<k, timeslice>>

SetParam(tcb, priority) ==
  /\ InTask
  /\ tcb # Idle
  /\ k.task_state[tcb] # "invalid"
  /\ k.lockcount[rtcb] < MaxLock
  /\ k' = sched_lock(k)
  /\ call' = [call EXCEPT ![rtcb] = [at |-> "reprioritize", tcb |-> tcb, priority |-> priority]]
  /\ UNCHANGED timeslice

\* A task that lowers its own priority is switched out here, inside nxsched_setpriority().
SetParamReprioritize ==
  /\ call[rtcb].at = "reprioritize"
  /\ k' = nxsched_setpriority(k, call[rtcb].tcb, call[rtcb].priority)
  /\ call' = [call EXCEPT ![rtcb].at = "unlock"]
  /\ timeslice' = sched_resume_scheduler(timeslice)

SetParamUnlock ==
  /\ call[rtcb].at = "unlock"
  /\ k' = sched_unlock(k)
  /\ call' = [call EXCEPT ![rtcb] = NoCall]
  /\ timeslice' = sched_resume_scheduler(timeslice)

TaskSetup(tcb, priority) ==
  /\ InTask
  /\ k.task_state[tcb] = "invalid"
  /\ k' = thread_schedsetup(k, tcb, priority)
  /\ UNCHANGED call
  /\ timeslice' = [timeslice EXCEPT ![tcb] = IF tcb \in RoundRobin THEN Slice ELSE 0]

TaskActivate(tcb) ==
  /\ InTask
  /\ k.task_state[tcb] = "inactive"
  /\ k' = up_unblock_task(k, tcb)
  /\ timeslice' = sched_resume_scheduler(timeslice)
  /\ UNCHANGED call

TaskDelete(tcb) ==
  /\ InTask
  /\ tcb # Idle
  /\ k.task_state[tcb] \notin {"invalid", "running"}
  /\ k' = task_terminate(k, tcb)
  /\ call' = [call EXCEPT ![tcb] = NoCall]
  /\ timeslice' = [timeslice EXCEPT ![tcb] = 0]

TaskExit ==
  /\ InTask
  /\ rtcb # Idle
  /\ k' = task_exit(k)
  /\ timeslice' = [timeslice EXCEPT ![rtcb] = 0]
  /\ UNCHANGED call

-----------------------------------------------------------------------------
(* Interrupt handlers; a task may also wake a task *)

Wakeup(tcb) ==
  /\ k.task_state[tcb] = "waitsem"
  /\ k' = up_unblock_task(k, tcb)
  /\ timeslice' = sched_resume_scheduler(timeslice)
  /\ UNCHANGED call

\* Faulty variant: a slice that ended while pre-emption was disabled is counted down again.
RoundRobinTick_PastZero ==
  /\ rtcb \in RoundRobin
  /\ LET left    == timeslice[rtcb] - 1
         expired == left = 0 /\ k.lockcount[rtcb] = 0
     IN  /\ k' = IF /\ expired
                    /\ Len(k.readytorun) > 1
                    /\ k.sched_priority[k.readytorun[2]] >= k.sched_priority[rtcb]
                 THEN up_reprioritize_rtr(k, rtcb, k.sched_priority[rtcb])
                 ELSE k
         /\ timeslice' = sched_resume_scheduler(
              [timeslice EXCEPT ![rtcb] = IF expired THEN Slice ELSE left])
  /\ UNCHANGED call

\* Faulty variant: a slice that ends while pre-emption is disabled is renewed at once.
RoundRobinTick_RenewedWhileLocked ==
  /\ rtcb \in RoundRobin
  /\ LET left    == IF timeslice[rtcb] > 0 THEN timeslice[rtcb] - 1 ELSE 0
         expired == left = 0 /\ k.lockcount[rtcb] = 0
     IN  /\ k' = IF /\ expired
                    /\ Len(k.readytorun) > 1
                    /\ k.sched_priority[k.readytorun[2]] >= k.sched_priority[rtcb]
                 THEN up_reprioritize_rtr(k, rtcb, k.sched_priority[rtcb])
                 ELSE k
         /\ timeslice' = sched_resume_scheduler(
              [timeslice EXCEPT ![rtcb] = IF left = 0 THEN Slice ELSE left])
  /\ UNCHANGED call

\* sched_process_timer() with a running task of policy SCHED_RR
RoundRobinTick ==
  /\ rtcb \in RoundRobin
  /\ LET left    == IF timeslice[rtcb] > 0 THEN timeslice[rtcb] - 1 ELSE 0
         expired == left = 0 /\ k.lockcount[rtcb] = 0
     IN  /\ k' = IF /\ expired
                    /\ Len(k.readytorun) > 1
                    /\ k.sched_priority[k.readytorun[2]] >= k.sched_priority[rtcb]
                 THEN up_reprioritize_rtr(k, rtcb, k.sched_priority[rtcb])
                 ELSE k
         /\ timeslice' = sched_resume_scheduler(
              [timeslice EXCEPT ![rtcb] = IF expired THEN Slice ELSE left])
  /\ UNCHANGED call

Interrupt ==
  \/ RoundRobinTick
  \/ \E t \in Task : Wakeup(t)

Next ==
  \/ SchedLock
  \/ SchedUnlock
  \/ Block
  \/ SchedYield
  \/ \E t \in Task, p \in Priority : SetParam(t, p)
  \/ SetParamReprioritize
  \/ SetParamUnlock
  \/ \E t \in Task \ {Idle}, p \in Priority : TaskSetup(t, p)
  \/ \E t \in Task : TaskActivate(t)
  \/ \E t \in Task : TaskDelete(t)
  \/ TaskExit
  \/ Interrupt

Spec == Init /\ [][Next]_vars

\* The timer interrupt keeps coming.  Nothing is assumed of the tasks.
FairSpec == Spec /\ WF_vars(RoundRobinTick)

-----------------------------------------------------------------------------
(* Properties *)

TypeOK ==
  /\ KernelTypeOK(k)
  /\ call \in [Task -> Call]
  /\ timeslice \in [Task -> 0 .. Slice]

\* Every TCB is in exactly the list that its task_state names (TLIST_HEAD relies
\* on it to find the list), once, and only the head of g_readytorun is running.
StatesNameLists == ListsMatchStates(k)

\* "This is a prioritized list with head of the list holding the highest priority
\* (unassigned) task" (sched.h); the same holds of the pending and waiting lists.
ListsInOrder == ListsPrioritized(k)

\* No task that is able to run is left in g_pendingtasks once pre-emption is
\* enabled again, whichever way the processor changed hands in between.
NoneStranded == PendingOnlyWhileLocked(k)

\* With pre-emption enabled the running task has the highest priority of all
\* the tasks that can run.
HighestRuns ==
  k.lockcount[rtcb] = 0 =>
    \A t \in Task : k.task_state[t] \in {"readytorun", "pending"} =>
      k.sched_priority[t] <= k.sched_priority[rtcb]

\* nxsched_setparam() looks the TCB up with pre-emption disabled but interrupts
\* enabled: when it comes to change the priority the caller is still the running
\* task, with pre-emption disabled, and the TCB has not been released.
TargetAlive ==
  \A t \in Task : call[t].at = "reprioritize" =>
    /\ t = rtcb
    /\ k.lockcount[t] > 0
    /\ k.task_state[call[t].tcb] # "invalid"

\* An interrupt handler, a new task or a change to another task's priority never
\* takes the processor from a task that has disabled pre-emption (sched_lock.c).
NotPreemptedWhileLocked ==
  [][ /\ k.lockcount[rtcb] > 0
      /\ \/ Interrupt
         \/ \E t \in Task : TaskActivate(t) \/ TaskDelete(t)
         \/ SetParamReprioritize /\ call[rtcb].tcb # rtcb
      => this_task(k') = rtcb ]_vars

\* t is in line for the processor in front of u: the pending tasks are merged in
\* behind the ready tasks of their priority.
Ahead(s, t, u) ==
  \/ \E i, j \in 1 .. Len(s.readytorun) : i < j /\ s.readytorun[i] = t /\ s.readytorun[j] = u
  \/ \E i, j \in 1 .. Len(s.pendingtasks) : i < j /\ s.pendingtasks[i] = t /\ s.pendingtasks[j] = u
  \/ InList(s.readytorun, t) /\ InList(s.pendingtasks, u)

\* Tasks of equal priority keep their order in the line, through pre-emption, the
\* pending list and its merge: a pre-empted task stays ahead of its equals, and only a
\* task that gives up its turn (yield, end of its time slice, a new priority) goes
\* behind them.
FifoAmongEquals ==
  [][ \A t, u \in Task :
        /\ Ahead(k, t, u)
        /\ k.sched_priority[t] = k.sched_priority[u]
        /\ ~(t = rtcb /\ (SchedYield \/ RoundRobinTick))
        /\ ~(SetParamReprioritize /\ call[rtcb].tcb \in {t, u})
        => ~Ahead(k', u, t) ]_vars

\* A tick that is charged, with pre-emption enabled, to a task of the same priority as t.
EqualTick(t) ==
  /\ RoundRobinTick
  /\ k.lockcount[rtcb] = 0
  /\ k.sched_priority[rtcb] = k.sched_priority[t]

\* t is ready and nobody is about to set its priority, which would send it to the back.
InLine(t) ==
  /\ k.task_state[t] = "readytorun"
  /\ \A u \in Task : ~(call[u].at = "reprioritize" /\ call[u].tcb = t)

\* As long as no task of higher priority gets the processor, round robin starves no one:
\* a task in line runs before its equals have been charged ticks for ever, although they
\* never block, disable pre-emption when a slice is about to end, or wake up again and again.
RoundRobinTurns ==
  \A t \in RoundRobin :
    []<><<EqualTick(t)>>_vars =>
      []<>~(InLine(t) /\ k.sched_priority[rtcb] <= k.sched_priority[t])

\* "tasks with equal priority and share CPU time via time-slicing" (NuttxUserGuide.html):
\* a task in line gets a share of the time that its equals go on using.
EqualsShareTime ==
  \A t \in RoundRobin : []<><<EqualTick(t)>>_vars => []<>~InLine(t)

\* "The task that calls this function will be the only task that is allowed to run
\* until it either calls sched_unlock() (the appropriate number of times) or until
\* it blocks itself" (sched_lock.c).
LockedRunsAlone ==
  [][ k.lockcount[rtcb] > 0 /\ this_task(k') # rtcb =>
        k'.lockcount[rtcb] = 0 \/ k'.task_state[rtcb] \in {"waitsem", "invalid"} ]_vars

=============================================================================
