--------------------------- MODULE Scheduler_proof ---------------------------
(***************************************************************************)
(* The safety invariants of the scheduler, for any set of tasks, any number *)
(* of priorities and any nesting of sched_lock(), in a build that compiles  *)
(* what is inside DEBUGASSERT().  The work is in the lemmas on the          *)
(* functions of the task lists; here each action is one of their uses.      *)
(***************************************************************************)
EXTENDS Scheduler, SchedLists_proof

(* The inductive invariant. *)
IInv ==
  /\ Safe(k)
  /\ call \in [Task -> Call]
  /\ timeslice \in [Task -> 0 .. Slice]
  /\ TargetAlive
  /\ \A t \in Task : call[t].at = "reprioritize" =>
       call[t].tcb # Idle /\ call[t].priority \in Priority

\* No call waits to change a priority: its caller would be the running task.
NoneReprioritizing == \A t \in Task : call'[t].at # "reprioritize"

(* While the running task is in no call of nxsched_setparam(), or at the end of one, *)
(* no other task is about to change a priority.                                      *)
LEMMA OnlyTheRunningTaskReprioritizes ==
  ASSUME IInv, call[rtcb].at # "reprioritize"
  PROVE  \A t \in Task : call[t].at # "reprioritize"
  BY DEF IInv, TargetAlive

(* The boot state satisfies the inductive invariant. *)
LEMMA InitIInv == Init => IInv
<1> SUFFICES ASSUME Init PROVE IInv
  OBVIOUS
<1>1. /\ k = BootState /\ call = [t \in Task |-> NoCall] /\ timeslice = [t \in Task |-> 0]
  BY DEF Init
<1>2. Safe(k)
  BY <1>1, BootIsSafe
<1>3. call \in [Task -> Call] /\ \A t \in Task : call[t].at = "none"
  BY <1>1, IdleAssumption, PrioAssumption DEF NoCall, Call
<1>4. timeslice \in [Task -> 0 .. Slice]
  BY <1>1, SliceAssumption
<1> QED BY <1>2, <1>3, <1>4 DEF IInv, TargetAlive

(* What a step has to show when it leaves no task about to change a priority. *)
LEMMA QuietStep ==
  ASSUME Safe(k'), call' \in [Task -> Call], timeslice' \in [Task -> 0 .. Slice], NoneReprioritizing
  PROVE  IInv'
  BY DEF IInv, TargetAlive, NoneReprioritizing

(* A context switch keeps the time slices within their range. *)
LEMMA ResumeSlices ==
  ASSUME Safe(k'), NEW slices \in [Task -> 0 .. Slice]
  PROVE  sched_resume_scheduler(slices) \in [Task -> 0 .. Slice]
<1>1. this_task(k') \in Task /\ Slice \in 0 .. Slice
  BY RunningTask, SliceAssumption DEF Safe
<1> QED BY <1>1 DEF sched_resume_scheduler

(* Every step keeps the inductive invariant. *)
LEMMA NextIInv ==
  ASSUME DebugAssertions = TRUE, IInv, [Next]_vars
  PROVE  IInv'
<1>1. /\ Safe(k) /\ KernelInv(k) /\ call \in [Task -> Call] /\ timeslice \in [Task -> 0 .. Slice]
      /\ rtcb \in Task /\ k.task_state[rtcb] = "running"
      /\ k.task_state[Idle] \in {"readytorun", "running"}
      /\ k.lockcount \in [Task -> Nat]
      /\ \A t \in Task \ {Idle} : k.task_state[t] # "invalid" => k.sched_priority[t] \in Priority
  BY RunningTask, Fields DEF IInv, Safe, KernelInv, KernelTypeOK, rtcb
<1>2. Slice \in Nat \ {0} /\ NoCall \in Call /\ NoCall.at = "none"
  BY SliceAssumption, IdleAssumption, PrioAssumption DEF NoCall, Call
<1>3. InTask => \A t \in Task : call[t].at # "reprioritize"
  BY OnlyTheRunningTaskReprioritizes DEF InTask
<1>4. CASE SchedLock
  <2>1. Safe(k')
    BY <1>1, <1>4, Lock DEF SchedLock
  <2> QED BY <1>1, <1>3, <1>4, <2>1, QuietStep DEF SchedLock, NoneReprioritizing
<1>5. CASE SchedUnlock
  <2>1. Safe(k')
    BY <1>1, <1>5, Unlock DEF SchedUnlock
  <2>2. timeslice' \in [Task -> 0 .. Slice]
    BY <1>1, <1>5, <2>1, ResumeSlices DEF SchedUnlock
  <2> QED BY <1>1, <1>3, <1>5, <2>1, <2>2, QuietStep DEF SchedUnlock, NoneReprioritizing
<1>6. CASE Block
  <2>1. Safe(k')
    BY <1>1, <1>6, BlockTask DEF Block, rtcb
  <2>2. timeslice' \in [Task -> 0 .. Slice]
    BY <1>1, <1>6, <2>1, ResumeSlices DEF Block
  <2> QED BY <1>1, <1>3, <1>6, <2>1, <2>2, QuietStep DEF Block, NoneReprioritizing
<1>7. CASE SchedYield
  <2>1. rtcb \in Task \ {Idle} /\ k.task_state[rtcb] # "invalid" /\ k.sched_priority[rtcb] \in Priority
    BY <1>1, <1>7 DEF SchedYield
  <2>2. Safe(k')
    BY <1>1, <1>7, <2>1, SetPriority DEF SchedYield
  <2>3. timeslice' \in [Task -> 0 .. Slice]
    BY <1>1, <1>7, <2>2, ResumeSlices DEF SchedYield
  <2> QED BY <1>1, <1>3, <1>7, <2>2, <2>3, QuietStep DEF SchedYield, NoneReprioritizing
<1>8. ASSUME NEW t \in Task, NEW p \in Priority, SetParam(t, p)
      PROVE  IInv'
  <2> DEFINE c == [at |-> "reprioritize", tcb |-> t, priority |-> p]
  <2>1. /\ InTask /\ t # Idle /\ k.task_state[t] # "invalid" /\ k' = sched_lock(k)
        /\ call' = [call EXCEPT ![rtcb] = c] /\ timeslice' = timeslice
    BY <1>8 DEF SetParam
  <2>2. /\ Safe(k') /\ this_task(k') = rtcb /\ k'.task_state = k.task_state
        /\ k'.lockcount = [k.lockcount EXCEPT ![rtcb] = k.lockcount[rtcb] + 1]
    BY <1>1, <2>1, Lock DEF rtcb
  <2>3. c \in Call
    BY PrioAssumption DEF Call, Priority
  <2>4. /\ call' \in [Task -> Call]
        /\ \A u \in Task : call'[u].at = "reprioritize" => u = rtcb /\ call'[u].tcb = t /\ call'[u].priority = p
    BY <1>1, <1>3, <2>1, <2>3
  <2>5. k'.lockcount[rtcb] > 0
    BY <1>1, <2>2
  <2> QED BY <1>1, <2>1, <2>2, <2>4, <2>5 DEF IInv, TargetAlive, rtcb
<1>9. CASE SetParamReprioritize
  <2> DEFINE t == call[rtcb].tcb
             p == call[rtcb].priority
  <2>1. t \in Task \ {Idle} /\ p \in Priority /\ k.task_state[t] # "invalid"
    BY <1>1, <1>9 DEF SetParamReprioritize, IInv, TargetAlive, Call
  <2>2. /\ k' = nxsched_setpriority(k, t, p)
        /\ timeslice' = sched_resume_scheduler(timeslice)
        /\ call' = [call EXCEPT ![rtcb].at = "unlock"]
    BY <1>9 DEF SetParamReprioritize
  <2> HIDE DEF t, p
  <2>3. Safe(k')
    BY <1>1, <2>1, <2>2, SetPriority
  <2>4. call' \in [Task -> Call] /\ NoneReprioritizing
    BY <1>1, <2>2 DEF IInv, TargetAlive, NoneReprioritizing, Call
  <2>5. timeslice' \in [Task -> 0 .. Slice]
    BY <1>1, <2>2, <2>3, ResumeSlices
  <2> QED BY <2>3, <2>4, <2>5, QuietStep
<1>10. CASE SetParamUnlock
  <2>1. Safe(k')
    BY <1>1, <1>10, Unlock DEF SetParamUnlock
  <2>2. \A t \in Task : call[t].at # "reprioritize"
    BY <1>10, OnlyTheRunningTaskReprioritizes DEF SetParamUnlock
  <2>3. call' \in [Task -> Call] /\ NoneReprioritizing
    BY <1>1, <1>2, <1>10, <2>2 DEF SetParamUnlock, NoneReprioritizing
  <2>4. timeslice' \in [Task -> 0 .. Slice]
    BY <1>1, <1>10, <2>1, ResumeSlices DEF SetParamUnlock
  <2> QED BY <2>1, <2>3, <2>4, QuietStep
<1>11. ASSUME NEW t \in Task \ {Idle}, NEW p \in Priority, TaskSetup(t, p)
       PROVE  IInv'
  <2>1. Safe(k')
    BY <1>1, <1>11, Setup DEF TaskSetup
  <2>2. timeslice' \in [Task -> 0 .. Slice]
    BY <1>1, <1>2, <1>11 DEF TaskSetup
  <2> QED BY <1>1, <1>3, <1>11, <2>1, <2>2, QuietStep DEF TaskSetup, NoneReprioritizing
<1>12. ASSUME NEW t \in Task, TaskActivate(t)
       PROVE  IInv'
  <2>1. t \in Task \ {Idle}
    BY <1>1, <1>12 DEF TaskActivate
  <2>2. Safe(k')
    BY <1>1, <1>12, <2>1, UnblockTask DEF TaskActivate
  <2>3. timeslice' \in [Task -> 0 .. Slice]
    BY <1>1, <1>12, <2>2, ResumeSlices DEF TaskActivate
  <2> QED BY <1>1, <1>3, <1>12, <2>2, <2>3, QuietStep DEF TaskActivate, NoneReprioritizing
<1>13. ASSUME NEW t \in Task, TaskDelete(t)
       PROVE  IInv'
  <2>1. Safe(k')
    BY <1>1, <1>13, DeleteTask DEF TaskDelete
  <2>2. call' \in [Task -> Call] /\ NoneReprioritizing
    BY <1>1, <1>2, <1>3, <1>13 DEF TaskDelete, NoneReprioritizing
  <2>3. timeslice' \in [Task -> 0 .. Slice]
    BY <1>1, <1>2, <1>13 DEF TaskDelete
  <2> QED BY <2>1, <2>2, <2>3, QuietStep
<1>14. CASE TaskExit
  <2>1. Safe(k')
    BY <1>1, <1>14, ExitTask DEF TaskExit, rtcb
  <2>2. timeslice' \in [Task -> 0 .. Slice]
    BY <1>1, <1>2, <1>14 DEF TaskExit
  <2> QED BY <1>1, <1>3, <1>14, <2>1, <2>2, QuietStep DEF TaskExit, NoneReprioritizing
<1>15. ASSUME NEW t \in Task, Wakeup(t)
       PROVE  IInv'
  <2>1. t \in Task \ {Idle} /\ k.task_state[t] = "waitsem" /\ k' = up_unblock_task(k, t)
        /\ call' = call /\ timeslice' = sched_resume_scheduler(timeslice)
    BY <1>1, <1>15 DEF Wakeup
  <2>2. /\ Safe(k') /\ k'.task_state[t] \in Runnable /\ Frame(k, k', t) /\ k'.lockcount = k.lockcount
        /\ k.lockcount[rtcb] > 0 => this_task(k') = rtcb
    BY <1>1, <2>1, UnblockTask DEF rtcb
  <2>3. \A u \in Task : k.task_state[u] # "invalid" => k'.task_state[u] # "invalid"
    BY <2>1, <2>2 DEF Frame, Runnable
  <2>4. TargetAlive'
    BY <1>1, <2>1, <2>2, <2>3 DEF IInv, TargetAlive, rtcb, Call
  <2>5. timeslice' \in [Task -> 0 .. Slice]
    BY <1>1, <2>1, <2>2, ResumeSlices
  <2> QED BY <1>1, <2>1, <2>2, <2>4, <2>5 DEF IInv
<1>16. CASE RoundRobinTick
  <2> DEFINE left    == IF timeslice[rtcb] > 0 THEN timeslice[rtcb] - 1 ELSE 0
             expired == left = 0 /\ k.lockcount[rtcb] = 0
             slices  == [timeslice EXCEPT ![rtcb] = IF expired THEN Slice ELSE left]
  <2>1. /\ rtcb \in Task \ {Idle} /\ call' = call
        /\ timeslice' = sched_resume_scheduler(slices)
        /\ k' = k \/ (k.lockcount[rtcb] = 0 /\ k' = up_reprioritize_rtr(k, rtcb, k.sched_priority[rtcb]))
    BY <1>1, <1>16, RoundRobinAssumption DEF RoundRobinTick
  <2>2. left \in 0 .. Slice
    BY <1>1, <1>2
  <2>3. slices \in [Task -> 0 .. Slice]
    BY <1>1, <1>2, <2>2
  <2> HIDE DEF slices
  <2>4. CASE k' = k
    <3>1. timeslice' \in [Task -> 0 .. Slice]
      BY <1>1, <2>1, <2>3, <2>4, ResumeSlices
    <3> QED BY <1>1, <2>1, <2>4, <3>1 DEF IInv, TargetAlive, rtcb
  <2>5. CASE k.lockcount[rtcb] = 0 /\ k' = up_reprioritize_rtr(k, rtcb, k.sched_priority[rtcb])
    <3>1. rtcb \in Task \ {Idle} /\ k.sched_priority[rtcb] \in Priority
      BY <1>1, <2>1
    <3>2. Safe(k')
      BY <1>1, <2>5, <3>1, ReprioritizeReady
    <3>3. NoneReprioritizing
      BY <1>1, <2>1, <2>5 DEF IInv, TargetAlive, NoneReprioritizing
    <3>4. timeslice' \in [Task -> 0 .. Slice]
      BY <2>1, <2>3, <3>2, ResumeSlices
    <3> QED BY <1>1, <2>1, <3>2, <3>3, <3>4, QuietStep
  <2> QED BY <2>1, <2>4, <2>5
<1>17. CASE UNCHANGED vars
  BY <1>17 DEF vars, IInv, TargetAlive, rtcb
<1> QED BY <1>4, <1>5, <1>6, <1>7, <1>8, <1>9, <1>10, <1>11, <1>12, <1>13, <1>14, <1>15, <1>16, <1>17
        DEF Next, Interrupt

(* The inductive invariant holds in every reachable state. *)
THEOREM Inductive ==
  ASSUME DebugAssertions = TRUE
  PROVE  Spec => []IInv
<1>1. IInv /\ [Next]_vars => IInv'
  BY NextIInv
<1> QED BY <1>1, InitIInv, PTL DEF Spec

(* Every TCB stays within its types, and only IDLE has priority 0. *)
THEOREM TypeCorrect ==
  ASSUME DebugAssertions = TRUE
  PROVE  Spec => []TypeOK
<1>1. IInv => TypeOK
  BY DEF IInv, Safe, KernelInv, TypeOK
<1> QED BY <1>1, Inductive, PTL

(* A TCB is always in exactly the list its task_state names, and the running task is *)
(* the head of g_readytorun.                                                          *)
THEOREM StatesNameListsAlways ==
  ASSUME DebugAssertions = TRUE
  PROVE  Spec => []StatesNameLists
<1>1. IInv => StatesNameLists
  BY DEF IInv, Safe, KernelInv, StatesNameLists
<1> QED BY <1>1, Inductive, PTL

(* The three lists stay in order of priority, with IDLE at the end of g_readytorun. *)
THEOREM ListsInOrderAlways ==
  ASSUME DebugAssertions = TRUE
  PROVE  Spec => []ListsInOrder
<1>1. IInv => ListsInOrder
  BY DEF IInv, Safe, KernelInv, ListsInOrder
<1> QED BY <1>1, Inductive, PTL

(* g_pendingtasks holds a task only while the running task has pre-emption disabled. *)
THEOREM NoneStrandedEver ==
  ASSUME DebugAssertions = TRUE
  PROVE  Spec => []NoneStranded
<1>1. IInv => NoneStranded
  BY DEF IInv, Safe, NoneStranded
<1> QED BY <1>1, Inductive, PTL

(* With pre-emption enabled the running task ranks highest among those that can run: *)
(* nothing is pending, and the running task is the head of a sorted list.            *)
THEOREM HighestRunsAlways ==
  ASSUME DebugAssertions = TRUE
  PROVE  Spec => []HighestRuns
<1>1. IInv => HighestRuns
  <2> SUFFICES ASSUME IInv, k.lockcount[rtcb] = 0,
                      NEW t \in Task, k.task_state[t] \in {"readytorun", "pending"}
               PROVE  k.sched_priority[t] <= k.sched_priority[rtcb]
    BY DEF HighestRuns
  <2>1. KernelInv(k) /\ PendingOnlyWhileLocked(k) /\ rtcb = k.readytorun[1] /\ rtcb \in Task
    BY RunningTask DEF IInv, Safe, rtcb
  <2>2. k.pendingtasks \in Seq(Task) /\ k.readytorun \in Seq(Task) /\ k.sched_priority \in [Task -> Int]
    BY <2>1, Fields DEF KernelInv, KernelTypeOK
  <2>3. ~InList(k.pendingtasks, t)
    BY <2>1, <2>2 DEF PendingOnlyWhileLocked, InList, rtcb
  <2>4. InList(k.readytorun, t)
    BY <2>1, <2>3 DEF KernelInv, ListsMatchStates
  <2>5. PICK i \in 1 .. Len(k.readytorun) : k.readytorun[i] = t
    BY <2>4 DEF InList
  <2>6. i = 1 \/ k.sched_priority[k.readytorun[1]] >= k.sched_priority[k.readytorun[i]]
    BY <2>1, <2>2, <2>5 DEF KernelInv, ListsPrioritized, Prioritized
  <2> QED BY <2>1, <2>2, <2>5, <2>6
<1> QED BY <1>1, Inductive, PTL

(* The TCB that nxsched_setparam() looked up is never released before it is used. *)
THEOREM TargetAliveAlways ==
  ASSUME DebugAssertions = TRUE
  PROVE  Spec => []TargetAlive
<1>1. IInv => TargetAlive
  BY DEF IInv
<1> QED BY <1>1, Inductive, PTL

(* No interrupt, new task or change of another task's priority takes the processor *)
(* from a task that has disabled pre-emption.                                      *)
THEOREM NeverPreemptedWhileLocked ==
  ASSUME DebugAssertions = TRUE
  PROVE  Spec => NotPreemptedWhileLocked
<1> DEFINE Step == /\ k.lockcount[rtcb] > 0
                   /\ \/ Interrupt
                      \/ \E t \in Task : TaskActivate(t) \/ TaskDelete(t)
                      \/ SetParamReprioritize /\ call[rtcb].tcb # rtcb
                   => this_task(k') = rtcb
<1>1. IInv /\ [Next]_vars => [Step]_vars
  <2> SUFFICES ASSUME IInv, k.lockcount[rtcb] > 0,
                      \/ Interrupt
                      \/ \E t \in Task : TaskActivate(t) \/ TaskDelete(t)
                      \/ SetParamReprioritize /\ call[rtcb].tcb # rtcb
               PROVE  this_task(k') = rtcb
    OBVIOUS
  <2>1. /\ Safe(k) /\ KernelInv(k) /\ call \in [Task -> Call] /\ rtcb \in Task
        /\ k.task_state[Idle] \in {"readytorun", "running"} /\ k.lockcount \in [Task -> Nat]
    BY RunningTask, Fields DEF IInv, Safe, KernelInv, KernelTypeOK, rtcb
  <2>2. ASSUME NEW t \in Task, Wakeup(t) \/ TaskActivate(t)
        PROVE  this_task(k') = rtcb
    <3>1. t \in Task \ {Idle} /\ k.task_state[t] \in {"waitsem", "inactive"} /\ k' = up_unblock_task(k, t)
      BY <2>1, <2>2 DEF Wakeup, TaskActivate
    <3> QED BY <2>1, <3>1, UnblockTask DEF rtcb
  <2>3. ASSUME NEW t \in Task, TaskDelete(t)
        PROVE  this_task(k') = rtcb
    BY <2>1, <2>3, DeleteTask DEF TaskDelete, rtcb
  <2>4. CASE RoundRobinTick
    BY <2>1, <2>4 DEF RoundRobinTick, rtcb
  <2>5. CASE SetParamReprioritize /\ call[rtcb].tcb # rtcb
    <3> DEFINE t == call[rtcb].tcb
               p == call[rtcb].priority
    <3>1. /\ t \in Task \ {Idle} /\ p \in Priority /\ k.task_state[t] # "invalid" /\ t # rtcb
          /\ k' = nxsched_setpriority(k, t, p)
      BY <2>1, <2>5 DEF SetParamReprioritize, IInv, TargetAlive, Call
    <3> HIDE DEF t, p
    <3> QED BY <2>1, <3>1, SetPriority DEF rtcb
  <2> QED BY <2>2, <2>3, <2>4, <2>5 DEF Interrupt
<1> QED BY <1>1, Inductive, PTL DEF Spec, NotPreemptedWhileLocked

=============================================================================
