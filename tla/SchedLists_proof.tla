-------------------------- MODULE SchedLists_proof --------------------------
(***************************************************************************)
(* What the functions that move TCBs keep, for any number of tasks and      *)
(* priorities: KernelInv below, and where a caller needs it, that a task    *)
(* is pending only while the running task has pre-emption disabled.         *)
(***************************************************************************)
EXTENDS ListLemmas

Runnable == {"pending", "readytorun", "running"}

KernelInv(k) == KernelTypeOK(k) /\ ListsMatchStates(k) /\ ListsPrioritized(k)

\* From k to l every task but tcb stays runnable, or in the state it has.
Frame(k, l, tcb) ==
  \A u \in Task \ {tcb} :
    l.task_state[u] = k.task_state[u] \/ {k.task_state[u], l.task_state[u]} \subseteq Runnable

\* From k to l the state of tcb becomes s and every other task keeps its state.
NewState(k, l, tcb, s) ==
  \A u \in Task : l.task_state[u] = IF u = tcb THEN s ELSE k.task_state[u]

(* The types of the fields of a kernel state. *)
LEMMA Fields ==
  ASSUME NEW k, k \in KernelState
  PROVE  /\ k.readytorun \in Seq(Task)
         /\ k.pendingtasks \in Seq(Task)
         /\ k.waitingforsemaphore \in Seq(Task)
         /\ k.task_state \in [Task -> TaskState]
         /\ k.sched_priority \in [Task -> Int]
         /\ k.lockcount \in [Task -> Nat]
  BY DEF KernelState

(* The running task is the head of g_readytorun, and IDLE, in its tail, is always ready. *)
LEMMA RunningTask ==
  ASSUME NEW k, KernelInv(k)
  PROVE  /\ this_task(k) = k.readytorun[1]
         /\ this_task(k) \in Task
         /\ k.task_state[this_task(k)] = "running"
         /\ Len(k.readytorun) \in Nat \ {0}
         /\ k.task_state[Idle] \in {"readytorun", "running"}
         /\ k.sched_priority[Idle] = 0
         /\ \A t \in Task \ {Idle} : k.task_state[t] # "invalid" => k.sched_priority[t] \in Priority
<1>1. k \in KernelState /\ k.readytorun \in Seq(Task) /\ Len(k.readytorun) > 0
  BY Fields DEF KernelInv, KernelTypeOK, ListsPrioritized
<1>2. Head(k.readytorun) = k.readytorun[1] /\ k.readytorun[1] \in Task /\ Len(k.readytorun) \in Nat
  BY <1>1
<1>3. InList(k.readytorun, Idle)
  BY <1>1, <1>2 DEF KernelInv, ListsPrioritized, InList
<1> QED BY <1>1, <1>2, <1>3, IdleAssumption
         DEF this_task, KernelInv, ListsMatchStates, KernelTypeOK

-----------------------------------------------------------------------------
(* The functions that add to or remove from one list *)

(* sched_addreadytorun() keeps the invariant; the running task loses the processor only *)
(* to the new task and only with pre-emption enabled, and a task becomes pending only   *)
(* with pre-emption disabled.                                                           *)
LEMMA AddReady ==
  ASSUME NEW k, KernelInv(k), NEW tcb \in Task \ {Idle},
         k.task_state[tcb] = "invalid", k.sched_priority[tcb] \in Priority
  PROVE  LET l == sched_addreadytorun(k, tcb)
         IN  /\ KernelInv(l)
             /\ l.task_state[tcb] \in Runnable
             /\ Frame(k, l, tcb)
             /\ l.sched_priority = k.sched_priority
             /\ l.lockcount = k.lockcount
             /\ l.waitingforsemaphore = k.waitingforsemaphore
             /\ \/ this_task(l) = this_task(k)
                \/ this_task(l) = tcb /\ k.lockcount[this_task(k)] = 0
             /\ \/ l.pendingtasks = k.pendingtasks
                \/ this_task(l) = this_task(k) /\ k.lockcount[this_task(k)] > 0
             /\ l.task_state[tcb] = "pending" =>
                  this_task(l) = this_task(k) /\ k.lockcount[this_task(k)] > 0
<1> DEFINE r    == this_task(k)
           prio == k.sched_priority
           l    == sched_addreadytorun(k, tcb)
           ready   == sched_addprioritized(k.readytorun, prio, tcb)
           pending == sched_addprioritized(k.pendingtasks, prio, tcb)
<1>0. tcb \in Task /\ tcb # Idle
  OBVIOUS
<1>1. /\ k.readytorun \in Seq(Task) /\ k.pendingtasks \in Seq(Task) /\ k.waitingforsemaphore \in Seq(Task)
      /\ k.task_state \in [Task -> TaskState] /\ prio \in [Task -> Int] /\ k.lockcount \in [Task -> Nat]
      /\ k \in KernelState
  BY Fields DEF KernelInv, KernelTypeOK
<1>2. /\ r = k.readytorun[1] /\ r \in Task /\ k.task_state[r] = "running"
      /\ Len(k.readytorun) \in Nat \ {0} /\ prio[Idle] = 0 /\ prio[tcb] > 0
  BY RunningTask DEF Priority
<1>3. /\ ~InList(k.readytorun, tcb) /\ NoDuplicates(k.readytorun) /\ Prioritized(k.readytorun, prio)
      /\ ~InList(k.pendingtasks, tcb) /\ NoDuplicates(k.pendingtasks) /\ Prioritized(k.pendingtasks, prio)
      /\ k.readytorun[Len(k.readytorun)] = Idle
  BY DEF KernelInv, ListsMatchStates, ListsPrioritized
<1>4. /\ ready \in Seq(Task) /\ Len(ready) = Len(k.readytorun) + 1
      /\ NoDuplicates(ready) /\ Prioritized(ready, prio)
      /\ \A t \in Task : InList(ready, t) <=> InList(k.readytorun, t) \/ t = tcb
      /\ ready[1] = IF prio[r] < prio[tcb] THEN tcb ELSE r
      /\ ready[Len(ready)] = Idle
  <2>1. Added(ready, k.readytorun, prio, tcb)
    BY <1>0, <1>1, <1>3, AddPrioritized
  <2> QED BY <1>2, <1>3, <2>1 DEF Added
<1>5. /\ pending \in Seq(Task) /\ NoDuplicates(pending) /\ Prioritized(pending, prio)
      /\ \A t \in Task : InList(pending, t) <=> InList(k.pendingtasks, t) \/ t = tcb
  <2>1. Added(pending, k.pendingtasks, prio, tcb)
    BY <1>0, <1>1, <1>3, AddPrioritized
  <2> QED BY <2>1 DEF Added
<1>6. Head(ready) = ready[1]
  BY <1>2, <1>4
<1> HIDE DEF ready, pending
<1>7. CASE k.lockcount[r] > 0 /\ prio[r] < prio[tcb]
  <2>1. l = [k EXCEPT !.pendingtasks = pending, !.task_state[tcb] = "pending"]
    BY <1>7 DEF sched_addreadytorun, pending
  <2> HIDE DEF l
  <2>2. /\ l \in KernelState
        /\ l.readytorun = k.readytorun /\ l.pendingtasks = pending
        /\ l.waitingforsemaphore = k.waitingforsemaphore
        /\ l.task_state = [k.task_state EXCEPT ![tcb] = "pending"]
        /\ l.sched_priority = prio /\ l.lockcount = k.lockcount
    BY <1>1, <1>5, <2>1 DEF KernelState, TaskState
  <2>3. this_task(l) = r
    BY <2>2 DEF this_task
  <2>4. KernelTypeOK(l)
    BY <1>1, <2>2 DEF KernelInv, KernelTypeOK
  <2>5. ListsMatchStates(l)
    BY <1>1, <1>2, <1>5, <2>2, <2>3 DEF KernelInv, ListsMatchStates
  <2>6. ListsPrioritized(l)
    BY <1>5, <2>2 DEF KernelInv, ListsPrioritized
  <2> QED BY <1>1, <1>7, <2>2, <2>3, <2>4, <2>5, <2>6 DEF KernelInv, Frame, Runnable, l
<1>8. CASE ~(k.lockcount[r] > 0 /\ prio[r] < prio[tcb])
  <2> DEFINE state == IF prio[r] < prio[tcb]
                      THEN [k.task_state EXCEPT ![tcb] = "running", ![r] = "readytorun"]
                      ELSE [k.task_state EXCEPT ![tcb] = "readytorun"]
  <2>1. l = [k EXCEPT !.readytorun = ready, !.task_state = state]
    <3>1. tcb # r
      BY <1>2
    <3> QED BY <1>2, <1>4, <1>6, <1>8, <3>1 DEF sched_addreadytorun, ready
  <2> HIDE DEF l
  <2>2. state \in [Task -> TaskState]
    BY <1>1, <1>2 DEF TaskState
  <2>a. /\ prio[r] < prio[tcb] =>
             \A u \in Task : state[u] = IF u = r THEN "readytorun" ELSE IF u = tcb THEN "running"
                                        ELSE k.task_state[u]
        /\ ~(prio[r] < prio[tcb]) =>
             \A u \in Task : state[u] = IF u = tcb THEN "readytorun" ELSE k.task_state[u]
    BY <1>1, <1>2
  <2>3. /\ l \in KernelState
        /\ l.readytorun = ready /\ l.pendingtasks = k.pendingtasks
        /\ l.waitingforsemaphore = k.waitingforsemaphore
        /\ l.task_state = state
        /\ l.sched_priority = prio /\ l.lockcount = k.lockcount
    BY <1>1, <1>4, <2>1, <2>2 DEF KernelState
  <2>4. this_task(l) = IF prio[r] < prio[tcb] THEN tcb ELSE r
    BY <1>2, <1>4, <1>6, <2>3 DEF this_task
  <2>5. KernelTypeOK(l)
    BY <1>1, <1>2, <2>3 DEF KernelInv, KernelTypeOK
  <2> HIDE DEF state
  <2>6. ListsMatchStates(l)
    <3>1. ASSUME NEW u \in Task
          PROVE  /\ InList(ready, u) <=> state[u] \in {"readytorun", "running"}
                 /\ InList(k.pendingtasks, u) <=> state[u] = "pending"
                 /\ InList(k.waitingforsemaphore, u) <=> state[u] = "waitsem"
                 /\ state[u] = "running" <=> u = this_task(l)
      <4>1. /\ InList(k.readytorun, u) <=> k.task_state[u] \in {"readytorun", "running"}
            /\ InList(k.pendingtasks, u) <=> k.task_state[u] = "pending"
            /\ InList(k.waitingforsemaphore, u) <=> k.task_state[u] = "waitsem"
            /\ k.task_state[u] = "running" <=> u = r
        BY DEF KernelInv, ListsMatchStates
      <4>2. InList(ready, u) <=> InList(k.readytorun, u) \/ u = tcb
        BY <1>4
      <4> QED BY <1>2, <2>a, <2>4, <4>1, <4>2
    <3> QED BY <1>4, <2>3, <3>1 DEF KernelInv, ListsMatchStates
  <2>7. ListsPrioritized(l)
    BY <1>2, <1>4, <2>3 DEF KernelInv, ListsPrioritized
  <2>8. Frame(k, l, tcb) /\ l.task_state[tcb] \in Runnable /\ l.task_state[tcb] # "pending"
    BY <1>1, <1>2, <2>a, <2>3 DEF Frame, Runnable
  <2>9. this_task(l) = r \/ (this_task(l) = tcb /\ k.lockcount[r] = 0)
    <3>1. k.lockcount[r] \in Nat
      BY <1>1, <1>2
    <3> HIDE DEF r, prio
    <3> QED BY <1>8, <2>4, <3>1
  <2> QED BY <2>3, <2>5, <2>6, <2>7, <2>8, <2>9 DEF KernelInv, l
<1> QED BY <1>7, <1>8

(* sched_removereadytorun() keeps the invariant and takes the task out. *)
LEMMA RemoveReady ==
  ASSUME NEW k, KernelInv(k), NEW tcb \in Task \ {Idle},
         k.task_state[tcb] \in {"readytorun", "running"}
  PROVE  LET l == sched_removereadytorun(k, tcb)
         IN  /\ KernelInv(l)
             /\ l.task_state[tcb] = "invalid"
             /\ Frame(k, l, tcb)
             /\ l.sched_priority = k.sched_priority
             /\ l.lockcount = k.lockcount
             /\ l.waitingforsemaphore = k.waitingforsemaphore
             /\ l.pendingtasks = k.pendingtasks
             /\ tcb # this_task(k) => this_task(l) = this_task(k)
             /\ this_task(l) \in Task \ {tcb}
<1> DEFINE r    == this_task(k)
           prio == k.sched_priority
           l    == sched_removereadytorun(k, tcb)
           list == dq_rem(k.readytorun, tcb)
           head == Head(list)
           state == [k.task_state EXCEPT ![tcb] = "invalid", ![head] = "running"]
<1>0. tcb \in Task /\ tcb # Idle
  OBVIOUS
<1>1. /\ k.readytorun \in Seq(Task) /\ k.pendingtasks \in Seq(Task) /\ k.waitingforsemaphore \in Seq(Task)
      /\ k.task_state \in [Task -> TaskState] /\ prio \in [Task -> Int] /\ k.lockcount \in [Task -> Nat]
      /\ k \in KernelState
  BY Fields DEF KernelInv, KernelTypeOK
<1>2. /\ r = k.readytorun[1] /\ r \in Task /\ k.task_state[r] = "running"
      /\ Len(k.readytorun) \in Nat \ {0}
  BY RunningTask
<1>3. /\ InList(k.readytorun, tcb) /\ NoDuplicates(k.readytorun) /\ Prioritized(k.readytorun, prio)
      /\ k.readytorun[Len(k.readytorun)] = Idle
  BY DEF KernelInv, ListsMatchStates, ListsPrioritized
<1>4. Removed(list, k.readytorun, tcb)
  BY <1>0, <1>1, <1>3, DqRem
<1> HIDE DEF list
<1>5. /\ list \in Seq(Task) /\ NoDuplicates(list) /\ Prioritized(list, prio)
      /\ \A t \in Task : InList(list, t) <=> InList(k.readytorun, t) /\ t # tcb
      /\ r # tcb => list[1] = r
      /\ Len(list) > 0 /\ list[Len(list)] = Idle
  BY <1>0, <1>2, <1>3, <1>4 DEF Removed
<1>6. head = list[1] /\ head \in Task /\ InList(list, head) /\ head # tcb
  <2>1. Head(list) = list[1] /\ list[1] \in Task /\ 1 \in 1 .. Len(list)
    BY <1>5
  <2> QED BY <1>5, <2>1 DEF InList
<1>7. l = [k EXCEPT !.readytorun = list, !.task_state = state]
  BY DEF sched_removereadytorun, list
<1> HIDE DEF l
<1>8. /\ state \in [Task -> TaskState]
      /\ \A u \in Task : state[u] = IF u = head THEN "running" ELSE IF u = tcb THEN "invalid"
                                    ELSE k.task_state[u]
  BY <1>0, <1>1, <1>6 DEF TaskState
<1> HIDE DEF state
<1>9. /\ l \in KernelState
      /\ l.readytorun = list /\ l.pendingtasks = k.pendingtasks
      /\ l.waitingforsemaphore = k.waitingforsemaphore
      /\ l.task_state = state
      /\ l.sched_priority = prio /\ l.lockcount = k.lockcount
  BY <1>1, <1>5, <1>7, <1>8 DEF KernelState
<1>10. this_task(l) = head
  BY <1>9 DEF this_task
<1>11. ASSUME NEW u \in Task
       PROVE  /\ InList(list, u) <=> state[u] \in {"readytorun", "running"}
              /\ InList(k.pendingtasks, u) <=> state[u] = "pending"
              /\ InList(k.waitingforsemaphore, u) <=> state[u] = "waitsem"
              /\ state[u] = "running" <=> u = head
              /\ state[u] = k.task_state[u] \/ u = tcb
                   \/ {k.task_state[u], state[u]} \subseteq Runnable
  <2>1. /\ InList(k.readytorun, u) <=> k.task_state[u] \in {"readytorun", "running"}
        /\ InList(k.pendingtasks, u) <=> k.task_state[u] = "pending"
        /\ InList(k.waitingforsemaphore, u) <=> k.task_state[u] = "waitsem"
        /\ k.task_state[u] = "running" <=> u = r
    BY DEF KernelInv, ListsMatchStates
  <2>2. InList(list, u) <=> InList(k.readytorun, u) /\ u # tcb
    BY <1>5
  <2>3. r # tcb => head = r
    BY <1>5, <1>6
  <2> QED BY <1>6, <1>8, <2>1, <2>2, <2>3 DEF Runnable
<1>12. ListsMatchStates(l)
  BY <1>5, <1>9, <1>10, <1>11 DEF KernelInv, ListsMatchStates
<1>13. ListsPrioritized(l)
  BY <1>5, <1>9 DEF KernelInv, ListsPrioritized
<1>14. KernelTypeOK(l)
  <2>1. \A u \in Task \ {Idle} : state[u] # "invalid" => k.task_state[u] # "invalid"
    BY <1>8, <1>11 DEF Runnable
  <2> QED BY <1>9, <2>1 DEF KernelInv, KernelTypeOK
<1> QED BY <1>0, <1>5, <1>6, <1>8, <1>9, <1>10, <1>11, <1>12, <1>13, <1>14 DEF KernelInv, Frame, l

(* sched_addblocked() keeps the invariant and changes no other task. *)
LEMMA AddBlocked ==
  ASSUME NEW k, KernelInv(k), NEW tcb \in Task \ {Idle},
         k.task_state[tcb] = "invalid", k.sched_priority[tcb] \in Priority,
         NEW s \in {"waitsem", "inactive"}
  PROVE  LET l == sched_addblocked(k, tcb, s)
         IN  /\ KernelInv(l)
             /\ NewState(k, l, tcb, s)
             /\ l.sched_priority = k.sched_priority
             /\ l.lockcount = k.lockcount
             /\ l.pendingtasks = k.pendingtasks
             /\ this_task(l) = this_task(k)
<1> DEFINE l    == sched_addblocked(k, tcb, s)
           list == IF s = "waitsem"
                   THEN sched_addprioritized(k.waitingforsemaphore, k.sched_priority, tcb)
                   ELSE k.waitingforsemaphore
<1>0. tcb \in Task /\ tcb # Idle
  OBVIOUS
<1>1. /\ k.readytorun \in Seq(Task) /\ k.pendingtasks \in Seq(Task) /\ k.waitingforsemaphore \in Seq(Task)
      /\ k.task_state \in [Task -> TaskState] /\ k.sched_priority \in [Task -> Int]
      /\ k.lockcount \in [Task -> Nat] /\ k \in KernelState
  BY Fields DEF KernelInv, KernelTypeOK
<1>2. /\ ~InList(k.waitingforsemaphore, tcb) /\ NoDuplicates(k.waitingforsemaphore)
      /\ Prioritized(k.waitingforsemaphore, k.sched_priority)
  BY <1>0 DEF KernelInv, ListsMatchStates, ListsPrioritized
<1>3. Added(sched_addprioritized(k.waitingforsemaphore, k.sched_priority, tcb),
            k.waitingforsemaphore, k.sched_priority, tcb)
  BY <1>0, <1>1, <1>2, AddPrioritized
<1>4. /\ list \in Seq(Task) /\ NoDuplicates(list) /\ Prioritized(list, k.sched_priority)
      /\ \A t \in Task : InList(list, t) <=>
           InList(k.waitingforsemaphore, t) \/ (t = tcb /\ s = "waitsem")
  BY <1>1, <1>2, <1>3 DEF Added
<1>5. l = [k EXCEPT !.waitingforsemaphore = list, !.task_state[tcb] = s]
  BY DEF sched_addblocked
<1> HIDE DEF l, list
<1>6. /\ l \in KernelState
      /\ l.readytorun = k.readytorun /\ l.pendingtasks = k.pendingtasks
      /\ l.waitingforsemaphore = list
      /\ l.task_state = [k.task_state EXCEPT ![tcb] = s]
      /\ l.sched_priority = k.sched_priority /\ l.lockcount = k.lockcount
  BY <1>1, <1>4, <1>5 DEF KernelState, TaskState
<1>7. this_task(l) = this_task(k)
  BY <1>6 DEF this_task
<1>8. ListsMatchStates(l)
  BY <1>0, <1>1, <1>4, <1>6, <1>7 DEF KernelInv, ListsMatchStates
<1>9. ListsPrioritized(l)
  BY <1>4, <1>6 DEF KernelInv, ListsPrioritized
<1>10. KernelTypeOK(l)
  BY <1>1, <1>6 DEF KernelInv, KernelTypeOK
<1> QED BY <1>0, <1>1, <1>6, <1>7, <1>8, <1>9, <1>10 DEF KernelInv, NewState, l

(* sched_removeblocked() keeps the invariant and changes no other task. *)
LEMMA RemoveBlocked ==
  ASSUME NEW k, KernelInv(k), NEW tcb \in Task \ {Idle},
         k.task_state[tcb] \in {"waitsem", "inactive"}
  PROVE  LET l == sched_removeblocked(k, tcb)
         IN  /\ KernelInv(l)
             /\ NewState(k, l, tcb, "invalid")
             /\ l.sched_priority = k.sched_priority
             /\ l.lockcount = k.lockcount
             /\ l.pendingtasks = k.pendingtasks
             /\ this_task(l) = this_task(k)
<1> DEFINE l    == sched_removeblocked(k, tcb)
           list == IF k.task_state[tcb] = "waitsem" THEN dq_rem(k.waitingforsemaphore, tcb)
                   ELSE k.waitingforsemaphore
<1>0. tcb \in Task /\ tcb # Idle
  OBVIOUS
<1>1. /\ k.readytorun \in Seq(Task) /\ k.pendingtasks \in Seq(Task) /\ k.waitingforsemaphore \in Seq(Task)
      /\ k.task_state \in [Task -> TaskState] /\ k.sched_priority \in [Task -> Int]
      /\ k.lockcount \in [Task -> Nat] /\ k \in KernelState
  BY Fields DEF KernelInv, KernelTypeOK
<1>2. /\ InList(k.waitingforsemaphore, tcb) <=> k.task_state[tcb] = "waitsem"
      /\ NoDuplicates(k.waitingforsemaphore)
      /\ Prioritized(k.waitingforsemaphore, k.sched_priority)
  BY <1>0 DEF KernelInv, ListsMatchStates, ListsPrioritized
<1>3. k.task_state[tcb] = "waitsem" =>
        Removed(dq_rem(k.waitingforsemaphore, tcb), k.waitingforsemaphore, tcb)
  BY <1>0, <1>1, <1>2, DqRem
<1>4. /\ list \in Seq(Task) /\ NoDuplicates(list) /\ Prioritized(list, k.sched_priority)
      /\ \A t \in Task : InList(list, t) <=> InList(k.waitingforsemaphore, t) /\ t # tcb
  BY <1>1, <1>2, <1>3 DEF Removed
<1>5. l = [k EXCEPT !.waitingforsemaphore = list, !.task_state[tcb] = "invalid"]
  BY DEF sched_removeblocked
<1> HIDE DEF l, list
<1>6. /\ l \in KernelState
      /\ l.readytorun = k.readytorun /\ l.pendingtasks = k.pendingtasks
      /\ l.waitingforsemaphore = list
      /\ l.task_state = [k.task_state EXCEPT ![tcb] = "invalid"]
      /\ l.sched_priority = k.sched_priority /\ l.lockcount = k.lockcount
  BY <1>1, <1>4, <1>5 DEF KernelState, TaskState
<1>7. this_task(l) = this_task(k)
  BY <1>6 DEF this_task
<1>8. ListsMatchStates(l)
  BY <1>0, <1>1, <1>4, <1>6, <1>7 DEF KernelInv, ListsMatchStates
<1>9. ListsPrioritized(l)
  BY <1>4, <1>6 DEF KernelInv, ListsPrioritized
<1>10. KernelTypeOK(l)
  BY <1>1, <1>6 DEF KernelInv, KernelTypeOK
<1> QED BY <1>0, <1>1, <1>6, <1>7, <1>8, <1>9, <1>10 DEF KernelInv, NewState, l

(* sched_mergepending() keeps the invariant, empties g_pendingtasks, and changes nothing *)
(* else but which of the tasks that can run does.                                        *)
LEMMA MergePending ==
  ASSUME NEW k, KernelInv(k)
  PROVE  LET l == sched_mergepending(k)
         IN  /\ KernelInv(l)
             /\ \A u \in Task : l.task_state[u] = k.task_state[u]
                  \/ {k.task_state[u], l.task_state[u]} \subseteq Runnable
             /\ l.sched_priority = k.sched_priority
             /\ l.lockcount = k.lockcount
             /\ Len(l.pendingtasks) = 0
             /\ Len(k.pendingtasks) = 0 => this_task(l) = this_task(k)
<1> DEFINE r     == this_task(k)
           prio  == k.sched_priority
           l     == sched_mergepending(k)
           list  == MergedList(k)
           state == [t \in Task |->
                       IF t = list[1] THEN "running"
                       ELSE IF t = r \/ InList(k.pendingtasks, t) THEN "readytorun"
                       ELSE k.task_state[t]]
<1>1. /\ k.readytorun \in Seq(Task) /\ k.pendingtasks \in Seq(Task) /\ k.waitingforsemaphore \in Seq(Task)
      /\ k.task_state \in [Task -> TaskState] /\ prio \in [Task -> Int]
      /\ k.lockcount \in [Task -> Nat] /\ k \in KernelState
  BY Fields DEF KernelInv, KernelTypeOK
<1>2. /\ r = k.readytorun[1] /\ r \in Task /\ k.task_state[r] = "running"
      /\ Len(k.readytorun) \in Nat \ {0} /\ prio[Idle] = 0
      /\ \A t \in Task \ {Idle} : k.task_state[t] # "invalid" => prio[t] > 0
  BY RunningTask DEF Priority
<1>3. /\ NoDuplicates(k.readytorun) /\ Prioritized(k.readytorun, prio)
      /\ NoDuplicates(k.pendingtasks) /\ Prioritized(k.pendingtasks, prio)
      /\ \A t \in Task : ~(InList(k.readytorun, t) /\ InList(k.pendingtasks, t))
      /\ Len(k.readytorun) > 0 /\ k.readytorun[Len(k.readytorun)] = Idle
  BY DEF KernelInv, ListsMatchStates, ListsPrioritized
<1>4. MergeOf(list, k.readytorun, k.pendingtasks, prio)
  BY <1>1, <1>3, MergedListKeeps
<1>5. \A j \in 1 .. Len(k.pendingtasks) : prio[Idle] < prio[k.pendingtasks[j]]
  <2> TAKE j \in 1 .. Len(k.pendingtasks)
  <2>1. k.pendingtasks[j] \in Task /\ InList(k.pendingtasks, k.pendingtasks[j])
    BY <1>1 DEF InList
  <2>2. k.task_state[k.pendingtasks[j]] = "pending"
    BY <2>1 DEF KernelInv, ListsMatchStates
  <2>3. k.pendingtasks[j] # Idle
    BY <2>2, RunningTask
  <2> QED BY <1>2, <2>1, <2>2, <2>3
<1> HIDE DEF list
<1>6. /\ list \in Seq(Task) /\ NoDuplicates(list) /\ Prioritized(list, prio)
      /\ \A t \in Task : InList(list, t) <=> InList(k.readytorun, t) \/ InList(k.pendingtasks, t)
      /\ list[Len(list)] = Idle
  BY <1>3, <1>4, <1>5 DEF MergeOf
<1>7. Len(list) > 0 /\ Head(list) = list[1] /\ list[1] \in Task /\ InList(list, list[1])
  <2>1. InList(list, r)
    BY <1>2, <1>6 DEF KernelInv, ListsMatchStates
  <2>2. Len(list) > 0
    BY <1>6, <2>1 DEF InList
  <2>3. Head(list) = list[1] /\ list[1] \in Task /\ 1 \in 1 .. Len(list)
    BY <1>6, <2>2
  <2> QED BY <2>2, <2>3 DEF InList
<1>8. l = [k EXCEPT !.readytorun = list, !.pendingtasks = <<>>, !.task_state = state]
  BY DEF sched_mergepending, list
<1> HIDE DEF l
<1>9. /\ state \in [Task -> TaskState]
      /\ \A u \in Task : state[u] = IF u = list[1] THEN "running"
                                    ELSE IF u = r \/ InList(k.pendingtasks, u) THEN "readytorun"
                                    ELSE k.task_state[u]
  BY <1>1 DEF TaskState
<1> HIDE DEF state
<1>10. /\ l \in KernelState
       /\ l.readytorun = list /\ l.pendingtasks = <<>>
       /\ l.waitingforsemaphore = k.waitingforsemaphore
       /\ l.task_state = state
       /\ l.sched_priority = prio /\ l.lockcount = k.lockcount
  <2>1. /\ l.readytorun = list /\ l.pendingtasks = <<>>
        /\ l.waitingforsemaphore = k.waitingforsemaphore
        /\ l.task_state = state
        /\ l.sched_priority = prio /\ l.lockcount = k.lockcount
    BY <1>1, <1>8 DEF KernelState
  <2>2. <<>> \in Seq(Task)
    OBVIOUS
  <2>3. l \in KernelState
    BY <1>1, <1>6, <1>8, <1>9, <2>2 DEF KernelState
  <2> QED BY <2>1, <2>3
<1>11. this_task(l) = list[1]
  BY <1>7, <1>10 DEF this_task
<1>12. ASSUME NEW u \in Task
       PROVE  /\ InList(list, u) <=> state[u] \in {"readytorun", "running"}
              /\ state[u] # "pending"
              /\ InList(k.waitingforsemaphore, u) <=> state[u] = "waitsem"
              /\ state[u] = "running" <=> u = list[1]
              /\ state[u] = k.task_state[u] \/ {k.task_state[u], state[u]} \subseteq Runnable
  <2>1. /\ InList(k.readytorun, u) <=> k.task_state[u] \in {"readytorun", "running"}
        /\ InList(k.pendingtasks, u) <=> k.task_state[u] = "pending"
        /\ InList(k.waitingforsemaphore, u) <=> k.task_state[u] = "waitsem"
        /\ k.task_state[u] = "running" <=> u = r
    BY DEF KernelInv, ListsMatchStates
  <2>2. InList(list, u) <=> InList(k.readytorun, u) \/ InList(k.pendingtasks, u)
    BY <1>6
  <2> QED BY <1>7, <1>9, <2>1, <2>2 DEF Runnable
<1>13. ListsMatchStates(l)
  <2>1. NoDuplicates(<<>>) /\ \A u : ~InList(<<>>, u)
    BY DEF NoDuplicates, InList
  <2> QED BY <1>6, <1>10, <1>11, <1>12, <2>1 DEF KernelInv, ListsMatchStates
<1>14. ListsPrioritized(l)
  <2>1. Prioritized(<<>>, prio)
    BY DEF Prioritized
  <2> QED BY <1>6, <1>7, <1>10, <2>1 DEF KernelInv, ListsPrioritized
<1>15. KernelTypeOK(l)
  <2>1. \A u \in Task \ {Idle} : state[u] # "invalid" => k.task_state[u] # "invalid"
    BY <1>9, <1>12 DEF Runnable
  <2> QED BY <1>10, <2>1 DEF KernelInv, KernelTypeOK
<1>16. Len(k.pendingtasks) = 0 => list[1] = r
  BY <1>2, <1>4 DEF MergeOf
<1> QED BY <1>10, <1>11, <1>12, <1>13, <1>14, <1>15, <1>16 DEF KernelInv, l

-----------------------------------------------------------------------------
(* Changes of priority that move nothing *)

(* The priority of a task that is not in a list does not matter to its order. *)
LEMMA PrioritizedExcept ==
  ASSUME NEW list \in Seq(Task), NEW prio \in [Task -> Int], NEW tcb \in Task, NEW p \in Int,
         ~InList(list, tcb), Prioritized(list, prio)
  PROVE  Prioritized(list, [prio EXCEPT ![tcb] = p])
  BY DEF Prioritized, InList

(* A new priority for a task that is in no prioritized list keeps the invariant. *)
LEMMA PriorityOfUnlisted ==
  ASSUME NEW k, KernelInv(k), NEW tcb \in Task \ {Idle},
         k.task_state[tcb] \in {"invalid", "inactive"}, NEW p \in Priority
  PROVE  LET l == [k EXCEPT !.sched_priority[tcb] = p]
         IN  /\ KernelInv(l)
             /\ this_task(l) = this_task(k)
             /\ l.readytorun = k.readytorun
             /\ l.pendingtasks = k.pendingtasks
             /\ l.task_state = k.task_state
             /\ l.sched_priority = [k.sched_priority EXCEPT ![tcb] = p]
             /\ l.lockcount = k.lockcount
<1> DEFINE l    == [k EXCEPT !.sched_priority[tcb] = p]
           prio == [k.sched_priority EXCEPT ![tcb] = p]
<1>0. tcb \in Task /\ tcb # Idle /\ p \in Int
  BY PrioAssumption DEF Priority
<1>1. /\ k.readytorun \in Seq(Task) /\ k.pendingtasks \in Seq(Task) /\ k.waitingforsemaphore \in Seq(Task)
      /\ k.task_state \in [Task -> TaskState] /\ k.sched_priority \in [Task -> Int]
      /\ k.lockcount \in [Task -> Nat] /\ k \in KernelState
  BY Fields DEF KernelInv, KernelTypeOK
<1>2. /\ l \in KernelState
      /\ l.readytorun = k.readytorun /\ l.pendingtasks = k.pendingtasks
      /\ l.waitingforsemaphore = k.waitingforsemaphore
      /\ l.task_state = k.task_state
      /\ l.sched_priority = prio /\ l.lockcount = k.lockcount
  BY <1>0, <1>1 DEF KernelState
<1> HIDE DEF l
<1>3. this_task(l) = this_task(k)
  BY <1>2 DEF this_task
<1>4. /\ ~InList(k.readytorun, tcb) /\ ~InList(k.pendingtasks, tcb)
      /\ ~InList(k.waitingforsemaphore, tcb)
  BY <1>0 DEF KernelInv, ListsMatchStates
<1>5. /\ Prioritized(k.readytorun, prio) /\ Prioritized(k.pendingtasks, prio)
      /\ Prioritized(k.waitingforsemaphore, prio)
  BY <1>0, <1>1, <1>4, PrioritizedExcept DEF KernelInv, ListsPrioritized
<1>6. ListsPrioritized(l)
  BY <1>2, <1>5 DEF KernelInv, ListsPrioritized
<1>7. ListsMatchStates(l)
  BY <1>2, <1>3 DEF KernelInv, ListsMatchStates
<1>8. KernelTypeOK(l)
  BY <1>0, <1>1, <1>2, IdleAssumption DEF KernelInv, KernelTypeOK
<1> QED BY <1>2, <1>3, <1>6, <1>7, <1>8 DEF KernelInv, l

(* A new priority of the running task above the next one in line keeps the invariant. *)
LEMMA PriorityOfRunning ==
  ASSUME NEW k, KernelInv(k), this_task(k) # Idle, NEW p \in Priority,
         ~(p <= k.sched_priority[k.readytorun[2]])
  PROVE  LET l == [k EXCEPT !.sched_priority[this_task(k)] = p]
         IN  /\ KernelInv(l)
             /\ this_task(l) = this_task(k)
             /\ l.pendingtasks = k.pendingtasks
             /\ l.task_state = k.task_state
             /\ l.lockcount = k.lockcount
<1> DEFINE tcb  == this_task(k)
           l    == [k EXCEPT !.sched_priority[tcb] = p]
           prio == [k.sched_priority EXCEPT ![tcb] = p]
           f    == k.readytorun
           n    == Len(f)
<1>0. tcb \in Task /\ tcb # Idle /\ p \in Int /\ tcb = f[1] /\ k.task_state[tcb] = "running"
  BY PrioAssumption, RunningTask DEF Priority
<1>1. /\ f \in Seq(Task) /\ k.pendingtasks \in Seq(Task) /\ k.waitingforsemaphore \in Seq(Task)
      /\ k.task_state \in [Task -> TaskState] /\ k.sched_priority \in [Task -> Int]
      /\ k.lockcount \in [Task -> Nat] /\ k \in KernelState
  BY Fields DEF KernelInv, KernelTypeOK
<1>2. /\ l \in KernelState
      /\ l.readytorun = f /\ l.pendingtasks = k.pendingtasks
      /\ l.waitingforsemaphore = k.waitingforsemaphore
      /\ l.task_state = k.task_state
      /\ l.sched_priority = prio /\ l.lockcount = k.lockcount
  BY <1>0, <1>1 DEF KernelState
<1> HIDE DEF l
<1>3. this_task(l) = tcb
  BY <1>2 DEF this_task
<1>4. ~InList(k.pendingtasks, tcb) /\ ~InList(k.waitingforsemaphore, tcb)
  BY <1>0 DEF KernelInv, ListsMatchStates
<1>5. Prioritized(k.pendingtasks, prio) /\ Prioritized(k.waitingforsemaphore, prio)
  BY <1>0, <1>1, <1>4, PrioritizedExcept DEF KernelInv, ListsPrioritized
<1>6. Prioritized(f, prio)
  <2>1. /\ n \in Nat /\ \A x \in 1 .. n : f[x] \in Task
        /\ \A x, y \in 1 .. n : f[x] = f[y] => x = y
        /\ \A x, y \in 1 .. n : x < y => k.sched_priority[f[x]] >= k.sched_priority[f[y]]
        /\ n > 0
    BY <1>1 DEF KernelInv, ListsMatchStates, ListsPrioritized, NoDuplicates, Prioritized
  <2>2. \A x \in 1 .. n : prio[f[x]] = IF x = 1 THEN p ELSE k.sched_priority[f[x]]
    <3>1. \A t \in Task : prio[t] = IF t = f[1] THEN p ELSE k.sched_priority[t]
      BY <1>0, <1>1
    <3>2. 1 \in 1 .. n /\ \A x \in 1 .. n : f[x] = f[1] <=> x = 1
      BY <2>1
    <3> HIDE DEF f, n, prio
    <3> QED BY <2>1, <3>1, <3>2
  <2>3. \A x \in 1 .. n : k.sched_priority[f[x]] \in Int
    BY <1>1, <2>1
  <2> HIDE DEF f, n, prio
  <2>4. ASSUME NEW x \in 1 .. n, NEW y \in 1 .. n, x < y PROVE prio[f[x]] >= prio[f[y]]
    <3>1. CASE x = 1
      <4>1. 2 \in 1 .. n /\ (y = 2 \/ k.sched_priority[f[2]] >= k.sched_priority[f[y]])
        BY <2>1, <2>4, <3>1
      <4>2. k.sched_priority[f[2]] < p
        BY <1>0, <2>3, <4>1 DEF f
      <4> QED BY <1>0, <2>2, <2>3, <2>4, <3>1, <4>1, <4>2
    <3>2. CASE x # 1
      BY <2>1, <2>2, <2>4, <3>2
    <3> QED BY <3>1, <3>2
  <2> QED BY <2>4 DEF Prioritized, n
<1>7. ListsPrioritized(l)
  BY <1>2, <1>5, <1>6 DEF KernelInv, ListsPrioritized
<1>8. ListsMatchStates(l)
  BY <1>2, <1>3 DEF KernelInv, ListsMatchStates
<1>9. KernelTypeOK(l)
  BY <1>0, <1>1, <1>2, IdleAssumption DEF KernelInv, KernelTypeOK
<1> QED BY <1>2, <1>3, <1>7, <1>8, <1>9 DEF KernelInv, l

(* A task that waits, or is pending, goes to the place its new priority gives it. *)
LEMMA PriorityOfBlocked ==
  ASSUME NEW k, KernelInv(k), NEW tcb \in Task \ {Idle}, NEW p \in Priority,
         k.task_state[tcb] \in {"inactive", "waitsem", "pending"}
  PROVE  LET l == sched_blocked_setpriority(k, tcb, p)
         IN  /\ KernelInv(l)
             /\ this_task(l) = this_task(k)
             /\ Len(l.pendingtasks) = Len(k.pendingtasks)
             /\ l.task_state = k.task_state
             /\ l.lockcount = k.lockcount
<1> DEFINE l    == sched_blocked_setpriority(k, tcb, p)
           prio == [k.sched_priority EXCEPT ![tcb] = p]
           requeue(list) == sched_addprioritized(dq_rem(list, tcb), prio, tcb)
           pending == IF k.task_state[tcb] = "pending" THEN requeue(k.pendingtasks) ELSE k.pendingtasks
           waiting == IF k.task_state[tcb] = "waitsem" THEN requeue(k.waitingforsemaphore)
                      ELSE k.waitingforsemaphore
<1>0. tcb \in Task /\ tcb # Idle /\ p \in Int
  BY PrioAssumption DEF Priority
<1>1. /\ k.readytorun \in Seq(Task) /\ k.pendingtasks \in Seq(Task) /\ k.waitingforsemaphore \in Seq(Task)
      /\ k.task_state \in [Task -> TaskState] /\ k.sched_priority \in [Task -> Int]
      /\ k.lockcount \in [Task -> Nat] /\ k \in KernelState
  BY Fields DEF KernelInv, KernelTypeOK
<1>2. prio \in [Task -> Int]
  BY <1>0, <1>1
<1>3. ASSUME NEW list \in Seq(Task), NoDuplicates(list), Prioritized(list, k.sched_priority),
             InList(list, tcb)
      PROVE  /\ requeue(list) \in Seq(Task) /\ Len(requeue(list)) = Len(list)
             /\ NoDuplicates(requeue(list)) /\ Prioritized(requeue(list), prio)
             /\ \A t \in Task : InList(requeue(list), t) <=> InList(list, t)
  <2> DEFINE rest == dq_rem(list, tcb)
             new  == sched_addprioritized(rest, prio, tcb)
  <2>1. Removed(rest, list, tcb)
    BY <1>0, <1>3, DqRem
  <2> HIDE DEF rest
  <2>2. /\ rest \in Seq(Task) /\ NoDuplicates(rest) /\ Prioritized(rest, k.sched_priority)
        /\ ~InList(rest, tcb)
    BY <1>0, <1>3, <2>1 DEF Removed
  <2>3. Prioritized(rest, prio)
    BY <1>0, <1>1, <2>2, PrioritizedExcept
  <2> HIDE DEF prio
  <2>4. Added(new, rest, prio, tcb)
    BY <1>0, <1>2, <2>2, <2>3, AddPrioritized
  <2> HIDE DEF new
  <2>5. /\ new \in Seq(Task) /\ NoDuplicates(new) /\ Prioritized(new, prio)
        /\ \A t \in Task : InList(new, t) <=> InList(list, t)
    BY <1>3, <2>1, <2>4 DEF Removed, Added
  <2>6. Len(new) = Len(list)
    BY <2>1, <2>4, ListElements DEF Removed, Added
  <2> QED BY <2>5, <2>6 DEF new, rest
<1>4. /\ InList(k.pendingtasks, tcb) <=> k.task_state[tcb] = "pending"
      /\ InList(k.waitingforsemaphore, tcb) <=> k.task_state[tcb] = "waitsem"
      /\ ~InList(k.readytorun, tcb)
      /\ NoDuplicates(k.pendingtasks) /\ Prioritized(k.pendingtasks, k.sched_priority)
      /\ NoDuplicates(k.waitingforsemaphore) /\ Prioritized(k.waitingforsemaphore, k.sched_priority)
      /\ Prioritized(k.readytorun, k.sched_priority)
  BY <1>0 DEF KernelInv, ListsMatchStates, ListsPrioritized
<1>5. /\ ~InList(k.pendingtasks, tcb) => Prioritized(k.pendingtasks, prio)
      /\ ~InList(k.waitingforsemaphore, tcb) => Prioritized(k.waitingforsemaphore, prio)
      /\ Prioritized(k.readytorun, prio)
  BY <1>0, <1>1, <1>4, PrioritizedExcept
<1>6. l = [k EXCEPT !.pendingtasks = pending, !.waitingforsemaphore = waiting, !.sched_priority = prio]
  BY DEF sched_blocked_setpriority
<1> HIDE DEF requeue, prio, l
<1>7. /\ pending \in Seq(Task) /\ Len(pending) = Len(k.pendingtasks)
      /\ NoDuplicates(pending) /\ Prioritized(pending, prio)
      /\ \A t \in Task : InList(pending, t) <=> InList(k.pendingtasks, t)
  BY <1>1, <1>3, <1>4, <1>5
<1>8. /\ waiting \in Seq(Task) /\ NoDuplicates(waiting) /\ Prioritized(waiting, prio)
      /\ \A t \in Task : InList(waiting, t) <=> InList(k.waitingforsemaphore, t)
  BY <1>1, <1>3, <1>4, <1>5
<1> HIDE DEF pending, waiting
<1>9. /\ l \in KernelState
      /\ l.readytorun = k.readytorun /\ l.pendingtasks = pending
      /\ l.waitingforsemaphore = waiting
      /\ l.task_state = k.task_state
      /\ l.sched_priority = prio /\ l.lockcount = k.lockcount
  BY <1>1, <1>2, <1>6, <1>7, <1>8 DEF KernelState
<1>10. this_task(l) = this_task(k)
  BY <1>9 DEF this_task
<1>11. ListsMatchStates(l)
  BY <1>7, <1>8, <1>9, <1>10 DEF KernelInv, ListsMatchStates
<1>12. ListsPrioritized(l)
  BY <1>5, <1>7, <1>8, <1>9 DEF KernelInv, ListsPrioritized
<1>13. KernelTypeOK(l)
  BY <1>0, <1>1, <1>9, IdleAssumption DEF KernelInv, KernelTypeOK, prio
<1> QED BY <1>7, <1>9, <1>10, <1>11, <1>12, <1>13 DEF KernelInv, l

-----------------------------------------------------------------------------
(* Blocking, unblocking and reprioritizing *)

Safe(k) == KernelInv(k) /\ PendingOnlyWhileLocked(k)

\* A merge leaves nothing pending.
LEMMA MergedIsSafe ==
  ASSUME NEW k, KernelInv(k)
  PROVE  Safe(sched_mergepending(k))
  BY MergePending DEF Safe, PendingOnlyWhileLocked

(* up_block_task() leads from a safe state to a safe state. *)
LEMMA BlockTask ==
  ASSUME NEW k, Safe(k), this_task(k) # Idle, NEW s \in {"waitsem", "inactive"}
  PROVE  LET l == up_block_task(k, this_task(k), s)
         IN  /\ Safe(l)
             /\ l.task_state[this_task(k)] = s
             /\ Frame(k, l, this_task(k))
             /\ l.sched_priority = k.sched_priority
             /\ l.lockcount = k.lockcount
<1> DEFINE tcb == this_task(k)
           k1  == sched_removereadytorun(k, tcb)
           k2  == sched_addblocked(k1, tcb, s)
           l   == sched_mergepending(k2)
<1>1. KernelInv(k) /\ tcb \in Task \ {Idle} /\ k.task_state[tcb] = "running"
      /\ k.sched_priority[tcb] \in Priority
  BY RunningTask DEF Safe
<1>2. /\ KernelInv(k1) /\ k1.task_state[tcb] = "invalid" /\ Frame(k, k1, tcb)
      /\ k1.sched_priority = k.sched_priority /\ k1.lockcount = k.lockcount
  BY <1>1, RemoveReady
<1> HIDE DEF k1
<1>3. /\ KernelInv(k2) /\ NewState(k1, k2, tcb, s)
      /\ k2.sched_priority = k.sched_priority /\ k2.lockcount = k.lockcount
  <2>1. tcb \in Task \ {Idle} /\ k1.sched_priority[tcb] \in Priority
    BY <1>1, <1>2
  <2> HIDE DEF tcb
  <2>2. /\ KernelInv(k2) /\ NewState(k1, k2, tcb, s)
        /\ k2.sched_priority = k1.sched_priority /\ k2.lockcount = k1.lockcount
    BY <1>2, <2>1, AddBlocked
  <2> QED BY <1>2, <2>2
<1> HIDE DEF k2
<1>4. /\ Safe(l) /\ l.sched_priority = k.sched_priority /\ l.lockcount = k.lockcount
      /\ \A u \in Task : \/ l.task_state[u] = k2.task_state[u]
                         \/ {k2.task_state[u], l.task_state[u]} \subseteq Runnable
  BY <1>3, MergePending, MergedIsSafe
<1> HIDE DEF l
<1>5. l.task_state[tcb] = s
  BY <1>1, <1>3, <1>4 DEF Runnable, NewState
<1>6. Frame(k, l, tcb)
  BY <1>1, <1>2, <1>3, <1>4 DEF Frame, Runnable, NewState
<1> QED BY <1>4, <1>5, <1>6 DEF up_block_task, l, k2, k1

(* up_unblock_task() leads from a safe state to a safe state and never pre-empts a task *)
(* that has pre-emption disabled.                                                       *)
LEMMA UnblockTask ==
  ASSUME NEW k, Safe(k), NEW tcb \in Task \ {Idle},
         k.task_state[tcb] \in {"waitsem", "inactive"}
  PROVE  LET l == up_unblock_task(k, tcb)
         IN  /\ Safe(l)
             /\ l.task_state[tcb] \in Runnable
             /\ Frame(k, l, tcb)
             /\ l.sched_priority = k.sched_priority
             /\ l.lockcount = k.lockcount
             /\ k.lockcount[this_task(k)] > 0 => this_task(l) = this_task(k)
<1> DEFINE k1 == sched_removeblocked(k, tcb)
           l  == sched_addreadytorun(k1, tcb)
<1>1. KernelInv(k) /\ k.sched_priority[tcb] \in Priority
  BY RunningTask DEF Safe
<1>2. /\ KernelInv(k1) /\ NewState(k, k1, tcb, "invalid")
      /\ k1.sched_priority = k.sched_priority /\ k1.lockcount = k.lockcount
      /\ k1.pendingtasks = k.pendingtasks /\ this_task(k1) = this_task(k)
  BY <1>1, RemoveBlocked
<1>3. k.lockcount[this_task(k)] \in Nat
  BY <1>1, Fields, RunningTask DEF KernelInv, KernelTypeOK
<1>4. k1.task_state[tcb] = "invalid"
  BY <1>2 DEF NewState
<1> HIDE DEF k1
<1>5. /\ KernelInv(l) /\ l.task_state[tcb] \in Runnable /\ Frame(k1, l, tcb)
      /\ l.sched_priority = k.sched_priority /\ l.lockcount = k.lockcount
      /\ \/ this_task(l) = this_task(k)
         \/ this_task(l) = tcb /\ k.lockcount[this_task(k)] = 0
      /\ \/ l.pendingtasks = k.pendingtasks
         \/ this_task(l) = this_task(k) /\ k.lockcount[this_task(k)] > 0
  BY <1>1, <1>2, <1>4, AddReady
<1> HIDE DEF l
<1>6. Frame(k, l, tcb)
  BY <1>2, <1>5 DEF Frame, NewState
<1>7. PendingOnlyWhileLocked(l)
  BY <1>3, <1>5 DEF Safe, PendingOnlyWhileLocked
<1> QED BY <1>3, <1>5, <1>6, <1>7 DEF up_unblock_task, Safe, l, k1

(* up_reprioritize_rtr() leads from a safe state to a safe state, and for another task *)
(* than the running one never pre-empts a task that has pre-emption disabled.          *)
LEMMA ReprioritizeReady ==
  ASSUME NEW k, Safe(k), NEW tcb \in Task \ {Idle}, NEW p \in Priority,
         k.task_state[tcb] \in {"readytorun", "running"}
  PROVE  LET l == up_reprioritize_rtr(k, tcb, p)
         IN  /\ Safe(l)
             /\ l.task_state[tcb] \in Runnable
             /\ Frame(k, l, tcb)
             /\ l.lockcount = k.lockcount
             /\ tcb # this_task(k) /\ k.lockcount[this_task(k)] > 0 => this_task(l) = this_task(k)
<1> DEFINE k1 == sched_removereadytorun(k, tcb)
           k2 == [k1 EXCEPT !.sched_priority[tcb] = p]
           k3 == sched_addreadytorun(k2, tcb)
           k4 == sched_mergepending(k3)
           l  == up_reprioritize_rtr(k, tcb, p)
<1>1. KernelInv(k) /\ k.lockcount \in [Task -> Nat] /\ this_task(k) \in Task
  BY Fields, RunningTask DEF Safe, KernelInv, KernelTypeOK
<1>2. /\ KernelInv(k1) /\ k1.task_state[tcb] = "invalid" /\ Frame(k, k1, tcb)
      /\ k1.lockcount = k.lockcount /\ k1.pendingtasks = k.pendingtasks
      /\ tcb # this_task(k) => this_task(k1) = this_task(k)
      /\ this_task(k1) \in Task \ {tcb}
  BY <1>1, RemoveReady
<1>3. /\ k1.sched_priority \in [Task -> Int]
  BY <1>2, Fields DEF KernelInv, KernelTypeOK
<1> HIDE DEF k1
<1>4. /\ KernelInv(k2) /\ this_task(k2) = this_task(k1) /\ k2.pendingtasks = k.pendingtasks
      /\ k2.task_state = k1.task_state /\ k2.lockcount = k.lockcount
      /\ k2.sched_priority = [k1.sched_priority EXCEPT ![tcb] = p]
  BY <1>2, PriorityOfUnlisted
<1>5. k2.task_state[tcb] = "invalid" /\ k2.sched_priority[tcb] \in Priority
  BY <1>2, <1>3, <1>4
<1> HIDE DEF k2
<1>6. /\ KernelInv(k3) /\ k3.task_state[tcb] \in Runnable /\ Frame(k2, k3, tcb)
      /\ k3.lockcount = k2.lockcount
      /\ \/ this_task(k3) = this_task(k2)
         \/ this_task(k3) = tcb /\ k2.lockcount[this_task(k2)] = 0
      /\ \/ k3.pendingtasks = k2.pendingtasks
         \/ this_task(k3) = this_task(k2) /\ k2.lockcount[this_task(k2)] > 0
  BY <1>4, <1>5, AddReady
<1>7. Frame(k, k3, tcb)
  BY <1>2, <1>4, <1>6 DEF Frame
<1> HIDE DEF k3
<1>8. CASE (this_task(k) = tcb) # (this_task(k3) = tcb)
  <2>1. l = k4
    BY <1>8 DEF up_reprioritize_rtr, k1, k2, k3, k4
  <2>2. /\ Safe(k4) /\ k4.lockcount = k3.lockcount
        /\ \A u \in Task : \/ k4.task_state[u] = k3.task_state[u]
                           \/ {k3.task_state[u], k4.task_state[u]} \subseteq Runnable
    BY <1>6, MergePending, MergedIsSafe
  <2> HIDE DEF k4
  <2>3. Frame(k, k4, tcb) /\ k4.task_state[tcb] \in Runnable
    BY <1>6, <1>7, <2>2 DEF Frame, Runnable
  <2>4. ~(tcb # this_task(k) /\ k.lockcount[this_task(k)] > 0)
    BY <1>1, <1>2, <1>4, <1>6, <1>8
  <2> HIDE DEF l
  <2> QED BY <1>4, <1>6, <2>1, <2>2, <2>3, <2>4 DEF l
<1>9. CASE (this_task(k) = tcb) = (this_task(k3) = tcb)
  <2>1. l = k3
    BY <1>9 DEF up_reprioritize_rtr, k1, k2, k3, k4
  <2>2. tcb # this_task(k) => this_task(k3) = this_task(k)
    BY <1>2, <1>4, <1>6, <1>9
  <2>3. tcb = this_task(k) => this_task(k3) = tcb /\ k3.pendingtasks = k.pendingtasks
    BY <1>2, <1>4, <1>6, <1>9
  <2>4. PendingOnlyWhileLocked(k3)
    BY <1>2, <1>4, <1>6, <2>2, <2>3 DEF Safe, PendingOnlyWhileLocked
  <2> HIDE DEF l
  <2> QED BY <1>4, <1>6, <1>7, <2>1, <2>2, <2>4 DEF l, Safe
<1> QED BY <1>8, <1>9

(* Any change of priority, with the list operations of DEBUGASSERT() compiled. *)
LEMMA SetPriority ==
  ASSUME DebugAssertions = TRUE, NEW k, Safe(k), NEW tcb \in Task \ {Idle}, NEW p \in Priority,
         k.task_state[tcb] # "invalid"
  PROVE  LET l == nxsched_setpriority(k, tcb, p)
         IN  /\ Safe(l)
             /\ Frame(k, l, tcb)
             /\ \/ l.task_state[tcb] = k.task_state[tcb]
                \/ {k.task_state[tcb], l.task_state[tcb]} \subseteq Runnable
             /\ l.lockcount = k.lockcount
             /\ tcb # this_task(k) /\ k.lockcount[this_task(k)] > 0 => this_task(l) = this_task(k)
<1> DEFINE l == nxsched_setpriority(k, tcb, p)
<1>1. /\ KernelInv(k) /\ k.lockcount \in [Task -> Nat] /\ this_task(k) \in Task
      /\ k.task_state \in [Task -> TaskState] /\ k.task_state[this_task(k)] = "running"
      /\ k.task_state[tcb] = "running" => tcb = this_task(k)
  BY Fields, RunningTask DEF Safe, KernelInv, KernelTypeOK, ListsMatchStates
<1>2. CASE k.task_state[tcb] = "running"
  <2>1. l = sched_running_setpriority(k, tcb, p)
    BY <1>2 DEF nxsched_setpriority
  <2>2. CASE p <= k.sched_priority[k.readytorun[2]]
    <3>1. l = up_reprioritize_rtr(k, tcb, p)
      BY <2>1, <2>2 DEF sched_running_setpriority
    <3> QED BY <1>2, <3>1, ReprioritizeReady DEF Runnable
  <2>3. CASE ~(p <= k.sched_priority[k.readytorun[2]])
    <3>1. l = [k EXCEPT !.sched_priority[this_task(k)] = p]
      BY <1>1, <1>2, <2>1, <2>3 DEF sched_running_setpriority
    <3> HIDE DEF l
    <3>2. /\ KernelInv(l) /\ this_task(l) = this_task(k) /\ l.pendingtasks = k.pendingtasks
          /\ l.task_state = k.task_state /\ l.lockcount = k.lockcount
      BY <1>1, <1>2, <2>3, <3>1, PriorityOfRunning
    <3>3. PendingOnlyWhileLocked(l)
      BY <3>2 DEF Safe, PendingOnlyWhileLocked
    <3> QED BY <1>1, <1>2, <3>2, <3>3 DEF Safe, Frame, Runnable, l
  <2> QED BY <2>2, <2>3
<1>3. CASE k.task_state[tcb] = "readytorun"
  <2>1. l = sched_readytorun_setpriority(k, tcb, p)
    BY <1>3 DEF nxsched_setpriority
  <2>2. CASE p > k.sched_priority[this_task(k)]
    <3>1. l = up_reprioritize_rtr(k, tcb, p)
      BY <2>1, <2>2 DEF sched_readytorun_setpriority
    <3> QED BY <1>3, <3>1, ReprioritizeReady DEF Runnable
  <2>3. CASE ~(p > k.sched_priority[this_task(k)])
    <3> DEFINE k1 == sched_removereadytorun(k, tcb)
               k2 == [k1 EXCEPT !.sched_priority[tcb] = p]
               k3 == sched_addreadytorun(k2, tcb)
    <3>1. l = k3
      BY <2>1, <2>3 DEF sched_readytorun_setpriority
    <3> HIDE DEF l
    <3>2. /\ KernelInv(k1) /\ k1.task_state[tcb] = "invalid" /\ Frame(k, k1, tcb)
          /\ k1.lockcount = k.lockcount /\ k1.pendingtasks = k.pendingtasks
          /\ this_task(k1) = this_task(k)
      BY <1>1, <1>3, RemoveReady
    <3>3. k1.sched_priority \in [Task -> Int]
      BY <3>2, Fields DEF KernelInv, KernelTypeOK
    <3> HIDE DEF k1
    <3>4. /\ KernelInv(k2) /\ this_task(k2) = this_task(k) /\ k2.pendingtasks = k.pendingtasks
          /\ k2.task_state = k1.task_state /\ k2.lockcount = k.lockcount
          /\ k2.sched_priority = [k1.sched_priority EXCEPT ![tcb] = p]
      BY <3>2, PriorityOfUnlisted
    <3>5. k2.task_state[tcb] = "invalid" /\ k2.sched_priority[tcb] \in Priority
      BY <3>2, <3>3, <3>4
    <3> HIDE DEF k2
    <3>6. /\ KernelInv(k3) /\ k3.task_state[tcb] \in Runnable /\ Frame(k2, k3, tcb)
          /\ k3.lockcount = k2.lockcount
          /\ \/ this_task(k3) = this_task(k2)
             \/ this_task(k3) = tcb /\ k2.lockcount[this_task(k2)] = 0
          /\ \/ k3.pendingtasks = k2.pendingtasks
             \/ this_task(k3) = this_task(k2) /\ k2.lockcount[this_task(k2)] > 0
      BY <3>4, <3>5, AddReady
    <3>7. Frame(k, k3, tcb)
      BY <3>2, <3>4, <3>6 DEF Frame
    <3> HIDE DEF k3
    <3>8. PendingOnlyWhileLocked(k3)
      BY <1>1, <3>4, <3>6 DEF Safe, PendingOnlyWhileLocked
    <3> QED BY <1>1, <1>3, <3>1, <3>4, <3>6, <3>7, <3>8 DEF Safe, Runnable, l
  <2> QED BY <2>2, <2>3
<1>4. CASE k.task_state[tcb] \notin {"running", "readytorun"}
  <2>1. l = sched_blocked_setpriority(k, tcb, p)
    BY <1>4 DEF nxsched_setpriority
  <2> HIDE DEF l
  <2>2. k.task_state[tcb] \in {"inactive", "waitsem", "pending"}
    BY <1>1, <1>4 DEF TaskState
  <2>3. /\ KernelInv(l) /\ this_task(l) = this_task(k)
        /\ Len(l.pendingtasks) = Len(k.pendingtasks)
        /\ l.task_state = k.task_state /\ l.lockcount = k.lockcount
    BY <1>1, <2>1, <2>2, PriorityOfBlocked
  <2>4. PendingOnlyWhileLocked(l)
    BY <2>3 DEF Safe, PendingOnlyWhileLocked
  <2> QED BY <2>3, <2>4 DEF Safe, Frame, l
<1> QED BY <1>2, <1>3, <1>4

(* lockcount has no part in the order or in the membership of the lists. *)
LEMMA NewLockcount ==
  ASSUME NEW k, KernelInv(k), NEW tcb \in Task, NEW n \in Nat
  PROVE  LET l == [k EXCEPT !.lockcount[tcb] = n]
         IN  /\ KernelInv(l)
             /\ this_task(l) = this_task(k)
             /\ l.task_state = k.task_state
             /\ l.pendingtasks = k.pendingtasks
             /\ l.sched_priority = k.sched_priority
             /\ l.lockcount = [k.lockcount EXCEPT ![tcb] = n]
<1> DEFINE l == [k EXCEPT !.lockcount[tcb] = n]
<1>1. k \in KernelState /\ k.lockcount \in [Task -> Nat]
  BY Fields DEF KernelInv, KernelTypeOK
<1>2. /\ l \in KernelState
      /\ l.readytorun = k.readytorun
      /\ l.pendingtasks = k.pendingtasks
      /\ l.waitingforsemaphore = k.waitingforsemaphore
      /\ l.task_state = k.task_state
      /\ l.sched_priority = k.sched_priority
      /\ l.lockcount = [k.lockcount EXCEPT ![tcb] = n]
  BY <1>1 DEF KernelState
<1> HIDE DEF l
<1>3. this_task(l) = this_task(k)
  BY <1>2 DEF this_task
<1>4. KernelTypeOK(l) /\ ListsMatchStates(l) /\ ListsPrioritized(l)
  BY <1>2, <1>3 DEF KernelInv, KernelTypeOK, ListsMatchStates, ListsPrioritized
<1> QED BY <1>2, <1>3, <1>4 DEF KernelInv, l

(* sched_lock() keeps the lists and the running task. *)
LEMMA Lock ==
  ASSUME NEW k, Safe(k)
  PROVE  LET l == sched_lock(k)
         IN  /\ Safe(l)
             /\ this_task(l) = this_task(k)
             /\ l.task_state = k.task_state
             /\ l.sched_priority = k.sched_priority
             /\ l.lockcount = [k.lockcount EXCEPT ![this_task(k)] = k.lockcount[this_task(k)] + 1]
<1> DEFINE r == this_task(k)
           n == k.lockcount[r] + 1
           l == sched_lock(k)
<1>1. KernelInv(k) /\ r \in Task /\ k.lockcount \in [Task -> Nat]
  BY RunningTask, Fields DEF Safe, KernelInv, KernelTypeOK
<1>2. n \in Nat /\ n > 0
  BY <1>1
<1>3. l = [k EXCEPT !.lockcount[r] = n]
  BY DEF sched_lock
<1> HIDE DEF l, n, r
<1>4. /\ KernelInv(l) /\ this_task(l) = this_task(k) /\ l.task_state = k.task_state
      /\ l.sched_priority = k.sched_priority
      /\ l.lockcount = [k.lockcount EXCEPT ![r] = n]
  BY <1>1, <1>2, <1>3, NewLockcount
<1>5. l.lockcount[this_task(l)] > 0
  BY <1>1, <1>2, <1>4 DEF r
<1> QED BY <1>4, <1>5 DEF Safe, PendingOnlyWhileLocked, l, n, r

(* sched_unlock() releases g_pendingtasks when the last lock goes. *)
LEMMA Unlock ==
  ASSUME NEW k, Safe(k)
  PROVE  LET l == sched_unlock(k)
         IN  /\ Safe(l)
             /\ \A u \in Task : \/ l.task_state[u] = k.task_state[u]
                                \/ {k.task_state[u], l.task_state[u]} \subseteq Runnable
             /\ \A u \in Task \ {this_task(k)} : l.lockcount[u] = k.lockcount[u]
             /\ l.sched_priority = k.sched_priority
             /\ l.lockcount \in [Task -> Nat]
<1> DEFINE r == this_task(k)
           n == IF k.lockcount[r] > 0 THEN k.lockcount[r] - 1 ELSE 0
           u == [k EXCEPT !.lockcount[r] = n]
           l == sched_unlock(k)
<1>1. KernelInv(k) /\ r \in Task /\ k.lockcount \in [Task -> Nat]
  BY RunningTask, Fields DEF Safe, KernelInv, KernelTypeOK
<1>2. n \in Nat
  BY <1>1
<1>3. l = IF u.lockcount[r] = 0 THEN sched_mergepending(u) ELSE u
  BY DEF sched_unlock, up_release_pending
<1> HIDE DEF l, n, r
<1>4. /\ KernelInv(u) /\ this_task(u) = this_task(k) /\ u.task_state = k.task_state
      /\ u.sched_priority = k.sched_priority
      /\ u.lockcount = [k.lockcount EXCEPT ![r] = n]
  BY <1>1, <1>2, NewLockcount
<1> HIDE DEF u
<1>5. u.lockcount \in [Task -> Nat]
  BY <1>1, <1>2, <1>4
<1>6. CASE u.lockcount[r] = 0
  <2>1. l = sched_mergepending(u)
    BY <1>3, <1>6
  <2>2. /\ Safe(l) /\ l.lockcount = u.lockcount /\ l.sched_priority = u.sched_priority
        /\ \A v \in Task : \/ l.task_state[v] = u.task_state[v]
                           \/ {u.task_state[v], l.task_state[v]} \subseteq Runnable
    BY <1>4, <2>1, MergePending, MergedIsSafe
  <2> QED BY <1>1, <1>4, <1>5, <2>2 DEF l, r
<1>7. CASE u.lockcount[r] # 0
  <2>1. l = u
    BY <1>3, <1>7
  <2>2. PendingOnlyWhileLocked(u)
    BY <1>1, <1>4, <1>5, <1>7 DEF PendingOnlyWhileLocked, r
  <2> QED BY <1>1, <1>4, <1>5, <2>1, <2>2 DEF l, r, Safe
<1> QED BY <1>6, <1>7

(* A new task enters g_inactivetasks: the lists of the other tasks are untouched. *)
LEMMA Setup ==
  ASSUME NEW k, Safe(k), NEW tcb \in Task \ {Idle}, NEW p \in Priority,
         k.task_state[tcb] = "invalid"
  PROVE  LET l == thread_schedsetup(k, tcb, p)
         IN  /\ Safe(l)
             /\ this_task(l) = this_task(k)
             /\ NewState(k, l, tcb, "inactive")
             /\ l.lockcount = k.lockcount
<1> DEFINE k1 == [k EXCEPT !.sched_priority[tcb] = p]
           l  == thread_schedsetup(k, tcb, p)
<1>1. KernelInv(k) /\ k \in KernelState
  BY DEF Safe, KernelInv, KernelTypeOK
<1>2. /\ KernelInv(k1) /\ this_task(k1) = this_task(k) /\ k1.pendingtasks = k.pendingtasks
      /\ k1.task_state = k.task_state /\ k1.lockcount = k.lockcount
      /\ k1.sched_priority[tcb] = p
  BY <1>1, PriorityOfUnlisted, Fields
<1>3. l = sched_addblocked(k1, tcb, "inactive")
  BY <1>1 DEF thread_schedsetup, sched_addblocked, KernelState
<1> HIDE DEF k1, l
<1>4. /\ KernelInv(l) /\ NewState(k1, l, tcb, "inactive") /\ l.lockcount = k1.lockcount
      /\ l.pendingtasks = k1.pendingtasks /\ this_task(l) = this_task(k1)
  BY <1>2, <1>3, AddBlocked
<1>5. NewState(k, l, tcb, "inactive")
  BY <1>2, <1>4 DEF NewState
<1>6. PendingOnlyWhileLocked(l)
  BY <1>2, <1>4 DEF Safe, PendingOnlyWhileLocked
<1> QED BY <1>2, <1>4, <1>5, <1>6 DEF Safe, l

(* task_terminate() takes any task but the running one out of its list. *)
LEMMA Terminate ==
  ASSUME NEW k, KernelInv(k), NEW tcb \in Task \ {Idle},
         k.task_state[tcb] \notin {"invalid", "running"}
  PROVE  LET l == task_terminate(k, tcb)
         IN  /\ KernelInv(l)
             /\ this_task(l) = this_task(k)
             /\ NewState(k, l, tcb, "invalid")
             /\ Len(l.pendingtasks) > 0 => Len(k.pendingtasks) > 0
             /\ \A u \in Task : l.lockcount[u] = IF u = tcb THEN 0 ELSE k.lockcount[u]
<1> DEFINE l     == task_terminate(k, tcb)
           prio  == [k.sched_priority EXCEPT ![tcb] = 0]
           state == [k.task_state EXCEPT ![tcb] = "invalid"]
           locks == [k.lockcount EXCEPT ![tcb] = 0]
           Out(list, s) == IF k.task_state[tcb] = s THEN dq_rem(list, tcb) ELSE list
           ready   == Out(k.readytorun, "readytorun")
           pending == Out(k.pendingtasks, "pending")
           waiting == Out(k.waitingforsemaphore, "waitsem")
<1>0. tcb \in Task /\ tcb # Idle /\ 0 \in Int
  OBVIOUS
<1>1. /\ k.readytorun \in Seq(Task) /\ k.pendingtasks \in Seq(Task) /\ k.waitingforsemaphore \in Seq(Task)
      /\ k.task_state \in [Task -> TaskState] /\ k.sched_priority \in [Task -> Int]
      /\ k.lockcount \in [Task -> Nat] /\ k \in KernelState
  BY Fields DEF KernelInv, KernelTypeOK
<1>2. /\ InList(k.pendingtasks, tcb) <=> k.task_state[tcb] = "pending"
      /\ InList(k.waitingforsemaphore, tcb) <=> k.task_state[tcb] = "waitsem"
      /\ InList(k.readytorun, tcb) <=> k.task_state[tcb] = "readytorun"
      /\ NoDuplicates(k.pendingtasks) /\ Prioritized(k.pendingtasks, k.sched_priority)
      /\ NoDuplicates(k.waitingforsemaphore) /\ Prioritized(k.waitingforsemaphore, k.sched_priority)
      /\ NoDuplicates(k.readytorun) /\ Prioritized(k.readytorun, k.sched_priority)
      /\ Len(k.readytorun) > 0 /\ k.readytorun[Len(k.readytorun)] = Idle
  BY <1>0 DEF KernelInv, ListsMatchStates, ListsPrioritized
<1>3. k.readytorun[1] = this_task(k) /\ this_task(k) # tcb
  BY RunningTask
<1>4. ASSUME NEW list \in Seq(Task), NoDuplicates(list), Prioritized(list, k.sched_priority),
             NEW s, InList(list, tcb) <=> k.task_state[tcb] = s
      PROVE  /\ Out(list, s) \in Seq(Task)
             /\ NoDuplicates(Out(list, s)) /\ Prioritized(Out(list, s), prio)
             /\ \A t \in Task : InList(Out(list, s), t) <=> InList(list, t) /\ t # tcb
             /\ list[1] # tcb => Out(list, s)[1] = list[1]
             /\ Len(list) > 0 /\ list[Len(list)] # tcb =>
                  Len(Out(list, s)) > 0 /\ Out(list, s)[Len(Out(list, s))] = list[Len(list)]
             /\ Len(Out(list, s)) > 0 => Len(list) > 0
  <2>1. CASE k.task_state[tcb] = s
    <3> DEFINE rest == dq_rem(list, tcb)
    <3>1. Out(list, s) = rest
      BY <2>1
    <3>2. Removed(rest, list, tcb)
      BY <1>0, <1>4, <2>1, DqRem
    <3> HIDE DEF rest
    <3>3. /\ rest \in Seq(Task) /\ NoDuplicates(rest) /\ Prioritized(rest, k.sched_priority)
          /\ ~InList(rest, tcb)
      BY <1>0, <1>4, <3>2 DEF Removed
    <3>4. Prioritized(rest, prio)
      BY <1>0, <1>1, <3>3, PrioritizedExcept
    <3>5. Len(list) \in Nat /\ Len(rest) = Len(list) - 1
      BY <3>2, ListElements DEF Removed
    <3> HIDE DEF Out, prio
    <3> QED BY <3>1, <3>2, <3>3, <3>4, <3>5 DEF Removed
  <2>2. CASE k.task_state[tcb] # s
    <3>1. Out(list, s) = list
      BY <2>2
    <3>2. ~InList(list, tcb)
      BY <1>4, <2>2
    <3>3. Prioritized(list, prio)
      BY <1>0, <1>1, <1>4, <3>2, PrioritizedExcept
    <3> HIDE DEF Out, prio
    <3> QED BY <1>4, <3>1, <3>2, <3>3
  <2> QED BY <2>1, <2>2
<1>5. l = [k EXCEPT !.readytorun = ready, !.pendingtasks = pending, !.waitingforsemaphore = waiting,
                    !.task_state = state, !.sched_priority = prio, !.lockcount = locks]
  BY DEF task_terminate
<1>6. prio \in [Task -> Int] /\ locks \in [Task -> Nat] /\ state \in [Task -> TaskState]
  BY <1>0, <1>1 DEF TaskState
<1>7. /\ \A u \in Task : state[u] = IF u = tcb THEN "invalid" ELSE k.task_state[u]
      /\ \A u \in Task : locks[u] = IF u = tcb THEN 0 ELSE k.lockcount[u]
      /\ \A u \in Task : prio[u] = IF u = tcb THEN 0 ELSE k.sched_priority[u]
  BY <1>0, <1>1
<1> HIDE DEF Out, l, state, prio, locks
<1>8. /\ ready \in Seq(Task) /\ NoDuplicates(ready) /\ Prioritized(ready, prio)
      /\ \A t \in Task : InList(ready, t) <=> InList(k.readytorun, t) /\ t # tcb
      /\ ready[1] = this_task(k)
      /\ Len(ready) > 0 /\ ready[Len(ready)] = Idle
  BY <1>0, <1>1, <1>2, <1>3, <1>4
<1>9. /\ pending \in Seq(Task) /\ NoDuplicates(pending) /\ Prioritized(pending, prio)
      /\ \A t \in Task : InList(pending, t) <=> InList(k.pendingtasks, t) /\ t # tcb
      /\ Len(pending) > 0 => Len(k.pendingtasks) > 0
  BY <1>1, <1>2, <1>4
<1>10. /\ waiting \in Seq(Task) /\ NoDuplicates(waiting) /\ Prioritized(waiting, prio)
       /\ \A t \in Task : InList(waiting, t) <=> InList(k.waitingforsemaphore, t) /\ t # tcb
  BY <1>1, <1>2, <1>4
<1> HIDE DEF ready, pending, waiting
<1>11. /\ l \in KernelState
       /\ l.readytorun = ready /\ l.pendingtasks = pending /\ l.waitingforsemaphore = waiting
       /\ l.task_state = state /\ l.sched_priority = prio /\ l.lockcount = locks
  BY <1>1, <1>5, <1>6, <1>8, <1>9, <1>10 DEF KernelState
<1>12. this_task(l) = this_task(k)
  <2>1. Head(ready) = ready[1]
    BY <1>8
  <2> QED BY <1>8, <1>11, <2>1 DEF this_task
<1>13. ASSUME NEW u \in Task
       PROVE  /\ InList(ready, u) <=> state[u] \in {"readytorun", "running"}
              /\ InList(pending, u) <=> state[u] = "pending"
              /\ InList(waiting, u) <=> state[u] = "waitsem"
              /\ state[u] = "running" <=> u = this_task(k)
  <2>1. /\ InList(k.readytorun, u) <=> k.task_state[u] \in {"readytorun", "running"}
        /\ InList(k.pendingtasks, u) <=> k.task_state[u] = "pending"
        /\ InList(k.waitingforsemaphore, u) <=> k.task_state[u] = "waitsem"
        /\ k.task_state[u] = "running" <=> u = this_task(k)
    BY DEF KernelInv, ListsMatchStates
  <2> QED BY <1>3, <1>7, <1>8, <1>9, <1>10, <2>1
<1>14. ListsMatchStates(l)
  BY <1>8, <1>9, <1>10, <1>11, <1>12, <1>13 DEF ListsMatchStates
<1>15. ListsPrioritized(l)
  BY <1>8, <1>9, <1>10, <1>11 DEF ListsPrioritized
<1>16. KernelTypeOK(l)
  BY <1>0, <1>7, <1>11, IdleAssumption DEF KernelInv, KernelTypeOK
<1> QED BY <1>7, <1>9, <1>11, <1>12, <1>14, <1>15, <1>16 DEF KernelInv, NewState, l

(* Deleting another task keeps the running task, and its lock on what is pending. *)
LEMMA DeleteTask ==
  ASSUME NEW k, Safe(k), NEW tcb \in Task \ {Idle}, k.task_state[tcb] \notin {"invalid", "running"}
  PROVE  LET l == task_terminate(k, tcb)
         IN  Safe(l) /\ this_task(l) = this_task(k) /\ NewState(k, l, tcb, "invalid")
<1> DEFINE l == task_terminate(k, tcb)
<1>1. KernelInv(k) /\ this_task(k) \in Task \ {tcb} /\ k.lockcount \in [Task -> Nat]
  BY RunningTask, Fields DEF Safe, KernelInv, KernelTypeOK
<1>2. /\ KernelInv(l) /\ this_task(l) = this_task(k) /\ NewState(k, l, tcb, "invalid")
      /\ Len(l.pendingtasks) > 0 => Len(k.pendingtasks) > 0
      /\ \A u \in Task : l.lockcount[u] = IF u = tcb THEN 0 ELSE k.lockcount[u]
  BY <1>1, Terminate
<1> HIDE DEF l
<1>3. PendingOnlyWhileLocked(l)
  BY <1>1, <1>2 DEF Safe, PendingOnlyWhileLocked
<1> QED BY <1>2, <1>3 DEF Safe, l

(* The running task leaves: what is pending is merged, whatever its lockcount was. *)
LEMMA ExitTask ==
  ASSUME NEW k, Safe(k), this_task(k) # Idle
  PROVE  LET l == task_exit(k)
         IN  /\ Safe(l)
             /\ l.task_state[this_task(k)] = "invalid"
             /\ Frame(k, l, this_task(k))
             /\ \A u \in Task : l.lockcount[u] = IF u = this_task(k) THEN 0 ELSE k.lockcount[u]
<1> DEFINE tcb == this_task(k)
           k1  == sched_removereadytorun(k, tcb)
           k2  == sched_addblocked(k1, tcb, "inactive")
           k3  == task_terminate(k2, tcb)
           l   == sched_mergepending(k3)
<1>1. KernelInv(k) /\ tcb \in Task \ {Idle} /\ k.task_state[tcb] = "running"
      /\ k.sched_priority[tcb] \in Priority
  BY RunningTask DEF Safe
<1>2. /\ KernelInv(k1) /\ k1.task_state[tcb] = "invalid" /\ Frame(k, k1, tcb)
      /\ k1.sched_priority = k.sched_priority /\ k1.lockcount = k.lockcount
  BY <1>1, RemoveReady
<1> HIDE DEF k1
<1>3. KernelInv(k2) /\ NewState(k1, k2, tcb, "inactive") /\ k2.lockcount = k1.lockcount
  BY <1>1, <1>2, AddBlocked
<1>4. k2.task_state[tcb] = "inactive"
  BY <1>1, <1>3 DEF NewState
<1> HIDE DEF k2
<1>5. /\ KernelInv(k3) /\ NewState(k2, k3, tcb, "invalid")
      /\ \A u \in Task : k3.lockcount[u] = IF u = tcb THEN 0 ELSE k2.lockcount[u]
  BY <1>1, <1>3, <1>4, Terminate
<1> HIDE DEF k3
<1>6. /\ Safe(l) /\ l.lockcount = k3.lockcount
      /\ \A u \in Task : \/ l.task_state[u] = k3.task_state[u]
                         \/ {k3.task_state[u], l.task_state[u]} \subseteq Runnable
  BY <1>5, MergePending, MergedIsSafe
<1> HIDE DEF l
<1>7. l.task_state[tcb] = "invalid" /\ Frame(k, l, tcb)
  BY <1>1, <1>2, <1>3, <1>5, <1>6 DEF NewState, Frame, Runnable
<1>8. l = task_exit(k)
  BY DEF task_exit, l, k3, k2, k1
<1>9. \A u \in Task : l.lockcount[u] = IF u = tcb THEN 0 ELSE k.lockcount[u]
  BY <1>2, <1>3, <1>5, <1>6
<1> QED BY <1>6, <1>7, <1>8, <1>9

(* The kernel starts in a safe state, with IDLE alone. *)
LEMMA BootIsSafe ==
  /\ Safe(BootState)
  /\ this_task(BootState) = Idle
  /\ \A t \in Task : BootState.task_state[t] = IF t = Idle THEN "running" ELSE "invalid"
<1> DEFINE k == BootState
<1>1. /\ k \in KernelState
      /\ k.readytorun = <<Idle>> /\ k.pendingtasks = <<>> /\ k.waitingforsemaphore = <<>>
      /\ k.task_state = [t \in Task |-> IF t = Idle THEN "running" ELSE "invalid"]
      /\ k.sched_priority = [t \in Task |-> 0]
  BY IdleAssumption DEF BootState, KernelState, TaskState
<1> HIDE DEF k
<1>2. /\ \A t : InList(k.readytorun, t) <=> t = Idle
      /\ \A t : ~InList(k.pendingtasks, t) /\ ~InList(k.waitingforsemaphore, t)
      /\ this_task(k) = Idle
      /\ Len(k.readytorun) = 1 /\ k.readytorun[1] = Idle
      /\ Len(k.pendingtasks) = 0 /\ Len(k.waitingforsemaphore) = 0
  BY <1>1 DEF InList, this_task
<1>3. KernelTypeOK(k)
  BY <1>1, IdleAssumption DEF KernelTypeOK
<1>4. ListsMatchStates(k)
  <2>1. NoDuplicates(k.readytorun) /\ NoDuplicates(k.pendingtasks) /\ NoDuplicates(k.waitingforsemaphore)
    BY <1>2 DEF NoDuplicates
  <2> QED BY <1>1, <1>2, <2>1 DEF ListsMatchStates
<1>5. ListsPrioritized(k)
  BY <1>2 DEF ListsPrioritized, Prioritized
<1> QED BY <1>1, <1>2, <1>3, <1>4, <1>5 DEF Safe, KernelInv, PendingOnlyWhileLocked, k

=============================================================================
