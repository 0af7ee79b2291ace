----------------------------- MODULE MCScheduler -----------------------------
(***************************************************************************)
(* Small instances of the scheduler for TLC.                                *)
(***************************************************************************)
EXTENDS Scheduler, TLC

CONSTANTS t1, t2, t3, idle

UserTasks == Permutations({t1, t2, t3})

\* Faulty variant: the next round starts behind the task that ptcb was put in front of,
\* if there is one behind it.
MergeRound_SkipsTask(merge, prio, ptcb) ==
  LET list == merge.list
      at == CHOOSE i \in merge.rtcb .. Len(list) :
              /\ prio[ptcb] > prio[list[i]]
              /\ \A j \in merge.rtcb .. i - 1 : prio[ptcb] <= prio[list[j]]
  IN  [list       |-> InsertAt(list, at, ptcb),
       rtcb       |-> IF at < Len(list) THEN at + 2 ELSE at + 1,
       task_state |-> IF at = 1
                      THEN [merge.task_state EXCEPT ![list[at]] = "readytorun", ![ptcb] = "running"]
                      ELSE [merge.task_state EXCEPT ![ptcb] = "readytorun"]]

\* One round of the loop of sched_mergepending(): from its place rtcb in g_readytorun the
\* search goes on to the first task that ranks below ptcb; ptcb goes in front of it, to
\* the head if that was the head, and the next round starts at ptcb.
MergeRound(merge, prio, ptcb) ==
  LET list == merge.list
      at == CHOOSE i \in merge.rtcb .. Len(list) :
              /\ prio[ptcb] > prio[list[i]]
              /\ \A j \in merge.rtcb .. i - 1 : prio[ptcb] <= prio[list[j]]
  IN  [list       |-> InsertAt(list, at, ptcb),
       rtcb       |-> at,
       task_state |-> IF at = 1
                      THEN [merge.task_state EXCEPT ![list[at]] = "readytorun", ![ptcb] = "running"]
                      ELSE [merge.task_state EXCEPT ![ptcb] = "readytorun"]]

\* The loop, over g_pendingtasks from its head.
MergeLoop(s) ==
  LET merge == FoldLeft(LAMBDA m, ptcb : MergeRound(m, s.sched_priority, ptcb),
                        [list |-> s.readytorun, rtcb |-> 1, task_state |-> s.task_state],
                        s.pendingtasks)
  IN  [s EXCEPT !.readytorun = merge.list, !.pendingtasks = <<>>, !.task_state = merge.task_state]

\* The states in which it is called: when pre-emption is enabled again, and after the
\* running task has been blocked or queued anew with a priority.
MergePoints ==
  {k} \union
  IF rtcb = Idle THEN {}
  ELSE LET removed == sched_removereadytorun(k, rtcb)
       IN  {sched_addblocked(removed, rtcb, "waitsem")} \union
           {sched_addreadytorun([removed EXCEPT !.sched_priority[rtcb] = p], rtcb) : p \in Priority}

\* The single pass of sched_mergepending(), which never looks at a ready task again that it
\* has passed, sorts every pending task in behind all ready tasks of its priority or above
\* (the places sched_mergepending is defined by), with the task states that go with it, and
\* never runs off g_readytorun.
MergeIsTheLoop == \A s \in MergePoints : sched_mergepending(s) = MergeLoop(s)

=============================================================================
