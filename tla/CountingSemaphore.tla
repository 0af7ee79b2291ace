-------------------------- MODULE CountingSemaphore --------------------------
(***************************************************************************)
(* What a set of counting semaphores promises its users, with no word on    *)
(* how: counts that are free, and tasks that wait.  A free count and a      *)
(* waiting task never meet.  A count that is given goes to exactly one      *)
(* waiting task, which learns that it has it, or becomes free; a task that  *)
(* gives up its wait takes no count with it, and learns that.  A reset      *)
(* hands out the counts it was asked for and leaves the rest free, and      *)
(* nobody touches the semaphore meanwhile.  Priorities and the processor    *)
(* do not appear.                                                           *)
(***************************************************************************)
EXTENDS Naturals

CONSTANTS
  Task, Sem,
  None              \* no semaphore

VARIABLES
  free,             \* the counts of each semaphore that anyone may take
  waits,            \* the semaphore each task waits for, or None
  ended,            \* how the wait ended that a task has not returned from, or "none"
  resets,           \* the semaphore each task is resetting, or None
  left              \* the counts that reset still has to hand out

vars == <<free, waits, ended, resets, left>>

Waiting(s) == {t \in Task : waits[t] = s}

\* No task is resetting s.
Open(s) == \A t \in Task : resets[t] # s

Init ==
  /\ free \in [Sem -> Nat]
  /\ waits = [t \in Task |-> None]
  /\ ended = [t \in Task |-> "none"]
  /\ resets = [t \in Task |-> None]
  /\ left = [t \in Task |-> 0]

\* A free count is taken.
Take(s) ==
  /\ Open(s)
  /\ free[s] > 0
  /\ free' = [free EXCEPT ![s] = @ - 1]
  /\ UNCHANGED <<waits, ended, resets, left>>

\* No count is free: the task waits for one.
Wait(t, s) ==
  /\ Open(s)
  /\ free[s] = 0
  /\ waits[t] = None /\ ended[t] = "none"
  /\ waits' = [waits EXCEPT ![t] = s]
  /\ UNCHANGED <<free, ended, resets, left>>

\* The wait of t for s is over.
EndWait(t, s, how) ==
  /\ t \in Waiting(s)
  /\ waits' = [waits EXCEPT ![t] = None]
  /\ ended' = [ended EXCEPT ![t] = how]
  /\ UNCHANGED free

\* A count is given to one of the waiting tasks ...
Grant(t, s) ==
  /\ Open(s)
  /\ EndWait(t, s, "count")
  /\ UNCHANGED <<resets, left>>

\* ... and becomes free only when there is none.
Give(s) ==
  /\ Open(s)
  /\ Waiting(s) = {}
  /\ free' = [free EXCEPT ![s] = @ + 1]
  /\ UNCHANGED <<waits, ended, resets, left>>

\* A wait ends without a count.
Abandon(t, s) ==
  /\ Open(s)
  /\ EndWait(t, s, "failed")
  /\ UNCHANGED <<resets, left>>

\* The task learns how its wait ended, or is deleted before it does.
Return(t) ==
  /\ ended[t] # "none"
  /\ ended' = [ended EXCEPT ![t] = "none"]
  /\ UNCHANGED <<free, waits, resets, left>>

ResetBegin(t, s) ==
  /\ Open(s)
  /\ resets[t] = None
  /\ resets' = [resets EXCEPT ![t] = s]
  /\ left'[t] \in Nat
  /\ left' = [left EXCEPT ![t] = left'[t]]
  /\ UNCHANGED <<free, waits, ended>>

\* One of the counts of the reset by t goes to the waiting task u.
ResetGrant(t, u, s) ==
  /\ resets[t] = s
  /\ left[t] > 0
  /\ EndWait(u, s, "count")
  /\ left' = [left EXCEPT ![t] = @ - 1]
  /\ UNCHANGED resets

\* All are handed out, or no task is left to get one: then the rest is free.
ResetEnd(t, s) ==
  /\ resets[t] = s
  /\ left[t] = 0 \/ Waiting(s) = {}
  /\ free' = [free EXCEPT ![s] = IF Waiting(s) = {} THEN left[t] ELSE @]
  /\ resets' = [resets EXCEPT ![t] = None]
  /\ left' = [left EXCEPT ![t] = 0]
  /\ UNCHANGED <<waits, ended>>

\* A semaphore that no task waits for is left with one count.
Destroy(s) ==
  /\ Open(s)
  /\ Waiting(s) = {}
  /\ free' = [free EXCEPT ![s] = 1]
  /\ UNCHANGED <<waits, ended, resets, left>>

Next ==
  \/ \E s \in Sem : Take(s) \/ Give(s) \/ Destroy(s)
  \/ \E t \in Task, s \in Sem :
       Wait(t, s) \/ Grant(t, s) \/ Abandon(t, s) \/ ResetBegin(t, s) \/ ResetEnd(t, s)
  \/ \E t, u \in Task, s \in Sem : ResetGrant(t, u, s)
  \/ \E t \in Task : Return(t)

Spec == Init /\ [][Next]_vars

=============================================================================
