----------------------------- MODULE MCSemaphore -----------------------------
(***************************************************************************)
(* Small instances of the semaphores for TLC.                               *)
(***************************************************************************)
EXTENDS Semaphore, TLC

CONSTANTS t1, t2, t3, idle, lock, event

UserTasks == Permutations({t1, t2, t3})

=============================================================================
