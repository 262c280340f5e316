----------------------------- MODULE SingleRun -----------------------------
(***************************************************************************)
(* What execution/idempotency.single_run_lock promises its callers: the    *)
(* body of the with statement runs in one process at a time.               *)
(***************************************************************************)
CONSTANTS Procs, None

VARIABLE holder         \* the process inside the with statement

Init == holder = None

Acquire(p) == holder = None /\ holder' = p
\* The block is left, or the process dies in it.
Release(p) == holder = p /\ holder' = None

Next == \E p \in Procs : Acquire(p) \/ Release(p)

Spec == Init /\ [][Next]_holder

=============================================================================
