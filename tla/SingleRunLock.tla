--------------------------- MODULE SingleRunLock ---------------------------
(***************************************************************************)
(* execution/idempotency.single_run_lock: an advisory flock on a file that *)
(* its owner removes on the way out.  A path is not an identity, so a lock *)
(* that is granted may guard a file no later process will ever find.       *)
(* Nothing but this code removes or replaces the lock file.                *)
(***************************************************************************)
CONSTANTS
  Procs,        \* processes that may take the lock
  Inodes,       \* files; one that is unlinked and closed may come back
  None

ASSUME LockAssumption == None \notin Procs /\ None \notin Inodes

VARIABLES
  path,         \* the file the lock path names, or None
  flock,        \* flock[i]: the process that holds the flock on file i
  pc,           \* pc[p]: where process p is
  handle        \* handle[p]: the file p has open, or None

vars == <<path, flock, pc, handle>>

Pcs == {"out", "open", "flock", "check", "in", "stat", "unlink", "release"}

Init ==
  /\ path = None
  /\ flock = [i \in Inodes |-> None]
  /\ pc = [p \in Procs |-> "out"]
  /\ handle = [p \in Procs |-> None]

Goto(p, next) == pc' = [pc EXCEPT ![p] = next]

\* flock(LOCK_UN) and close, or the kernel doing both for a dead process.
ReleaseAndClose(p) ==
  /\ flock' = [i \in Inodes |-> IF flock[i] = p THEN None ELSE flock[i]]
  /\ handle' = [handle EXCEPT ![p] = None]

Enter(p) ==
  /\ pc[p] = "out"
  /\ Goto(p, "open")
  /\ UNCHANGED <<path, flock, handle>>

\* Variant: the presence of the file is the lock.
OpenExclusively(p) ==
  /\ pc[p] = "open" /\ path = None
  /\ \E i \in Inodes :
       /\ \A q \in Procs : handle[q] # i
       /\ path' = i
       /\ handle' = [handle EXCEPT ![p] = i]
  /\ Goto(p, "flock")
  /\ UNCHANGED flock

\* Variant: a file that is there is taken for stale and removed first.
OpenAfterCleanup(p) ==
  /\ pc[p] = "open"
  /\ \E i \in Inodes :
       /\ i # path /\ \A q \in Procs : handle[q] # i
       /\ path' = i
       /\ handle' = [handle EXCEPT ![p] = i]
  /\ Goto(p, "flock")
  /\ UNCHANGED flock

\* open(lock_path, "a+"): the file that is there, or a new one.
Open(p) ==
  /\ pc[p] = "open"
  /\ \E i \in Inodes :
       /\ IF path = None THEN \A q \in Procs : handle[q] # i ELSE i = path
       /\ path' = i
       /\ handle' = [handle EXCEPT ![p] = i]
  /\ Goto(p, "flock")
  /\ UNCHANGED flock

\* flock(LOCK_EX | LOCK_NB); a refusal is tried again later.
Flock(p) ==
  /\ pc[p] = "flock"
  /\ flock[handle[p]] = None
  /\ flock' = [flock EXCEPT ![handle[p]] = p]
  /\ Goto(p, "check")
  /\ UNCHANGED <<path, handle>>

\* Variant: the flock alone is taken for ownership.
CheckNothing(p) ==
  /\ pc[p] = "check"
  /\ Goto(p, "in")
  /\ UNCHANGED <<path, flock, handle>>

\* The lock is owned only if the path still names the file it is on.
Check(p) ==
  /\ pc[p] = "check"
  /\ IF path = handle[p]
     THEN Goto(p, "in") /\ UNCHANGED <<flock, handle>>
     ELSE Goto(p, "open") /\ ReleaseAndClose(p)
  /\ UNCHANGED path

\* os.stat raises an OSError: the path counts as gone.
CheckFails(p) ==
  /\ pc[p] = "check"
  /\ Goto(p, "open") /\ ReleaseAndClose(p)
  /\ UNCHANGED path

\* The deadline passes: IdempotencyLockBusy.
GiveUp(p) ==
  /\ pc[p] = "flock" \/ (pc[p] = "check" /\ path # handle[p])
  /\ Goto(p, "out") /\ ReleaseAndClose(p)
  /\ UNCHANGED path

\* The block is left, whichever way.
Leave(p) ==
  /\ pc[p] = "in"
  /\ Goto(p, "stat")
  /\ UNCHANGED <<path, flock, handle>>

\* Variant: the flock is given back before the path is removed.
StatAfterRelease(p) ==
  /\ pc[p] = "stat"
  /\ Goto(p, IF path = handle[p] THEN "unlink" ELSE "release")
  /\ flock' = [i \in Inodes |-> IF flock[i] = p THEN None ELSE flock[i]]
  /\ UNCHANGED <<path, handle>>

\* _unlink_owned_lock: only while the path still names this very file; a
\* path that cannot be read is left alone.
Stat(p) ==
  /\ pc[p] = "stat"
  /\ Goto(p, IF path = handle[p] THEN "unlink" ELSE "release")
  /\ UNCHANGED <<path, flock, handle>>

StatFails(p) ==
  /\ pc[p] = "stat"
  /\ Goto(p, "release")
  /\ UNCHANGED <<path, flock, handle>>

\* unlink removes whatever the path names by now, or fails.
Unlink(p) ==
  /\ pc[p] = "unlink"
  /\ path' \in {None, path}
  /\ Goto(p, "release")
  /\ UNCHANGED <<flock, handle>>

Release(p) ==
  /\ pc[p] = "release"
  /\ Goto(p, "out") /\ ReleaseAndClose(p)
  /\ UNCHANGED path

\* A kill or a power cut: the flock goes, the file stays.
Crash(p) ==
  /\ pc[p] # "out"
  /\ Goto(p, "out") /\ ReleaseAndClose(p)
  /\ UNCHANGED path

Work(p) ==
  \/ Open(p) \/ Flock(p) \/ Check(p) \/ Leave(p) \/ Stat(p) \/ Unlink(p)
  \/ Release(p)

Trouble(p) == CheckFails(p) \/ GiveUp(p) \/ StatFails(p) \/ Crash(p)

Next == \E p \in Procs : Enter(p) \/ Work(p) \/ Trouble(p)

Spec == Init /\ [][Next]_vars

\* A process that can go on goes on, and from some moment on nothing dies,
\* times out or fails to read the path.
FairSpec ==
  /\ Spec
  /\ \A p \in Procs : WF_vars(Work(p))
  /\ <>[][~\E p \in Procs : CheckFails(p) \/ GiveUp(p) \/ Crash(p)]_vars

-----------------------------------------------------------------------------
\* Every variable has its type.
TypeOK ==
  /\ path \in Inodes \cup {None}
  /\ flock \in [Inodes -> Procs \cup {None}]
  /\ pc \in [Procs -> Pcs]
  /\ handle \in [Procs -> Inodes \cup {None}]

\* Who is inside the block, or on the way out with the path still to remove,
\* owns the very file the path names: no later process can find another one,
\* and the unlink never destroys a lock that is not its own.
OwnsPath ==
  \A p \in Procs :
    pc[p] \in {"in", "stat", "unlink"} =>
      path = handle[p] /\ path # None /\ flock[path] = p

\* The body of the with statement runs in one process at a time, though the
\* file is removed, recreated and left behind by dead processes.
MutualExclusion ==
  \A p, q \in Procs : pc[p] = "in" /\ pc[q] = "in" => p = q

\* The lock implements the abstract one.
Inside == {p \in Procs : pc[p] = "in"}
Abstract == INSTANCE SingleRun WITH
  holder <- IF Inside = {} THEN None ELSE CHOOSE p \in Procs : pc[p] = "in"
ImplementsSingleRun == Abstract!Spec

\* A file left behind by a dead process is not a lock: while somebody waits,
\* somebody gets in, unless everybody has given up.
LockIsGranted ==
  (\E p \in Procs : pc[p] \in {"open", "flock", "check"})
    ~> (Inside # {} \/ \A p \in Procs : pc[p] = "out")

=============================================================================
