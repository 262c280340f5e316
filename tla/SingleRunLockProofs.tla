------------------------ MODULE SingleRunLockProofs ------------------------
(***************************************************************************)
(* Proofs about SingleRunLock, for any number of processes and files.      *)
(***************************************************************************)
EXTENDS SingleRunLock, TLAPS

Waiting == {"flock"}
Granted == {"check", "in", "stat", "unlink", "release"}

\* Whoever was granted a flock has the file open and still holds the flock.
HoldsFlock ==
  \A p \in Procs :
    /\ pc[p] \in Waiting \cup Granted => handle[p] # None
    /\ pc[p] \in Granted => flock[handle[p]] = p

IInv == TypeOK /\ HoldsFlock /\ OwnsPath

\* The inductive invariant holds initially.
LEMMA InitIInv == Init => IInv
BY LockAssumption DEF Init, IInv, TypeOK, HoldsFlock, OwnsPath, Pcs, Waiting, Granted

\* A process that closes its file, wherever it goes then, takes nothing
\* from the others (_release_and_close, and the kernel after a kill).
LEMMA CloseIInv ==
  ASSUME IInv, NEW p \in Procs, NEW next \in {"out", "open"},
         Goto(p, next), ReleaseAndClose(p), UNCHANGED path
  PROVE  IInv'
<1>1. TypeOK'
  BY LockAssumption DEF IInv, TypeOK, Goto, ReleaseAndClose, Pcs
<1>2. pc'[p] = next /\ \A q \in Procs : q # p => pc'[q] = pc[q] /\ handle'[q] = handle[q]
  BY DEF IInv, TypeOK, Goto, ReleaseAndClose
<1>3. \A i \in Inodes : flock[i] # p => flock'[i] = flock[i]
  BY DEF IInv, TypeOK, ReleaseAndClose
<1>4. HoldsFlock'
  BY <1>2, <1>3 DEF IInv, TypeOK, HoldsFlock, Waiting, Granted
<1>5. OwnsPath'
  BY <1>2, <1>3 DEF IInv, TypeOK, OwnsPath
<1> QED
  BY <1>1, <1>4, <1>5 DEF IInv

\* Every step preserves the inductive invariant.
LEMMA NextIInv == IInv /\ [Next]_vars => IInv'
<1> SUFFICES ASSUME IInv, [Next]_vars PROVE IInv'
  OBVIOUS
<1> USE LockAssumption
<1>1. CASE UNCHANGED vars
  BY <1>1 DEF vars, IInv, TypeOK, HoldsFlock, OwnsPath
<1>2. ASSUME NEW p \in Procs, Enter(p) PROVE IInv'
  BY <1>2 DEF Enter, Goto, IInv, TypeOK, HoldsFlock, OwnsPath, Pcs, Waiting, Granted
<1>3. ASSUME NEW p \in Procs, Open(p) PROVE IInv'
  <2>1. PICK i \in Inodes :
          /\ path = None \/ i = path
          /\ path' = i
          /\ handle' = [handle EXCEPT ![p] = i]
    BY <1>3 DEF Open
  <2>2. pc' = [pc EXCEPT ![p] = "flock"] /\ pc[p] = "open" /\ flock' = flock
    BY <1>3 DEF Open, Goto
  <2>3. TypeOK'
    BY <2>1, <2>2 DEF IInv, TypeOK, Pcs
  <2>4. HoldsFlock'
    BY <2>1, <2>2 DEF IInv, TypeOK, HoldsFlock, Waiting, Granted
  <2>5. OwnsPath'
    BY <2>1, <2>2 DEF IInv, TypeOK, OwnsPath
  <2> QED
    BY <2>3, <2>4, <2>5 DEF IInv
<1>4. ASSUME NEW p \in Procs, Flock(p) PROVE IInv'
  <2>1. pc[p] = "flock" /\ handle[p] \in Inodes /\ flock[handle[p]] = None
    BY <1>4 DEF Flock, IInv, TypeOK, HoldsFlock, Waiting
  <2>2. TypeOK'
    BY <1>4, <2>1 DEF Flock, Goto, IInv, TypeOK, Pcs
  <2>3. HoldsFlock'
    BY <1>4, <2>1 DEF Flock, Goto, IInv, TypeOK, HoldsFlock, Waiting, Granted
  <2>4. OwnsPath'
    BY <1>4, <2>1 DEF Flock, Goto, IInv, TypeOK, OwnsPath
  <2> QED
    BY <2>2, <2>3, <2>4 DEF IInv
<1>5. ASSUME NEW p \in Procs, Check(p) PROVE IInv'
  <2>1. CASE path = handle[p]
    BY <1>5, <2>1 DEF Check, Goto, IInv, TypeOK, HoldsFlock, OwnsPath, Pcs, Waiting, Granted
  <2>2. CASE path # handle[p]
    BY <1>5, <2>2, CloseIInv DEF Check
  <2> QED
    BY <2>1, <2>2
<1>6. ASSUME NEW p \in Procs, Leave(p) \/ Stat(p) PROVE IInv'
  BY <1>6 DEF Leave, Stat, Goto, IInv, TypeOK, HoldsFlock, OwnsPath, Pcs, Waiting, Granted
<1>7. ASSUME NEW p \in Procs, StatFails(p) PROVE IInv'
  BY <1>7 DEF StatFails, Goto, IInv, TypeOK, HoldsFlock, OwnsPath, Pcs, Waiting, Granted
<1>8. ASSUME NEW p \in Procs, Unlink(p) PROVE IInv'
  BY <1>8 DEF Unlink, Goto, IInv, TypeOK, HoldsFlock, OwnsPath, Pcs, Waiting, Granted
<1>9. ASSUME NEW p \in Procs, CheckFails(p) PROVE IInv'
  BY <1>9, CloseIInv DEF CheckFails
<1>10. ASSUME NEW p \in Procs, GiveUp(p) \/ Release(p) \/ Crash(p) PROVE IInv'
  BY <1>10, CloseIInv DEF GiveUp, Release, Crash
<1> QED
  BY <1>1, <1>2, <1>3, <1>4, <1>5, <1>6, <1>7, <1>8, <1>9, <1>10
  DEF Next, Work, Trouble

\* The inductive invariant holds in every reachable state.
THEOREM LockInvariance == Spec => []IInv
<1> QED
  BY InitIInv, NextIInv, PTL DEF Spec

\* The owner's file is the one the path names, up to the moment it removes
\* it: the unlink of single_run_lock never destroys another process's lock.
THEOREM PathIsOwned == Spec => []OwnsPath
<1>1. IInv => OwnsPath
  BY DEF IInv
<1> QED
  BY <1>1, LockInvariance, PTL

\* Two processes inside own the same file, whose flock has one holder.
LEMMA InsideAlone == IInv => MutualExclusion
BY DEF IInv, OwnsPath, MutualExclusion

\* single_run_lock admits one process at a time.
THEOREM OneInside == Spec => []MutualExclusion
<1> QED
  BY InsideAlone, LockInvariance, PTL

\* The abstract holder is p exactly while p is inside.
LEMMA HolderIs ==
  ASSUME IInv, NEW p \in Procs, pc[p] = "in"
  PROVE  (IF Inside = {} THEN None ELSE CHOOSE q \in Procs : pc[q] = "in") = p
<1>1. Inside # {}
  BY DEF Inside
<1>2. \A q \in Procs : pc[q] = "in" => q = p
  BY InsideAlone DEF MutualExclusion
<1> QED
  BY <1>1, <1>2

\* The lock implements the abstract mutual exclusion: entering is Acquire,
\* leaving or dying inside is Release, all else is a stutter.
THEOREM Refinement == Spec => ImplementsSingleRun
<1> DEFINE Holder == IF Inside = {} THEN None ELSE CHOOSE p \in Procs : pc[p] = "in"
<1>1. Init => Abstract!Init
  BY DEF Init, Inside, Abstract!Init
<1>2. IInv /\ IInv' /\ [Next]_vars => [Abstract!Next]_Holder
  <2> SUFFICES ASSUME IInv, IInv', [Next]_vars, ~UNCHANGED Holder
               PROVE  Abstract!Next
    OBVIOUS
  <2>1. \A p \in Procs : pc[p] = "in" => Holder = p
    BY HolderIs
  <2>2. \A p \in Procs : pc'[p] = "in" => Holder' = p
    <3>1. Inside' = {p \in Procs : pc'[p] = "in"}
      BY DEF Inside
    <3>2. \A p, q \in Procs : pc'[p] = "in" /\ pc'[q] = "in" => p = q
      BY DEF IInv, OwnsPath
    <3> QED
      BY <3>1, <3>2
  <2>3. (\A p \in Procs : pc[p] # "in") => Holder = None
    BY DEF Inside
  <2>4. (\A p \in Procs : pc'[p] # "in") => Holder' = None
    <3>1. Inside' = {p \in Procs : pc'[p] = "in"}
      BY DEF Inside
    <3> QED
      BY <3>1
  <2>5. PICK p \in Procs : \A q \in Procs : q # p => pc'[q] = pc[q]
    <3>1. pc' # pc
      <4>1. CASE \E q \in Procs : pc[q] = "in"
        BY <2>1, <2>2, <4>1
      <4>2. CASE \A q \in Procs : pc[q] # "in"
        BY <2>3, <2>4, <4>2
      <4> QED
        BY <4>1, <4>2
    <3>2. ~UNCHANGED vars
      BY <3>1 DEF vars
    <3> QED
      BY <3>2 DEF Next, Work, Trouble, Enter, Open, Flock, Check, CheckFails,
         GiveUp, Leave, Stat, StatFails, Unlink, Release, Crash, Goto, IInv, TypeOK
  <2> HIDE DEF Holder
  <2>6. CASE pc[p] = "in" /\ pc'[p] # "in"
    <3>1. \A q \in Procs : pc'[q] # "in"
      BY <2>1, <2>5, <2>6
    <3>2. Abstract!Release(p)
      BY <2>1, <2>4, <2>6, <3>1 DEF Abstract!Release, Holder
    <3> QED
      BY <3>2 DEF Abstract!Next
  <2>7. CASE pc[p] # "in" /\ pc'[p] = "in"
    <3>1. \A q \in Procs : pc[q] # "in"
      BY <2>2, <2>5, <2>7
    <3>2. Abstract!Acquire(p)
      BY <2>2, <2>3, <2>7, <3>1 DEF Abstract!Acquire, Holder
    <3> QED
      BY <3>2 DEF Abstract!Next
  <2>8. CASE (pc[p] = "in") <=> (pc'[p] = "in")
    BY <2>1, <2>2, <2>3, <2>4, <2>5, <2>8
  <2> QED
    BY <2>6, <2>7, <2>8
<1> QED
  BY <1>1, <1>2, LockInvariance, PTL DEF Spec, ImplementsSingleRun, Abstract!Spec

=============================================================================
