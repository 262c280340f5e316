--------------------------- MODULE KisAccessProofs ---------------------------
(***************************************************************************)
(* Proofs about KisAccess, for any processes, calls, intervals and faults. *)
(* A process between its scan and its unlock holds the flock, so what it   *)
(* read of the slot files is still there when it writes them; hence the    *)
(* slot it makes durable is an interval later than every slot before it.   *)
(* Each step of a process is looked at three times: for the types, for the *)
(* process's own part of the invariant, and for the slots.  On top of this *)
(* come what the clock may find (Time), and how long the queue of slots    *)
(* ahead of the clock may get (The queue).                                 *)
(***************************************************************************)
EXTENDS KisAccess, FiniteSetTheorems, TLAPS

\* The steps of one process.
Acts(p) ==
  \/ Boot(p) \/ Exit(p)
  \/ \E c \in Calls : Call(p, c)
  \/ Step(p) \/ Issued(p) \/ Answer(p) \/ RateLimited(p)
  \/ Trouble(p)

\* Who works on the slot files has the lock.
Locked(p) ==
  pc[p] \in {"scan", "reserve", "write", "sync", "unlock", "abandon"} => flock = p

\* What a process is pacing for, and the slots it then has in hand.
Pacing == {"wait", "flock", "scan", "reserve", "write", "sync", "unlock", "sleep"}
Path(p) ==
  /\ pc[p] \in {"auth", "token", "recheck", "send", "answer", "backoff"} => cat[p] = want[p]
  /\ pc[p] \in Pacing => cat[p] \in {want[p], "TOKEN"}
  /\ pc[p] \in {"issue", "issued"} => cat[p] = "TOKEN"
  /\ pc[p] \in {"unlock", "sleep", "issue"} => slot[p][cat[p]] # NoSlot
  /\ pc[p] \in {"auth", "token", "recheck", "send", "issue", "issued"} => slot[p][want[p]] # NoSlot
  /\ pc[p] \in Pacing /\ cat[p] = "TOKEN" => slot[p][want[p]] # NoSlot

\* A slot being written lies an interval after the file, and, once the file
\* shows it, after the disk.
Writing(p) ==
  /\ pc[p] = "write" => next[p] \in Nat /\ file[cat[p]] + Interval[cat[p]] <= next[p]
  /\ pc[p] = "sync" =>
       /\ next[p] \in Nat /\ next[p] = file[cat[p]]
       /\ durable[cat[p]] + Interval[cat[p]] <= next[p]

Mine(p) == Locked(p) /\ Path(p) /\ Writing(p)

\* A step of a process keeps the types.
LEMMA TypeActs ==
  ASSUME TypeOK, NEW p \in Procs, Mine(p), Acts(p)
  PROVE  TypeOK'
<1> USE AccessAssumption DEF TypeOK, Goto, state, token, local, NoSlot, Categories
<1>1. CASE Boot(p)
  BY <1>1 DEF Boot, Requests, Mine, Path, Writing
<1>2. CASE Exit(p)
  BY <1>2 DEF Exit, Die, Requests, Mine, Path, Writing
<1>3. CASE Wait(p)
  <2>1. CASE invalid[p]
    <3>1. Raise(p) /\ UNCHANGED <<state, invalid, faults>>
      BY <1>3, <2>1 DEF Wait
    <3> QED
      BY <3>1 DEF Raise
  <2>2. CASE ~invalid[p]
    <3>1. now \in Nat /\ now + LockTimeout \in Nat
      OBVIOUS
    <3>2. /\ pc' = [pc EXCEPT ![p] = "flock"]
          /\ deadline' = [deadline EXCEPT ![p] = now + LockTimeout]
          /\ UNCHANGED <<now, state, token, want, cat, next, slot, tries, memory,
                         invalid, sent, faults>>
      BY <1>3, <2>2 DEF Wait
    <3> QED
      BY <3>1, <3>2
  <2> QED
    BY <2>1, <2>2
<1>4. CASE Flock(p)
  BY <1>4 DEF Flock, Requests, Mine, Path, Writing
<1>5. CASE FlockTimesOut(p)
  BY <1>5 DEF FlockTimesOut, Fail, Requests, Mine, Path, Writing
<1>6. CASE Scan(p)
  BY <1>6 DEF Scan, Requests, Mine, Path, Writing
<1>7. CASE ScanRefuses(p)
  BY <1>7 DEF ScanRefuses, Fail, Requests, Mine, Path, Writing
<1>8. CASE Reserve(p)
  BY <1>8 DEF Reserve, SlotAfter, Requests, Mine, Path, Writing
<1>9. CASE ReserveRefuses(p)
  BY <1>9 DEF ReserveRefuses, Fail, Requests, Mine, Path, Writing
<1>10. CASE Replace(p)
  BY <1>10 DEF Replace, Requests, Mine, Path, Writing
<1>11. CASE Sync(p)
  BY <1>11 DEF Sync, Requests, Mine, Path, Writing
<1>12. CASE Unlock(p)
  BY <1>12 DEF Unlock, Requests, Mine, Path, Writing
<1>13. CASE GiveUp(p)
  BY <1>13 DEF GiveUp, Raise, Requests, Mine, Path, Writing
<1>14. CASE Wake(p)
  BY <1>14 DEF Wake, Requests, Mine, Path, Writing
<1>15. CASE Auth(p)
  <2>1. now + TokenTimeout \in Nat
    OBVIOUS
  <2>2. /\ pc' \in {[pc EXCEPT ![p] = "send"], [pc EXCEPT ![p] = "token"]}
        /\ deadline' \in {deadline, [deadline EXCEPT ![p] = now + TokenTimeout]}
        /\ UNCHANGED <<now, state, token, want, cat, next, slot, tries, memory, invalid,
                       sent, faults>>
    BY <1>15 DEF Auth
  <2>3. pc' \in [Procs -> {"down", "idle", "wait", "flock", "scan", "reserve", "write",
                       "sync", "unlock", "abandon", "alert", "close", "sleep", "auth",
                       "token", "recheck", "issue", "issued", "send", "answer",
                       "backoff"}]
    BY <2>2
  <2>4. deadline' \in [Procs -> Nat]
    BY <2>1, <2>2
  <2> QED
    BY <2>2, <2>3, <2>4
<1>16. CASE TakeTokenLock(p)
  BY <1>16 DEF TakeTokenLock, Requests, Mine, Path, Writing
<1>17. CASE Recheck(p)
  BY <1>17 DEF Recheck, Requests, Mine, Path, Writing
<1>18. CASE TokenTimesOut(p)
  BY <1>18 DEF TokenTimesOut, IssueAlone, Requests, Mine, Path, Writing
<1>19. CASE Issue(p)
  BY <1>19 DEF Issue, Leave, Requests, Mine, Path, Writing
<1>20. CASE Send(p)
  BY <1>20 DEF Send, Leave, Requests, Mine, Path, Writing
<1>21. CASE TryAgain(p)
  BY <1>21 DEF TryAgain, Requests, Mine, Path, Writing
<1>22. CASE Issued(p)
  BY <1>22 DEF Issued, Fault, Requests, Mine, Path, Writing
<1>23. CASE Answer(p)
  BY <1>23 DEF Answer, Requests, Mine, Path, Writing
<1>24. CASE RateLimited(p)
  BY <1>24 DEF RateLimited, Requests, Mine, Path, Writing
<1>25. CASE WaitFails(p)
  BY <1>25 DEF WaitFails, Fault, Fail, Requests, Mine, Path, Writing
<1>26. CASE ScanFails(p)
  BY <1>26 DEF ScanFails, Fault, Fail, Requests, Mine, Path, Writing
<1>27. CASE ReserveFails(p)
  BY <1>27 DEF ReserveFails, Fault, Fail, Requests, Mine, Path, Writing
<1>28. CASE WriteFails(p)
  BY <1>28 DEF WriteFails, Fault, Fail, Requests, Mine, Path, Writing
<1>29. CASE SyncFails(p)
  BY <1>29 DEF SyncFails, Fault, Fail, Requests, Mine, Path, Writing
<1>30. CASE UnlockFails(p)
  BY <1>30 DEF UnlockFails, Fault, Fail, Requests, Mine, Path, Writing
<1>31. CASE TokenLockFails(p)
  BY <1>31 DEF TokenLockFails, Fault, IssueAlone, Requests, Mine, Path, Writing
<1>32. CASE IssueFails(p)
  BY <1>32 DEF IssueFails, Fault, Raise, Requests, Mine, Path, Writing
<1>33. CASE Crash(p)
  <2>1. faults' \in 0 .. MaxFaults
    BY <1>33 DEF Crash, Fault
  <2> QED
    BY <1>33, <2>1 DEF Crash, Die
<1>34. CASE \E c \in Calls : Call(p, c)
  BY <1>34 DEF Call, Requests, Mine, Path, Writing
<1>35. CASE Close(p)
  BY <1>35 DEF Close, Raise, Requests, Mine, Path, Writing
<1> QED
  BY <1>1, <1>2, <1>3, <1>4, <1>5, <1>6, <1>7, <1>8, <1>9, <1>10, <1>11, <1>12, <1>13, <1>14, <1>15, <1>16, <1>17, <1>18, <1>19, <1>20, <1>21, <1>22, <1>23, <1>24, <1>25, <1>26, <1>27, <1>28, <1>29, <1>30, <1>31, <1>32, <1>33, <1>34, <1>35 DEF Acts, Step, Waiting, Trouble, WaitTrouble

\* What a step of p leaves to the others.
Apart(p) ==
  /\ \A q \in Procs \ {p} :
       /\ pc'[q] = pc[q] /\ want'[q] = want[q] /\ cat'[q] = cat[q]
       /\ next'[q] = next[q] /\ slot'[q] = slot[q] /\ invalid'[q] = invalid[q]
  /\ flock' = flock \/ flock \in {None, p}
  /\ flock' \in {flock, None, p} /\ now' = now
  /\ faults' = faults \/ faults' = faults + 1
  /\ UNCHANGED <<file, durable>> \/ flock = p

\* It touches the files only under the lock, and nothing of the others.
LEMMA ActsApart ==
  ASSUME TypeOK, NEW p \in Procs, Locked(p), Acts(p)
  PROVE  Apart(p)
<1> USE DEF TypeOK, Goto, state, token, local, Apart
<1>1. CASE Boot(p)
  BY <1>1 DEF Boot, Locked
<1>2. CASE Exit(p)
  BY <1>2 DEF Exit, Die, Locked
<1>3. CASE Wait(p)
  BY <1>3 DEF Wait, Raise, Locked
<1>4. CASE Flock(p)
  BY <1>4 DEF Flock, Locked
<1>5. CASE FlockTimesOut(p)
  BY <1>5 DEF FlockTimesOut, Fail, Locked
<1>6. CASE Scan(p)
  BY <1>6 DEF Scan, Locked
<1>7. CASE ScanRefuses(p)
  BY <1>7 DEF ScanRefuses, Fail, Locked
<1>8. CASE Reserve(p)
  BY <1>8 DEF Reserve, SlotAfter, Locked
<1>9. CASE ReserveRefuses(p)
  BY <1>9 DEF ReserveRefuses, Fail, Locked
<1>10. CASE Replace(p)
  BY <1>10 DEF Replace, Locked
<1>11. CASE Sync(p)
  BY <1>11 DEF Sync, Locked
<1>12. CASE Unlock(p)
  BY <1>12 DEF Unlock, Locked
<1>13. CASE GiveUp(p)
  BY <1>13 DEF GiveUp, Raise, Locked
<1>14. CASE Wake(p)
  BY <1>14 DEF Wake, Locked
<1>15. CASE Auth(p)
  BY <1>15 DEF Auth, Locked
<1>16. CASE TakeTokenLock(p)
  BY <1>16 DEF TakeTokenLock, Locked
<1>17. CASE Recheck(p)
  BY <1>17 DEF Recheck, Locked
<1>18. CASE TokenTimesOut(p)
  BY <1>18 DEF TokenTimesOut, IssueAlone, Locked
<1>19. CASE Issue(p)
  BY <1>19 DEF Issue, Leave, Locked
<1>20. CASE Send(p)
  BY <1>20 DEF Send, Leave, Locked
<1>21. CASE TryAgain(p)
  BY <1>21 DEF TryAgain, Locked
<1>22. CASE Issued(p)
  BY <1>22 DEF Issued, Fault, Locked
<1>23. CASE Answer(p)
  BY <1>23 DEF Answer, Locked
<1>24. CASE RateLimited(p)
  BY <1>24 DEF RateLimited, Locked
<1>25. CASE WaitFails(p)
  BY <1>25 DEF WaitFails, Fault, Fail, Locked
<1>26. CASE ScanFails(p)
  BY <1>26 DEF ScanFails, Fault, Fail, Locked
<1>27. CASE ReserveFails(p)
  BY <1>27 DEF ReserveFails, Fault, Fail, Locked
<1>28. CASE WriteFails(p)
  BY <1>28 DEF WriteFails, Fault, Fail, Locked
<1>29. CASE SyncFails(p)
  BY <1>29 DEF SyncFails, Fault, Fail, Locked
<1>30. CASE UnlockFails(p)
  BY <1>30 DEF UnlockFails, Fault, Fail, Locked
<1>31. CASE TokenLockFails(p)
  BY <1>31 DEF TokenLockFails, Fault, IssueAlone, Locked
<1>32. CASE IssueFails(p)
  BY <1>32 DEF IssueFails, Fault, Raise, Locked
<1>33. CASE Crash(p)
  BY <1>33 DEF Crash, Fault, Die, Locked
<1>34. CASE \E c \in Calls : Call(p, c)
  BY <1>34 DEF Call, Locked
<1>35. CASE Close(p)
  BY <1>35 DEF Close, Raise, Locked
<1> QED
  BY <1>1, <1>2, <1>3, <1>4, <1>5, <1>6, <1>7, <1>8, <1>9, <1>10, <1>11, <1>12, <1>13, <1>14, <1>15, <1>16, <1>17, <1>18, <1>19, <1>20, <1>21, <1>22, <1>23, <1>24, <1>25, <1>26, <1>27, <1>28, <1>29, <1>30, <1>31, <1>32, <1>33, <1>34, <1>35 DEF Acts, Step, Waiting, Trouble, WaitTrouble

\* It keeps the process's own part of the invariant.
LEMMA ActsMine ==
  ASSUME TypeOK, NEW p \in Procs, Mine(p), \A c \in Categories : durable[c] <= file[c], Acts(p)
  PROVE  Mine(p)'
<1> USE AccessAssumption DEF TypeOK, Goto, state, token, local, Mine, Locked, Path, Writing, Pacing, NoSlot, Categories
<1>1. CASE Boot(p)
  BY <1>1 DEF Boot
<1>2. CASE Exit(p)
  BY <1>2 DEF Exit, Die
<1>3. CASE Wait(p)
  BY <1>3 DEF Wait, Raise
<1>4. CASE Flock(p)
  BY <1>4 DEF Flock
<1>5. CASE FlockTimesOut(p)
  BY <1>5 DEF FlockTimesOut, Fail
<1>6. CASE Scan(p)
  BY <1>6 DEF Scan
<1>7. CASE ScanRefuses(p)
  BY <1>7 DEF ScanRefuses, Fail
<1>8. CASE Reserve(p)
  BY <1>8 DEF Reserve, SlotAfter
<1>9. CASE ReserveRefuses(p)
  BY <1>9 DEF ReserveRefuses, Fail
<1>10. CASE Replace(p)
  BY <1>10 DEF Replace
<1>11. CASE Sync(p)
  BY <1>11 DEF Sync
<1>12. CASE Unlock(p)
  BY <1>12 DEF Unlock
<1>13. CASE GiveUp(p)
  BY <1>13 DEF GiveUp, Raise
<1>14. CASE Wake(p)
  BY <1>14 DEF Wake
<1>15. CASE Auth(p)
  BY <1>15 DEF Auth
<1>16. CASE TakeTokenLock(p)
  BY <1>16 DEF TakeTokenLock
<1>17. CASE Recheck(p)
  BY <1>17 DEF Recheck
<1>18. CASE TokenTimesOut(p)
  BY <1>18 DEF TokenTimesOut, IssueAlone
<1>19. CASE Issue(p)
  BY <1>19 DEF Issue, Leave
<1>20. CASE Send(p)
  BY <1>20 DEF Send, Leave
<1>21. CASE TryAgain(p)
  BY <1>21 DEF TryAgain
<1>22. CASE Issued(p)
  BY <1>22 DEF Issued, Fault
<1>23. CASE Answer(p)
  BY <1>23 DEF Answer
<1>24. CASE RateLimited(p)
  BY <1>24 DEF RateLimited
<1>25. CASE WaitFails(p)
  BY <1>25 DEF WaitFails, Fault, Fail
<1>26. CASE ScanFails(p)
  BY <1>26 DEF ScanFails, Fault, Fail
<1>27. CASE ReserveFails(p)
  BY <1>27 DEF ReserveFails, Fault, Fail
<1>28. CASE WriteFails(p)
  BY <1>28 DEF WriteFails, Fault, Fail
<1>29. CASE SyncFails(p)
  BY <1>29 DEF SyncFails, Fault, Fail
<1>30. CASE UnlockFails(p)
  BY <1>30 DEF UnlockFails, Fault, Fail
<1>31. CASE TokenLockFails(p)
  BY <1>31 DEF TokenLockFails, Fault, IssueAlone
<1>32. CASE IssueFails(p)
  BY <1>32 DEF IssueFails, Fault, Raise
<1>33. CASE Crash(p)
  BY <1>33 DEF Crash, Fault, Die
<1>34. CASE \E c \in Calls : Call(p, c)
  BY <1>34 DEF Call
<1>35. CASE Close(p)
  BY <1>35 DEF Close, Raise
<1> QED
  BY <1>1, <1>2, <1>3, <1>4, <1>5, <1>6, <1>7, <1>8, <1>9, <1>10, <1>11, <1>12, <1>13, <1>14, <1>15, <1>16, <1>17, <1>18, <1>19, <1>20, <1>21, <1>22, <1>23, <1>24, <1>25, <1>26, <1>27, <1>28, <1>29, <1>30, <1>31, <1>32, <1>33, <1>34, <1>35 DEF Acts, Step, Waiting, Trouble, WaitTrouble

\* The slots that were handed out, held or used: none is later than what the
\* disk knows, and any two of a category are an interval apart.
Clear(c, a, b) == a + Interval[c] <= b \/ b + Interval[c] <= a
Known ==
  /\ \A c \in Categories : durable[c] <= file[c]
  /\ \A r \in sent : r.slot <= durable[r.cat]
  /\ \A p \in Procs, c \in Categories : slot[p][c] # NoSlot => slot[p][c] <= durable[c]
UsedClear ==
  \A r, s \in sent : r # s /\ r.cat = s.cat => Clear(r.cat, r.slot, s.slot)
UsedHeldClear ==
  \A r \in sent, p \in Procs :
    slot[p][r.cat] # NoSlot => Clear(r.cat, r.slot, slot[p][r.cat])
HeldClear ==
  \A p, q \in Procs, c \in Categories :
    p # q /\ slot[p][c] # NoSlot /\ slot[q][c] # NoSlot
      => Clear(c, slot[p][c], slot[q][c])
Slots == Known /\ UsedClear /\ UsedHeldClear /\ HeldClear

\* No slot is handed out or used, though some may be dropped.
Quiet ==
  /\ UNCHANGED <<file, durable, sent>>
  /\ \A p \in Procs, c \in Categories : slot'[p][c] \in {slot[p][c], NoSlot}

\* Then the slots keep their distance.
LEMMA QuietSlots ==
  ASSUME TypeOK, Slots, Quiet
  PROVE  Slots'
<1>1. \A r \in sent : r.cat \in Categories
  BY DEF TypeOK, Requests
<1> QED
  BY <1>1 DEF Quiet, Slots, Known, UsedClear, UsedHeldClear, HeldClear, Clear

\* A request that leaves uses the slot its process holds.
LEMMA LeaveSlots ==
  ASSUME TypeOK, Slots, NEW p \in Procs, NEW c \in Categories,
         slot[p][c] # NoSlot, Leave(p, c), UNCHANGED <<file, durable>>
  PROVE  Slots'
<1> DEFINE r == [proc |-> p, cat |-> c, slot |-> slot[p][c], at |-> now]
<1>1. \A x \in sent : x.cat \in Categories
  BY DEF TypeOK, Requests
<1>2. sent' = sent \cup {r} /\ r.cat = c /\ r.slot = slot[p][c]
  BY DEF Leave
<1>3. slot'[p][c] = NoSlot
  BY DEF Leave, TypeOK
<1>4. \A q \in Procs, d \in Categories :
        slot'[q][d] \in {slot[q][d], NoSlot} /\ (q = p /\ d = c => slot'[q][d] = NoSlot)
  BY <1>3 DEF Leave, TypeOK
<1> HIDE DEF r
<1>5. Known'
  BY <1>2, <1>4 DEF Slots, Known
<1>6. UsedClear'
  BY <1>1, <1>2 DEF Slots, UsedClear, UsedHeldClear, Clear
<1>7. UsedHeldClear'
  BY <1>1, <1>2, <1>4 DEF Slots, UsedHeldClear, HeldClear, Clear
<1>8. HeldClear'
  BY <1>4 DEF Slots, HeldClear
<1> QED
  BY <1>5, <1>6, <1>7, <1>8 DEF Slots

\* A rename changes the file and not yet what the disk knows.
LEMMA ReplaceSlots ==
  ASSUME TypeOK, Slots, NEW p \in Procs, Mine(p), Replace(p)
  PROVE  Slots'
<1>1. cat[p] \in Categories /\ Interval[cat[p]] \in Nat
  BY AccessAssumption DEF TypeOK
<1>2. \A c \in Categories : durable[c] <= file'[c]
  BY <1>1 DEF Replace, Mine, Writing, Slots, Known, TypeOK
<1> QED
  BY <1>2 DEF Replace, local, Slots, Known, UsedClear, UsedHeldClear, HeldClear

\* The slot that is handed out lies an interval after all that were.
LEMMA SyncSlots ==
  ASSUME TypeOK, Slots, NEW p \in Procs, Mine(p), Sync(p)
  PROVE  Slots'
<1> DEFINE d == cat[p]
           n == next[p]
<1>1. /\ d \in Categories /\ n \in Nat /\ n = file[d]
      /\ durable[d] + Interval[d] <= n
  BY DEF TypeOK, Sync, Mine, Writing
<1>2. durable' = file /\ UNCHANGED <<file, sent>>
  BY DEF Sync
<1>3. \A q \in Procs, c \in Categories :
        slot'[q][c] = IF q = p /\ c = d THEN n ELSE slot[q][c]
  BY <1>1 DEF Sync, TypeOK
<1>4. \A c \in Categories : Interval[c] \in Nat /\ file[c] \in Int /\ durable[c] \in Int
  BY AccessAssumption DEF TypeOK
<1>5. \A r \in sent : r.cat \in Categories /\ r.slot \in Nat
  BY DEF TypeOK, Requests
<1>6. \A q \in Procs, c \in Categories : slot[q][c] \in Int
  BY DEF TypeOK, NoSlot
<1> HIDE DEF d, n
<1>7. Known'
  BY <1>1, <1>2, <1>3, <1>4, <1>5, <1>6 DEF Slots, Known
<1>8. UsedClear'
  BY <1>2 DEF Slots, UsedClear
<1>9. UsedHeldClear'
  BY <1>1, <1>2, <1>3, <1>4, <1>5 DEF Slots, Known, UsedHeldClear, Clear
<1>10. HeldClear'
  BY <1>1, <1>3, <1>4, <1>6 DEF Slots, Known, HeldClear, Clear
<1> QED
  BY <1>7, <1>8, <1>9, <1>10 DEF Slots

\* A power loss takes the held slots away and keeps what the disk knows.
LEMMA PowerLossSlots ==
  ASSUME TypeOK, Slots, PowerLoss
  PROVE  Slots'
<1>1. \A q \in Procs, c \in Categories : slot'[q][c] = NoSlot
  BY DEF PowerLoss, Die
<1>2. \A c \in Categories : durable[c] <= durable'[c] /\ durable'[c] = file'[c]
  BY DEF PowerLoss, Slots, Known, TypeOK
<1>3. sent' = sent
  BY DEF PowerLoss, Die
<1>4. \A r \in sent : r.cat \in Categories /\ r.slot \in Nat
  BY DEF TypeOK, Requests
<1>5. \A c \in Categories : durable[c] \in Int /\ durable'[c] \in Int
  BY DEF TypeOK, PowerLoss
<1> QED
  BY <1>1, <1>2, <1>3, <1>4, <1>5 DEF Slots, Known, UsedClear, UsedHeldClear, HeldClear, Clear

\* The steps that do more.
Hands(p) == Replace(p) \/ Sync(p) \/ Issue(p) \/ Send(p)

\* Those drop slots and change no file.
LEMMA ActsQuiet ==
  ASSUME TypeOK, NEW p \in Procs, Acts(p), ~Hands(p)
  PROVE  Quiet
<1>1. CASE Boot(p)
  BY <1>1 DEF Boot, Quiet, TypeOK, state, local
<1>2. CASE Exit(p)
  BY <1>2 DEF Exit, Die, Quiet, TypeOK, state, local
<1>3. CASE Wait(p)
  <2>1. CASE invalid[p]
    <3>1. Raise(p) /\ UNCHANGED state
      BY <1>3, <2>1 DEF Wait
    <3> QED
      BY <3>1 DEF Raise, Quiet, TypeOK, state
  <2>2. CASE ~invalid[p]
    <3>1. UNCHANGED <<state, slot, sent>>
      BY <1>3, <2>2 DEF Wait
    <3> QED
      BY <3>1 DEF Quiet, TypeOK, state
  <2> QED
    BY <2>1, <2>2
<1>4. CASE Flock(p)
  BY <1>4 DEF Flock, Quiet, TypeOK, state, local
<1>5. CASE FlockTimesOut(p)
  BY <1>5 DEF FlockTimesOut, Fail, Quiet, TypeOK, state, local
<1>6. CASE Scan(p)
  BY <1>6 DEF Scan, Quiet, TypeOK, state, local
<1>7. CASE ScanRefuses(p)
  BY <1>7 DEF ScanRefuses, Fail, Quiet, TypeOK, state, local
<1>8. CASE Reserve(p)
  BY <1>8 DEF Reserve, SlotAfter, Quiet, TypeOK, state, local
<1>9. CASE ReserveRefuses(p)
  BY <1>9 DEF ReserveRefuses, Fail, Quiet, TypeOK, state, local
<1>12. CASE Unlock(p)
  BY <1>12 DEF Unlock, Quiet, TypeOK, state, local
<1>13. CASE GiveUp(p)
  BY <1>13 DEF GiveUp, Raise, Quiet, TypeOK, state, local
<1>14. CASE Wake(p)
  BY <1>14 DEF Wake, Quiet, TypeOK, state, local
<1>15. CASE Auth(p)
  BY <1>15 DEF Auth, Quiet, TypeOK, state, local
<1>16. CASE TakeTokenLock(p)
  BY <1>16 DEF TakeTokenLock, Quiet, TypeOK, state, local
<1>17. CASE Recheck(p)
  BY <1>17 DEF Recheck, Quiet, TypeOK, state, local
<1>18. CASE TokenTimesOut(p)
  BY <1>18 DEF TokenTimesOut, IssueAlone, Quiet, TypeOK, state, local
<1>21. CASE TryAgain(p)
  BY <1>21 DEF TryAgain, Quiet, TypeOK, state, local
<1>22. CASE Issued(p)
  BY <1>22 DEF Issued, Fault, Quiet, TypeOK, state, local
<1>23. CASE Answer(p)
  BY <1>23 DEF Answer, Quiet, TypeOK, state, local
<1>24. CASE RateLimited(p)
  BY <1>24 DEF RateLimited, Quiet, TypeOK, state, local
<1>25. CASE WaitFails(p)
  BY <1>25 DEF WaitFails, Fault, Fail, Quiet, TypeOK, state, local
<1>26. CASE ScanFails(p)
  BY <1>26 DEF ScanFails, Fault, Fail, Quiet, TypeOK, state, local
<1>27. CASE ReserveFails(p)
  BY <1>27 DEF ReserveFails, Fault, Fail, Quiet, TypeOK, state, local
<1>28. CASE WriteFails(p)
  BY <1>28 DEF WriteFails, Fault, Fail, Quiet, TypeOK, state, local
<1>29. CASE SyncFails(p)
  BY <1>29 DEF SyncFails, Fault, Fail, Quiet, TypeOK, state, local
<1>30. CASE UnlockFails(p)
  BY <1>30 DEF UnlockFails, Fault, Fail, Quiet, TypeOK, state, local
<1>31. CASE TokenLockFails(p)
  BY <1>31 DEF TokenLockFails, Fault, IssueAlone, Quiet, TypeOK, state, local
<1>32. CASE IssueFails(p)
  BY <1>32 DEF IssueFails, Fault, Raise, Quiet, TypeOK, state, local
<1>33. CASE Crash(p)
  BY <1>33 DEF Crash, Fault, Die, Quiet, TypeOK, state, local
<1>34. CASE \E c \in Calls : Call(p, c)
  BY <1>34 DEF Call, Quiet, TypeOK, state
<1>35. CASE Close(p)
  BY <1>35 DEF Close, Raise, Quiet, TypeOK, state
<1> QED
  BY <1>1, <1>2, <1>3, <1>4, <1>5, <1>6, <1>7, <1>8, <1>9, <1>12, <1>13, <1>14, <1>15, <1>16, <1>17, <1>18, <1>21, <1>22, <1>23, <1>24, <1>25, <1>26, <1>27, <1>28, <1>29, <1>30, <1>31, <1>32, <1>33, <1>34, <1>35 DEF Hands, Acts, Step, Waiting, Trouble, WaitTrouble

\* Every step of a process keeps the distance of the slots.
LEMMA ActsSlots ==
  ASSUME TypeOK, Slots, NEW p \in Procs, Mine(p), Acts(p)
  PROVE  Slots'
<1>1. CASE ~Hands(p)
  BY <1>1, ActsQuiet, QuietSlots
<1>2. CASE Replace(p)
  BY <1>2, ReplaceSlots
<1>3. CASE Sync(p)
  BY <1>3, SyncSlots
<1>4. CASE Issue(p)
  <2>1. Leave(p, "TOKEN") /\ slot[p]["TOKEN"] # NoSlot /\ UNCHANGED <<file, durable>>
    BY <1>4 DEF Issue, Mine, Path, state
  <2> QED
    BY <2>1, LeaveSlots DEF Categories
<1>5. CASE Send(p)
  <2>1. Leave(p, want[p]) /\ slot[p][want[p]] # NoSlot /\ UNCHANGED <<file, durable>>
    BY <1>5 DEF Send, Mine, Path, state
  <2> QED
    BY <2>1, LeaveSlots DEF Categories, TypeOK
<1> QED
  BY <1>1, <1>2, <1>3, <1>4, <1>5 DEF Hands

(***************************************************************************)
(* The whole invariant.                                                    *)
(***************************************************************************)
IInv == TypeOK /\ (\A p \in Procs : Mine(p)) /\ Slots

\* The invariant holds when no process runs.
LEMMA InitInv == ASSUME Init PROVE IInv
<1> USE AccessAssumption DEF Init, NoSlot, Categories
<1>1. (CHOOSE c \in Calls : TRUE) \in Calls
  OBVIOUS
<1>2. TypeOK
  BY <1>1 DEF TypeOK
<1>3. \A p \in Procs : Mine(p)
  BY DEF Mine, Locked, Path, Writing, Pacing
<1>4. Slots
  BY DEF Slots, Known, UsedClear, UsedHeldClear, HeldClear
<1> QED
  BY <1>2, <1>3, <1>4 DEF IInv

\* The others keep their part.
LEMMA ApartMine ==
  ASSUME NEW p \in Procs, NEW q \in Procs \ {p}, Locked(p), Mine(q), Apart(p), None \notin Procs,
         flock = p => q # flock
  PROVE  Mine(q)'
  BY DEF Apart, Mine, Locked, Path, Writing, Pacing

\* Every step keeps the invariant.
LEMMA NextInv == ASSUME IInv, [Next]_vars PROVE IInv'
<1>1. CASE UNCHANGED vars
  BY <1>1 DEF vars, state, token, local, IInv, TypeOK, Mine, Locked, Path, Writing, Pacing,
              Slots, Known, UsedClear, UsedHeldClear, HeldClear
<1>2. CASE Tick
  <2>1. TypeOK'
    BY <1>2, AccessAssumption DEF Tick, state, token, local, IInv, TypeOK
  <2>2. UNCHANGED <<state, token, pc, local, sent, faults>>
    BY <1>2 DEF Tick
  <2> QED
    BY <2>1, <2>2 DEF state, token, local, IInv, Mine, Locked, Path, Writing, Pacing,
              Slots, Known, UsedClear, UsedHeldClear, HeldClear
<1>3. CASE PowerLoss
  <2>1. TypeOK'
    BY <1>3, AccessAssumption DEF PowerLoss, Fault, Die, IInv, TypeOK, NoSlot
  <2>2. \A p \in Procs : Mine(p)'
    BY <1>3 DEF PowerLoss, Die, Mine, Locked, Path, Writing, Pacing
  <2> QED
    BY <1>3, <2>1, <2>2, PowerLossSlots DEF IInv
<1>4. CASE \E p \in Procs : Acts(p)
  <2>1. PICK p \in Procs : Acts(p)
    BY <1>4
  <2>2. TypeOK /\ Mine(p) /\ Slots /\ Locked(p)
    BY DEF IInv, Mine
  <2>3. TypeOK'
    BY <2>1, <2>2, TypeActs
  <2>4. Mine(p)'
    BY <2>1, <2>2, ActsMine DEF Slots, Known
  <2>5. \A q \in Procs \ {p} : Mine(q)'
    BY <2>1, <2>2, ActsApart, ApartMine, AccessAssumption DEF IInv
  <2>6. Slots'
    BY <2>1, <2>2, ActsSlots
  <2> QED
    BY <2>3, <2>4, <2>5, <2>6 DEF IInv
<1> QED
  BY <1>1, <1>2, <1>3, <1>4 DEF Next, Acts

\* The inductive invariant: only the holder of the lock is between its scan and
\* its unlock, a slot being written is an interval later than the file and then
\* than the disk, and every slot handed out is known to the disk and its own.
THEOREM AccessInvariance == Spec => []IInv
<1>1. Init => IInv
  BY InitInv
<1>2. IInv /\ [Next]_vars => IInv'
  BY NextInv
<1> QED
  BY <1>1, <1>2, PTL DEF Spec

\* TypeOK for every reachable state. It says in particular that each request that
\* left had taken a slot.
THEOREM TypeCorrect == Spec => []TypeOK
<1>1. IInv => TypeOK
  BY DEF IInv
<1> QED
  BY <1>1, AccessInvariance, PTL

\* No two requests of a category leave with slots less than the interval apart,
\* for any number of processes, failures, crashes and power losses.
THEOREM SlotsSpaced == Spec => []SlotsAreSpaced
<1>1. IInv => SlotsAreSpaced
  <2> SUFFICES ASSUME TypeOK, UsedClear, NEW r \in sent, NEW s \in sent,
                      r # s, r.cat = s.cat, r.slot <= s.slot
               PROVE  s.slot - r.slot >= Interval[r.cat]
    BY DEF IInv, Slots, SlotsAreSpaced
  <2>1. r.slot \in Nat /\ s.slot \in Nat /\ Interval[r.cat] \in Nat \ {0}
    BY AccessAssumption DEF TypeOK, Requests
  <2>2. Clear(r.cat, r.slot, s.slot)
    BY DEF UsedClear
  <2> QED
    BY <2>1, <2>2 DEF Clear
<1> QED
  BY <1>1, AccessInvariance, PTL

(***************************************************************************)
(* Time.  A process stands still only where it waits, so a slot that is    *)
(* being written, or has just been taken, is not over, and a token request *)
(* leaves at its slot.                                                     *)
(***************************************************************************)
Working == {"scan", "reserve", "write", "sync", "unlock", "abandon"}

Timed(p) ==
  /\ pc[p] = "write" => next[p] = SlotAfter(cat[p])
  /\ pc[p] = "sync" => next[p] >= now
  /\ pc[p] \in {"unlock", "sleep"} => slot[p][cat[p]] >= now
  /\ pc[p] = "issue" => slot[p]["TOKEN"] = now

\* A process has one slot ahead of it at the most: the one it sleeps for.
Past(p) ==
  \A c \in Categories :
    slot[p][c] > now => pc[p] \in {"unlock", "sleep"} /\ cat[p] = c

\* Who has the lock works, or is on its way out of a failed call, or has failed to
\* give it back.
Holds(p) == flock = p => pc[p] \in Working \cup {"alert"} \/ invalid[p]

Timely(p) == Timed(p) /\ Past(p) /\ Holds(p)
AtSlot == \A r \in sent : r.cat = "TOKEN" => r.at = r.slot

\* Who wakes up wakes up at its slot.
LEMMA WakeTimely ==
  ASSUME TypeOK, NEW p \in Procs, Mine(p), Timely(p), Wake(p)
  PROVE  Timely(p)'
<1> DEFINE d == cat[p]
           step == IF d = "TOKEN" THEN "issue" ELSE "auth"
<1>1. /\ d \in Categories /\ now \in Int /\ pc[p] = "sleep"
      /\ \A c \in Categories : slot[p][c] \in Int
  BY DEF TypeOK, NoSlot, Wake
<1>2. /\ slot[p][d] >= now /\ now >= slot[p][d]
      /\ \A c \in Categories : slot[p][c] > now => c = d
      /\ flock = p => invalid[p]
  BY <1>1 DEF Wake, Timely, Timed, Past, Holds, Working
<1>3. /\ pc' = [pc EXCEPT ![p] = step]
      /\ UNCHANGED <<now, flock, invalid, slot, cat>>
  BY DEF Wake, Goto, state, local
<1> HIDE DEF d
<1>4. slot[p][d] = now
  BY <1>1, <1>2
<1>5. \A c \in Categories : ~(slot[p][c] > now)
  BY <1>1, <1>2, <1>4
<1>6. /\ pc'[p] = step /\ step \in {"issue", "auth"}
      /\ step = "issue" => slot[p]["TOKEN"] = now
  BY <1>3, <1>4 DEF TypeOK
<1> HIDE DEF step
<1> QED
  BY <1>2, <1>3, <1>5, <1>6 DEF Timely, Timed, Past, Holds

\* A step of a process keeps its own part.
LEMMA ActsTimely ==
  ASSUME TypeOK, NEW p \in Procs, Mine(p), Timely(p), Acts(p)
  PROVE  Timely(p)'
<1> USE AccessAssumption DEF TypeOK, Goto, state, token, local, Mine, Locked, Path, Timely, Timed, Past, Holds, Working, Pacing, NoSlot, Categories
<1>1. CASE Boot(p)
  BY <1>1 DEF Boot
<1>2. CASE Exit(p)
  BY <1>2 DEF Exit, Die
<1>3. CASE Wait(p)
  BY <1>3 DEF Wait, Raise
<1>4. CASE Flock(p)
  BY <1>4 DEF Flock
<1>5. CASE FlockTimesOut(p)
  BY <1>5 DEF FlockTimesOut, Fail
<1>6. CASE Scan(p)
  BY <1>6 DEF Scan
<1>7. CASE ScanRefuses(p)
  BY <1>7 DEF ScanRefuses, Fail
<1>8. CASE Reserve(p)
  BY <1>8 DEF Reserve, SlotAfter
<1>9. CASE ReserveRefuses(p)
  BY <1>9 DEF ReserveRefuses, Fail
<1>10. CASE Replace(p)
  BY <1>10 DEF Replace, SlotAfter
<1>11. CASE Sync(p)
  BY <1>11 DEF Sync
<1>12. CASE Unlock(p)
  BY <1>12 DEF Unlock
<1>13. CASE GiveUp(p)
  BY <1>13 DEF GiveUp, Raise
<1>14. CASE Wake(p)
  BY <1>14, WakeTimely DEF Timely
<1>15. CASE Auth(p)
  BY <1>15 DEF Auth
<1>16. CASE TakeTokenLock(p)
  BY <1>16 DEF TakeTokenLock
<1>17. CASE Recheck(p)
  BY <1>17 DEF Recheck
<1>18. CASE TokenTimesOut(p)
  BY <1>18 DEF TokenTimesOut, IssueAlone
<1>19. CASE Issue(p)
  BY <1>19 DEF Issue, Leave
<1>20. CASE Send(p)
  BY <1>20 DEF Send, Leave
<1>21. CASE TryAgain(p)
  BY <1>21 DEF TryAgain
<1>22. CASE Issued(p)
  BY <1>22 DEF Issued, Fault
<1>23. CASE Answer(p)
  BY <1>23 DEF Answer
<1>24. CASE RateLimited(p)
  BY <1>24 DEF RateLimited
<1>25. CASE WaitFails(p)
  BY <1>25 DEF WaitFails, Fault, Fail
<1>26. CASE ScanFails(p)
  BY <1>26 DEF ScanFails, Fault, Fail
<1>27. CASE ReserveFails(p)
  BY <1>27 DEF ReserveFails, Fault, Fail
<1>28. CASE WriteFails(p)
  BY <1>28 DEF WriteFails, Fault, Fail
<1>29. CASE SyncFails(p)
  BY <1>29 DEF SyncFails, Fault, Fail
<1>30. CASE UnlockFails(p)
  BY <1>30 DEF UnlockFails, Fault, Fail
<1>31. CASE TokenLockFails(p)
  BY <1>31 DEF TokenLockFails, Fault, IssueAlone
<1>32. CASE IssueFails(p)
  BY <1>32 DEF IssueFails, Fault, Raise
<1>33. CASE Crash(p)
  BY <1>33 DEF Crash, Fault, Die
<1>34. CASE \E c \in Calls : Call(p, c)
  BY <1>34 DEF Call
<1>35. CASE Close(p)
  BY <1>35 DEF Close, Raise
<1> QED
  BY <1>1, <1>2, <1>3, <1>4, <1>5, <1>6, <1>7, <1>8, <1>9, <1>10, <1>11, <1>12, <1>13, <1>14, <1>15, <1>16, <1>17, <1>18, <1>19, <1>20, <1>21, <1>22, <1>23, <1>24, <1>25, <1>26, <1>27, <1>28, <1>29, <1>30, <1>31, <1>32, <1>33, <1>34, <1>35 DEF Acts, Step, Waiting, Trouble, WaitTrouble

\* The other processes keep theirs.
LEMMA ApartTimely ==
  ASSUME TypeOK, NEW p \in Procs, NEW q \in Procs \ {p}, Mine(q), Timely(q), Apart(p)
  PROVE  Timely(q)'
<1>1. /\ pc'[q] = pc[q] /\ cat'[q] = cat[q] /\ next'[q] = next[q]
      /\ slot'[q] = slot[q] /\ invalid'[q] = invalid[q] /\ now' = now
      /\ flock' \in {flock, None, p} /\ (file' = file \/ flock = p)
  BY DEF Apart
<1>2. pc[q] = "write" => flock = q
  BY DEF Mine, Locked
<1>3. pc[q] = "write" => SlotAfter(cat[q])' = SlotAfter(cat[q])
  BY <1>1, <1>2 DEF SlotAfter
<1>4. flock' = q => flock = q
  BY <1>1, AccessAssumption
<1> QED
  BY <1>1, <1>3, <1>4 DEF Timely, Timed, Past, Holds

\* Time passes only while everybody waits.
LEMMA TickTimely ==
  ASSUME TypeOK, Tick, NEW p \in Procs, Timely(p)
  PROVE  Timely(p)'
<1>1. /\ Waits(p) /\ now' = now + 1 /\ UNCHANGED <<pc, cat, slot, invalid, flock>>
  BY DEF Tick, state, local
<1>2. now \in Int /\ \A c \in Categories : slot[p][c] \in Int
  BY DEF TypeOK, NoSlot
<1>3. cat[p] \in Categories
  BY DEF TypeOK
<1>4. pc[p] \notin {"write", "sync", "unlock", "issue"}
  BY <1>1 DEF Waits
<1>5. pc[p] = "sleep" => slot[p][cat[p]] >= now + 1
  BY <1>1, <1>2, <1>3 DEF Waits
<1>6. Past(p)'
  BY <1>1, <1>2 DEF Timely, Past
<1> QED
  BY <1>1, <1>4, <1>5, <1>6 DEF Timely, Timed, Holds

\* Only a token request leaves as one, at its slot.
LEMMA ActsAtSlot ==
  ASSUME TypeOK, AtSlot, NEW p \in Procs, Timely(p), Acts(p)
  PROVE  AtSlot'
<1>1. CASE ~Hands(p)
  BY <1>1, ActsQuiet DEF Quiet, AtSlot
<1>2. CASE Replace(p) \/ Sync(p)
  BY <1>2 DEF Replace, Sync, local, AtSlot
<1>3. ASSUME NEW c \in Categories, Leave(p, c), c = "TOKEN" => slot[p][c] = now
      PROVE  AtSlot'
  BY <1>3 DEF Leave, AtSlot
<1>4. CASE Issue(p)
  BY <1>3, <1>4 DEF Issue, Timely, Timed, Categories
<1>5. CASE Send(p)
  <2>1. want[p] \in Categories /\ want[p] # "TOKEN"
    BY AccessAssumption DEF TypeOK, Categories
  <2> QED
    BY <1>3, <1>5, <2>1 DEF Send
<1> QED
  BY <1>1, <1>2, <1>4, <1>5 DEF Hands

\* Until something fails, a temporary is one being written, every limiter is in
\* order, and nobody tells the operator anything with the lock in hand.
Unfailing(p) ==
  /\ p \in temps => pc[p] = "write"
  /\ ~invalid[p]
  /\ flock = p => pc[p] # "alert"
Blameless == faults = 0 => \A p \in Procs : Unfailing(p)

\* A step of a process in which nothing fails.
LEMMA ActsUnfailing ==
  ASSUME TypeOK, NEW p \in Procs, Mine(p), Timely(p), Unfailing(p), Acts(p),
         faults' = faults, pc[p] = "scan" => \A q \in temps : ~Alive(q)
  PROVE  Unfailing(p)' /\ temps' \subseteq temps \cup {p}
<1> USE AccessAssumption DEF TypeOK, Goto, state, token, local, Mine, Locked, Timely, Holds, Working, Unfailing
<1>0. ~Fault
  BY DEF Fault
<1>1. CASE Boot(p)
  BY <1>1 DEF Boot
<1>2. CASE Exit(p)
  BY <1>2 DEF Exit, Die
<1>3. CASE Wait(p)
  BY <1>3 DEF Wait, Raise
<1>4. CASE Flock(p)
  BY <1>4 DEF Flock
<1>5. CASE FlockTimesOut(p)
  BY <1>5 DEF FlockTimesOut, Fail
<1>6. CASE Scan(p)
  BY <1>6 DEF Scan
<1>7. CASE ScanRefuses(p)
  BY <1>7 DEF ScanRefuses, Fail
<1>8. CASE Reserve(p)
  BY <1>8 DEF Reserve
<1>9. CASE ReserveRefuses(p)
  BY <1>9 DEF ReserveRefuses, Fail
<1>10. CASE Replace(p)
  BY <1>10 DEF Replace
<1>11. CASE Sync(p)
  BY <1>11 DEF Sync
<1>12. CASE Unlock(p)
  BY <1>12 DEF Unlock
<1>13. CASE GiveUp(p)
  BY <1>13 DEF GiveUp, Raise
<1>14. CASE Wake(p)
  BY <1>14 DEF Wake
<1>15. CASE Auth(p)
  BY <1>15 DEF Auth
<1>16. CASE TakeTokenLock(p)
  BY <1>16 DEF TakeTokenLock
<1>17. CASE Recheck(p)
  BY <1>17 DEF Recheck
<1>18. CASE TokenTimesOut(p)
  BY <1>18 DEF TokenTimesOut, IssueAlone
<1>19. CASE Issue(p)
  BY <1>19 DEF Issue, Leave
<1>20. CASE Send(p)
  BY <1>20 DEF Send, Leave
<1>21. CASE TryAgain(p)
  BY <1>21 DEF TryAgain
<1>22. CASE Issued(p)
  BY <1>0, <1>22 DEF Issued, Fault
<1>23. CASE Answer(p)
  BY <1>23 DEF Answer
<1>24. CASE RateLimited(p)
  BY <1>24 DEF RateLimited
<1>34. CASE \E c \in Calls : Call(p, c)
  BY <1>34 DEF Call
<1>35. CASE Close(p)
  BY <1>35 DEF Close, Raise
<1> QED
  BY <1>0, <1>1, <1>2, <1>3, <1>4, <1>5, <1>6, <1>7, <1>8, <1>9, <1>10, <1>11, <1>12, <1>13, <1>14, <1>15, <1>16, <1>17, <1>18, <1>19, <1>20, <1>21, <1>22, <1>23, <1>24, <1>34, <1>35 DEF Acts, Step, Waiting, Trouble, WaitTrouble, WaitFails, ScanFails,
     ReserveFails, WriteFails, SyncFails, UnlockFails, TokenLockFails, IssueFails, Crash

\* Every step of a process.
LEMMA ActsBlameless ==
  ASSUME TypeOK, \A q \in Procs : Mine(q), Blameless, NEW p \in Procs, Timely(p),
         Apart(p), Acts(p)
  PROVE  Blameless'
<1> SUFFICES ASSUME faults' = 0, NEW q \in Procs
             PROVE  Unfailing(q)'
  BY DEF Blameless
<1>1. faults = 0 /\ faults' = faults
  BY DEF TypeOK, Apart
<1>2. Unfailing(p) /\ Unfailing(q)
  BY <1>1 DEF Blameless
<1>3. ASSUME pc[p] = "scan", NEW r \in temps, Alive(r)
      PROVE  FALSE
  <2>1. r \in Procs /\ pc[r] = "write"
    BY <1>1, <1>3 DEF TypeOK, Blameless, Unfailing
  <2>2. flock = r /\ flock = p
    BY <1>3, <2>1 DEF Mine, Locked
  <2> QED
    BY <1>3, <2>1, <2>2
<1>4. Unfailing(p)' /\ temps' \subseteq temps \cup {p}
  BY <1>1, <1>2, <1>3, ActsUnfailing
<1>5. CASE q # p
  <2>1. pc'[q] = pc[q] /\ invalid'[q] = invalid[q] /\ (flock' = q => flock = q)
    BY <1>5, AccessAssumption DEF Apart
  <2> QED
    BY <1>2, <1>4, <1>5, <2>1 DEF Unfailing
<1> QED
  BY <1>4, <1>5

\* What holds of the clock.
TimeInv == (\A p \in Procs : Timely(p)) /\ AtSlot /\ Blameless

\* No time has passed, and nothing was handed out.
LEMMA InitTime == ASSUME Init PROVE TimeInv
BY AccessAssumption DEF Init, TimeInv, Timely, Timed, Past, Holds, AtSlot, NoSlot,
   Blameless, Unfailing

\* Every step keeps the timing.
LEMMA NextTime == ASSUME IInv, TimeInv, [Next]_vars PROVE TimeInv'
<1>1. CASE UNCHANGED vars
  BY <1>1 DEF vars, state, token, local, TimeInv, Timely, Timed, Past, Holds, AtSlot, SlotAfter,
              Blameless, Unfailing
<1>2. CASE Tick
  <2>1. AtSlot'
    BY <1>2 DEF Tick, TimeInv, AtSlot
  <2>2. Blameless'
    BY <1>2 DEF Tick, state, local, TimeInv, Blameless, Unfailing
  <2> QED
    BY <1>2, <2>1, <2>2, TickTimely DEF TimeInv, IInv
<1>3. CASE PowerLoss
  <2>1. /\ \A p \in Procs : pc'[p] = "down"
        /\ \A p \in Procs, c \in Categories : slot'[p][c] = NoSlot
        /\ flock' = None /\ now' = now /\ sent' = sent
    BY <1>3 DEF PowerLoss, Die, IInv, TypeOK
  <2>2. faults' # 0
    BY <1>3 DEF PowerLoss, Fault, IInv, TypeOK
  <2>3. Blameless'
    BY <2>2 DEF Blameless
  <2> QED
    BY <2>1, <2>3, AccessAssumption DEF TimeInv, Timely, Timed, Past, Holds, AtSlot, NoSlot, IInv, TypeOK
<1>4. ASSUME NEW p \in Procs, Acts(p)
      PROVE  TimeInv'
  <2>1. TypeOK /\ Mine(p) /\ Timely(p) /\ Locked(p) /\ AtSlot
    BY DEF IInv, TimeInv, Mine
  <2>2. Apart(p)
    BY <1>4, <2>1, ActsApart
  <2>3. \A q \in Procs \ {p} : Timely(q)'
    BY <2>1, <2>2, ApartTimely DEF IInv, TimeInv
  <2>4. Timely(p)' /\ AtSlot'
    BY <1>4, <2>1, ActsTimely, ActsAtSlot
  <2>5. Blameless'
    BY <1>4, <2>1, <2>2, ActsBlameless DEF IInv, TimeInv
  <2> QED
    BY <2>3, <2>4, <2>5 DEF TimeInv
<1> QED
  BY <1>1, <1>2, <1>3, <1>4 DEF Next, Acts

\* A slot that is handed out is not over, and its process uses it at once when it
\* comes. Who keeps the lock of the state file while time passes tells the operator
\* why its call failed, or has failed to give the lock back, and before the first
\* failure there is nobody of the kind.
THEOREM TimeInvariance == Spec => []TimeInv
BY InitTime, NextTime, AccessInvariance, PTL DEF Spec

\* KIS sees two token requests at least the interval apart, although the slot
\* is waited for inside another lock and tokens are issued beside that lock.
THEOREM TokensPaced == Spec => []TokensArePaced
<1>1. SlotsAreSpaced /\ AtSlot => TokensArePaced
  BY DEF SlotsAreSpaced, AtSlot, TokensArePaced
<1> QED
  BY <1>1, SlotsSpaced, TimeInvariance, PTL DEF TimeInv

\* Somebody waits for the lock of the state file while time passes only after a
\* failure, and then for a process whose own call is failed: it tells the operator
\* with the lock in hand, or could not give it back. A caller that gets its slot
\* keeps nobody waiting.
THEOREM NobodyStarves == Spec => NobodyIsStarved
<1>1. IInv /\ TimeInv /\ [Next]_vars =>
        [now' # now => \A p \in Procs : pc[p] = "flock" =>
           faults > 0 /\ (invalid[flock] \/ pc[flock] = "alert")]_vars
  <2> SUFFICES ASSUME IInv, TimeInv, Next, now' # now,
                      NEW p \in Procs, pc[p] = "flock"
               PROVE  faults > 0 /\ (invalid[flock] \/ pc[flock] = "alert")
    BY DEF vars
  <2>1. Tick
    <3>1. \A q \in Procs : ~Acts(q)
      BY ActsApart DEF IInv, Mine, Apart
    <3>2. ~PowerLoss
      BY DEF PowerLoss, Die
    <3> QED
      BY <3>1, <3>2 DEF Next, Acts
  <2>2. flock \in Procs
    BY <2>1 DEF Tick, Waits, IInv, TypeOK
  <2>3. Waits(flock) /\ Holds(flock)
    BY <2>1, <2>2 DEF Tick, TimeInv, Timely
  <2>4. invalid[flock] \/ pc[flock] = "alert"
    BY <2>3 DEF Holds, Waits, Working
  <2>5. faults # 0 => faults > 0
    BY DEF IInv, TypeOK
  <2>6. faults # 0
    BY <2>2, <2>4 DEF TimeInv, Blameless, Unfailing
  <2> QED
    BY <2>4, <2>5, <2>6
<1> QED
  BY <1>1, AccessInvariance, TimeInvariance, PTL DEF Spec, NobodyIsStarved

(***************************************************************************)
(* The queue.  The slots ahead of the clock, counted back from the last    *)
(* one in the file, are a chain of intervals.  Each of them is held by a   *)
(* process, or was lost by a failure, and a failure loses at most one slot *)
(* of each process.                                                        *)
(***************************************************************************)
Chain(c) ==
  {v \in now + 1 .. file[c] : \E j \in Nat : file[c] = v + j * Interval[c]}
Has(p, c) == IF pc[p] = "sync" /\ cat[p] = c THEN next[p] ELSE slot[p][c]
HeldBy(P, c) == {Has(p, c) : p \in P}
Lost(c) == Chain(c) \ HeldBy(Procs, c)

FewLost ==
  \A c \in Categories : Cardinality(Lost(c)) <= Cardinality(Procs) * faults
InChain ==
  \A c \in Categories :
    durable[c] > now => \E j \in Nat : file[c] = durable[c] + j * Interval[c]
QueueInv == FewLost /\ InChain

\* Some arithmetic: a product with one more.
LEMMA Succ ==
  \A m, n \in Int : m * (n + 1) = m * n + m /\ (n + 1) * m = n * m + m
OBVIOUS
\* A product with more.
LEMMA Monotone ==
  \A k, m, n \in Nat : m <= n => k * m <= k * n /\ m * k <= n * k
OBVIOUS
\* A product with a sum.
LEMMA Distributes ==
  \A k, m, n \in Int : (k + m) * n = k * n + m * n /\ k * n \in Int
OBVIOUS

\* What there is to know of the types.
LEMMA QueueTypes ==
  ASSUME TypeOK
  PROVE  /\ now \in Int /\ faults \in Nat
         /\ \A c \in Categories :
              file[c] \in Int /\ durable[c] \in Int /\ Interval[c] \in Nat \ {0}
         /\ \A p \in Procs : cat[p] \in Categories
         /\ \A p \in Procs, c \in Categories : Has(p, c) \in Int
         /\ Cardinality(Procs) \in Nat
<1>1. now \in Int /\ faults \in Nat
  BY AccessAssumption DEF TypeOK
<1>2. \A c \in Categories :
        file[c] \in Int /\ durable[c] \in Int /\ Interval[c] \in Nat \ {0}
  BY AccessAssumption DEF TypeOK
<1>3. \A p \in Procs : cat[p] \in Categories /\ next[p] \in Int
  BY DEF TypeOK
<1>4. \A p \in Procs, c \in Categories : slot[p][c] \in Int
  BY DEF TypeOK, NoSlot
<1>5. Cardinality(Procs) \in Nat
  BY ProcsAreFinite, FS_CardinalityType
<1> QED
  BY <1>1, <1>2, <1>3, <1>4, <1>5 DEF Has

\* The chain can be counted.
LEMMA ChainIsFinite ==
  ASSUME TypeOK, NEW c \in Categories
  PROVE  IsFiniteSet(Chain(c)) /\ IsFiniteSet(Lost(c))
<1>1. now + 1 \in Int /\ file[c] \in Int
  BY QueueTypes
<1>3. IsFiniteSet(now + 1 .. file[c])
  BY <1>1, FS_Interval
<1>2. Chain(c) \in SUBSET (now + 1 .. file[c]) /\ Lost(c) \in SUBSET (now + 1 .. file[c])
  BY DEF Chain, Lost
<1> QED
  BY <1>2, <1>3, FS_Subset

\* The chain is as long as the queue: its values are an interval apart.
LEMMA ChainIsQueue ==
  ASSUME TypeOK, NEW c \in Categories
  PROVE  file[c] - now <= Interval[c] * Cardinality(Chain(c))
<1> DEFINE m == Cardinality(Chain(c))
           i == Interval[c]
           f == [j \in 0 .. m |-> file[c] - j * i]
<1>1. /\ IsFiniteSet(Chain(c)) /\ m \in Nat
      /\ i \in Nat \ {0} /\ file[c] \in Int /\ now \in Int
  BY ChainIsFinite, FS_CardinalityType, QueueTypes
<1> HIDE DEF m, i
<1> SUFFICES file[c] - now <= i * m
  BY DEF m, i
<1>0. i * m \in Int
  BY <1>1
<1> SUFFICES ASSUME file[c] - now > i * m PROVE FALSE
  BY <1>0, <1>1
<1>2. ASSUME NEW j \in 0 .. m
      PROVE  f[j] \in Chain(c)
  <2>1. j \in Nat /\ j <= m /\ j * i \in Nat
    BY <1>1
  <2>2. j * i <= i * m
    BY <1>1, <2>1, Monotone
  <2>3. i * m \in Int
    BY <1>1
  <2> DEFINE x == j * i
             y == i * m
             v == file[c] - x
  <2>4. v \in now + 1 .. file[c] /\ file[c] = v + x
    <3>1. x \in Nat /\ y \in Int /\ x <= y /\ file[c] - now > y
      BY <2>1, <2>2, <2>3
    <3> HIDE DEF x, y
    <3> QED
      BY <1>1, <3>1
  <2> QED
    BY <2>1, <2>4 DEF Chain, i
<1>3. \A j, k \in 0 .. m : f[j] = f[k] => j = k
  <2> SUFFICES ASSUME NEW j \in 0 .. m, NEW k \in 0 .. m, file[c] - j * i = file[c] - k * i
               PROVE  j = k
    OBVIOUS
  <2>1. j \in Nat /\ k \in Nat /\ j * i \in Int /\ k * i \in Int
    BY <1>1
  <2>2. j * i = k * i
    <3> DEFINE x == j * i
               y == k * i
    <3>1. x \in Int /\ y \in Int /\ file[c] - x = file[c] - y
      BY <2>1
    <3> HIDE DEF x, y
    <3>2. x = y
      BY <1>1, <3>1
    <3> QED
      BY <3>2 DEF x, y
  <2> QED
    BY <1>1, <2>1, <2>2
<1>4. f \in Injection(0 .. m, Chain(c))
  BY <1>2, <1>3 DEF Injection, IsInjective
<1>5. IsFiniteSet(0 .. m) /\ Cardinality(0 .. m) = m + 1
  BY <1>1, FS_Interval
<1>6. m + 1 <= m
  BY <1>1, <1>4, <1>5, FS_Injection DEF m
<1> QED
  BY <1>1, <1>6

\* As many processes hold as many slots of a category at the most.
LEMMA HeldFew ==
  ASSUME NEW P \in SUBSET Procs, NEW c
  PROVE  IsFiniteSet(HeldBy(P, c)) /\ Cardinality(HeldBy(P, c)) <= Cardinality(P)
<1> DEFINE f == [p \in P |-> Has(p, c)]
<1>1. IsFiniteSet(P)
  BY ProcsAreFinite, FS_Subset
<1>2. f \in Surjection(P, HeldBy(P, c))
  BY DEF Surjection, HeldBy
<1> QED
  BY <1>1, <1>2, FS_Surjection

\* A step of p loses a slot only by a failure.
LEMMA ActsHave ==
  ASSUME TypeOK, NEW p \in Procs, Timely(p), Acts(p), ~Replace(p),
         NEW c \in Categories
  PROVE  Has(p, c)' = Has(p, c) \/ Has(p, c) <= now \/ faults' = faults + 1
<1>1. CASE pc[p] \notin {"sync", "unlock", "sleep"}
  <2>1. Has(p, c) = slot[p][c] /\ ~(slot[p][c] > now)
    BY <1>1 DEF Has, Timely, Past
  <2> QED
    BY <2>1, QueueTypes
<1>2. CASE pc[p] \in {"sync", "unlock", "sleep"}
  <2>1. Sync(p) \/ Unlock(p) \/ Wake(p) \/ Fault
    BY <1>2 DEF Acts, Boot, Exit, Call, Step, Waiting, Wait, Flock, FlockTimesOut,
       Scan, ScanRefuses, Reserve, ReserveRefuses, Replace, GiveUp, Close, Auth,
       TakeTokenLock, Recheck, TokenTimesOut, IssueAlone, Issue, Send, TryAgain,
       Issued, Answer, RateLimited, Trouble, WaitTrouble, WaitFails, ScanFails,
       ReserveFails, WriteFails, SyncFails, UnlockFails, TokenLockFails,
       IssueFails, Crash
  <2>2. CASE Sync(p)
    <3>1. /\ pc[p] = "sync" /\ pc'[p] = "unlock" /\ cat' = cat
          /\ slot' = [slot EXCEPT ![p][cat[p]] = next[p]]
      BY <2>2 DEF Sync, Goto, TypeOK
    <3>2. cat[p] = c => slot'[p][c] = next[p]
      BY <3>1 DEF TypeOK
    <3>3. cat[p] # c => slot'[p][c] = slot[p][c]
      BY <3>1 DEF TypeOK
    <3> QED
      BY <3>1, <3>2, <3>3 DEF Has
  <2>3. CASE Unlock(p) \/ Wake(p)
    <3>1. pc[p] # "sync" /\ pc'[p] # "sync" /\ slot' = slot
      BY <2>3 DEF Unlock, Wake, Goto, TypeOK, local
    <3> QED
      BY <3>1 DEF Has
  <2> QED
    BY <2>1, <2>2, <2>3 DEF Fault
<1> QED
  BY <1>1, <1>2

\* A slot that is written continues the chain, or there is none.
LEMMA ReplaceChain ==
  ASSUME TypeOK, NEW p \in Procs, Timely(p), Replace(p), NEW c \in Categories
  PROVE  /\ cat[p] # c => Chain(c)' = Chain(c)
         /\ cat[p] = c => /\ Chain(c)' \subseteq Chain(c) \cup {next[p]}
                          /\ Has(p, c)' = next[p]
<1>1. /\ now \in Int /\ file[c] \in Int /\ Interval[c] \in Nat \ {0}
      /\ cat[p] \in Categories /\ next[p] \in Int
  BY QueueTypes DEF TypeOK
<1>2. /\ pc[p] = "write" /\ pc'[p] = "sync" /\ UNCHANGED <<now, cat, next, slot>>
      /\ file' = [file EXCEPT ![cat[p]] = next[p]]
      /\ next[p] = SlotAfter(cat[p])
  BY DEF Replace, Goto, TypeOK, local, Timely, Timed
<1>3. CASE cat[p] # c
  <2>1. file'[c] = file[c]
    BY <1>2, <1>3 DEF TypeOK
  <2> QED
    BY <1>2, <1>3, <2>1 DEF Chain
<1>4. CASE cat[p] = c
  <2>1. file'[c] = next[p] /\ Has(p, c)' = next[p]
    BY <1>2, <1>4 DEF TypeOK, Has
  <2>2. ASSUME NEW v \in Chain(c)', v # next[p]
        PROVE  v \in Chain(c)
    <3> DEFINE i == Interval[c]
               n == next[p]
    <3>1. PICK j \in Nat : n = v + j * i
      BY <1>2, <2>1 DEF Chain
    <3>2. v \in Int /\ now + 1 <= v /\ v <= n
      BY <1>1, <1>2, <2>1 DEF Chain
    <3>3. n = file[c] + i
      BY <1>1, <1>2, <1>4, <3>2 DEF SlotAfter
    <3> HIDE DEF i, n
    <3>4. i \in Nat /\ n \in Int
      BY <1>1 DEF i, n
    <3>5. j # 0
      BY <2>2, <3>1, <3>2, <3>4 DEF n
    <3>6. j - 1 \in Nat /\ j * i = (j - 1) * i + i
      BY <3>4, <3>5, Succ
    <3> DEFINE x == (j - 1) * i
    <3>7. x \in Nat /\ j * i = x + i
      BY <3>4, <3>6
    <3> HIDE DEF x
    <3>8. file[c] = v + x /\ v <= file[c]
      BY <1>1, <3>1, <3>2, <3>3, <3>4, <3>7
    <3> QED
      BY <1>1, <3>2, <3>6, <3>8 DEF Chain, x, i
  <2> QED
    BY <2>1, <2>2, <1>4
<1> QED
  BY <1>3, <1>4

\* Then nothing is lost.
LEMMA FewerLost ==
  ASSUME TypeOK, FewLost, NEW c \in Categories, Lost(c)' \subseteq Lost(c),
         faults' \in Nat, faults' >= faults
  PROVE  Cardinality(Lost(c)') <= Cardinality(Procs) * faults'
<1> DEFINE n == Cardinality(Procs)
           old == Cardinality(Lost(c))
           new == Cardinality(Lost(c)')
<1>1. IsFiniteSet(Lost(c)) /\ Lost(c)' \in SUBSET Lost(c)
  BY ChainIsFinite
<1>2. new <= old /\ old \in Nat /\ new \in Nat
  BY <1>1, FS_Subset, FS_CardinalityType
<1>3. n \in Nat /\ faults \in Nat /\ old <= n * faults
  BY QueueTypes DEF FewLost
<1> HIDE DEF n, old, new
<1> DEFINE k == faults'
<1>7. k \in Nat /\ faults <= k
  OBVIOUS
<1> HIDE DEF k
<1>4. n * faults <= n * k /\ n * faults \in Int /\ n * k \in Int
  BY <1>3, <1>7, Monotone, Distributes
<1> SUFFICES new <= n * k
  BY DEF n, new, k
<1> DEFINE x == n * faults
           y == n * k
<1> HIDE DEF x, y
<1>5. old <= x /\ x <= y /\ x \in Int /\ y \in Int
  BY <1>3, <1>4 DEF x, y
<1>6. new <= y
  BY <1>2, <1>5
<1> QED
  BY <1>6 DEF y

\* A failure of a process loses one, a power loss one of each.
LEMMA OneMoreLost ==
  ASSUME TypeOK, FewLost, NEW c \in Categories, NEW more, IsFiniteSet(more),
         Cardinality(more) <= Cardinality(Procs),
         Lost(c)' \subseteq Lost(c) \cup more, faults' = faults + 1
  PROVE  Cardinality(Lost(c)') <= Cardinality(Procs) * faults'
<1> DEFINE n == Cardinality(Procs)
           old == Cardinality(Lost(c))
           m == Cardinality(more)
           new == Cardinality(Lost(c)')
<1>1. IsFiniteSet(Lost(c)) /\ Lost(c)' \in SUBSET (Lost(c) \cup more)
  BY ChainIsFinite
<1>2. /\ IsFiniteSet(Lost(c) \cup more) /\ IsFiniteSet(Lost(c) \cap more)
      /\ Cardinality(Lost(c) \cup more) = old + m - Cardinality(Lost(c) \cap more)
  BY <1>1, FS_Union, FS_Intersection
<1>3. /\ new <= Cardinality(Lost(c) \cup more) /\ IsFiniteSet(Lost(c)')
  BY <1>1, <1>2, FS_Subset
<1>4. /\ old \in Nat /\ m \in Nat /\ new \in Nat /\ Cardinality(Lost(c) \cap more) \in Nat
  BY <1>1, <1>2, <1>3, FS_CardinalityType
<1>5. n \in Nat /\ faults \in Nat /\ old <= n * faults /\ m <= n
  BY QueueTypes DEF FewLost
<1>6. new <= old + m
  BY <1>2, <1>3, <1>4
<1> HIDE DEF n, old, m, new
<1> DEFINE x == n * faults
<1>7. x \in Int /\ old <= x /\ n * faults' = x + n
  BY <1>5, Succ, Distributes
<1> HIDE DEF x
<1>8. new <= n * faults'
  BY <1>4, <1>5, <1>6, <1>7
<1> QED
  BY <1>8 DEF n, new

\* A step of a process loses no more slots than there are failures for.
LEMMA ActsFewLost ==
  ASSUME TypeOK, FewLost, NEW p \in Procs, Timely(p), Apart(p), Acts(p)
  PROVE  FewLost'
<1> SUFFICES ASSUME NEW c \in Categories
             PROVE  Cardinality(Lost(c)') <= Cardinality(Procs) * faults'
  BY DEF FewLost
<1>1. \A q \in Procs \ {p} : Has(q, c)' = Has(q, c)
  BY DEF Apart, Has
<1>2. /\ faults \in Nat /\ now \in Int /\ Has(p, c) \in Int
      /\ faults' = faults \/ faults' = faults + 1
  BY QueueTypes DEF Apart
<1>3. faults' \in Nat /\ faults' >= faults
  BY <1>2
<1>4. \A v \in Chain(c) : v \in Int /\ v > now
  BY <1>2, QueueTypes DEF Chain
<1>5. CASE Replace(p)
  <2>1. Has(p, c) <= now
    <3>1. Has(p, c) = slot[p][c] /\ ~(slot[p][c] > now)
      BY <1>5 DEF Replace, Has, Timely, Past
    <3> QED
      BY <1>2, <3>1
  <2>2. CASE cat[p] = c
    <3>1. Chain(c)' \subseteq Chain(c) \cup {next[p]} /\ Has(p, c)' = next[p]
      BY <1>5, <2>2, ReplaceChain
    <3>2. Lost(c)' \subseteq Lost(c)
      BY <1>1, <1>2, <1>4, <2>1, <3>1 DEF Lost, HeldBy
    <3> QED
      BY <1>3, <3>2, FewerLost
  <2>3. CASE cat[p] # c
    <3>1. Chain(c)' = Chain(c)
      BY <1>5, <2>3, ReplaceChain
    <3>2. Lost(c)' \subseteq Lost(c)
      BY <1>1, <1>2, <1>4, <2>1, <3>1 DEF Lost, HeldBy
    <3> QED
      BY <1>3, <3>2, FewerLost
  <2> QED
    BY <2>2, <2>3
<1>6. CASE ~Replace(p)
  <2>1. file' = file /\ now' = now
    <3>1. CASE ~Hands(p)
      BY <3>1, ActsQuiet DEF Quiet, Apart
    <3>2. CASE Sync(p) \/ Issue(p) \/ Send(p)
      BY <3>2 DEF Sync, Issue, Send, state, Apart
    <3> QED
      BY <1>6, <3>1, <3>2 DEF Hands
  <2>2. Chain(c)' = Chain(c)
    BY <2>1 DEF Chain
  <2>3. CASE Has(p, c)' = Has(p, c) \/ Has(p, c) <= now
    <3>1. Lost(c)' \subseteq Lost(c)
      BY <1>1, <1>2, <1>4, <2>2, <2>3 DEF Lost, HeldBy
    <3> QED
      BY <1>3, <3>1, FewerLost
  <2>4. CASE faults' = faults + 1
    <3> DEFINE more == HeldBy({p}, c)
    <3>1. IsFiniteSet(more) /\ Cardinality(more) <= Cardinality({p})
      BY HeldFew
    <3>2. Cardinality({p}) <= Cardinality(Procs)
      BY ProcsAreFinite, FS_Subset
    <3>3. /\ Cardinality(more) \in Nat /\ Cardinality({p}) \in Nat
          /\ Cardinality(Procs) \in Nat
      BY <3>1, ProcsAreFinite, FS_Singleton, FS_CardinalityType
    <3>4. Cardinality(more) <= Cardinality(Procs)
      BY <3>1, <3>2, <3>3
    <3>5. Lost(c)' \subseteq Lost(c) \cup more
      BY <1>1, <2>2 DEF Lost, HeldBy
    <3> HIDE DEF more
    <3> QED
      BY <2>4, <3>1, <3>4, <3>5, OneMoreLost
  <2> QED
    BY <1>6, <2>3, <2>4, ActsHave
<1> QED
  BY <1>5, <1>6

\* The part of the invariant about the disk, for one category.
LEMMA ActsInChain ==
  ASSUME TypeOK, Slots, InChain, NEW p \in Procs, Timely(p), Mine(p), Acts(p)
  PROVE  InChain'
<1>0. now' = now
  BY ActsApart DEF Mine, Apart
<1>1. CASE Replace(p)
  <2> SUFFICES ASSUME NEW c \in Categories, durable'[c] > now
               PROVE  \E j \in Nat : file'[c] = durable'[c] + j * Interval[c]
    BY <1>0 DEF InChain
  <2>1. /\ now \in Int /\ file[c] \in Int /\ Interval[c] \in Nat \ {0}
        /\ durable[c] \in Int /\ durable[c] <= file[c]
    BY QueueTypes DEF Slots, Known
  <2>2. /\ pc[p] = "write" /\ durable' = durable
        /\ file' = [file EXCEPT ![cat[p]] = next[p]]
        /\ next[p] = SlotAfter(cat[p])
    BY <1>1 DEF Replace, Timely, Timed
  <2>3. PICK j \in Nat : file[c] = durable[c] + j * Interval[c]
    BY <2>2 DEF InChain
  <2>4. CASE cat[p] # c
    <3>1. file'[c] = file[c]
      BY <2>2, <2>4 DEF TypeOK
    <3> QED
      BY <2>2, <2>3, <3>1
  <2>5. CASE cat[p] = c
    <3> DEFINE i == Interval[c]
               x == j * i
    <3>1. file'[c] = SlotAfter(c)
      BY <2>2, <2>5 DEF TypeOK
    <3>2. file'[c] = file[c] + i
      BY <2>1, <2>2, <3>1 DEF SlotAfter
    <3>3. x \in Int /\ (j + 1) * i = x + i /\ i \in Int
      BY <2>1, Succ, Distributes
    <3>4. file[c] = durable[c] + x
      BY <2>3
    <3> HIDE DEF i, x
    <3>5. file'[c] = durable'[c] + (j + 1) * i
      BY <2>1, <2>2, <3>2, <3>3, <3>4
    <3> QED
      BY <3>5 DEF i
  <2> QED
    BY <2>4, <2>5
<1>2. CASE Sync(p)
  <2>1. durable' = file /\ file' = file
    BY <1>2 DEF Sync
  <2>2. \A c \in Categories : file[c] = file[c] + 0 * Interval[c]
    BY QueueTypes
  <2> QED
    BY <2>1, <2>2 DEF InChain
<1>3. CASE ~Replace(p) /\ ~Sync(p)
  <2>1. UNCHANGED <<file, durable>>
    <3>1. CASE ~Hands(p)
      BY <3>1, ActsQuiet DEF Quiet
    <3>2. CASE Issue(p) \/ Send(p)
      BY <3>2 DEF Issue, Send, state
    <3> QED
      BY <1>3, <3>1, <3>2 DEF Hands
  <2> QED
    BY <1>0, <2>1 DEF InChain
<1> QED
  BY <1>1, <1>2, <1>3

\* When time passes the chain becomes shorter.
LEMMA TickQueue ==
  ASSUME TypeOK, QueueInv, Tick
  PROVE  QueueInv'
<1>1. now' = now + 1 /\ UNCHANGED <<file, durable, pc, cat, next, slot, faults>>
  BY DEF Tick, state, local
<1>2. InChain'
  BY <1>1, QueueTypes DEF QueueInv, InChain
<1> SUFFICES ASSUME NEW c \in Categories
             PROVE  Cardinality(Lost(c)') <= Cardinality(Procs) * faults'
  BY <1>2 DEF QueueInv, FewLost
<1>3. Chain(c)' \subseteq Chain(c)
  BY <1>1, QueueTypes DEF Chain
<1>4. HeldBy(Procs, c)' = HeldBy(Procs, c)
  BY <1>1 DEF HeldBy, Has
<1>5. Lost(c)' \subseteq Lost(c)
  BY <1>3, <1>4 DEF Lost
<1>6. faults' \in Nat /\ faults' >= faults
  BY <1>1, QueueTypes
<1> QED
  BY <1>5, <1>6, FewerLost DEF QueueInv

\* A power loss takes a slot from each process, and what it takes back of the
\* file leaves the rest of the chain.
LEMMA PowerLossQueue ==
  ASSUME TypeOK, Slots, QueueInv, PowerLoss
  PROVE  QueueInv'
<1>1. /\ now' = now /\ faults' = faults + 1 /\ durable' = file'
      /\ file' \in {file, durable}
      /\ \A p \in Procs : pc'[p] = "down"
      /\ \A p \in Procs, c \in Categories : slot'[p][c] = NoSlot
  BY DEF PowerLoss, Fault, Die
<1>2. \A c \in Categories : file'[c] \in Int
  BY <1>1, QueueTypes
<1>3. InChain'
  <2>1. \A c \in Categories : file'[c] = file'[c] + 0 * Interval[c]
    BY <1>2, QueueTypes
  <2> QED
    BY <1>1, <2>1 DEF InChain
<1> SUFFICES ASSUME NEW c \in Categories
             PROVE  Cardinality(Lost(c)') <= Cardinality(Procs) * faults'
  BY <1>3 DEF QueueInv, FewLost
<1>4. /\ now \in Int /\ file[c] \in Int /\ durable[c] \in Int
      /\ Interval[c] \in Nat \ {0} /\ durable[c] <= file[c]
  BY QueueTypes DEF Slots, Known
<1>5. ASSUME NEW v \in Chain(c)'
      PROVE  v \in Chain(c)
  <2>1. CASE file' = file
    BY <1>1, <1>5, <2>1 DEF Chain
  <2>2. CASE file' = durable
    <3> DEFINE i == Interval[c]
    <3>1. PICK j \in Nat : durable[c] = v + j * i
      BY <1>5, <2>2 DEF Chain
    <3>2. v \in Int /\ now + 1 <= v /\ v <= durable[c]
      BY <1>1, <1>4, <1>5, <2>2 DEF Chain
    <3>3. durable[c] > now
      BY <1>4, <3>2
    <3>4. PICK k \in Nat : file[c] = durable[c] + k * i
      BY <3>3 DEF QueueInv, InChain
    <3> DEFINE x == j * i
               y == k * i
    <3>5. x \in Int /\ y \in Int /\ (j + k) * i = x + y
      BY <1>4, Distributes
    <3> HIDE DEF x, y
    <3>6. durable[c] = v + x /\ file[c] = durable[c] + y
      BY <3>1, <3>4 DEF x, y
    <3>7. file[c] = v + (x + y) /\ v <= file[c]
      BY <1>4, <3>2, <3>5, <3>6
    <3>8. file[c] = v + (j + k) * i /\ j + k \in Nat
      BY <3>5, <3>7
    <3> QED
      BY <1>4, <3>2, <3>7, <3>8 DEF Chain
  <2> QED
    BY <1>1, <2>1, <2>2
<1>6. IsFiniteSet(HeldBy(Procs, c)) /\ Cardinality(HeldBy(Procs, c)) <= Cardinality(Procs)
  BY HeldFew
<1>7. Lost(c)' \subseteq Lost(c) \cup HeldBy(Procs, c)
  BY <1>5 DEF Lost
<1> QED
  BY <1>1, <1>6, <1>7, OneMoreLost DEF QueueInv

\* At first no slot lies ahead.
LEMMA InitQueue == ASSUME Init PROVE QueueInv
<1>1. TypeOK
  BY InitInv DEF IInv
<1>2. /\ now = 0 /\ faults = 0 /\ durable = file
      /\ \A c \in Categories : file[c] = -Interval[c] /\ Interval[c] \in Nat \ {0}
  BY AccessAssumption DEF Init
<1>3. \A c \in Categories : Chain(c) = {}
  BY <1>2 DEF Chain
<1>4. Cardinality({}) = 0
  BY FS_EmptySet
<1>5. FewLost
  BY <1>1, <1>2, <1>3, <1>4, QueueTypes DEF FewLost, Lost
<1>6. InChain
  BY <1>2 DEF InChain
<1> QED
  BY <1>5, <1>6 DEF QueueInv

\* Every step keeps the queue.
LEMMA NextQueue == ASSUME IInv, TimeInv, QueueInv, [Next]_vars PROVE QueueInv'
<1> USE DEF IInv
<1>1. CASE UNCHANGED vars
  <2>1. UNCHANGED <<now, file, durable, pc, cat, next, slot, faults>>
    BY <1>1 DEF vars, state, local
  <2>2. InChain'
    BY <2>1 DEF QueueInv, InChain
  <2>3. \A c \in Categories : Lost(c)' = Lost(c)
    BY <2>1 DEF Lost, Chain, HeldBy, Has
  <2> QED
    BY <2>1, <2>2, <2>3 DEF QueueInv, FewLost
<1>2. CASE Tick
  BY <1>2, TickQueue
<1>3. CASE PowerLoss
  BY <1>3, PowerLossQueue
<1>4. ASSUME NEW p \in Procs, Acts(p)
      PROVE  QueueInv'
  <2>1. Mine(p) /\ Locked(p) /\ Timely(p)
    BY DEF TimeInv, Mine
  <2> QED
    BY <1>4, <2>1, ActsApart, ActsFewLost, ActsInChain DEF QueueInv
<1> QED
  BY <1>1, <1>2, <1>3, <1>4 DEF Next, Acts

\* The slots ahead of the clock that no process holds are no more than one of
\* each process for every failure.
THEOREM QueueInvariance == Spec => []QueueInv
BY InitQueue, NextQueue, AccessInvariance, TimeInvariance, PTL DEF Spec

\* The limiter never takes its own queue for a corrupt file, for any number of
\* processes, as long as the other callers and the slots lost to failures are no
\* more than Depth.
THEOREM QueueBelieved == Spec => []QueueIsBelieved
<1>1. IInv /\ TimeInv /\ QueueInv => QueueIsBelieved
  <2> SUFFICES ASSUME IInv, TimeInv, QueueInv,
                      Cardinality(Procs) * (faults + 1) - 1 <= Depth,
                      NEW p \in Procs, pc[p] = "reserve"
               PROVE  file[cat[p]] - now <= Horizon(cat[p])
    BY DEF QueueIsBelieved
  <2> DEFINE c == cat[p]
             others == HeldBy(Procs \ {p}, c)
             n == Cardinality(Procs)
             lost == Cardinality(Lost(c))
             held == Cardinality(others)
             long == Cardinality(Chain(c))
  <2>1. TypeOK /\ c \in Categories
    BY DEF IInv, TypeOK
  <2>2. Has(p, c) <= now
    <3>1. Has(p, c) = slot[p][c] /\ ~(slot[p][c] > now)
      BY <2>1 DEF Has, TimeInv, Timely, Past
    <3> QED
      BY <2>1, <3>1, QueueTypes
  <2>3. Chain(c) \subseteq Lost(c) \cup others
    <3>1. \A v \in Chain(c) : v # Has(p, c)
      BY <2>1, <2>2, QueueTypes DEF Chain
    <3> QED
      BY <3>1 DEF Lost, HeldBy
  <2>4. /\ IsFiniteSet(others) /\ held <= Cardinality(Procs \ {p})
        /\ Cardinality(Procs \ {p}) = n - 1
    BY HeldFew, ProcsAreFinite, FS_RemoveElement
  <2>5. IsFiniteSet(Lost(c)) /\ IsFiniteSet(Chain(c))
    BY <2>1, ChainIsFinite
  <2>6. /\ IsFiniteSet(Lost(c) \cup others) /\ IsFiniteSet(Lost(c) \cap others)
        /\ Cardinality(Lost(c) \cup others) = lost + held - Cardinality(Lost(c) \cap others)
    BY <2>4, <2>5, FS_Union, FS_Intersection
  <2>7. /\ lost \in Nat /\ held \in Nat /\ long \in Nat
        /\ Cardinality(Lost(c) \cap others) \in Nat
    BY <2>4, <2>5, <2>6, FS_CardinalityType
  <2>8. long <= Cardinality(Lost(c) \cup others)
    BY <2>3, <2>6, FS_Subset
  <2>9. n \in Nat /\ faults \in Nat /\ lost <= n * faults
    BY <2>1, QueueTypes DEF QueueInv, FewLost
  <2>10. long <= lost + (n - 1)
    BY <2>4, <2>6, <2>7, <2>8, <2>9
  <2>11. file[c] - now <= Interval[c] * long
    BY <2>1, ChainIsQueue
  <2>12. /\ Interval[c] \in Nat /\ Depth \in Nat /\ Skew \in Nat
         /\ file[c] \in Int /\ now \in Int
    BY <2>1, QueueTypes, AccessAssumption
  <2>13. n * (faults + 1) - 1 <= Depth
    OBVIOUS
  <2> HIDE DEF c, n, lost, held, long, others
  <2>14. long <= Depth
    <3> DEFINE x == n * faults
    <3>1. x \in Int /\ n * (faults + 1) = x + n
      BY <2>9, Succ, Distributes
    <3>2. lost <= x
      BY <2>9
    <3> HIDE DEF x
    <3> QED
      BY <2>7, <2>9, <2>10, <2>12, <2>13, <3>1, <3>2
  <2>15. file[c] - now <= Interval[c] * Depth + Skew
    <3> DEFINE x == Interval[c] * long
               y == Interval[c] * Depth
    <3>1. x <= y
      BY <2>7, <2>12, <2>14, Monotone
    <3>2. x \in Int /\ y \in Int
      BY <2>7, <2>12, Distributes
    <3>3. file[c] - now <= x
      BY <2>11
    <3> HIDE DEF x, y
    <3>4. file[c] - now <= y + Skew
      BY <2>12, <3>1, <3>2, <3>3
    <3> QED
      BY <3>4 DEF y
  <2> QED
    BY <2>15 DEF Horizon, c
<1> QED
  BY <1>1, AccessInvariance, TimeInvariance, QueueInvariance, PTL

=============================================================================
