------------------------------ MODULE KisAccess ------------------------------
(***************************************************************************)
(* How the processes of the program share the right to ask KIS something.  *)
(*                                                                         *)
(* Every request is paced: `wait' of brokers/kis_rate_limiter.py takes the *)
(* next slot of its category in a state file, under a flock, writes the    *)
(* file by way of a temporary one, and sleeps until the slot outside the   *)
(* lock.  The request then needs a token, which the processes share        *)
(* through a second file with a lock of its own                            *)
(* (brokers/kis_token_cache.py); who issues one is paced too, inside that  *)
(* lock.  brokers/kis_broker.py joins the two.                             *)
(*                                                                         *)
(* Time is one clock.  What the program does between two waits takes no    *)
(* time (Tick): the spans that matter are those of the sleeps, the lock    *)
(* time-outs, KIS's answers, and the alerts to the operator, which a call  *)
(* that fails sends before it gives the lock of the state file back.       *)
(***************************************************************************)
EXTENDS Integers, FiniteSets

CONSTANTS
  Procs,          \* process ids; a process that ends may start again under its id
  None,
  Calls,          \* the categories of the requests made: "READ", "ORDER", ...
  Interval,       \* category -> least distance of two slots
  LockTimeout,    \* acquire_timeout
  TokenTimeout,   \* _LOCK_TIMEOUT_SECONDS of the token cache
  Depth,          \* DEFAULT_MAX_RESERVATION_DEPTH
  Skew,           \* DEFAULT_MAX_CLOCK_SKEW
  Retries,        \* DEFAULT_MAX_RETRIES
  Backoff,        \* the pause before a retry
  Lifetime,       \* of a token
  MaxTime,        \* bound of the clock
  MaxFaults       \* bound on failing system calls, crashes and power losses

Categories == Calls \cup {"TOKEN"}

ASSUME AccessAssumption ==
  /\ None \notin Procs
  /\ Calls # {} /\ "TOKEN" \notin Calls
  /\ Interval \in [Categories -> Nat \ {0}]
  /\ {LockTimeout, TokenTimeout, Depth, Skew, Retries, Backoff, Lifetime,
      MaxTime, MaxFaults} \subseteq Nat

ASSUME ProcsAreFinite == IsFiniteSet(Procs)

VARIABLES
  now,            \* the clock
  file,           \* category -> last slot, as the state file shows it
  durable,        \* the same, as it would be after a power loss
  temps,          \* ids under which a temporary state file was left behind
  flock,          \* holder of the state file's lock
  tokenLock,      \* holder of the token file's lock
  cache,          \* when the stored token expires
  pc, want, cat,  \* of a process: the step, its request, what it is pacing
  next,           \* the slot being written
  slot,           \* the slots it holds
  deadline,       \* when it stops waiting for a lock or a pause
  tries,          \* attempts at its request
  memory,         \* when the token it issued itself expires
  invalid,        \* its limiter gave up: _invalidated
  sent,           \* the requests that have left, with their slots
  faults

state == <<file, durable, temps, flock>>
token == <<tokenLock, cache>>
local == <<want, cat, next, slot, deadline, tries, memory, invalid>>
vars  == <<now, state, token, pc, local, sent, faults>>

NoSlot == -1

Requests == [proc : Procs, cat : Categories, slot : Nat, at : Nat]

TypeOK ==
  /\ now \in 0 .. MaxTime
  /\ file \in [Categories -> Int]
  /\ durable \in [Categories -> Int]
  /\ temps \subseteq Procs
  /\ flock \in Procs \cup {None}
  /\ tokenLock \in Procs \cup {None}
  /\ cache \in Nat
  /\ pc \in [Procs -> {"down", "idle", "wait", "flock", "scan", "reserve", "write",
                       "sync", "unlock", "abandon", "alert", "close", "sleep", "auth",
                       "token", "recheck", "issue", "issued", "send", "answer",
                       "backoff"}]
  /\ want \in [Procs -> Calls]
  /\ cat \in [Procs -> Categories]
  /\ next \in [Procs -> Int]
  /\ slot \in [Procs -> [Categories -> Nat \cup {NoSlot}]]
  /\ deadline \in [Procs -> Nat]
  /\ tries \in [Procs -> 0 .. Retries]
  /\ memory \in [Procs -> Nat]
  /\ invalid \in [Procs -> BOOLEAN]
  /\ sent \subseteq Requests
  /\ faults \in 0 .. MaxFaults

\* A category that was never recorded has its first slot at once, like one
\* whose last slot is an interval ago.
Init ==
  /\ now = 0
  /\ file = [c \in Categories |-> -Interval[c]]
  /\ durable = file
  /\ temps = {}
  /\ flock = None
  /\ tokenLock = None
  /\ cache = 0
  /\ pc = [p \in Procs |-> "down"]
  /\ want \in [Procs -> {CHOOSE c \in Calls : TRUE}]
  /\ cat = want
  /\ next = [p \in Procs |-> NoSlot]
  /\ slot = [p \in Procs |-> [c \in Categories |-> NoSlot]]
  /\ deadline = [p \in Procs |-> 0]
  /\ tries = [p \in Procs |-> 0]
  /\ memory = [p \in Procs |-> 0]
  /\ invalid = [p \in Procs |-> FALSE]
  /\ sent = {}
  /\ faults = 0

Goto(p, step) == pc' = [pc EXCEPT ![p] = step]

\* A system call fails.
Fault ==
  /\ faults < MaxFaults
  /\ faults' = faults + 1

Alive(p) == pc[p] # "down"

(***************************************************************************)
(* A call raises.  The finally clause of get_or_issue gives the token lock *)
(* back; the slot is lost.                                                 *)
(***************************************************************************)
Raise(p) ==
  /\ Goto(p, "idle")
  /\ slot' = [slot EXCEPT ![p] = [c \in Categories |-> NoSlot]]
  /\ next' = [next EXCEPT ![p] = NoSlot]
  /\ deadline' = [deadline EXCEPT ![p] = 0]
  /\ tries' = [tries EXCEPT ![p] = 0]
  /\ tokenLock' = IF tokenLock = p THEN None ELSE tokenLock
  /\ UNCHANGED <<now, cache, want, cat, memory, sent>>

(***************************************************************************)
(* wait(category)                                                          *)
(***************************************************************************)
Wait(p) ==
  /\ pc[p] = "wait"
  /\ IF invalid[p]
     THEN Raise(p) /\ UNCHANGED <<state, invalid, faults>>
     ELSE /\ Goto(p, "flock")
          /\ deadline' = [deadline EXCEPT ![p] = now + LockTimeout]
          /\ UNCHANGED <<now, state, token, want, cat, next, slot, tries, memory,
                         invalid, sent, faults>>

\* The call has failed and its slot is lost.  At "alert" and "close" it tells
\* the operator before it raises, which may take as long as the lock time-out.
Fail(p, step) ==
  /\ Goto(p, step)
  /\ slot' = [slot EXCEPT ![p] = [c \in Categories |-> NoSlot]]
  /\ next' = [next EXCEPT ![p] = NoSlot]
  /\ deadline' = [deadline EXCEPT ![p] = 0]
  /\ UNCHANGED <<now, file, durable, token, want, cat, tries, memory, sent>>

\* The directory or the lock file cannot be opened, or flock fails outright.
WaitFails(p) ==
  /\ pc[p] \in {"wait", "flock"} /\ ~invalid[p]
  /\ Fault
  /\ Fail(p, "alert")
  /\ UNCHANGED <<temps, flock, invalid>>

Flock(p) ==
  /\ pc[p] = "flock"
  /\ flock = None
  /\ flock' = p
  /\ deadline' = [deadline EXCEPT ![p] = 0]
  /\ Goto(p, "scan")
  /\ UNCHANGED <<now, file, durable, temps, token, want, cat, next, slot, tries, memory,
                 invalid, sent, faults>>

FlockTimesOut(p) ==
  /\ pc[p] = "flock"
  /\ flock # None
  /\ now >= deadline[p]
  /\ Fail(p, "alert")
  /\ UNCHANGED <<temps, flock, invalid, faults>>

\* A temporary of a dead process is removed; one of a living process ends the call.
Scan(p) ==
  /\ pc[p] = "scan"
  /\ \A q \in temps : ~Alive(q)
  /\ temps' = {}
  /\ Goto(p, "reserve")
  /\ UNCHANGED <<now, file, durable, flock, token, local, sent, faults>>

ScanRefuses(p) ==
  /\ pc[p] = "scan"
  /\ \E q \in temps : Alive(q)
  /\ Fail(p, "alert")
  /\ UNCHANGED <<temps, flock, invalid, faults>>

\* An entry that is nobody's temporary stops this limiter for good; a directory
\* that cannot be read, or cleaned, only this call.
ScanFails(p) ==
  /\ pc[p] = "scan"
  /\ Fault
  /\ \E alien \in BOOLEAN : invalid' = [invalid EXCEPT ![p] = @ \/ alien]
  /\ Fail(p, "alert")
  /\ UNCHANGED <<temps, flock>>

\* Variant: one caller may be ahead.
HorizonOfOne(c) == Interval[c] + Skew

Horizon(c) == Interval[c] * Depth + Skew

SlotAfter(c) ==
  IF now - file[c] < Interval[c] THEN file[c] + Interval[c] ELSE now

\* _wait_locked, and the temporary file of _store_state.
Reserve(p) ==
  /\ pc[p] = "reserve"
  /\ file[cat[p]] - now <= Horizon(cat[p])
  /\ next' = [next EXCEPT ![p] = SlotAfter(cat[p])]
  /\ temps' = temps \cup {p}
  /\ Goto(p, "write")
  /\ UNCHANGED <<now, file, durable, flock, token, want, cat, slot, deadline, tries,
                 memory, invalid, sent, faults>>

\* The slot lies too far ahead; nobody is told.
ReserveRefuses(p) ==
  /\ pc[p] = "reserve"
  /\ file[cat[p]] - now > Horizon(cat[p])
  /\ Fail(p, "abandon")
  /\ UNCHANGED <<temps, flock, invalid, faults>>

\* The file cannot be read, or the temporary not be created.
ReserveFails(p) ==
  /\ pc[p] = "reserve"
  /\ Fault
  /\ Fail(p, "alert")
  /\ UNCHANGED <<temps, flock, invalid>>

\* Writing, chmod or replace fails, and then perhaps the unlink.
WriteFails(p) ==
  /\ pc[p] = "write"
  /\ Fault
  /\ temps' \in {temps, temps \ {p}}
  /\ Fail(p, "alert")
  /\ UNCHANGED <<flock, invalid>>

Replace(p) ==
  /\ pc[p] = "write"
  /\ file' = [file EXCEPT ![cat[p]] = next[p]]
  /\ temps' = temps \ {p}
  /\ Goto(p, "sync")
  /\ UNCHANGED <<now, durable, flock, token, local, sent, faults>>

\* Variant: the rename is left to reach the disk when it will.
SyncLater(p) ==
  /\ pc[p] = "sync"
  /\ slot' = [slot EXCEPT ![p][cat[p]] = next[p]]
  /\ next' = [next EXCEPT ![p] = NoSlot]
  /\ Goto(p, "unlock")
  /\ UNCHANGED <<now, state, token, want, cat, deadline, tries,
                 memory, invalid, sent, faults>>

Sync(p) ==
  /\ pc[p] = "sync"
  /\ durable' = file
  /\ slot' = [slot EXCEPT ![p][cat[p]] = next[p]]
  /\ next' = [next EXCEPT ![p] = NoSlot]
  /\ Goto(p, "unlock")
  /\ UNCHANGED <<now, file, temps, flock, token, want, cat, deadline, tries,
                 memory, invalid, sent, faults>>

SyncFails(p) ==
  /\ pc[p] = "sync"
  /\ Fault
  /\ Fail(p, "alert")
  /\ UNCHANGED <<temps, flock, invalid>>

\* Variant: the lock is kept for the sleep.
UnlockForgotten(p) ==
  /\ pc[p] = "unlock"
  /\ Goto(p, "sleep")
  /\ UNCHANGED <<now, state, token, local, sent, faults>>

Unlock(p) ==
  /\ pc[p] = "unlock"
  /\ flock' = None
  /\ Goto(p, "sleep")
  /\ UNCHANGED <<now, file, durable, temps, token, local, sent, faults>>

\* The operator has been told, if he is to be: the failed call gives back what
\* it holds.
GiveUp(p) ==
  /\ pc[p] \in {"alert", "abandon"}
  /\ flock' = IF flock = p THEN None ELSE flock
  /\ Raise(p)
  /\ UNCHANGED <<file, durable, temps, invalid, faults>>

\* The unlock fails, or the close after it.  Closing the file frees the lock,
\* or it may stay taken as long as the process lives.
UnlockFails(p) ==
  /\ pc[p] \in {"unlock", "alert", "abandon"} /\ flock = p
  /\ Fault
  /\ invalid' = [invalid EXCEPT ![p] = TRUE]
  /\ flock' \in {None, p}
  /\ Fail(p, "close")
  /\ UNCHANGED temps

\* The operator has been told of that too.
Close(p) ==
  /\ pc[p] = "close"
  /\ flock' \in {flock, IF flock = p THEN None ELSE flock}
  /\ Raise(p)
  /\ UNCHANGED <<file, durable, temps, invalid, faults>>

\* The sleep until the slot.
Wake(p) ==
  /\ pc[p] = "sleep"
  /\ now >= slot[p][cat[p]]
  /\ Goto(p, IF cat[p] = "TOKEN" THEN "issue" ELSE "auth")
  /\ UNCHANGED <<now, state, token, local, sent, faults>>

Waiting(p) ==
  \/ Wait(p) \/ Flock(p) \/ FlockTimesOut(p)
  \/ Scan(p) \/ ScanRefuses(p) \/ Reserve(p) \/ ReserveRefuses(p)
  \/ Replace(p) \/ Sync(p) \/ Unlock(p) \/ GiveUp(p) \/ Close(p) \/ Wake(p)

WaitTrouble(p) ==
  \/ WaitFails(p) \/ ScanFails(p) \/ ReserveFails(p) \/ WriteFails(p)
  \/ SyncFails(p) \/ UnlockFails(p)

(***************************************************************************)
(* _ensure_token and get_or_issue.  A token of this process's own issue is *)
(* remembered with its end; one from the file is looked up again each time.*)
(***************************************************************************)
Usable == now < cache

Auth(p) ==
  /\ pc[p] = "auth"
  /\ IF now < memory[p] \/ Usable
     THEN Goto(p, "send") /\ UNCHANGED deadline
     ELSE /\ Goto(p, "token")
          /\ deadline' = [deadline EXCEPT ![p] = now + TokenTimeout]
  /\ UNCHANGED <<now, state, token, want, cat, next, slot, tries, memory, invalid,
                 sent, faults>>

TakeTokenLock(p) ==
  /\ pc[p] = "token"
  /\ tokenLock = None
  /\ tokenLock' = p
  /\ deadline' = [deadline EXCEPT ![p] = 0]
  /\ Goto(p, "recheck")
  /\ UNCHANGED <<now, state, cache, want, cat, next, slot, tries, memory, invalid,
                 sent, faults>>

\* Another process may have issued in the meantime.
Recheck(p) ==
  /\ pc[p] = "recheck"
  /\ IF Usable
     THEN tokenLock' = None /\ Goto(p, "send") /\ UNCHANGED cat
     ELSE Goto(p, "wait") /\ cat' = [cat EXCEPT ![p] = "TOKEN"] /\ UNCHANGED tokenLock
  /\ UNCHANGED <<now, state, cache, want, next, slot, deadline, tries, memory,
                 invalid, sent, faults>>

\* Variant: and do not wait for a slot either.
IssueAtOnce(p) ==
  /\ pc[p] = "token"
  /\ Goto(p, "issue")
  /\ cat' = [cat EXCEPT ![p] = "TOKEN"]
  /\ slot' = [slot EXCEPT ![p]["TOKEN"] = now]
  /\ deadline' = [deadline EXCEPT ![p] = 0]
  /\ UNCHANGED <<now, state, token, want, next, tries, memory, invalid, sent>>

\* Without the lock: issue, and do not share.
IssueAlone(p) ==
  /\ pc[p] = "token"
  /\ Goto(p, "wait")
  /\ cat' = [cat EXCEPT ![p] = "TOKEN"]
  /\ deadline' = [deadline EXCEPT ![p] = 0]
  /\ UNCHANGED <<now, state, token, want, next, slot, tries, memory, invalid, sent>>

TokenTimesOut(p) ==
  /\ tokenLock # None
  /\ now >= deadline[p]
  /\ IssueAlone(p)
  /\ UNCHANGED faults

TokenLockFails(p) ==
  /\ Fault
  /\ IssueAlone(p)

\* A request leaves with the slot its process holds for it.
Leave(p, c) ==
  /\ sent' = sent \cup {[proc |-> p, cat |-> c, slot |-> slot[p][c], at |-> now]}
  /\ slot' = [slot EXCEPT ![p][c] = NoSlot]

Issue(p) ==
  /\ pc[p] = "issue"
  /\ Leave(p, "TOKEN")
  /\ Goto(p, "issued")
  /\ UNCHANGED <<now, state, token, want, cat, next, deadline, tries, memory,
                 invalid, faults>>

\* The token is stored for the others by the holder of the lock, if it can be.
Issued(p) ==
  /\ pc[p] = "issued"
  /\ memory' = [memory EXCEPT ![p] = now + Lifetime]
  /\ cat' = [cat EXCEPT ![p] = want[p]]
  /\ IF tokenLock = p
     THEN /\ tokenLock' = None
          /\ \/ cache' = now + Lifetime /\ UNCHANGED faults
             \/ Fault /\ UNCHANGED cache
     ELSE UNCHANGED <<token, faults>>
  /\ Goto(p, "send")
  /\ UNCHANGED <<now, state, want, next, slot, deadline, tries, invalid, sent>>

\* KIS does not answer, or refuses.
IssueFails(p) ==
  /\ pc[p] = "issued"
  /\ Fault
  /\ Raise(p)
  /\ UNCHANGED <<state, invalid>>

(***************************************************************************)
(* The request itself.                                                     *)
(***************************************************************************)
Call(p, c) ==
  /\ pc[p] = "idle"
  /\ want' = [want EXCEPT ![p] = c]
  /\ cat' = [cat EXCEPT ![p] = c]
  /\ Goto(p, "wait")
  /\ UNCHANGED <<now, state, token, next, slot, deadline, tries, memory, invalid, sent,
                 faults>>

Send(p) ==
  /\ pc[p] = "send"
  /\ Leave(p, want[p])
  /\ Goto(p, "answer")
  /\ UNCHANGED <<now, state, token, want, cat, next, deadline, tries, memory,
                 invalid, faults>>

Answer(p) ==
  /\ pc[p] = "answer"
  /\ tries' = [tries EXCEPT ![p] = 0]
  /\ Goto(p, "idle")
  /\ UNCHANGED <<now, state, token, want, cat, next, slot, deadline, memory, invalid,
                 sent, faults>>

\* Variant: as often as KIS asks for it.
RateLimitedAgain(p) ==
  /\ pc[p] = "answer"
  /\ want[p] = "READ"
  /\ tries' = [tries EXCEPT ![p] = @ + 1]
  /\ deadline' = [deadline EXCEPT ![p] = now + Backoff]
  /\ Goto(p, "backoff")
  /\ UNCHANGED <<now, state, token, want, cat, next, slot, memory, invalid, sent,
                 faults>>

\* EGW00201: only a read is tried again.
RateLimited(p) ==
  /\ pc[p] = "answer"
  /\ want[p] = "READ"
  /\ tries[p] < Retries
  /\ tries' = [tries EXCEPT ![p] = @ + 1]
  /\ deadline' = [deadline EXCEPT ![p] = now + Backoff]
  /\ Goto(p, "backoff")
  /\ UNCHANGED <<now, state, token, want, cat, next, slot, memory, invalid, sent,
                 faults>>

TryAgain(p) ==
  /\ pc[p] = "backoff"
  /\ now >= deadline[p]
  /\ deadline' = [deadline EXCEPT ![p] = 0]
  /\ Goto(p, "wait")
  /\ UNCHANGED <<now, state, token, want, cat, next, slot, tries, memory, invalid,
                 sent, faults>>

(***************************************************************************)
(* Processes and the host.                                                 *)
(***************************************************************************)
\* What ends with the processes of a set.
Die(P) ==
  /\ pc' = [p \in Procs |-> IF p \in P THEN "down" ELSE pc[p]]
  /\ slot' = [p \in Procs |-> IF p \in P THEN [c \in Categories |-> NoSlot] ELSE slot[p]]
  /\ next' = [p \in Procs |-> IF p \in P THEN NoSlot ELSE next[p]]
  /\ deadline' = [p \in Procs |-> IF p \in P THEN 0 ELSE deadline[p]]
  /\ tries' = [p \in Procs |-> IF p \in P THEN 0 ELSE tries[p]]
  /\ memory' = [p \in Procs |-> IF p \in P THEN 0 ELSE memory[p]]
  /\ invalid' = [p \in Procs |-> invalid[p] /\ p \notin P]
  /\ flock' = IF flock \in P THEN None ELSE flock
  /\ tokenLock' = IF tokenLock \in P THEN None ELSE tokenLock
  /\ UNCHANGED <<now, temps, want, cat, sent>>

Boot(p) ==
  /\ pc[p] = "down"
  /\ Goto(p, "idle")
  /\ UNCHANGED <<now, state, token, local, sent, faults>>

Exit(p) ==
  /\ pc[p] = "idle"
  /\ Die({p})
  /\ UNCHANGED <<file, durable, cache, faults>>

Crash(p) ==
  /\ pc[p] \notin {"down", "idle"}
  /\ Fault
  /\ Die({p})
  /\ UNCHANGED <<file, durable, cache>>

\* A rename that was not synced may or may not have reached the disk.
PowerLoss ==
  /\ Fault
  /\ file' \in {file, durable}
  /\ durable' = file'
  /\ Die(Procs)
  /\ UNCHANGED cache

Step(p) ==
  \/ Waiting(p)
  \/ Auth(p) \/ TakeTokenLock(p) \/ Recheck(p) \/ TokenTimesOut(p) \/ Issue(p)
  \/ Send(p) \/ TryAgain(p)

Trouble(p) == WaitTrouble(p) \/ TokenLockFails(p) \/ IssueFails(p) \/ Crash(p)

\* Where a process may stand still: out of a call, at KIS, while it tells the
\* operator, until its slot or its retry, and at a lock that is taken.
Waits(p) ==
  \/ pc[p] \in {"down", "idle", "issued", "answer", "alert", "close"}
  \/ pc[p] = "sleep" /\ now < slot[p][cat[p]]
  \/ pc[p] = "flock" /\ flock # None /\ now < deadline[p]
  \/ pc[p] = "token" /\ tokenLock # None /\ now < deadline[p]
  \/ pc[p] = "backoff" /\ now < deadline[p]

\* Time passes when no process has anything to do.
Tick ==
  /\ now < MaxTime
  /\ \A p \in Procs : Waits(p)
  /\ now' = now + 1
  /\ UNCHANGED <<state, token, pc, local, sent, faults>>

Next ==
  \/ \E p \in Procs :
       \/ Boot(p) \/ Exit(p)
       \/ \E c \in Calls : Call(p, c)
       \/ Step(p) \/ Issued(p) \/ Answer(p) \/ RateLimited(p)
       \/ Trouble(p)
  \/ PowerLoss
  \/ Tick

Spec == Init /\ [][Next]_vars

(***************************************************************************)
(* Properties                                                              *)
(***************************************************************************)
\* No two requests of a category left with slots less than the interval apart:
\* the slot a request leaves with is its own, whoever crashed, failed to write or
\* lost power while slots were handed out (kis_rate_limiter.py, wait and
\* _store_state).
SlotsAreSpaced ==
  \A r, s \in sent :
    r # s /\ r.cat = s.cat /\ r.slot <= s.slot => s.slot - r.slot >= Interval[r.cat]

\* KIS sees two token requests at least the interval apart (one a minute), although
\* the slot is waited for inside another lock and a process that could not get that
\* lock issues a token beside it (kis_token_cache.py, get_or_issue).
TokensArePaced ==
  \A r, s \in sent :
    r # s /\ r.cat = "TOKEN" /\ s.cat = "TOKEN" /\ r.at <= s.at
    => s.at - r.at >= Interval["TOKEN"]

\* Nobody waits for the lock of the state file while time passes, unless something
\* failed before and its holder asks KIS for nothing any more: it could not give the
\* lock back, or it tells the operator why its call fails.  So a caller that gets a
\* slot never keeps another waiting (kis_rate_limiter.py, the starvation the comment
\* in _wait_locked describes); one that gets none may, for as long as the alert
\* takes.
NobodyIsStarved ==
  [][now' # now =>
       \A p \in Procs : pc[p] = "flock" =>
         faults > 0 /\ (invalid[flock] \/ pc[flock] = "alert")]_vars

\* The limiter does not take its own queue for a corrupt file, as long as the other
\* callers, and the slots lost to failures (a power loss loses one of each process),
\* are no more than Depth (kis_rate_limiter.py, _future_horizon).
QueueIsBelieved ==
  Cardinality(Procs) * (faults + 1) - 1 <= Depth
  => \A p \in Procs :
       pc[p] = "reserve" => file[cat[p]] - now <= Horizon(cat[p])

=============================================================================
