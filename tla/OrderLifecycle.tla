--------------------------- MODULE OrderLifecycle ---------------------------
(***************************************************************************)
(* execution/execution_engine.py at work: runs that submit or cancel one   *)
(* order each under the single-run lock, while the reconciliation service  *)
(* and the position manager's tick move the same rows without that lock,   *)
(* the broker acts in its own time, processes crash and the operator sets  *)
(* and clears HALT.                                                        *)
(***************************************************************************)
EXTENDS OrderLedger, KisMarket

CONSTANTS
  Runs,         \* engine runs: the processes that may call the engine
  Services,     \* passes of scripts/run_reconciliation.py
  Ticks,        \* ticks of kis_position_manager.py
  MaxVersion,   \* model bound: no cancel starts at this row version or later
  None          \* no run, no order

Recons == Services \cup Ticks

ASSUME ProcessAssumption ==
  /\ None \notin Runs /\ None \notin Orders
  /\ Services \cap Ticks = {}
  /\ MaxVersion \in Nat

VARIABLES
  halt,         \* the HALT file
  lock,         \* owner of idempotency.single_run_lock
  run,          \* run[r]: the local state of an engine run
  recon,        \* recon[p]: the local state of a reconciliation pass
  wires,        \* history: wires[o] new-order requests sent for o
  sinceHalt     \* history: new-order requests sent since HALT was set

ledgerVars == <<row, today>>
vars == <<row, today, kis, halt, lock, run, recon, wires, sinceHalt>>

NoFills == [o \in Orders |-> 0]

IdleRun == [pc |-> "idle", order |-> None, held |-> NoRow, matched |-> FALSE,
            open |-> {}, fills |-> NoFills, answer |-> "none"]

IdlePass == [pc |-> "idle", phase |-> "resolve", open |-> {},
             fills |-> NoFills, todo |-> {}]

RunPcs ==
  {"idle", "register", "validate", "positions", "openOrders", "fills", "judge",
   "gate", "dirtyGate", "approve", "mark", "send", "await", "record",
   "reject", "unknown",
   "cancelLoad", "cancelGate", "cancelMark", "cancelSend", "cancelAwait",
   "cancelRecord"}

Init ==
  /\ row = [o \in Orders |-> NoRow]
  /\ today = 1
  /\ kis = [o \in Orders |-> Absent]
  /\ halt = FALSE
  /\ lock = None
  /\ run = [r \in Runs |-> IdleRun]
  /\ recon = [p \in Recons |-> IdlePass]
  /\ wires = [o \in Orders |-> 0]
  /\ sinceHalt = 0

-----------------------------------------------------------------------------
(* Parts of an engine step. *)

At(r, pc) == run[r].pc = pc
Become(r, state) == run' = [run EXCEPT ![r] = state]
Goto(r, pc) == Become(r, [run[r] EXCEPT !.pc = pc])
\* Go on with the row as the compare-and-set just left it.  The code reads it
\* again after the commit; a row that was moved in between is a conflict for
\* the next compare-and-set either way.
GotoHolding(r, pc) ==
  Become(r, [run[r] EXCEPT !.pc = pc, !.held = row'[run[r].order]])

\* The call returns or raises: the lock is released, local state is gone.
Finish(r) == Become(r, IdleRun) /\ lock' = None

\* advance() of the row the run holds.
Advance(r, next, learn) ==
  CompareAndSet(run[r].order, run[r].held, next, learn)
AdvanceRaises(r, next, learn) ==
  CasRaises(run[r].order, run[r].held, next, learn)

others == <<today, halt, recon, wires, sinceHalt>>

-----------------------------------------------------------------------------
(* _submit_new_order. *)

\* single_run_lock() is granted and a submission of o begins.  Any caller
\* may try any intent at any time, again after a failure or a restart too.
BeginSubmit(r, o) ==
  /\ At(r, "idle") /\ lock = None
  /\ lock' = r
  /\ Become(r, [run[r] EXCEPT !.pc = "register", !.order = o])
  /\ UNCHANGED <<row, kis, others>>

Register(r) ==
  /\ At(r, "register")
  /\ IF Existing(run[r].order) = {}
     THEN /\ Registration(run[r].order)
          /\ GotoHolding(r, "validate")
          /\ UNCHANGED lock
     ELSE Finish(r) /\ UNCHANGED row       \* DuplicateOrderAttemptError
  /\ UNCHANGED <<kis, others>>

\* A compare-and-set of the ordinary path: on to pc, or the call raises.
Step(r, from, next, to) ==
  /\ At(r, from)
  /\ \/ Advance(r, next, FALSE) /\ GotoHolding(r, to) /\ UNCHANGED lock
     \/ AdvanceRaises(r, next, FALSE) /\ Finish(r)
  /\ UNCHANGED <<kis, others>>

Validate(r) == Step(r, "validate", "VALIDATING", "positions")

(* build_snapshot: three broker reads, then the ledger. *)

\* The books hold no position for an order whose broker number was never
\* recorded, so its fills are a mismatch; otherwise they may match or not.
PositionsExplained ==
  \A o \in Orders : kis[o].filled > 0 => row[o].known

ReadPositions(r) ==
  /\ At(r, "positions")
  /\ \E b \in BOOLEAN :
       /\ b => PositionsExplained
       /\ Become(r, [run[r] EXCEPT !.pc = "openOrders", !.matched = b])
  /\ UNCHANGED <<row, kis, lock, others>>

ReadOpenOrders(r) ==
  /\ At(r, "openOrders")
  /\ Become(r, [run[r] EXCEPT !.pc = "fills", !.open = OpenOrders])
  /\ UNCHANGED <<row, kis, lock, others>>

ReadFills(r) ==
  /\ At(r, "fills")
  /\ \E start \in FillWindows :
       Become(r, [run[r] EXCEPT !.pc = "judge", !.fills = FillsSince(start)])
  /\ UNCHANGED <<row, kis, lock, others>>

\* Any of the three reads fails: ReconciliationUnavailableError.
ReadFails(r) ==
  /\ run[r].pc \in {"positions", "openOrders", "fills"}
  /\ Goto(r, "reject")
  /\ UNCHANGED <<row, kis, lock, others>>

\* _check_open_orders and _check_fills, on what was read.
Tracked == {o \in WithStatus(LiveStatuses) : row[o].known}
OrderDisagreements(open, fills) ==
  LET filled == {o \in Orders : fills[o] > 0} IN
  (open \ Tracked)
  \cup ((Tracked \ open) \ filled)
  \cup {o \in WithStatus({"REJECTED", "CANCELLED"}) : row[o].known /\ o \in filled}

Unknown == WithStatus({"UNKNOWN"})

\* verify_snapshot for a buy; a sell may carry a dirty snapshot to the gate,
\* where it needs evidence about its own symbol (sell_safe_evidence.py).
Judge(r) ==
  /\ At(r, "judge")
  /\ LET o      == run[r].order
         dirty  == OrderDisagreements(run[r].open, run[r].fills) \cup Unknown
         usable == \A x \in dirty : Symbol[x] # Symbol[o]
     IN  Goto(r, IF run[r].matched /\ dirty = {} THEN "gate"
                 ELSE IF Side[o] = "sell" /\ usable THEN "dirtyGate"
                 ELSE "reject")
  /\ UNCHANGED <<row, kis, lock, others>>

\* Variant: HALT is not asked.
GateIgnoringHalt(r) ==
  /\ run[r].pc \in {"gate", "dirtyGate"}
  /\ Goto(r, "approve") \/ Goto(r, "reject")
  /\ UNCHANGED <<row, kis, lock, others>>

(* authorize_new_order: HALT, then the gate, whose other reasons to refuse *)
(* are outside this module.                                                *)
Gate(r) ==
  /\ run[r].pc \in {"gate", "dirtyGate"}
  /\ \/ ~halt /\ At(r, "gate") /\ Goto(r, "approve")
     \/ /\ ~halt /\ At(r, "dirtyGate")
        /\ \A x \in Unknown \cup OpenOrders : Symbol[x] # Symbol[run[r].order]
        /\ Goto(r, "approve")
     \/ Goto(r, "reject")
  /\ UNCHANGED <<row, kis, lock, others>>

\* _reject: best effort, the call raises either way.
Reject(r) ==
  /\ At(r, "reject")
  /\ AdvanceRaises(r, "REJECTED", FALSE)
  /\ Finish(r)
  /\ UNCHANGED <<kis, others>>

Approve(r) == Step(r, "approve", "APPROVED", "mark")
MarkSubmitting(r) == Step(r, "mark", "SUBMITTING", "send")

\* broker.submit_order: the request goes out, or the broker's own guard
\* refuses before it does (KISConfigError, KISBrokerError).
Send(r) ==
  /\ At(r, "send")
  /\ \/ /\ SendOrder(run[r].order)
        /\ wires' = [wires EXCEPT ![run[r].order] = wires[run[r].order] + 1]
        /\ sinceHalt' = IF halt THEN sinceHalt + 1 ELSE sinceHalt
        /\ Goto(r, "await")
     \/ Goto(r, "reject") /\ UNCHANGED <<kis, wires, sinceHalt>>
  /\ UNCHANGED <<row, today, halt, lock, recon>>

\* Variant: no usable answer is taken for a refusal.
AwaitGuessingRefusal(r) ==
  /\ At(r, "await")
  /\ Become(r, [run[r] EXCEPT !.pc = "record",
                  !.answer = IF kis[run[r].order].st \in {"open", "closed"}
                             THEN "ACCEPTED" ELSE "REJECTED"])
  /\ UNCHANGED <<row, kis, lock, others>>

\* Variant: no usable answer is taken for an acceptance.
AwaitAssumingAccepted(r) ==
  /\ At(r, "await")
  /\ Become(r, [run[r] EXCEPT !.pc = "record",
                  !.answer = IF kis[run[r].order].st = "refused"
                             THEN "REJECTED" ELSE "ACCEPTED"])
  /\ UNCHANGED <<row, kis, lock, others>>

\* The answer, or no answer that says anything (KISAmbiguousResponseError).
Await(r) ==
  /\ At(r, "await")
  /\ \/ /\ kis[run[r].order].st \in {"open", "closed"}
        /\ Become(r, [run[r] EXCEPT !.pc = "record", !.answer = "ACCEPTED"])
     \/ /\ kis[run[r].order].st = "refused"
        /\ Become(r, [run[r] EXCEPT !.pc = "record", !.answer = "REJECTED"])
     \/ Goto(r, "unknown")
  /\ UNCHANGED <<row, kis, lock, others>>

Record(r) ==
  /\ At(r, "record")
  /\ LET learn == run[r].answer = "ACCEPTED" IN
     \/ Advance(r, run[r].answer, learn) /\ Finish(r)
     \/ /\ AdvanceRaises(r, run[r].answer, learn)
        /\ Goto(r, "unknown") /\ UNCHANGED lock
  /\ UNCHANGED <<kis, others>>

\* _force_unknown: recorded with the broker's number when an answer gave it;
\* a failure to record leaves the row as it is.
ForceUnknown(r) ==
  /\ At(r, "unknown")
  /\ AdvanceRaises(r, "UNKNOWN", run[r].answer = "ACCEPTED")
  /\ Finish(r)
  /\ UNCHANGED <<kis, others>>

-----------------------------------------------------------------------------
(* _cancel_inner. *)

\* Variant: the cancel does not wait for the single-run lock.
BeginCancelUnlocked(r, o) ==
  /\ At(r, "idle")
  /\ row[o].version < MaxVersion
  /\ Become(r, [run[r] EXCEPT !.pc = "cancelLoad", !.order = o])
  /\ UNCHANGED <<row, kis, lock, others>>

BeginCancel(r, o) ==
  /\ At(r, "idle") /\ lock = None
  /\ row[o].version < MaxVersion
  /\ lock' = r
  /\ Become(r, [run[r] EXCEPT !.pc = "cancelLoad", !.order = o])
  /\ UNCHANGED <<row, kis, others>>

\* load: no row, or a failed read, ends the call.
CancelLoad(r) ==
  /\ At(r, "cancelLoad")
  /\ \/ /\ run[r].order \in Registered
        /\ Become(r, [run[r] EXCEPT !.pc = "cancelGate",
                                    !.held = row[run[r].order]])
        /\ UNCHANGED lock
     \/ Finish(r)
  /\ UNCHANGED <<row, kis, others>>

\* authorize_cancel: HALT is not asked; the order must be open at the broker.
CancelGate(r) ==
  /\ At(r, "cancelGate")
  /\ \/ IsOpen(run[r].order) /\ Goto(r, "cancelMark") /\ UNCHANGED lock
     \/ Finish(r)
  /\ UNCHANGED <<row, kis, others>>

\* The caller knows the broker's number and passes it along.
CancelMark(r) ==
  /\ At(r, "cancelMark")
  /\ \/ Advance(r, "CANCEL_PENDING", TRUE)
        /\ GotoHolding(r, "cancelSend") /\ UNCHANGED lock
     \/ AdvanceRaises(r, "CANCEL_PENDING", TRUE) /\ Finish(r)
  /\ UNCHANGED <<kis, others>>

\* broker.cancel_order: sent; refused by a guard as KISBrokerError; or as
\* KISConfigError, which this path does not catch.
CancelSend(r) ==
  /\ At(r, "cancelSend")
  /\ \/ SendCancel(run[r].order) /\ Goto(r, "cancelAwait") /\ UNCHANGED lock
     \/ Goto(r, "unknown") /\ UNCHANGED <<kis, lock>>
     \/ Finish(r) /\ UNCHANGED kis
  /\ UNCHANGED <<row, others>>

\* Confirmed; or refused or ambiguous, which are both UNKNOWN.
CancelAwait(r) ==
  /\ At(r, "cancelAwait")
  /\ \/ kis[run[r].order].cancelled /\ Goto(r, "cancelRecord")
     \/ Goto(r, "unknown")
  /\ UNCHANGED <<row, kis, lock, others>>

CancelRecord(r) ==
  /\ At(r, "cancelRecord")
  /\ \/ Advance(r, "CANCELLED", FALSE) /\ Finish(r)
     \/ /\ AdvanceRaises(r, "CANCELLED", FALSE)
        /\ Goto(r, "unknown") /\ UNCHANGED lock
  /\ UNCHANGED <<kis, others>>

-----------------------------------------------------------------------------
(* What may befall a run at any step. *)

\* An exception nobody catches (an audit write that fails, a raw broker or
\* database error), a kill, a power cut: the kernel drops the lock.
Crash(r) ==
  /\ ~At(r, "idle")
  /\ Finish(r)
  /\ UNCHANGED <<row, kis, others>>

\* Neither rollback nor close worked: HALT is set, the process stops, and
\* with it the open transaction.  If HALT cannot be set either, it is a Crash.
CasPcs == {"validate", "reject", "approve", "mark", "record", "unknown",
           "cancelMark", "cancelRecord"}
FatalConnection(r) ==
  /\ run[r].pc \in CasPcs
  /\ halt' = TRUE
  /\ sinceHalt' = IF halt THEN sinceHalt ELSE 0
  /\ Finish(r)
  /\ UNCHANGED <<row, kis, today, recon, wires>>

-----------------------------------------------------------------------------
(* Reconciliation, which takes no part in the single-run lock: the service *)
(* resolves UNKNOWN rows, then settles live ones; the tick only resolves.  *)
(* What the service then does to exit intents is outside this module.      *)

engineVars == <<kis, lock, run, today, halt, wires, sinceHalt>>

PassBecomes(p, state) == recon' = [recon EXCEPT ![p] = state]
Enter(p, pc) == PassBecomes(p, [recon[p] EXCEPT !.pc = pc])
EndPass(p) == PassBecomes(p, IdlePass)
\* The service goes on to settle; the tick has nothing more to move.
EndPhase(p) ==
  IF p \in Services /\ recon[p].phase = "resolve"
  THEN PassBecomes(p, [IdlePass EXCEPT !.pc = "open", !.phase = "settle"])
  ELSE EndPass(p)

StartPass(p) ==
  /\ recon[p].pc \in {"idle", "raised"}
  /\ PassBecomes(p, [IdlePass EXCEPT !.pc = "open"])
  /\ UNCHANGED <<row, engineVars>>

PassOpenOrders(p) ==
  /\ recon[p].pc = "open"
  /\ PassBecomes(p, [recon[p] EXCEPT !.pc = "fills", !.open = OpenOrders])
  /\ UNCHANGED <<row, engineVars>>

\* The service reads fill_window's window, the tick today only.
PassFills(p) ==
  /\ recon[p].pc = "fills"
  /\ \E start \in IF p \in Services THEN FillWindows ELSE {today} :
       PassBecomes(p, [recon[p] EXCEPT !.pc = "list", !.fills = FillsSince(start)])
  /\ UNCHANGED <<row, engineVars>>

\* A broker read fails: this phase moves nothing.
PassReadFails(p) ==
  /\ recon[p].pc \in {"open", "fills"}
  /\ EndPhase(p)
  /\ UNCHANGED <<row, engineVars>>

\* Variant: a cancel in flight is settled like any live order.
ListedWithCancels(phase) ==
  WithStatus(IF phase = "resolve" THEN {"UNKNOWN"} ELSE LiveStatuses)

Listed(phase) ==
  WithStatus(IF phase = "resolve" THEN {"UNKNOWN"}
             ELSE {"ACCEPTED", "PARTIALLY_FILLED"})

\* list_unknown_orders, or list_orders_by_status(SETTLEABLE_STATUSES).
PassList(p) ==
  /\ recon[p].pc = "list"
  /\ PassBecomes(p, [recon[p] EXCEPT !.pc = "apply",
                       !.todo = {<<o, row[o]>> : o \in Listed(recon[p].phase)}])
  /\ UNCHANGED <<row, engineVars>>

\* _fill_evidence for a requested quantity that is recorded and an integer.
FillEvidence(o, fills) ==
  IF fills[o] = 0 THEN {}
  ELSE {IF fills[o] >= Qty[o] THEN "FILLED" ELSE "PARTIALLY_FILLED"}

\* Variant: only the open-order list counts as evidence.
ResolutionByOpenList(o, seen, open, fills) ==
  IF seen.known /\ o \in open THEN {"ACCEPTED"} ELSE {}

\* reconcile_unknown_order: the confirmed status, or no status at all.
Resolution(o, seen, open, fills) ==
  IF ~seen.known THEN {}
  ELSE IF fills[o] > 0 THEN FillEvidence(o, fills)
  ELSE IF o \in open THEN {"ACCEPTED"}
  ELSE {}

\* settle_live_order.
Settlement(o, seen, open, fills) ==
  IF ~seen.known \/ o \in open THEN {}
  ELSE FillEvidence(o, fills) \cap Transitions(seen.status)

Outcome(p, o, seen) ==
  IF recon[p].phase = "resolve"
  THEN Resolution(o, seen, recon[p].open, recon[p].fills)
  ELSE Settlement(o, seen, recon[p].open, recon[p].fills)

ReconCas(p, o, seen, next) ==
  IF recon[p].phase = "resolve"
  THEN ReconcileUnknown(o, seen, next)
  ELSE /\ CompareAndSet(o, seen, next, FALSE)
       \* model bound on the partial fill that settles to itself
       /\ next = seen.status => seen.version < MaxVersion

Drop(p, e) == PassBecomes(p, [recon[p] EXCEPT !.todo = recon[p].todo \ {e}])

\* The evidence establishes nothing: the row stays as it is.
Unresolved(p, e) ==
  /\ recon[p].pc = "apply" /\ e \in recon[p].todo
  /\ Outcome(p, e[1], e[2]) = {}
  /\ Drop(p, e)
  /\ UNCHANGED <<row, engineVars>>

Resolve(p, e) ==
  /\ recon[p].pc = "apply" /\ e \in recon[p].todo
  /\ \E next \in Outcome(p, e[1], e[2]) : ReconCas(p, e[1], e[2], next)
  /\ Drop(p, e)
  /\ UNCHANGED engineVars

\* The compare-and-set raises: the service logs it and takes the next row.
\* The tick has no handler there: a conflict ends the tick.
ResolveRaises(p, e) ==
  /\ recon[p].pc = "apply" /\ e \in recon[p].todo
  /\ Outcome(p, e[1], e[2]) # {}
  /\ IF p \in Services THEN Drop(p, e)
     ELSE ~Matches(e[1], e[2]) /\ Enter(p, "raised")
  /\ UNCHANGED <<row, engineVars>>

\* Neither rollback nor close worked.
PassFatal(p) ==
  /\ recon[p].pc = "apply" /\ recon[p].todo # {}
  /\ halt' = TRUE
  /\ sinceHalt' = IF halt THEN sinceHalt ELSE 0
  /\ EndPass(p)
  /\ UNCHANGED <<row, kis, lock, run, today, wires>>

PhaseDone(p) ==
  /\ recon[p].pc = "apply" /\ recon[p].todo = {}
  /\ EndPhase(p)
  /\ UNCHANGED <<row, engineVars>>

PassCrash(p) ==
  /\ recon[p].pc # "idle"
  /\ EndPass(p)
  /\ UNCHANGED <<row, engineVars>>

\* sell_projection.settle_confirmed_sell, from the exit runtime and from the
\* reconciliation pass: the exit ledger has confirmed that the sell filled in
\* full, which it learns from the fill history.  A row moved since it was
\* loaded is left as it is.
SettleSell(o) ==
  /\ Side[o] = "sell" /\ kis[o].shown = Qty[o]
  /\ \/ CompareAndSet(o, row[o], "FILLED", FALSE)
     \/ ReconcileUnknown(o, row[o], "FILLED")
  /\ UNCHANGED <<recon, engineVars>>

-----------------------------------------------------------------------------
(* The operator, the calendar and the broker. *)

SetHalt ==
  /\ ~halt /\ halt' = TRUE /\ sinceHalt' = 0
  /\ UNCHANGED <<row, today, kis, lock, run, recon, wires>>

ClearHalt ==
  /\ halt /\ halt' = FALSE /\ sinceHalt' = 0
  /\ UNCHANGED <<row, today, kis, lock, run, recon, wires>>

\* Between two sessions nothing is being submitted.
NextDay ==
  /\ lock = None /\ today < MaxDay
  /\ today' = today + 1
  /\ DayEnd
  /\ UNCHANGED <<row, halt, lock, run, recon, wires, sinceHalt>>

Broker(o) ==
  /\ Market(o)
  /\ UNCHANGED <<row, lock, run, others>>

SubmitStep(r) ==
  \/ Register(r) \/ Validate(r) \/ ReadPositions(r) \/ ReadOpenOrders(r)
  \/ ReadFills(r) \/ ReadFails(r) \/ Judge(r) \/ Gate(r) \/ Reject(r)
  \/ Approve(r) \/ MarkSubmitting(r) \/ Send(r) \/ Await(r) \/ Record(r)
  \/ ForceUnknown(r)

CancelStep(r) ==
  \/ CancelLoad(r) \/ CancelGate(r) \/ CancelMark(r) \/ CancelSend(r)
  \/ CancelAwait(r) \/ CancelRecord(r)

RunNext(r) ==
  \/ \E o \in Orders : BeginSubmit(r, o) \/ BeginCancel(r, o)
  \/ SubmitStep(r) \/ CancelStep(r)
  \/ Crash(r) \/ FatalConnection(r)

ApplyStep(p) ==
  \E e \in recon[p].todo :
    Unresolved(p, e) \/ Resolve(p, e) \/ ResolveRaises(p, e)

PassNext(p) ==
  \/ StartPass(p) \/ PassOpenOrders(p) \/ PassFills(p) \/ PassReadFails(p)
  \/ PassList(p) \/ ApplyStep(p) \/ PhaseDone(p) \/ PassCrash(p)
  \/ PassFatal(p)

Next ==
  \/ \E r \in Runs : RunNext(r)
  \/ \E p \in Recons : PassNext(p)
  \/ \E o \in Orders : Broker(o) \/ SettleSell(o)
  \/ SetHalt \/ ClearHalt \/ NextDay

Spec == Init /\ [][Next]_vars

\* What may go wrong in a pass: a kill, a failed read, a failed write.
PassFails(p) ==
  \/ PassCrash(p) /\ ~PhaseDone(p)
  \/ PassReadFails(p) \/ PassFatal(p)
  \/ PassFills(p) /\ recon'[p].fills # FillsSince(WindowStart)
  \/ \E e \in recon[p].todo : ResolveRaises(p, e) /\ Matches(e[1], e[2])

PassProgress(p) ==
  \/ StartPass(p) \/ PassOpenOrders(p) \/ PassFills(p) \/ PassList(p)
  \/ ApplyStep(p) \/ PhaseDone(p)

\* A run that can go on goes on.  The service's timer starts it again and
\* again, a pass that can go on goes on, and from some moment on its passes
\* are not killed and its reads and writes do not fail.  The broker publishes
\* what it has executed.
FairSpec ==
  /\ Spec
  /\ \A o \in Orders : WF_vars(Publish(o) /\ Broker(o))
  /\ \A r \in Runs : WF_vars(SubmitStep(r) \/ CancelStep(r))
  /\ \A p \in Services : WF_vars(PassProgress(p)) /\ <>[][~PassFails(p)]_vars

-----------------------------------------------------------------------------
(* Safety. *)

RunStates ==
  [pc : RunPcs, order : Orders \cup {None}, held : Rows, matched : BOOLEAN,
   open : SUBSET Orders, fills : [Orders -> Nat],
   answer : {"none", "ACCEPTED", "REJECTED"}]

PassStates ==
  [pc : {"idle", "open", "fills", "list", "apply", "raised"},
   phase : {"resolve", "settle"}, open : SUBSET Orders,
   fills : [Orders -> Nat], todo : SUBSET (Orders \X Rows)]

\* Every variable has its type.
TypeOK ==
  /\ row \in [Orders -> Rows]
  /\ today \in Days
  /\ kis \in [Orders -> KisOrders]
  /\ halt \in BOOLEAN
  /\ lock \in Runs \cup {None}
  /\ run \in [Runs -> RunStates]
  /\ recon \in [Recons -> PassStates]
  /\ wires \in [Orders -> Nat]
  /\ sinceHalt \in Nat

\* However often callers retry, crash and restart, and however many intents
\* they build for one signal, at most one new-order request per signal and
\* trading day leaves the program (idempotency.register, the unique keys).
OneOrderPerSignal ==
  /\ \A o \in Orders : wires[o] <= 1
  /\ \A o, x \in Orders :
       (o # x /\ wires[o] > 0 /\ wires[x] > 0 /\ Signal[o] = Signal[x])
         => row[o].day # row[x].day

\* While a request is on the wire nobody else moves its row: the run still
\* holds exactly the row the ledger has, though reconciliation works on the
\* same table without the lock.  This is what makes the outcome recordable.
\* Only a cancel in flight may lose its row, and only to the proof that the
\* sell it cancels has filled in full.
InFlightIsOwned ==
  \A r \in Runs :
    /\ run[r].pc \in {"send", "await", "record"} =>
         row[run[r].order] = run[r].held /\ run[r].held.status = "SUBMITTING"
    /\ run[r].pc \in {"cancelSend", "cancelAwait", "cancelRecord"} =>
         \/ row[run[r].order] = run[r].held /\ run[r].held.status = "CANCEL_PENDING"
         \/ /\ Side[run[r].order] = "sell" /\ row[run[r].order].status = "FILLED"
            /\ kis[run[r].order].filled = Qty[run[r].order]

\* From the judged snapshot to the wire no order is UNKNOWN: none at all for
\* a buy, none on its own symbol for a sell.  The snapshot is a past read;
\* it stays true because only lock holders make an order UNKNOWN.
UnknownBlocksOrders ==
  \A r \in Runs :
    run[r].pc \in {"gate", "approve", "mark", "send"} =>
      \A x \in Unknown :
        /\ Side[run[r].order] = "sell"
        /\ Symbol[x] # Symbol[run[r].order]

\* HALT is only asked when a run is authorized, so a request can still leave
\* after it is set, but only one: the run already past the gate.
HaltStopsOrders == halt => sinceHalt <= 1

\* A terminal row is true of the broker: FILLED filled in full, CANCELLED no
\* longer working, REJECTED never working.  Conversely an order the broker
\* may still work has a row that says so.
TerminalTruth ==
  \A o \in Orders :
    /\ row[o].status = "FILLED" => kis[o].filled = Qty[o]
    /\ row[o].status = "CANCELLED" => kis[o].st = "closed"
    /\ row[o].status = "REJECTED" => kis[o].st \in {"none", "refused"}
    /\ kis[o].st \in {"open", "transit"} =>
         row[o].status \in LiveStatuses \cup {"UNKNOWN"}

-----------------------------------------------------------------------------
(* Liveness, under FairSpec. *)

\* An order the broker has filled in full does not stay ACCEPTED or
\* PARTIALLY_FILLED for ever, whatever day it is (settle_live_orders).
FilledOrderSettles ==
  \A o \in Orders :
    (/\ row[o].status \in {"ACCEPTED", "PARTIALLY_FILLED"}
     /\ kis[o].filled = Qty[o])
      ~> row[o].status \notin {"ACCEPTED", "PARTIALLY_FILLED"}

\* An UNKNOWN order whose number is recorded and which has fills does not
\* stay UNKNOWN for ever: it would block every new order of the account
\* (resolve_unknown_orders).  It may only fall out of the fill window, which
\* covers rows of earlier days only while they are live.
FilledUnknownResolves ==
  \A o \in Orders :
    (row[o].status = "UNKNOWN" /\ row[o].known /\ kis[o].filled > 0)
      ~> (row[o].status # "UNKNOWN" \/ row[o].day < WindowStart)

-----------------------------------------------------------------------------
(* What all this amounts to for the strategies. *)

ClaimOf(status) ==
  CASE status \in {"NONE", "CREATED", "VALIDATING", "APPROVED"} -> "unsent"
    [] status = "SUBMITTING"                      -> "asked"
    [] status \in {"ACCEPTED", "CANCEL_PENDING"}  -> "working"
    [] status = "PARTIALLY_FILLED"                -> "partial"
    [] status = "FILLED"                          -> "filled"
    [] status = "CANCELLED"                       -> "cancelled"
    [] status = "REJECTED"                        -> "rejected"
    [] status = "UNKNOWN"                         -> "doubt"

Claimed == [o \in Orders |-> ClaimOf(row[o].status)]
SentOn == [o \in Orders |-> IF wires[o] = 0 THEN 0 ELSE row[o].day]
Truth == [o \in Orders |-> kis[o].st]
Filled == [o \in Orders |-> kis[o].filled]
HaltSeen == IF ~halt THEN "clear" ELSE IF sinceHalt = 0 THEN "set" ELSE "used"

Promise == INSTANCE OrderPromise WITH
  claim <- Claimed, sentOn <- SentOn, truth <- Truth, filled <- Filled,
  halt <- HaltSeen

\* Runs that lock, compare-and-set, crash and are reconciled amount to orders
\* that are sent in one step, once, and to a ledger that claims of an order
\* only what is true of it, and never takes a final claim back.
KeepsPromise == Promise!Spec

-----------------------------------------------------------------------------
(* What comments and docstrings of the code say, and the code does not keep. *)

\* idempotency.has_unknown_order: an order that was submitted and never got
\* a definite answer blocks every new order on the account.
UnansweredOrderBlocksOrders ==
  \A r \in Runs : \A x \in Orders :
    (run[r].pc = "send" /\ Side[run[r].order] = "buy" /\ x # run[r].order)
      => ~(wires[x] > 0 /\ row[x].status \in {"SUBMITTING", "UNKNOWN"})

=============================================================================
