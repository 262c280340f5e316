------------------------ MODULE OrderLifecycleProofs ------------------------
(***************************************************************************)
(* Theorems about OrderLifecycle, for every set of intents and processes.  *)
(***************************************************************************)
EXTENDS OrderLifecycle, TLAPS

-----------------------------------------------------------------------------
(* Types. *)

\* A move of a row yields a row.
LEMMA MovedType ==
  ASSUME TypeOK, NEW o \in Orders, NEW next \in Statuses, NEW learn \in BOOLEAN
  PROVE  Moved(o, next, learn) \in [Orders -> Rows]
  BY DEF TypeOK, Moved, Rows, Statuses

\* Every legal next status is a status.
LEMMA TransitionsType == \A s : Transitions(s) \subseteq Statuses
  BY DEF Transitions, Statuses

\* A compare-and-set, raising or not, leaves rows rows.
LEMMA CasType ==
  ASSUME TypeOK, NEW o \in Orders, NEW h, NEW next, NEW learn \in BOOLEAN,
         CasRaises(o, h, next, learn)
  PROVE  row' \in [Orders -> Rows]
  BY MovedType, TransitionsType DEF CasRaises, CompareAndSet, TypeOK

\* The absent row is a row.
LEMMA NoRowType == NoRow \in Rows
  BY IntentAssumption DEF NoRow, Rows, Days

\* The initial local states have their types.
LEMMA IdleTypes == IdleRun \in RunStates /\ IdlePass \in PassStates
  BY NoRowType DEF IdleRun, IdlePass, RunStates, PassStates, RunPcs, NoFills

\* The initial state is well typed.
LEMMA InitType == Init => TypeOK
  <1> SUFFICES ASSUME Init PROVE TypeOK
    OBVIOUS
  <1>1. Absent \in KisOrders /\ 1 \in Days
    BY IntentAssumption DEF Absent, KisOrders, Days
  <1> QED
    BY <1>1, NoRowType, IdleTypes DEF Init, TypeOK

\* A run or a pass that takes on a typed state stays typed.
LEMMA BecomeType ==
  ASSUME TypeOK, NEW r \in Runs, NEW state \in RunStates, Become(r, state)
  PROVE  run' \in [Runs -> RunStates]
  BY DEF Become, TypeOK

\* A call that ends leaves a well-typed run.
LEMMA FinishType ==
  ASSUME TypeOK, NEW r \in Runs, Finish(r)
  PROVE  run' \in [Runs -> RunStates] /\ lock' \in Runs \cup {None}
  BY IdleTypes, BecomeType DEF Finish, TypeOK

\* Moving a run along leaves a well-typed run.
LEMMA GotoType ==
  ASSUME TypeOK, NEW r \in Runs, NEW pc \in RunPcs, Goto(r, pc)
  PROVE  run' \in [Runs -> RunStates]
  <1>1. [run[r] EXCEPT !.pc = pc] \in RunStates
    BY DEF TypeOK, RunStates
  <1> QED BY <1>1, BecomeType DEF Goto

\* A read, an answer or a load leaves a well-typed run.
LEMMA UpdateTypes ==
  ASSUME TypeOK, NEW r \in Runs, NEW pc \in RunPcs
  PROVE  /\ \A b \in BOOLEAN : [run[r] EXCEPT !.pc = pc, !.matched = b] \in RunStates
         /\ \A v \in SUBSET Orders : [run[r] EXCEPT !.pc = pc, !.open = v] \in RunStates
         /\ \A v \in [Orders -> Nat] : [run[r] EXCEPT !.pc = pc, !.fills = v] \in RunStates
         /\ \A a \in {"ACCEPTED", "REJECTED"} :
               [run[r] EXCEPT !.pc = pc, !.answer = a] \in RunStates
         /\ \A v \in Rows : [run[r] EXCEPT !.pc = pc, !.held = v] \in RunStates
  <1> DEFINE mid == [run[r] EXCEPT !.pc = pc]
  <1>1. mid \in RunStates
    BY DEF TypeOK, RunStates
  <1>2. /\ \A v : [run[r] EXCEPT !.pc = pc, !.matched = v] = [mid EXCEPT !.matched = v]
        /\ \A v : [run[r] EXCEPT !.pc = pc, !.open = v] = [mid EXCEPT !.open = v]
        /\ \A v : [run[r] EXCEPT !.pc = pc, !.fills = v] = [mid EXCEPT !.fills = v]
        /\ \A v : [run[r] EXCEPT !.pc = pc, !.answer = v] = [mid EXCEPT !.answer = v]
        /\ \A v : [run[r] EXCEPT !.pc = pc, !.held = v] = [mid EXCEPT !.held = v]
    OBVIOUS
  <1> HIDE DEF mid
  <1>3. \A b \in BOOLEAN : [mid EXCEPT !.matched = b] \in RunStates
    BY <1>1 DEF RunStates
  <1>4. \A v \in SUBSET Orders : [mid EXCEPT !.open = v] \in RunStates
    BY <1>1 DEF RunStates
  <1>5. \A v \in [Orders -> Nat] : [mid EXCEPT !.fills = v] \in RunStates
    BY <1>1 DEF RunStates
  <1>6. \A a \in {"ACCEPTED", "REJECTED"} : [mid EXCEPT !.answer = a] \in RunStates
    BY <1>1 DEF RunStates
  <1>7. \A v \in Rows : [mid EXCEPT !.held = v] \in RunStates
    BY <1>1 DEF RunStates
  <1> QED BY <1>2, <1>3, <1>4, <1>5, <1>6, <1>7

\* A run that goes on with its row holds a row.
LEMMA HoldType ==
  ASSUME TypeOK, NEW r \in Runs, NEW pc \in RunPcs, run[r].order \in Orders,
         row' \in [Orders -> Rows], GotoHolding(r, pc)
  PROVE  run' \in [Runs -> RunStates]
  <1> DEFINE state == [run[r] EXCEPT !.pc = pc, !.held = row'[run[r].order]]
  <1>1. run[r] \in RunStates /\ row'[run[r].order] \in Rows
    BY DEF TypeOK
  <1>2. state \in RunStates
    BY <1>1 DEF RunStates
  <1> QED BY <1>2, BecomeType DEF GotoHolding

\* Registering an order leaves rows rows.
LEMMA RegistrationType ==
  ASSUME TypeOK, NEW o \in Orders, Registration(o)
  PROVE  row' \in [Orders -> Rows]
  <1> DEFINE new == [status |-> "CREATED", version |-> 0,
                     known |-> FALSE, day |-> today]
  <1>1. new \in Rows
    BY DEF TypeOK, Rows, Statuses
  <1> QED BY <1>1 DEF Registration, TypeOK

\* A busy run works on an order.
RunHasOrder == \A r \in Runs : run[r].pc # "idle" => run[r].order \in Orders

\* What the broker reports as filled is a number of shares.
LEMMA FillsType ==
  ASSUME TypeOK, NEW start
  PROVE  FillsSince(start) \in [Orders -> Nat]
  BY DEF TypeOK, FillsSince, KisOrders

\* Every step of a submission preserves types.
LEMMA SubmitType ==
  ASSUME TypeOK, RunHasOrder, NEW r \in Runs, SubmitStep(r)
  PROVE  TypeOK'
  <1> DEFINE o == run[r].order
  <1> USE DEF others
  <1>o. o \in Orders
    BY DEF RunHasOrder, SubmitStep, At, Register, Step, Validate, ReadPositions,
           ReadOpenOrders, ReadFills, ReadFails, Judge, Gate, Reject, Approve,
           MarkSubmitting, Send, Await, Record, ForceUnknown
  <1>step. ASSUME NEW from, NEW next, NEW to \in RunPcs, Step(r, from, next, to)
           PROVE  TypeOK'
    <2>1. CASE Advance(r, next, FALSE) /\ GotoHolding(r, to) /\ UNCHANGED lock
      <3>1. row' \in [Orders -> Rows]
        BY <1>o, <2>1, CasType DEF Advance, CasRaises
      <3>2. run' \in [Runs -> RunStates]
        BY <1>o, <2>1, <3>1, HoldType
      <3> QED BY <1>step, <2>1, <3>1, <3>2 DEF Step, TypeOK
    <2>2. CASE AdvanceRaises(r, next, FALSE) /\ Finish(r)
      <3>1. row' \in [Orders -> Rows]
        BY <1>o, <2>2, CasType DEF AdvanceRaises
      <3> QED BY <1>step, <2>2, <3>1, FinishType DEF Step, TypeOK
    <2> QED BY <1>step, <2>1, <2>2 DEF Step
  <1>1. CASE Register(r)
    <2>1. CASE Existing(o) = {}
      <3>1. row' \in [Orders -> Rows]
        BY <1>o, <1>1, <2>1, RegistrationType DEF Register
      <3>2. run' \in [Runs -> RunStates]
        BY <1>o, <1>1, <2>1, <3>1, HoldType DEF Register, RunPcs
      <3> QED BY <1>1, <2>1, <3>1, <3>2 DEF Register, TypeOK
    <2>2. CASE Existing(o) # {}
      BY <1>1, <2>2, FinishType DEF Register, TypeOK
    <2> QED BY <2>1, <2>2
  <1>2. CASE Validate(r)
    BY <1>2, <1>step DEF Validate, RunPcs
  <1>3. CASE ReadPositions(r)
    <2>1. PICK b \in BOOLEAN :
            Become(r, [run[r] EXCEPT !.pc = "openOrders", !.matched = b])
      BY <1>3 DEF ReadPositions
    <2>2. [run[r] EXCEPT !.pc = "openOrders", !.matched = b] \in RunStates
      BY UpdateTypes DEF RunPcs
    <2> QED BY <1>3, <2>1, <2>2, BecomeType DEF ReadPositions, TypeOK
  <1>4. CASE ReadOpenOrders(r)
    <2>1. [run[r] EXCEPT !.pc = "fills", !.open = OpenOrders] \in RunStates
      <3>1. OpenOrders \in SUBSET Orders
        BY DEF OpenOrders
      <3>2. "fills" \in RunPcs
        BY DEF RunPcs
      <3> QED BY <3>1, <3>2, UpdateTypes
    <2> QED BY <1>4, <2>1, BecomeType DEF ReadOpenOrders, TypeOK
  <1>5. CASE ReadFills(r)
    <2>1. PICK start \in FillWindows :
            Become(r, [run[r] EXCEPT !.pc = "judge", !.fills = FillsSince(start)])
      BY <1>5 DEF ReadFills
    <2>2. FillsSince(start) \in [Orders -> Nat]
      BY FillsType
    <2>3. [run[r] EXCEPT !.pc = "judge", !.fills = FillsSince(start)] \in RunStates
      BY <2>2, UpdateTypes DEF RunPcs
    <2> QED BY <1>5, <2>1, <2>3, BecomeType DEF ReadFills, TypeOK
  <1>6. CASE ReadFails(r)
    BY <1>6, GotoType DEF ReadFails, TypeOK, RunPcs
  <1>7. CASE Judge(r)
    <2>1. PICK pc \in {"gate", "dirtyGate", "reject"} : Goto(r, pc)
      BY <1>7 DEF Judge
    <2> QED BY <1>7, <2>1, GotoType DEF Judge, TypeOK, RunPcs
  <1>8. CASE Gate(r)
    BY <1>8, GotoType DEF Gate, TypeOK, RunPcs
  <1>9. CASE Reject(r)
    <2>1. row' \in [Orders -> Rows]
      BY <1>o, <1>9, CasType DEF Reject, AdvanceRaises
    <2> QED BY <1>9, <2>1, FinishType DEF Reject, TypeOK
  <1>10. CASE Approve(r)
    BY <1>10, <1>step DEF Approve, RunPcs
  <1>11. CASE MarkSubmitting(r)
    BY <1>11, <1>step DEF MarkSubmitting, RunPcs
  <1>12. CASE Send(r)
    <2>1. run' \in [Runs -> RunStates]
      BY <1>12, GotoType DEF Send, RunPcs
    <2>2. kis' \in [Orders -> KisOrders]
      <3>1. \A x \in Orders : [kis[x] EXCEPT !.st = "transit"] \in KisOrders
        BY DEF TypeOK, KisOrders
      <3> QED BY <1>o, <1>12, <3>1 DEF Send, SendOrder, OrderBecomes, TypeOK
    <2>3. wires' \in [Orders -> Nat] /\ sinceHalt' \in Nat
      BY <1>o, <1>12 DEF Send, TypeOK
    <2> QED BY <1>12, <2>1, <2>2, <2>3 DEF Send, TypeOK
  <1>13. CASE Await(r)
    <2>1. \A a \in {"ACCEPTED", "REJECTED"} :
            [run[r] EXCEPT !.pc = "record", !.answer = a] \in RunStates
      BY UpdateTypes DEF RunPcs
    <2> QED BY <1>13, <2>1, BecomeType, GotoType DEF Await, TypeOK, RunPcs
  <1>14. CASE Record(r)
    <2>1. row' \in [Orders -> Rows]
      BY <1>o, <1>14, CasType DEF Record, AdvanceRaises, Advance, CasRaises
    <2>2. run' \in [Runs -> RunStates] /\ lock' \in Runs \cup {None}
      BY <1>14, FinishType, GotoType DEF Record, TypeOK, RunPcs
    <2> QED BY <1>14, <2>1, <2>2 DEF Record, TypeOK
  <1>15. CASE ForceUnknown(r)
    <2>1. row' \in [Orders -> Rows]
      BY <1>o, <1>15, CasType DEF ForceUnknown, AdvanceRaises
    <2> QED BY <1>15, <2>1, FinishType DEF ForceUnknown, TypeOK
  <1> QED
    BY <1>1, <1>2, <1>3, <1>4, <1>5, <1>6, <1>7, <1>8, <1>9, <1>10, <1>11,
       <1>12, <1>13, <1>14, <1>15 DEF SubmitStep

\* Every step of a cancel preserves types.
LEMMA CancelType ==
  ASSUME TypeOK, RunHasOrder, NEW r \in Runs, CancelStep(r)
  PROVE  TypeOK'
  <1> DEFINE o == run[r].order
  <1> USE DEF others
  <1>o. o \in Orders
    BY DEF RunHasOrder, CancelStep, At, CancelLoad, CancelGate, CancelMark,
           CancelSend, CancelAwait, CancelRecord
  <1>1. CASE CancelLoad(r)
    <2>1. [run[r] EXCEPT !.pc = "cancelGate", !.held = row[o]] \in RunStates
      <3>1. row[o] \in Rows
        BY <1>o DEF TypeOK
      <3>2. "cancelGate" \in RunPcs
        BY DEF RunPcs
      <3> QED BY <3>1, <3>2, UpdateTypes
    <2> QED BY <1>1, <2>1, BecomeType, FinishType DEF CancelLoad, TypeOK
  <1>2. CASE CancelGate(r)
    BY <1>2, GotoType, FinishType DEF CancelGate, TypeOK, RunPcs
  <1>3. CASE CancelMark(r)
    <2>1. row' \in [Orders -> Rows]
      BY <1>o, <1>3, CasType DEF CancelMark, AdvanceRaises, Advance, CasRaises
    <2>2. run' \in [Runs -> RunStates] /\ lock' \in Runs \cup {None}
      BY <1>o, <1>3, <2>1, FinishType, HoldType DEF CancelMark, TypeOK, RunPcs
    <2> QED BY <1>3, <2>1, <2>2 DEF CancelMark, TypeOK
  <1>4. CASE CancelSend(r)
    <2>1. kis' \in [Orders -> KisOrders]
      <3>1. \A x \in Orders : [kis[x] EXCEPT !.cancel = TRUE] \in KisOrders
        BY DEF TypeOK, KisOrders
      <3> QED
        BY <1>o, <1>4, <3>1 DEF CancelSend, SendCancel, OrderBecomes, TypeOK
    <2>2. run' \in [Runs -> RunStates] /\ lock' \in Runs \cup {None}
      BY <1>4, FinishType, GotoType DEF CancelSend, TypeOK, RunPcs
    <2> QED BY <1>4, <2>1, <2>2 DEF CancelSend, TypeOK
  <1>5. CASE CancelAwait(r)
    BY <1>5, GotoType DEF CancelAwait, TypeOK, RunPcs
  <1>6. CASE CancelRecord(r)
    <2>1. row' \in [Orders -> Rows]
      BY <1>o, <1>6, CasType DEF CancelRecord, AdvanceRaises, Advance, CasRaises
    <2>2. run' \in [Runs -> RunStates] /\ lock' \in Runs \cup {None}
      BY <1>6, FinishType, GotoType DEF CancelRecord, TypeOK, RunPcs
    <2> QED BY <1>6, <2>1, <2>2 DEF CancelRecord, TypeOK
  <1> QED BY <1>1, <1>2, <1>3, <1>4, <1>5, <1>6 DEF CancelStep

\* Every step of a run preserves types.
LEMMA RunType ==
  ASSUME TypeOK, RunHasOrder, NEW r \in Runs, RunNext(r)
  PROVE  TypeOK'
  <1> USE DEF others
  <1>1. ASSUME NEW o \in Orders, BeginSubmit(r, o) \/ BeginCancel(r, o)
        PROVE  TypeOK'
    <2>1. \A pc \in RunPcs : [run[r] EXCEPT !.pc = pc, !.order = o] \in RunStates
      BY DEF TypeOK, RunStates
    <2> QED
      BY <1>1, <2>1, BecomeType DEF BeginSubmit, BeginCancel, TypeOK, RunPcs
  <1>2. CASE Crash(r)
    BY <1>2, FinishType DEF Crash, TypeOK
  <1>3. CASE FatalConnection(r)
    BY <1>3, FinishType DEF FatalConnection, TypeOK
  <1> QED BY <1>1, <1>2, <1>3, SubmitType, CancelType DEF RunNext

-----------------------------------------------------------------------------
(* Reconciliation. *)

\* A pass that is given a well-typed state is well typed.
LEMMA PassBecomesType ==
  ASSUME TypeOK, NEW p \in Recons, NEW state \in PassStates, PassBecomes(p, state)
  PROVE  recon' \in [Recons -> PassStates]
  BY DEF PassBecomes, TypeOK

\* A phase that ends leaves a well-typed pass.
LEMMA EndPhaseType ==
  ASSUME TypeOK, NEW p \in Recons, EndPhase(p) \/ EndPass(p)
  PROVE  recon' \in [Recons -> PassStates]
  <1>1. [IdlePass EXCEPT !.pc = "open", !.phase = "settle"] \in PassStates
    BY IdleTypes DEF PassStates
  <1> QED BY <1>1, IdleTypes, PassBecomesType DEF EndPhase, EndPass

\* What the evidence can establish is a status reconciliation may set, and
\* never UNKNOWN.
LEMMA OutcomeStatuses ==
  ASSUME NEW p \in Recons, NEW o \in Orders, NEW seen
  PROVE  Outcome(p, o, seen) \subseteq {"FILLED", "PARTIALLY_FILLED", "ACCEPTED"}
  BY DEF Outcome, Resolution, Settlement, FillEvidence

\* Every step of a pass preserves types.
LEMMA PassType ==
  ASSUME TypeOK, NEW p \in Recons, PassNext(p)
  PROVE  TypeOK'
  <1> USE DEF engineVars
  <1>1. CASE StartPass(p)
    <2>1. [IdlePass EXCEPT !.pc = "open"] \in PassStates
      BY IdleTypes DEF PassStates
    <2> QED BY <1>1, <2>1, PassBecomesType DEF StartPass, TypeOK
  <1>2. CASE PassOpenOrders(p)
    <2>1. [recon[p] EXCEPT !.pc = "fills", !.open = OpenOrders] \in PassStates
      BY DEF OpenOrders, TypeOK, PassStates
    <2> QED BY <1>2, <2>1, PassBecomesType DEF PassOpenOrders, TypeOK
  <1>3. CASE PassFills(p)
    <2>1. PICK start : PassBecomes(p, [recon[p] EXCEPT !.pc = "list",
                                                      !.fills = FillsSince(start)])
      BY <1>3 DEF PassFills
    <2>2. FillsSince(start) \in [Orders -> Nat]
      BY FillsType
    <2>3. [recon[p] EXCEPT !.pc = "list", !.fills = FillsSince(start)] \in PassStates
      BY <2>2 DEF TypeOK, PassStates
    <2> QED BY <1>3, <2>1, <2>3, PassBecomesType DEF PassFills, TypeOK
  <1>4. CASE PassReadFails(p)
    BY <1>4, EndPhaseType DEF PassReadFails, TypeOK
  <1>5. CASE PassList(p)
    <2> DEFINE todo == {<<o, row[o]>> : o \in Listed(recon[p].phase)}
    <2>1. todo \in SUBSET (Orders \X Rows)
      BY DEF TypeOK, Listed, WithStatus
    <2>2. [recon[p] EXCEPT !.pc = "apply", !.todo = todo] \in PassStates
      BY <2>1 DEF TypeOK, PassStates
    <2> QED BY <1>5, <2>2, PassBecomesType DEF PassList, TypeOK
  <1>6. ASSUME NEW e \in recon[p].todo,
               Unresolved(p, e) \/ Resolve(p, e) \/ ResolveRaises(p, e)
        PROVE  TypeOK'
    <2>1. e[1] \in Orders
      BY DEF TypeOK, PassStates
    <2>2. recon' \in [Recons -> PassStates]
      <3>1. [recon[p] EXCEPT !.todo = recon[p].todo \ {e}] \in PassStates
        BY DEF TypeOK, PassStates
      <3>2. [recon[p] EXCEPT !.pc = "raised"] \in PassStates
        BY DEF TypeOK, PassStates
      <3> QED
        BY <1>6, <3>1, <3>2, PassBecomesType
        DEF Unresolved, Resolve, ResolveRaises, Drop, Enter
    <2>3. row' \in [Orders -> Rows]
      <3>1. CASE Resolve(p, e)
        <4>1. PICK next \in Outcome(p, e[1], e[2]) : ReconCas(p, e[1], e[2], next)
          BY <3>1 DEF Resolve
        <4>2. next \in Statuses /\ row' = Moved(e[1], next, FALSE)
          BY <2>1, <4>1, OutcomeStatuses
          DEF ReconCas, ReconcileUnknown, CompareAndSet, Statuses
        <4> QED BY <2>1, <4>2, MovedType
      <3>2. CASE ~Resolve(p, e)
        BY <1>6, <3>2 DEF Unresolved, ResolveRaises, TypeOK
      <3> QED BY <3>1, <3>2
    <2> QED BY <1>6, <2>2, <2>3 DEF Unresolved, Resolve, ResolveRaises, TypeOK
  <1>7. CASE PhaseDone(p)
    BY <1>7, EndPhaseType DEF PhaseDone, TypeOK
  <1>8. CASE PassCrash(p)
    BY <1>8, EndPhaseType DEF PassCrash, TypeOK
  <1>9. CASE PassFatal(p)
    BY <1>9, EndPhaseType DEF PassFatal, TypeOK
  <1> QED
    BY <1>1, <1>2, <1>3, <1>4, <1>5, <1>6, <1>7, <1>8, <1>9 DEF PassNext, ApplyStep

-----------------------------------------------------------------------------
(* The environment, and the type invariant. *)

\* Every step of the broker preserves types.
LEMMA BrokerType ==
  ASSUME TypeOK, NEW o \in Orders, Broker(o)
  PROVE  TypeOK'
  <1> USE DEF others
  <1>1. ASSUME NEW state \in KisOrders, OrderBecomes(o, state)
        PROVE  kis' \in [Orders -> KisOrders]
    BY <1>1 DEF OrderBecomes, TypeOK
  <1>2. kis[o] \in KisOrders /\ today \in Days
    BY DEF TypeOK
  <1>3. kis' \in [Orders -> KisOrders]
    <2>1. CASE Accept(o)
      BY <1>1, <1>2, <2>1 DEF Accept, KisOrders
    <2>2. CASE Refuse(o)
      BY <1>1, <1>2, <2>2 DEF Refuse, KisOrders
    <2>3. CASE Fill(o)
      <3>1. \A n \in Nat, st \in {"open", "closed"} :
              [kis[o] EXCEPT !.filled = n, !.st = st] \in KisOrders
        BY <1>2 DEF KisOrders
      <3>2. kis[o].filled + 1 \in Nat
        BY <1>2 DEF KisOrders
      <3> QED BY <1>1, <2>3, <3>1, <3>2 DEF Fill
    <2>4. CASE TakeCancel(o)
      BY <1>1, <1>2, <2>4 DEF TakeCancel, KisOrders
    <2>5. CASE RefuseCancel(o)
      BY <1>1, <1>2, <2>5 DEF RefuseCancel, KisOrders
    <2>6. CASE Publish(o)
      <3>1. \A n \in Nat : [kis[o] EXCEPT !.shown = n] \in KisOrders
        BY <1>2 DEF KisOrders
      <3>2. kis[o].shown + 1 \in Nat
        BY <1>2 DEF KisOrders
      <3> QED BY <1>1, <2>6, <3>1, <3>2 DEF Publish
    <2> QED BY <2>1, <2>2, <2>3, <2>4, <2>5, <2>6 DEF Broker, Market
  <1> QED BY <1>3 DEF Broker, TypeOK

\* The end of a day preserves types.
LEMMA NextDayType ==
  ASSUME TypeOK, NextDay
  PROVE  TypeOK'
  <1>1. today' \in Days
    BY IntentAssumption DEF NextDay, TypeOK, Days
  <1>2. kis' \in [Orders -> KisOrders]
    <2>1. \A o \in Orders, st \in {"closed", "refused"} :
            /\ [kis[o] EXCEPT !.st = st, !.cancel = FALSE] \in KisOrders
            /\ [kis[o] EXCEPT !.cancel = FALSE] \in KisOrders
      BY DEF TypeOK, KisOrders
    <2> QED BY <2>1 DEF NextDay, DayEnd
  <1> QED BY <1>1, <1>2 DEF NextDay, TypeOK

\* A settled sell preserves types.
LEMMA SettleSellType ==
  ASSUME TypeOK, NEW o \in Orders, SettleSell(o)
  PROVE  TypeOK'
  <1>1. row' = Moved(o, "FILLED", FALSE)
    BY DEF SettleSell, CompareAndSet, ReconcileUnknown
  <1>2. row' \in [Orders -> Rows]
    BY <1>1, MovedType DEF Statuses
  <1> QED BY <1>2 DEF SettleSell, engineVars, TypeOK

\* The run that owns the lock is the busy one, and it works on an order.
LockOwner ==
  \A r \in Runs : run[r].pc # "idle" => lock = r /\ run[r].order \in Orders

\* Every step preserves types.
LEMMA NextType ==
  ASSUME TypeOK, LockOwner, [Next]_vars
  PROVE  TypeOK'
  <1>1. RunHasOrder
    BY DEF LockOwner, RunHasOrder
  <1>2. CASE UNCHANGED vars
    BY <1>2 DEF vars, TypeOK
  <1>3. CASE SetHalt \/ ClearHalt
    <2>1. halt' \in BOOLEAN
      BY <1>3, Zenon DEF SetHalt, ClearHalt
    <2>2. sinceHalt' \in Nat
      BY <1>3 DEF SetHalt, ClearHalt
    <2>3. UNCHANGED <<row, today, kis, lock, run, recon, wires>>
      BY <1>3 DEF SetHalt, ClearHalt
    <2> QED BY <2>1, <2>2, <2>3 DEF TypeOK
  <1> QED
    BY <1>1, <1>2, <1>3, RunType, PassType, BrokerType,
       SettleSellType, NextDayType DEF Next

-----------------------------------------------------------------------------
(* What a step leaves alone. *)

\* What a pass never changes.
LEMMA PassFrame ==
  ASSUME NEW p \in Recons, PassNext(p)
  PROVE  UNCHANGED <<kis, lock, run, today, wires>>
  BY DEF PassNext, ApplyStep, StartPass, PassOpenOrders, PassFills,
     PassReadFails, PassList, Unresolved, Resolve, ResolveRaises, PhaseDone,
     PassCrash, PassFatal, engineVars

\* What a run never changes.
LEMMA RunFrame ==
  ASSUME NEW r \in Runs, RunNext(r)
  PROVE  UNCHANGED <<recon, today>>
  BY DEF RunNext, BeginSubmit, BeginCancel, Crash, FatalConnection,
     SubmitStep, CancelStep, Register, Step, Validate, ReadPositions,
     ReadOpenOrders, ReadFills, ReadFails, Judge, Gate, Reject, Approve,
     MarkSubmitting, Send, Await, Record, ForceUnknown, CancelLoad,
     CancelGate, CancelMark, CancelSend, CancelAwait, CancelRecord, others

\* The operator, the calendar and the broker.
Outside == SetHalt \/ ClearHalt \/ NextDay \/ \E o \in Orders : Broker(o)

\* What the broker, the operator and the calendar never change.
LEMMA OutsideFrame ==
  ASSUME Outside \/ UNCHANGED vars
  PROVE  UNCHANGED <<row, lock, run, recon, wires>>
  BY DEF Outside, SetHalt, ClearHalt, NextDay, Broker, others, vars

\* What the settling of a sell never changes.
LEMMA SettleSellFrame ==
  ASSUME NEW o \in Orders, SettleSell(o)
  PROVE  UNCHANGED <<kis, lock, run, recon, today, halt, wires, sinceHalt>>
  BY DEF SettleSell, engineVars

-----------------------------------------------------------------------------
(* The effect of the parts a step is made of. *)

\* A run that is given a state is in it, and the others stay.
LEMMA BecomeEffect ==
  ASSUME TypeOK, NEW r \in Runs, NEW state, Become(r, state)
  PROVE  run'[r] = state /\ \A q \in Runs \ {r} : run'[q] = run[q]
  BY DEF Become, TypeOK

\* A run that moves along keeps all but its place.
LEMMA GotoEffect ==
  ASSUME TypeOK, NEW r \in Runs, NEW pc, Goto(r, pc)
  PROVE  /\ run'[r] = [run[r] EXCEPT !.pc = pc]
         /\ run'[r].pc = pc /\ run'[r].order = run[r].order
         /\ run'[r].held = run[r].held /\ run'[r].answer = run[r].answer
         /\ \A q \in Runs \ {r} : run'[q] = run[q]
  BY BecomeEffect DEF Goto, TypeOK, RunStates

\* A run that goes on with its row holds the row as it now is.
LEMMA HoldEffect ==
  ASSUME TypeOK, NEW r \in Runs, NEW pc, GotoHolding(r, pc)
  PROVE  /\ run'[r].pc = pc /\ run'[r].order = run[r].order
         /\ run'[r].held = row'[run[r].order]
         /\ \A q \in Runs \ {r} : run'[q] = run[q]
  <1>1. run'[r] = [run[r] EXCEPT !.pc = pc, !.held = row'[run[r].order]]
    BY BecomeEffect DEF GotoHolding
  <1> QED BY <1>1, BecomeEffect DEF GotoHolding, TypeOK, RunStates

\* A run that goes on with something it read, or with the answer.
LEMMA ReadEffect ==
  ASSUME TypeOK, NEW r \in Runs, NEW pc, NEW v,
         \/ Become(r, [run[r] EXCEPT !.pc = pc, !.matched = v])
         \/ Become(r, [run[r] EXCEPT !.pc = pc, !.open = v])
         \/ Become(r, [run[r] EXCEPT !.pc = pc, !.fills = v])
  PROVE  /\ run'[r].pc = pc /\ run'[r].order = run[r].order
         /\ run'[r].held = run[r].held
         /\ \A q \in Runs \ {r} : run'[q] = run[q]
  <1>1. run[r] \in RunStates
    BY DEF TypeOK
  <1>2. ASSUME NEW state, Become(r, state), state.pc = pc,
               state.order = run[r].order, state.held = run[r].held
        PROVE  /\ run'[r].pc = pc /\ run'[r].order = run[r].order
               /\ run'[r].held = run[r].held
               /\ \A q \in Runs \ {r} : run'[q] = run[q]
    BY <1>2, BecomeEffect
  <1>3. CASE Become(r, [run[r] EXCEPT !.pc = pc, !.matched = v])
    BY <1>1, <1>2, <1>3 DEF RunStates
  <1>4. CASE Become(r, [run[r] EXCEPT !.pc = pc, !.open = v])
    BY <1>1, <1>2, <1>4 DEF RunStates
  <1>5. CASE Become(r, [run[r] EXCEPT !.pc = pc, !.fills = v])
    BY <1>1, <1>2, <1>5 DEF RunStates
  <1> QED BY <1>3, <1>4, <1>5

\* A run that got an answer keeps all but its place and the answer.
LEMMA AnswerEffect ==
  ASSUME TypeOK, NEW r \in Runs, NEW pc, NEW v,
         Become(r, [run[r] EXCEPT !.pc = pc, !.answer = v])
  PROVE  /\ run'[r].pc = pc /\ run'[r].order = run[r].order
         /\ run'[r].held = run[r].held /\ run'[r].answer = v
         /\ \A q \in Runs \ {r} : run'[q] = run[q]
  <1>1. run'[r] = [run[r] EXCEPT !.pc = pc, !.answer = v]
    BY BecomeEffect
  <1> QED BY <1>1, BecomeEffect DEF TypeOK, RunStates

\* A cancel that loads its row holds it.
LEMMA LoadEffect ==
  ASSUME TypeOK, NEW r \in Runs, NEW pc, NEW v,
         Become(r, [run[r] EXCEPT !.pc = pc, !.held = v])
  PROVE  /\ run'[r].pc = pc /\ run'[r].order = run[r].order
         /\ run'[r].held = v
         /\ \A q \in Runs \ {r} : run'[q] = run[q]
  <1>1. run'[r] = [run[r] EXCEPT !.pc = pc, !.held = v]
    BY BecomeEffect
  <1> QED BY <1>1, BecomeEffect DEF TypeOK, RunStates

\* A call that begins names its order.
LEMMA BeginEffect ==
  ASSUME TypeOK, NEW r \in Runs, NEW pc, NEW o,
         Become(r, [run[r] EXCEPT !.pc = pc, !.order = o])
  PROVE  /\ run'[r].pc = pc /\ run'[r].order = o
         /\ \A q \in Runs \ {r} : run'[q] = run[q]
  <1>1. run'[r] = [run[r] EXCEPT !.pc = pc, !.order = o]
    BY BecomeEffect
  <1> QED BY <1>1, BecomeEffect DEF TypeOK, RunStates

\* A call that ends is idle and the lock is free.
LEMMA FinishEffect ==
  ASSUME TypeOK, NEW r \in Runs, Finish(r)
  PROVE  /\ run'[r].pc = "idle" /\ lock' = None
         /\ \A q \in Runs \ {r} : run'[q] = run[q]
  BY BecomeEffect DEF Finish, IdleRun

\* While r is busy every other run is idle.
LEMMA OthersIdle ==
  ASSUME LockOwner, NEW r \in Runs, run[r].pc # "idle" \/ lock = None
  PROVE  \A q \in Runs \ {r} : run[q].pc = "idle"
  BY ProcessAssumption DEF LockOwner

\* A step of a call is taken by a run that is not idle.
LEMMA SubmitBusy ==
  ASSUME LockOwner, NEW r \in Runs, SubmitStep(r) \/ CancelStep(r)
  PROVE  run[r].pc # "idle" /\ run[r].order \in Orders /\ lock = r
  <1>1. run[r].pc # "idle"
    BY DEF SubmitStep, CancelStep, At, Register, Step, Validate, ReadPositions,
           ReadOpenOrders, ReadFills, ReadFails, Judge, Gate, Reject, Approve,
           MarkSubmitting, Send, Await, Record, ForceUnknown, CancelLoad,
           CancelGate, CancelMark, CancelSend, CancelAwait, CancelRecord
  <1> QED BY <1>1 DEF LockOwner

\* A step of a run moves that run alone, which keeps its order and the lock,
\* or finishes.
LEMMA RunMoves ==
  ASSUME TypeOK, LockOwner, NEW r \in Runs, SubmitStep(r) \/ CancelStep(r)
  PROVE  /\ \A q \in Runs \ {r} : run'[q] = run[q]
         /\ \/ run'[r].pc = "idle" /\ lock' = None
            \/ run'[r].order = run[r].order /\ lock' = lock
  <1> USE DEF others
  <1>1. ASSUME NEW from, NEW next, NEW to, Step(r, from, next, to)
        PROVE  /\ \A q \in Runs \ {r} : run'[q] = run[q]
               /\ \/ run'[r].pc = "idle" /\ lock' = None
                  \/ run'[r].order = run[r].order /\ lock' = lock
    BY <1>1, HoldEffect, FinishEffect DEF Step
  <1>2. CASE Register(r)
    BY <1>2, HoldEffect, FinishEffect DEF Register
  <1>3. CASE Validate(r) \/ Approve(r) \/ MarkSubmitting(r)
    BY <1>1, <1>3 DEF Validate, Approve, MarkSubmitting
  <1>4. CASE ReadPositions(r) \/ ReadOpenOrders(r) \/ ReadFills(r)
    BY <1>4, ReadEffect DEF ReadPositions, ReadOpenOrders, ReadFills
  <1>5. CASE ReadFails(r) \/ Gate(r) \/ Judge(r) \/ Send(r)
    BY <1>5, GotoEffect DEF ReadFails, Gate, Judge, Send
  <1>6. CASE Reject(r) \/ ForceUnknown(r)
    BY <1>6, FinishEffect DEF Reject, ForceUnknown
  <1>7. CASE Await(r)
    BY <1>7, GotoEffect, AnswerEffect DEF Await
  <1>8. CASE Record(r) \/ CancelRecord(r)
    BY <1>8, GotoEffect, FinishEffect DEF Record, CancelRecord
  <1>9. CASE CancelLoad(r)
    BY <1>9, LoadEffect, FinishEffect DEF CancelLoad
  <1>10. CASE CancelGate(r) \/ CancelSend(r) \/ CancelAwait(r)
    BY <1>10, GotoEffect, FinishEffect DEF CancelGate, CancelSend, CancelAwait
  <1>11. CASE CancelMark(r)
    BY <1>11, HoldEffect, FinishEffect DEF CancelMark
  <1> QED
    BY <1>2, <1>3, <1>4, <1>5, <1>6, <1>7, <1>8, <1>9, <1>10, <1>11
    DEF SubmitStep, CancelStep

\* Every step keeps the lock with the one run that is not idle.
LEMMA LockOwnerStep ==
  ASSUME TypeOK, LockOwner, [Next]_vars
  PROVE  LockOwner'
  <1>1. CASE UNCHANGED vars
    BY <1>1 DEF vars, LockOwner
  <1>2. ASSUME NEW r \in Runs, RunNext(r)
        PROVE  LockOwner'
    <2>1. CASE SubmitStep(r) \/ CancelStep(r)
      <3>1. \A q \in Runs \ {r} : run[q].pc = "idle"
        BY <2>1, SubmitBusy, OthersIdle
      <3> QED BY <2>1, <3>1, SubmitBusy, RunMoves DEF LockOwner
    <2>2. CASE Crash(r) \/ FatalConnection(r)
      <3>1. run[r].pc # "idle"
        BY <2>2 DEF Crash, FatalConnection, CasPcs, At
      <3>2. Finish(r)
        BY <2>2 DEF Crash, FatalConnection
      <3> QED BY <3>1, <3>2, OthersIdle, FinishEffect DEF LockOwner
    <2>3. ASSUME NEW o \in Orders, BeginSubmit(r, o) \/ BeginCancel(r, o)
          PROVE  LockOwner'
      <3>1. \A q \in Runs \ {r} : run[q].pc = "idle"
        BY <2>3, OthersIdle DEF BeginSubmit, BeginCancel
      <3>2. lock' = r /\ run'[r].order = o /\ \A q \in Runs \ {r} : run'[q] = run[q]
        BY <2>3, BeginEffect DEF BeginSubmit, BeginCancel
      <3> QED BY <3>1, <3>2 DEF LockOwner
    <2> QED BY <1>2, <2>1, <2>2, <2>3 DEF RunNext
  <1>3. ASSUME UNCHANGED <<lock, run>>
        PROVE  LockOwner'
    BY <1>3 DEF LockOwner
  <1>4. ASSUME NEW p \in Recons, PassNext(p)
        PROVE  LockOwner'
    BY <1>3, <1>4, PassFrame
  <1>5. CASE Outside
    BY <1>3, <1>5, OutsideFrame
  <1>6. ASSUME NEW o \in Orders, SettleSell(o)
        PROVE  LockOwner'
    BY <1>3, <1>6, SettleSellFrame
  <1> QED BY <1>1, <1>2, <1>4, <1>5, <1>6 DEF Next, Outside

-----------------------------------------------------------------------------
(* The effect of a compare-and-set. *)

\* Row o makes the move to next, and no other row changes.
RowMoves(o, next) ==
  /\ row'[o].status = next
  /\ row'[o].day = row[o].day
  /\ \A x \in Orders \ {o} : row'[x] = row[x]

\* What a move does to its row, and to no other.
LEMMA MovedEffect ==
  ASSUME TypeOK, NEW o \in Orders, NEW next, NEW learn, row' = Moved(o, next, learn)
  PROVE  RowMoves(o, next)
  BY DEF RowMoves, Moved, TypeOK

\* What a compare-and-set may have done to its row.
LEMMA CasEffect ==
  ASSUME TypeOK, NEW o \in Orders, NEW h, NEW next, NEW learn,
         CompareAndSet(o, h, next, learn)
  PROVE  /\ row[o].status = h.status
         /\ next \in Transitions(row[o].status)
         /\ RowMoves(o, next)
  BY MovedEffect DEF CompareAndSet, Matches

\* What a registration does to its row, and to no other.
LEMMA RegistrationEffect ==
  ASSUME TypeOK, NEW o \in Orders, Registration(o)
  PROVE  /\ row'[o].status = "CREATED" /\ row'[o].day = today
         /\ \A x \in Orders \ {o} : row'[x] = row[x]
  BY DEF Registration, TypeOK

\* A row listed for settlement was seen live.
SettlesLive ==
  \A p \in Recons : recon[p].phase = "settle" =>
    \A e \in recon[p].todo : e[2].status \in {"ACCEPTED", "PARTIALLY_FILLED"}

\* Reconciliation moves nothing but an UNKNOWN row, or a live one whose
\* request is answered: never a row on its way to the wire.
LEMMA ReconMoves ==
  ASSUME TypeOK, SettlesLive, NEW p \in Recons, PassNext(p)
  PROVE  \/ row' = row
         \/ \E o \in Orders, next \in {"ACCEPTED", "PARTIALLY_FILLED", "FILLED"} :
              /\ row[o].status \in {"UNKNOWN", "ACCEPTED", "PARTIALLY_FILLED"}
              /\ RowMoves(o, next)
  <1>1. CASE \E e \in recon[p].todo : Resolve(p, e)
    <2>1. PICK e \in recon[p].todo :
             \E next \in Outcome(p, e[1], e[2]) : ReconCas(p, e[1], e[2], next)
      BY <1>1 DEF Resolve
    <2>2. PICK next \in Outcome(p, e[1], e[2]) : ReconCas(p, e[1], e[2], next)
      BY <2>1
    <2>3. e[1] \in Orders
      BY DEF TypeOK, PassStates
    <2>4. next \in {"ACCEPTED", "PARTIALLY_FILLED", "FILLED"}
      BY <2>2, <2>3, OutcomeStatuses
    <2>5. CASE recon[p].phase = "resolve"
      BY <2>2, <2>3, <2>4, <2>5, MovedEffect DEF ReconCas, ReconcileUnknown, Matches
    <2>6. CASE recon[p].phase # "resolve"
      <3>1. recon[p].phase = "settle"
        BY <2>6 DEF TypeOK, PassStates
      <3>2. e[2].status \in {"ACCEPTED", "PARTIALLY_FILLED"}
        BY <3>1 DEF SettlesLive
      <3>3. CompareAndSet(e[1], e[2], next, FALSE)
        BY <2>2, <2>6 DEF ReconCas
      <3>4. row[e[1]].status = e[2].status /\ RowMoves(e[1], next)
        BY <2>3, <3>3, CasEffect
      <3> QED BY <2>3, <2>4, <3>2, <3>4
    <2> QED BY <2>5, <2>6
  <1>2. CASE ~ \E e \in recon[p].todo : Resolve(p, e)
    BY <1>2 DEF PassNext, ApplyStep, StartPass, PassOpenOrders, PassFills,
       PassReadFails, PassList, Unresolved, ResolveRaises, PhaseDone, PassCrash,
       PassFatal
  <1> QED BY <1>1, <1>2

\* Settling a sell makes its row FILLED, and moves no other.
LEMMA SettleSellMoves ==
  ASSUME TypeOK, NEW o \in Orders, SettleSell(o)
  PROVE  /\ Side[o] = "sell" /\ kis[o].shown = Qty[o]
         /\ row[o].status \in {"UNKNOWN", "ACCEPTED", "PARTIALLY_FILLED", "CANCEL_PENDING"}
         /\ RowMoves(o, "FILLED")
  <1>1. row' = Moved(o, "FILLED", FALSE)
    BY DEF SettleSell, CompareAndSet, ReconcileUnknown
  <1>2. RowMoves(o, "FILLED")
    BY <1>1, MovedEffect
  <1>3. row[o].status = "UNKNOWN" \/ "FILLED" \in Transitions(row[o].status)
    BY DEF SettleSell, CompareAndSet, ReconcileUnknown
  <1>4. row[o].status \in Statuses \cup {"NONE"}
    BY DEF TypeOK, Rows
  <1>5. row[o].status \in {"UNKNOWN", "ACCEPTED", "PARTIALLY_FILLED", "CANCEL_PENDING"}
    BY <1>3, <1>4 DEF Transitions, Statuses
  <1> QED BY <1>2, <1>5 DEF SettleSell

\* A settling pass only ever holds rows that were live when listed.
LEMMA SettlesLiveStep ==
  ASSUME TypeOK, SettlesLive, [Next]_vars
  PROVE  SettlesLive'
  <1>1. ASSUME NEW p \in Recons, NEW state, PassBecomes(p, state),
               state.phase = "settle" =>
                 \A e \in state.todo : e[2].status \in {"ACCEPTED", "PARTIALLY_FILLED"}
        PROVE  SettlesLive'
    <2>1. recon'[p] = state /\ \A q \in Recons \ {p} : recon'[q] = recon[q]
      BY <1>1 DEF PassBecomes, TypeOK
    <2> QED BY <1>1, <2>1 DEF SettlesLive
  <1>2. ASSUME NEW p \in Recons, EndPass(p) \/ EndPhase(p)
        PROVE  SettlesLive'
    <2>1. IdlePass.todo = {} /\ [IdlePass EXCEPT !.pc = "open", !.phase = "settle"].todo = {}
      BY DEF IdlePass
    <2> QED BY <1>1, <1>2, <2>1 DEF EndPass, EndPhase
  <1>3. ASSUME NEW p \in Recons, PassNext(p)
        PROVE  SettlesLive'
    <2>0. recon[p] \in PassStates
      BY DEF TypeOK
    <2>1. CASE StartPass(p)
      <3>1. [IdlePass EXCEPT !.pc = "open"].todo = {}
        BY DEF IdlePass
      <3> QED BY <1>1, <2>1, <3>1 DEF StartPass
    <2>2. CASE PassOpenOrders(p)
      <3> DEFINE state == [recon[p] EXCEPT !.pc = "fills", !.open = OpenOrders]
      <3>1. state.phase = recon[p].phase /\ state.todo = recon[p].todo
        BY <2>0 DEF PassStates
      <3>2. PassBecomes(p, state)
        BY <2>2 DEF PassOpenOrders
      <3> QED BY <1>1, <3>1, <3>2 DEF SettlesLive
    <2>3. CASE PassFills(p)
      <3>1. PICK start : PassBecomes(p, [recon[p] EXCEPT !.pc = "list",
                                                        !.fills = FillsSince(start)])
        BY <2>3 DEF PassFills
      <3> DEFINE state == [recon[p] EXCEPT !.pc = "list", !.fills = FillsSince(start)]
      <3>2. state.phase = recon[p].phase /\ state.todo = recon[p].todo
        BY <2>0 DEF PassStates
      <3> QED BY <1>1, <3>1, <3>2 DEF SettlesLive
    <2>4. CASE PassList(p)
      <3> DEFINE todo == {<<o, row[o]>> : o \in Listed(recon[p].phase)}
                 state == [recon[p] EXCEPT !.pc = "apply", !.todo = todo]
      <3>1. state.phase = recon[p].phase /\ state.todo = todo
        BY <2>0 DEF PassStates
      <3>2. recon[p].phase = "settle" =>
              \A e \in todo : e[2].status \in {"ACCEPTED", "PARTIALLY_FILLED"}
        BY DEF Listed, WithStatus
      <3>3. PassBecomes(p, state)
        BY <2>4 DEF PassList
      <3> QED BY <1>1, <3>1, <3>2, <3>3
    <2>5. ASSUME NEW e \in recon[p].todo, Drop(p, e)
          PROVE  SettlesLive'
      <3> DEFINE state == [recon[p] EXCEPT !.todo = recon[p].todo \ {e}]
      <3>1. state.phase = recon[p].phase /\ state.todo \subseteq recon[p].todo
        BY <2>0 DEF PassStates
      <3>2. PassBecomes(p, state)
        BY <2>5 DEF Drop
      <3> QED BY <1>1, <3>1, <3>2 DEF SettlesLive
    <2>6. CASE Enter(p, "raised")
      <3> DEFINE state == [recon[p] EXCEPT !.pc = "raised"]
      <3>1. state.phase = recon[p].phase /\ state.todo = recon[p].todo
        BY <2>0 DEF PassStates
      <3>2. PassBecomes(p, state)
        BY <2>6 DEF Enter
      <3> QED BY <1>1, <3>1, <3>2 DEF SettlesLive
    <2>7. ASSUME NEW e \in recon[p].todo,
                 Unresolved(p, e) \/ Resolve(p, e) \/ ResolveRaises(p, e)
          PROVE  SettlesLive'
      BY <2>5, <2>6, <2>7 DEF Unresolved, Resolve, ResolveRaises
    <2>8. CASE PassReadFails(p) \/ PhaseDone(p) \/ PassCrash(p) \/ PassFatal(p)
      BY <1>2, <2>8 DEF PassReadFails, PhaseDone, PassCrash, PassFatal
    <2> QED
      BY <1>3, <2>1, <2>2, <2>3, <2>4, <2>7, <2>8 DEF PassNext, ApplyStep
  <1>4. ASSUME UNCHANGED recon
        PROVE  SettlesLive'
    BY <1>4 DEF SettlesLive
  <1>5. ASSUME NEW r \in Runs, RunNext(r)
        PROVE  UNCHANGED recon
    BY <1>5, RunFrame
  <1>6. ASSUME Outside \/ UNCHANGED vars
        PROVE  UNCHANGED recon
    BY <1>6, OutsideFrame
  <1> QED BY <1>3, <1>4, <1>5, <1>6, SettleSellFrame DEF Next, Outside

-----------------------------------------------------------------------------
(* A run on its way to the wire holds the ledger's row: what it read last is *)
(* what the ledger has, though others write to the table without the lock.   *)

HoldsAt(r, pcs, S) ==
  run[r].pc \in pcs => row[run[r].order] = run[r].held /\ run[r].held.status \in S

Judging == {"positions", "openOrders", "fills", "judge", "gate", "dirtyGate", "approve"}
OnWire == {"send", "await", "record"}
CancelOnWire == {"cancelSend", "cancelAwait", "cancelRecord"}

\* A cancel in flight whose sell turned out to be filled.
LosesToFill(r) ==
  /\ run[r].pc \in CancelOnWire
  /\ Side[run[r].order] = "sell" /\ row[run[r].order].status = "FILLED"

HoldsRow(r) ==
  /\ HoldsAt(r, {"validate"}, {"CREATED"})
  /\ HoldsAt(r, Judging, {"VALIDATING"})
  /\ HoldsAt(r, {"mark"}, {"APPROVED"})
  /\ HoldsAt(r, OnWire, {"SUBMITTING"})
  /\ HoldsAt(r, {"reject"}, {"VALIDATING", "SUBMITTING"})
  /\ HoldsAt(r, CancelOnWire, {"CANCEL_PENDING"}) \/ LosesToFill(r)

\* Every run that holds a row holds the row the ledger has.
Holding == \A r \in Runs : HoldsRow(r)


\* Nothing that leaves the runs alone, and the rows they hold, disturbs it.
LEMMA HoldingKept ==
  ASSUME Holding, NEW r \in Runs, run'[r] = run[r],
         row'[run[r].order] = row[run[r].order]
  PROVE  HoldsRow(r)'
  BY DEF Holding, HoldsRow, HoldsAt, LosesToFill


\* A submission keeps holding the row the ledger has.
LEMMA SubmitHolding ==
  ASSUME TypeOK, LockOwner, Holding, NEW r \in Runs, SubmitStep(r)
  PROVE  HoldsRow(r)'
  <1> DEFINE o == run[r].order
  <1> USE DEF Judging, OnWire, CancelOnWire
  <1>o. o \in Orders
    BY SubmitBusy
  <1>h. HoldsRow(r)
    BY DEF Holding
  <1>idle. ASSUME run'[r].pc \in {"idle", "register", "unknown"}
           PROVE  HoldsRow(r)'
    BY <1>idle DEF HoldsRow, HoldsAt, LosesToFill
  <1>keep. ASSUME row' = row, run'[r].order = o, run'[r].held = run[r].held,
                  \/ run[r].pc \in Judging /\ run'[r].pc \in Judging \cup {"reject"}
                  \/ run[r].pc \in OnWire /\ run'[r].pc \in OnWire \cup {"reject"}
           PROVE  HoldsRow(r)'
    BY <1>h, <1>keep DEF HoldsRow, HoldsAt, LosesToFill
  <1>step. ASSUME NEW from, NEW next, NEW to, Step(r, from, next, to)
           PROVE  \/ run'[r].pc = "idle"
                  \/ /\ run'[r].pc = to /\ run'[r].order = o
                     /\ run'[r].held = row'[o] /\ row'[o].status = next
    <2>1. CASE AdvanceRaises(r, next, FALSE) /\ Finish(r)
      BY <2>1, FinishEffect
    <2>2. CASE Advance(r, next, FALSE) /\ GotoHolding(r, to)
      <3>1. RowMoves(o, next)
        BY <1>o, <2>2, CasEffect DEF Advance
      <3> QED BY <2>2, <3>1, HoldEffect DEF RowMoves
    <2> QED BY <1>step, <2>1, <2>2 DEF Step
  <1>1. CASE Register(r)
    <2>1. CASE Existing(o) = {}
      <3>1. Registration(o) /\ GotoHolding(r, "validate")
        BY <1>1, <2>1 DEF Register
      <3>2. /\ run'[r].pc = "validate" /\ run'[r].order = o
            /\ run'[r].held = row'[o] /\ row'[o].status = "CREATED"
        BY <1>o, <3>1, HoldEffect, RegistrationEffect
      <3> QED BY <3>2 DEF HoldsRow, HoldsAt
    <2>2. CASE Existing(o) # {}
      BY <1>1, <1>idle, <2>2, FinishEffect DEF Register
    <2> QED BY <2>1, <2>2
  <1>2. CASE Validate(r)
    BY <1>2, <1>step DEF Validate, HoldsRow, HoldsAt
  <1>3. CASE ReadPositions(r) \/ ReadOpenOrders(r) \/ ReadFills(r)
    <2>1. run[r].pc \in {"positions", "openOrders", "fills"} /\ row' = row
      BY <1>3 DEF ReadPositions, ReadOpenOrders, ReadFills, At
    <2>2. \E pc \in {"openOrders", "fills", "judge"} : \E v :
            \/ Become(r, [run[r] EXCEPT !.pc = pc, !.matched = v])
            \/ Become(r, [run[r] EXCEPT !.pc = pc, !.open = v])
            \/ Become(r, [run[r] EXCEPT !.pc = pc, !.fills = v])
      BY <1>3 DEF ReadPositions, ReadOpenOrders, ReadFills
    <2> QED BY <1>keep, <2>1, <2>2, ReadEffect
  <1>4. CASE ReadFails(r) \/ Judge(r) \/ Gate(r)
    BY <1>4, <1>keep, GotoEffect DEF ReadFails, Judge, Gate, At
  <1>5. CASE Reject(r) \/ ForceUnknown(r)
    BY <1>5, <1>idle, FinishEffect DEF Reject, ForceUnknown
  <1>6. CASE Approve(r)
    BY <1>6, <1>step DEF Approve, HoldsRow, HoldsAt
  <1>7. CASE MarkSubmitting(r)
    BY <1>7, <1>step DEF MarkSubmitting, HoldsRow, HoldsAt
  <1>8. CASE Send(r)
    BY <1>8, <1>keep, GotoEffect DEF Send, At
  <1>9. CASE Await(r)
    <2>1. run[r].pc = "await" /\ row' = row
      BY <1>9 DEF Await, At
    <2>2. CASE Goto(r, "unknown")
      BY <1>idle, <2>2, GotoEffect
    <2>3. CASE \E a \in {"ACCEPTED", "REJECTED"} :
                 Become(r, [run[r] EXCEPT !.pc = "record", !.answer = a])
      BY <1>keep, <2>1, <2>3, AnswerEffect
    <2> QED BY <1>9, <2>2, <2>3 DEF Await
  <1>10. CASE Record(r)
    BY <1>10, <1>idle, GotoEffect, FinishEffect DEF Record
  <1> QED
    BY <1>1, <1>2, <1>3, <1>4, <1>5, <1>6, <1>7, <1>8, <1>9, <1>10 DEF SubmitStep

\* A cancel keeps holding the row the ledger has.
LEMMA CancelHolding ==
  ASSUME TypeOK, LockOwner, Holding, NEW r \in Runs, CancelStep(r)
  PROVE  HoldsRow(r)'
  <1> DEFINE o == run[r].order
  <1> USE DEF Judging, OnWire, CancelOnWire
  <1>o. o \in Orders
    BY SubmitBusy
  <1>h. HoldsRow(r)
    BY DEF Holding
  <1>idle. ASSUME run'[r].pc \in {"idle", "unknown", "cancelGate", "cancelMark"}
           PROVE  HoldsRow(r)'
    BY <1>idle DEF HoldsRow, HoldsAt, LosesToFill
  <1>keep. ASSUME row' = row, run'[r].order = o, run'[r].held = run[r].held,
                  run[r].pc \in CancelOnWire, run'[r].pc \in CancelOnWire
           PROVE  HoldsRow(r)'
    BY <1>h, <1>keep DEF HoldsRow, HoldsAt, LosesToFill
  <1>1. CASE CancelLoad(r)
    BY <1>1, <1>idle, LoadEffect, FinishEffect DEF CancelLoad
  <1>2. CASE CancelGate(r)
    BY <1>2, <1>idle, GotoEffect, FinishEffect DEF CancelGate
  <1>3. CASE CancelMark(r)
    <2>1. CASE AdvanceRaises(r, "CANCEL_PENDING", TRUE) /\ Finish(r)
      BY <1>idle, <2>1, FinishEffect
    <2>2. CASE Advance(r, "CANCEL_PENDING", TRUE) /\ GotoHolding(r, "cancelSend")
      <3>1. RowMoves(o, "CANCEL_PENDING")
        BY <1>o, <2>2, CasEffect DEF Advance
      <3>2. /\ run'[r].pc = "cancelSend" /\ run'[r].order = o
            /\ run'[r].held = row'[o] /\ row'[o].status = "CANCEL_PENDING"
        BY <2>2, <3>1, HoldEffect DEF RowMoves
      <3> QED BY <3>2 DEF HoldsRow, HoldsAt
    <2> QED BY <1>3, <2>1, <2>2 DEF CancelMark
  <1>4. CASE CancelSend(r)
    BY <1>4, <1>keep, <1>idle, GotoEffect, FinishEffect DEF CancelSend, At
  <1>5. CASE CancelAwait(r)
    BY <1>5, <1>keep, <1>idle, GotoEffect DEF CancelAwait, At
  <1>6. CASE CancelRecord(r)
    BY <1>6, <1>idle, GotoEffect, FinishEffect DEF CancelRecord
  <1> QED BY <1>1, <1>2, <1>3, <1>4, <1>5, <1>6 DEF CancelStep

\* No step takes a row away from the run that holds it.
LEMMA HoldingStep ==
  ASSUME TypeOK, LockOwner, SettlesLive, Holding, [Next]_vars
  PROVE  Holding'
  <1>0. ASSUME UNCHANGED <<run, row>>
        PROVE  Holding'
    BY <1>0 DEF Holding, HoldsRow, HoldsAt, LosesToFill
  <1>1. ASSUME NEW r \in Runs, RunNext(r)
        PROVE  Holding'
    <2>other. ASSUME NEW q \in Runs, run'[q].pc \in {"idle", "register", "cancelLoad"}
              PROVE  HoldsRow(q)'
      BY <2>other DEF HoldsRow, HoldsAt, Judging, OnWire, CancelOnWire
    <2>1. CASE SubmitStep(r) \/ CancelStep(r)
      <3>1. \A q \in Runs \ {r} : run'[q].pc = "idle"
        BY <2>1, SubmitBusy, OthersIdle, RunMoves
      <3> QED BY <2>1, <2>other, <3>1, SubmitHolding, CancelHolding DEF Holding
    <2>2. CASE Crash(r) \/ FatalConnection(r)
      <3>1. run[r].pc # "idle" /\ Finish(r)
        BY <2>2 DEF Crash, FatalConnection, CasPcs, At
      <3>2. \A q \in Runs : run'[q].pc = "idle"
        BY <3>1, OthersIdle, FinishEffect
      <3> QED BY <2>other, <3>2 DEF Holding
    <2>3. ASSUME NEW o \in Orders, BeginSubmit(r, o) \/ BeginCancel(r, o)
          PROVE  Holding'
      <3>1. \A q \in Runs \ {r} : run'[q].pc = "idle"
        BY <2>3, OthersIdle, BeginEffect DEF BeginSubmit, BeginCancel
      <3>2. run'[r].pc \in {"register", "cancelLoad"}
        BY <2>3, BeginEffect DEF BeginSubmit, BeginCancel
      <3> QED BY <2>other, <3>1, <3>2 DEF Holding
    <2> QED BY <1>1, <2>1, <2>2, <2>3 DEF RunNext
  <1>2. ASSUME NEW p \in Recons, PassNext(p)
        PROVE  Holding'
    <2>1. run' = run
      BY <1>2, PassFrame
    <2>2. CASE row' = row
      BY <1>0, <2>1, <2>2
    <2>3. ASSUME NEW o \in Orders, NEW next,
                 row[o].status \in {"UNKNOWN", "ACCEPTED", "PARTIALLY_FILLED"},
                 RowMoves(o, next)
          PROVE  Holding'
      <3> SUFFICES ASSUME NEW r \in Runs
                   PROVE  HoldsRow(r)'
        BY DEF Holding
      <3>1. CASE run[r].order = o
        BY <2>1, <2>3, <3>1 DEF Holding, HoldsRow, HoldsAt, LosesToFill
      <3>2. CASE run[r].order # o /\ run[r].order \in Orders
        BY <2>1, <2>3, <3>2, HoldingKept DEF RowMoves
      <3>3. CASE run[r].order \notin Orders
        <4>1. run[r].pc = "idle"
          BY <3>3 DEF LockOwner
        <4> QED BY <2>1, <4>1 DEF HoldsRow, HoldsAt, Judging, OnWire, CancelOnWire
      <3> QED BY <3>1, <3>2, <3>3
    <2> QED BY <1>2, <2>2, <2>3, ReconMoves
  <1>3. CASE Outside \/ UNCHANGED vars
    BY <1>0, <1>3, OutsideFrame
  <1>4. ASSUME NEW o \in Orders, SettleSell(o)
        PROVE  Holding'
    <2>1. run' = run
      BY <1>4, SettleSellFrame
    <2>2. /\ Side[o] = "sell" /\ RowMoves(o, "FILLED")
          /\ row[o].status \in {"UNKNOWN", "ACCEPTED", "PARTIALLY_FILLED", "CANCEL_PENDING"}
      BY <1>4, SettleSellMoves
    <2> SUFFICES ASSUME NEW r \in Runs
                 PROVE  HoldsRow(r)'
      BY DEF Holding
    <2>3. CASE run[r].order = o
      BY <2>1, <2>2, <2>3 DEF Holding, HoldsRow, HoldsAt, LosesToFill, RowMoves,
         Judging, OnWire, CancelOnWire
    <2>4. CASE run[r].order # o /\ run[r].order \in Orders
      BY <2>1, <2>2, <2>4, HoldingKept DEF RowMoves
    <2>5. CASE run[r].order \notin Orders
      <3>1. run[r].pc = "idle"
        BY <2>5 DEF LockOwner
      <3> QED BY <2>1, <3>1 DEF HoldsRow, HoldsAt, Judging, OnWire, CancelOnWire
    <2> QED BY <2>3, <2>4, <2>5
  <1> QED BY <1>1, <1>2, <1>3, <1>4 DEF Next, Outside

-----------------------------------------------------------------------------
(* How the ledger and the wire history move, whoever takes the step. *)

\* A step leaves the rows alone, registers one, or moves one.
LEMMA RunRows ==
  ASSUME TypeOK, LockOwner, NEW r \in Runs, SubmitStep(r) \/ CancelStep(r)
  PROVE  LET o == run[r].order IN
         \/ row' = row
         \/ Existing(o) = {} /\ Registration(o)
         \/ \E next \in Transitions(row[o].status) : RowMoves(o, next)
  <1> DEFINE o == run[r].order
             Goal == \/ row' = row
                     \/ Existing(o) = {} /\ Registration(o)
                     \/ \E next \in Transitions(row[o].status) : RowMoves(o, next)
  <1> SUFFICES Goal
    OBVIOUS
  <1>o. o \in Orders
    BY SubmitBusy
  <1>cas. ASSUME NEW next, NEW learn, Advance(r, next, learn) \/ AdvanceRaises(r, next, learn)
          PROVE  Goal
    BY <1>o, <1>cas, CasEffect DEF Advance, AdvanceRaises, CasRaises
  <1>step. ASSUME NEW from, NEW next, NEW to, Step(r, from, next, to)
           PROVE  Goal
    BY <1>step, <1>cas DEF Step
  <1>1. CASE Register(r)
    BY <1>1 DEF Register
  <1>2. CASE Validate(r) \/ Approve(r) \/ MarkSubmitting(r)
    BY <1>2, <1>step DEF Validate, Approve, MarkSubmitting
  <1>3. CASE Reject(r) \/ Record(r) \/ ForceUnknown(r)
    BY <1>3, <1>cas DEF Reject, Record, ForceUnknown
  <1>4. CASE CancelMark(r) \/ CancelRecord(r)
    BY <1>4, <1>cas DEF CancelMark, CancelRecord
  <1>5. CASE \/ ReadPositions(r) \/ ReadOpenOrders(r) \/ ReadFills(r) \/ ReadFails(r)
             \/ Judge(r) \/ Gate(r) \/ Send(r) \/ Await(r) \/ CancelLoad(r)
             \/ CancelGate(r) \/ CancelSend(r) \/ CancelAwait(r)
    BY <1>5 DEF ReadPositions, ReadOpenOrders, ReadFills, ReadFails, Judge, Gate,
       Send, Await, CancelLoad, CancelGate, CancelSend, CancelAwait
  <1> HIDE DEF Goal
  <1> QED BY <1>1, <1>2, <1>3, <1>4, <1>5 DEF SubmitStep, CancelStep

Settled == {"ACCEPTED", "PARTIALLY_FILLED", "FILLED"}

\* What any step may do to a row: its key stays, registration is once.
LEMMA RowsStep ==
  ASSUME TypeOK, LockOwner, SettlesLive, [Next]_vars
  PROVE  \/ row' = row
         \/ \E o \in Orders : Existing(o) = {} /\ Registration(o)
         \/ \E o \in Orders, next \in Statuses :
              /\ RowMoves(o, next)
              /\ row[o].status \in Statuses
              /\ \/ next \in Transitions(row[o].status)
                 \/ row[o].status \in {"UNKNOWN", "ACCEPTED", "PARTIALLY_FILLED"}
                    /\ next \in Settled
  <1>1. ASSUME NEW r \in Runs, SubmitStep(r) \/ CancelStep(r),
               NEW next \in Transitions(row[run[r].order].status)
        PROVE  next \in Statuses /\ row[run[r].order].status \in Statuses
    BY <1>1 DEF Transitions, Statuses
  <1>2. CASE \E r \in Runs : SubmitStep(r) \/ CancelStep(r)
    BY <1>1, <1>2, SubmitBusy, RunRows
  <1>3. CASE \E p \in Recons : PassNext(p)
    BY <1>3, ReconMoves DEF Settled, Statuses
  <1>4. CASE \E r \in Runs : \/ Crash(r) \/ FatalConnection(r)
                             \/ \E o \in Orders : BeginSubmit(r, o) \/ BeginCancel(r, o)
    BY <1>4 DEF Crash, FatalConnection, BeginSubmit, BeginCancel
  <1>5. CASE Outside \/ UNCHANGED vars
    BY <1>5, OutsideFrame
  <1>6. ASSUME NEW o \in Orders, SettleSell(o)
        PROVE  /\ RowMoves(o, "FILLED") /\ row[o].status \in Statuses
               /\ \/ "FILLED" \in Transitions(row[o].status)
                  \/ row[o].status = "UNKNOWN"
    BY <1>6, SettleSellMoves DEF Transitions, Statuses
  <1>7. "FILLED" \in Statuses \cap Settled
    BY DEF Statuses, Settled
  <1> QED BY <1>2, <1>3, <1>4, <1>5, <1>6, <1>7 DEF Next, RunNext, Outside

\* Only Send touches the wire history.
LEMMA WiresStep ==
  ASSUME TypeOK, LockOwner, [Next]_vars
  PROVE  \/ wires' = wires
         \/ \E r \in Runs :
              /\ Send(r) /\ run'[r].pc = "await"
              /\ wires' = [wires EXCEPT ![run[r].order] = wires[run[r].order] + 1]
  <1>1. ASSUME NEW r \in Runs, RunNext(r), ~Send(r)
        PROVE  wires' = wires
    BY <1>1 DEF RunNext, BeginSubmit, BeginCancel, Crash, FatalConnection,
       SubmitStep, CancelStep, Register, Step, Validate, ReadPositions,
       ReadOpenOrders, ReadFills, ReadFails, Judge, Gate, Reject, Approve,
       MarkSubmitting, Await, Record, ForceUnknown, CancelLoad,
       CancelGate, CancelMark, CancelSend, CancelAwait, CancelRecord, others
  <1>2. ASSUME NEW r \in Runs, Send(r)
        PROVE  \/ wires' = wires
               \/ /\ run'[r].pc = "await"
                  /\ wires' = [wires EXCEPT ![run[r].order] = wires[run[r].order] + 1]
    BY <1>2, GotoEffect DEF Send
  <1>3. ASSUME NEW p \in Recons, PassNext(p)
        PROVE  wires' = wires
    BY <1>3, PassFrame
  <1>4. CASE Outside \/ UNCHANGED vars
    BY <1>4, OutsideFrame
  <1> QED BY <1>1, <1>2, <1>3, <1>4, SettleSellFrame DEF Next, Outside

-----------------------------------------------------------------------------
(* One order per signal and day. *)

\* A row that has not reached SUBMITTING has sent nothing.
Unsent == {"NONE", "CREATED", "VALIDATING", "APPROVED"}

\* The unique key (signal, symbol, side, trading day).
SignalKey ==
  \A o, x \in Registered :
    o # x /\ Signal[o] = Signal[x] => row[o].day # row[x].day

\* Every step keeps one row per signal and day.
LEMMA SignalKeyStep ==
  ASSUME TypeOK, LockOwner, SettlesLive, SignalKey, [Next]_vars
  PROVE  SignalKey'
  <1>1. CASE row' = row
    BY <1>1 DEF SignalKey, Registered
  <1>2. ASSUME NEW o \in Orders, Existing(o) = {}, Registration(o)
        PROVE  SignalKey'
    <2>1. \A x \in Registered : x # o /\ (Signal[x] = Signal[o] => row[x].day # today)
      BY <1>2 DEF Existing
    <2>2. /\ row'[o].day = today
          /\ \A x \in Orders \ {o} : row'[x] = row[x]
      BY <1>2, RegistrationEffect
    <2> QED BY <2>1, <2>2 DEF SignalKey, Registered
  <1>3. ASSUME NEW o \in Orders, NEW next, RowMoves(o, next), row[o].status # "NONE"
        PROVE  SignalKey'
    BY <1>3 DEF SignalKey, Registered, RowMoves
  <1>4. "NONE" \notin Statuses
    BY DEF Statuses
  <1> QED BY <1>1, <1>2, <1>3, <1>4, RowsStep

-----------------------------------------------------------------------------
(* The judged snapshot, and the gate. *)

\* What a judged snapshot says of UNKNOWN orders.
LEMMA JudgeEffect ==
  ASSUME TypeOK, NEW r \in Runs, Judge(r)
  PROVE  /\ row' = row /\ run'[r].pc \in {"gate", "dirtyGate", "reject"}
         /\ run'[r].pc = "gate" => Unknown = {}
         /\ run'[r].pc = "dirtyGate" => Side[run[r].order] = "sell"
  <1> DEFINE o == run[r].order
             dirty == OrderDisagreements(run[r].open, run[r].fills) \cup Unknown
             usable == \A x \in dirty : Symbol[x] # Symbol[o]
             pc == IF run[r].matched /\ dirty = {} THEN "gate"
                   ELSE IF Side[o] = "sell" /\ usable THEN "dirtyGate"
                   ELSE "reject"
  <1>1. Goto(r, pc) /\ row' = row
    BY DEF Judge
  <1>2. pc \in {"gate", "dirtyGate", "reject"} /\ (pc = "dirtyGate" => Side[o] = "sell")
    OBVIOUS
  <1>3. pc = "gate" => Unknown = {}
    OBVIOUS
  <1> HIDE DEF pc
  <1>4. run'[r].pc = pc
    BY <1>1, GotoEffect
  <1> QED BY <1>1, <1>2, <1>3, <1>4

\* The gate is passed only while HALT is clear.
LEMMA GateEffect ==
  ASSUME TypeOK, NEW r \in Runs, Gate(r)
  PROVE  /\ row' = row /\ run'[r].pc \in {"approve", "reject"}
         /\ run'[r].pc = "approve" =>
              /\ ~halt
              /\ \/ run[r].pc = "gate"
                 \/ /\ run[r].pc = "dirtyGate"
                    /\ \A x \in Unknown : Symbol[x] # Symbol[run[r].order]
  <1>1. row' = row /\ run[r].pc \in {"gate", "dirtyGate"}
    BY DEF Gate
  <1>2. CASE Goto(r, "reject")
    <2>1. run'[r].pc = "reject"
      BY <1>2, GotoEffect
    <2> QED BY <1>1, <2>1
  <1>3. CASE ~Goto(r, "reject")
    <2>1. ~halt /\ Goto(r, "approve")
      BY <1>3, Zenon DEF Gate
    <2>2. \/ run[r].pc = "gate"
          \/ /\ run[r].pc = "dirtyGate"
             /\ \A x \in Unknown : Symbol[x] # Symbol[run[r].order]
      BY <1>3 DEF Gate, At
    <2> QED BY <1>1, <2>1, <2>2, GotoEffect
  <1> QED BY <1>2, <1>3

\* The state after a step of r that is still going on, one cause per status.
LEMMA AfterStep ==
  ASSUME TypeOK, LockOwner, NEW r \in Runs, SubmitStep(r) \/ CancelStep(r)
  PROVE  /\ run'[r].pc \in {"gate", "dirtyGate"} => Judge(r)
         /\ run'[r].pc = "approve" => Gate(r)
         /\ run'[r].pc = "mark" => run[r].pc = "approve" /\ Advance(r, "APPROVED", FALSE)
         /\ run'[r].pc = "send" => run[r].pc = "mark" /\ Advance(r, "SUBMITTING", FALSE)
         /\ run'[r].pc = "record" => Await(r)
         /\ run'[r].pc = "cancelMark" => CancelGate(r)
         /\ run'[r].pc = "cancelRecord" => CancelAwait(r)
  <1>step. ASSUME NEW from, NEW next, NEW to, Step(r, from, next, to)
           PROVE  \/ run'[r].pc = "idle"
                  \/ run'[r].pc = to /\ run[r].pc = from /\ Advance(r, next, FALSE)
    BY <1>step, HoldEffect, FinishEffect DEF Step, At
  <1>1. CASE Register(r) \/ Reject(r) \/ ForceUnknown(r)
    <2>1. run'[r].pc \in {"validate", "idle"}
      BY <1>1, HoldEffect, FinishEffect DEF Register, Reject, ForceUnknown
    <2> QED BY <2>1
  <1>2. CASE Record(r) \/ CancelRecord(r)
    <2>1. run'[r].pc \in {"unknown", "idle"}
      BY <1>2, GotoEffect, FinishEffect DEF Record, CancelRecord
    <2> QED BY <2>1
  <1>3. CASE Validate(r) \/ Approve(r) \/ MarkSubmitting(r)
    <2>1. CASE Validate(r)
      <3>1. run'[r].pc \in {"positions", "idle"}
        BY <1>step, <2>1 DEF Validate
      <3> QED BY <3>1
    <2>2. CASE Approve(r)
      <3>1. \/ run'[r].pc = "idle"
            \/ run'[r].pc = "mark" /\ run[r].pc = "approve" /\ Advance(r, "APPROVED", FALSE)
        BY <1>step, <2>2 DEF Approve
      <3> QED BY <3>1
    <2>3. CASE MarkSubmitting(r)
      <3>1. \/ run'[r].pc = "idle"
            \/ run'[r].pc = "send" /\ run[r].pc = "mark" /\ Advance(r, "SUBMITTING", FALSE)
        BY <1>step, <2>3 DEF MarkSubmitting
      <3> QED BY <3>1
    <2> QED BY <1>3, <2>1, <2>2, <2>3
  <1>4. CASE ReadPositions(r) \/ ReadOpenOrders(r) \/ ReadFills(r)
    <2>1. run'[r].pc \in {"openOrders", "fills", "judge"}
      BY <1>4, ReadEffect DEF ReadPositions, ReadOpenOrders, ReadFills
    <2> QED BY <2>1
  <1>5. CASE ReadFails(r) \/ Send(r)
    <2>1. run'[r].pc \in {"reject", "await"}
      BY <1>5, GotoEffect DEF ReadFails, Send
    <2> QED BY <2>1
  <1>6. CASE Judge(r)
    <2>1. run'[r].pc \in {"gate", "dirtyGate", "reject"}
      BY <1>6, GotoEffect DEF Judge
    <2> QED BY <1>6, <2>1
  <1>7. CASE Gate(r)
    <2>1. run'[r].pc \in {"approve", "reject"}
      BY <1>7, GotoEffect DEF Gate
    <2> QED BY <1>7, <2>1
  <1>8. CASE Await(r)
    <2>1. run'[r].pc \in {"record", "unknown"}
      <3>1. CASE Goto(r, "unknown")
        BY <3>1, GotoEffect
      <3>2. CASE \E a \in {"ACCEPTED", "REJECTED"} :
                   Become(r, [run[r] EXCEPT !.pc = "record", !.answer = a])
        BY <3>2, AnswerEffect
      <3> QED BY <1>8, <3>1, <3>2 DEF Await
    <2> QED BY <1>8, <2>1
  <1>9. CASE CancelLoad(r)
    <2>1. run'[r].pc \in {"cancelGate", "idle"}
      BY <1>9, LoadEffect, FinishEffect DEF CancelLoad
    <2> QED BY <2>1
  <1>10. CASE CancelGate(r)
    <2>1. run'[r].pc \in {"cancelMark", "idle"}
      BY <1>10, GotoEffect, FinishEffect DEF CancelGate
    <2> QED BY <1>10, <2>1
  <1>13. CASE CancelSend(r)
    <2>1. run'[r].pc \in {"cancelAwait", "unknown", "idle"}
      BY <1>13, GotoEffect, FinishEffect DEF CancelSend
    <2> QED BY <2>1
  <1>12. CASE CancelAwait(r)
    <2>1. run'[r].pc \in {"cancelRecord", "unknown"}
      BY <1>12, GotoEffect DEF CancelAwait
    <2> QED BY <1>12, <2>1
  <1>11. CASE CancelMark(r)
    <2>1. run'[r].pc \in {"cancelSend", "idle"}
      BY <1>11, HoldEffect, FinishEffect DEF CancelMark
    <2> QED BY <2>1
  <1> QED
    BY <1>1, <1>2, <1>3, <1>4, <1>5, <1>6, <1>7, <1>8, <1>9, <1>10, <1>11, <1>12, <1>13
    DEF SubmitStep, CancelStep

\* Whoever starts, finishes or crashes leaves no run on its way to the wire.
LEMMA NotOnTheWay ==
  ASSUME TypeOK, LockOwner, NEW r \in Runs, RunNext(r),
         ~(SubmitStep(r) \/ CancelStep(r))
  PROVE  \A q \in Runs : run'[q].pc \in {"idle", "register", "cancelLoad"}
  <1>1. CASE Crash(r) \/ FatalConnection(r)
    <2>1. run[r].pc # "idle" /\ Finish(r)
      BY <1>1 DEF Crash, FatalConnection, CasPcs, At
    <2> QED BY <2>1, OthersIdle, FinishEffect
  <1>2. ASSUME NEW o \in Orders, BeginSubmit(r, o) \/ BeginCancel(r, o)
        PROVE  \A q \in Runs : run'[q].pc \in {"idle", "register", "cancelLoad"}
    <2>1. \A q \in Runs \ {r} : run'[q].pc = "idle"
      BY <1>2, OthersIdle, BeginEffect DEF BeginSubmit, BeginCancel
    <2>2. run'[r].pc \in {"register", "cancelLoad"}
      BY <1>2, BeginEffect DEF BeginSubmit, BeginCancel
    <2> QED BY <2>1, <2>2
  <1> QED BY <1>1, <1>2 DEF RunNext

-----------------------------------------------------------------------------
(* How a submission comes near the wire, and how the ledger's rows move. *)

\* The places of a submission that has registered and not yet sent.
BeforeWire == Judging \cup {"validate", "mark", "send", "reject"}

\* A request is sent once, of a row that was registered today.
RequestOnce ==
  /\ \A o \in Orders : wires[o] <= 1
  /\ \A o \in Orders : row[o].status \in Unsent => wires[o] = 0
  /\ \A r \in Runs :
       run[r].pc \in BeforeWire =>
         /\ wires[run[r].order] = 0
         /\ row[run[r].order].status # "NONE" /\ row[run[r].order].day = today
  /\ \A r \in Runs :
       run[r].pc = "send" => row[run[r].order].status \notin Unsent

\* A run before the wire was there already, or has just registered its row.
LEMMA BeforeWireStep ==
  ASSUME TypeOK, LockOwner, NEW r \in Runs, SubmitStep(r) \/ CancelStep(r),
         run'[r].pc \in BeforeWire
  PROVE  /\ run'[r].order = run[r].order /\ wires' = wires
         /\ \/ run[r].pc \in BeforeWire
            \/ Existing(run[r].order) = {} /\ Registration(run[r].order)
  <1> USE DEF BeforeWire, Judging
  <1>1. run'[r].order = run[r].order
    <2>1. run'[r].pc # "idle"
      OBVIOUS
    <2> QED BY <2>1, RunMoves
  <1>2. wires' = wires
    <2>1. ~ \E q \in Runs : Send(q) /\ run'[q].pc = "await"
      BY SubmitBusy, OthersIdle DEF Send, At
    <2> QED BY <2>1, WiresStep DEF Next, RunNext
  <1>3. CASE Register(r)
    <2>1. CASE Existing(run[r].order) = {}
      BY <1>1, <1>2, <1>3, <2>1 DEF Register
    <2>2. CASE Existing(run[r].order) # {}
      BY <1>3, <2>2, FinishEffect DEF Register
    <2> QED BY <2>1, <2>2
  <1>4. CASE \/ Validate(r) \/ ReadPositions(r) \/ ReadOpenOrders(r) \/ ReadFills(r)
             \/ ReadFails(r) \/ Judge(r) \/ Gate(r) \/ Reject(r) \/ Approve(r)
             \/ MarkSubmitting(r) \/ Send(r)
    BY <1>1, <1>2, <1>4 DEF Step, Validate, ReadPositions, ReadOpenOrders, ReadFills,
       ReadFails, Judge, Gate, Reject, Approve, MarkSubmitting, Send, At
  <1>5. CASE ForceUnknown(r)
    BY <1>5, FinishEffect DEF ForceUnknown
  <1>6. CASE Record(r) \/ CancelRecord(r)
    <2>1. run'[r].pc \in {"unknown", "idle"}
      BY <1>6, GotoEffect, FinishEffect DEF Record, CancelRecord
    <2> QED BY <2>1
  <1>7. CASE Await(r)
    <2>1. run'[r].pc \in {"record", "unknown"}
      BY <1>7, GotoEffect, AnswerEffect DEF Await
    <2> QED BY <2>1
  <1>8. CASE CancelLoad(r)
    <2>1. run'[r].pc \in {"cancelGate", "idle"}
      BY <1>8, LoadEffect, FinishEffect DEF CancelLoad
    <2> QED BY <2>1
  <1>9. CASE CancelGate(r) \/ CancelSend(r) \/ CancelAwait(r)
    <2>1. run'[r].pc \in {"cancelMark", "cancelAwait", "cancelRecord", "unknown", "idle"}
      BY <1>9, GotoEffect, FinishEffect DEF CancelGate, CancelSend, CancelAwait
    <2> QED BY <2>1
  <1>10. CASE CancelMark(r)
    <2>1. run'[r].pc \in {"cancelSend", "idle"}
      BY <1>10, HoldEffect, FinishEffect DEF CancelMark
    <2> QED BY <2>1
  <1> QED
    BY <1>3, <1>4, <1>5, <1>6, <1>7, <1>8, <1>9, <1>10 DEF SubmitStep, CancelStep

\* What a step does to the rows that count here: a registered row stays
\* registered and keeps its day, and none goes back to a status that has
\* sent nothing.
RowsKept ==
  \A o \in Orders :
    /\ row[o].status # "NONE" => row'[o].status # "NONE" /\ row'[o].day = row[o].day
    /\ row'[o].status \in Unsent => row[o].status \in Unsent

\* Every step of the lifecycle keeps the rows in that sense.
LEMMA RowsKeptStep ==
  ASSUME TypeOK, LockOwner, SettlesLive, [Next]_vars
  PROVE  RowsKept
  <1> USE DEF Unsent
  <1>1. CASE row' = row
    BY <1>1 DEF RowsKept
  <1>2. ASSUME NEW o \in Orders, Existing(o) = {}, Registration(o)
        PROVE  RowsKept
    <2>1. row[o].status = "NONE"
      BY <1>2 DEF Existing, Registered
    <2> QED BY <1>2, <2>1, RegistrationEffect DEF RowsKept
  <1>3. ASSUME NEW o \in Orders, NEW next \in Statuses, RowMoves(o, next),
               row[o].status \in Statuses,
               next \in Transitions(row[o].status) \/ next \in Settled
        PROVE  RowsKept
    <2>1. \A s \in Statuses, t \in Unsent : t \in Transitions(s) => s \in Unsent
      BY DEF Transitions, Statuses
    <2> QED BY <1>3, <2>1 DEF RowsKept, RowMoves, Settled, Statuses
  <1> QED BY <1>1, <1>2, <1>3, RowsStep

-----------------------------------------------------------------------------
(* At most one request per order. *)

\* While no run moves and no request leaves, rows that are kept keep it so.
LEMMA RequestOnceKept ==
  ASSUME LockOwner, RequestOnce, RowsKept, run' = run, wires' = wires,
         today' = today \/ lock = None
  PROVE  RequestOnce'
  <1>1. ASSUME NEW r \in Runs, run[r].pc \in BeforeWire \cup {"send"}
        PROVE  run[r].order \in Orders /\ today' = today
    <2>1. run[r].pc # "idle"
      BY <1>1 DEF BeforeWire, Judging
    <2> QED BY <2>1, ProcessAssumption DEF LockOwner
  <1> QED BY <1>1 DEF RequestOnce, RowsKept

\* Every step of the lifecycle keeps one request per order.
LEMMA RequestOnceStep ==
  ASSUME TypeOK, LockOwner, SettlesLive, RequestOnce, [Next]_vars
  PROVE  RequestOnce'
  <1>0. RowsKept
    BY RowsKeptStep
  <1>1. ASSUME NEW r \in Runs, SubmitStep(r) \/ CancelStep(r)
        PROVE  RequestOnce'
    <2> DEFINE o == run[r].order
    <2>1. /\ \A q \in Runs \ {r} : run'[q].pc = "idle"
          /\ o \in Orders /\ today' = today
      BY <1>1, SubmitBusy, OthersIdle, RunMoves, RunFrame DEF RunNext
    <2>2. /\ \A x \in Orders : wires'[x] <= 1
          /\ \A x \in Orders : row'[x].status \in Unsent => wires'[x] = 0
      <3>1. CASE wires' = wires
        BY <1>0, <3>1 DEF RequestOnce, RowsKept
      <3>2. ASSUME NEW q \in Runs, Send(q),
                   wires' = [wires EXCEPT ![run[q].order] = wires[run[q].order] + 1]
            PROVE  /\ \A x \in Orders : wires'[x] <= 1
                   /\ \A x \in Orders : row'[x].status \in Unsent => wires'[x] = 0
        <4> DEFINE s == run[q].order
        <4>1. run[q].pc = "send" /\ row' = row
          BY <3>2 DEF Send, At
        <4>2. s \in Orders /\ wires[s] = 0 /\ row[s].status \notin Unsent
          BY <4>1 DEF LockOwner, RequestOnce, BeforeWire
        <4>3. wires'[s] = 1 /\ \A x \in Orders \ {s} : wires'[x] = wires[x]
          BY <3>2, <4>2 DEF TypeOK
        <4> QED BY <4>1, <4>2, <4>3 DEF RequestOnce
      <3> QED BY <3>1, <3>2, WiresStep
    <2>3. ASSUME run'[r].pc \in BeforeWire
          PROVE  /\ wires'[run'[r].order] = 0
                 /\ row'[run'[r].order].status # "NONE"
                 /\ row'[run'[r].order].day = today'
      <3>1. run'[r].order = o /\ wires' = wires
        BY <1>1, <2>3, BeforeWireStep
      <3>2. CASE run[r].pc \in BeforeWire
        BY <1>0, <2>1, <3>1, <3>2 DEF RequestOnce, RowsKept
      <3>3. CASE Existing(o) = {} /\ Registration(o)
        <4>1. row[o].status = "NONE"
          BY <2>1, <3>3 DEF Existing, Registered
        <4>2. row'[o].status = "CREATED" /\ row'[o].day = today
          BY <2>1, <3>3, RegistrationEffect
        <4> QED BY <2>1, <3>1, <4>1, <4>2 DEF RequestOnce, Unsent
      <3> QED BY <1>1, <2>3, <3>2, <3>3, BeforeWireStep
    <2>4. ASSUME run'[r].pc = "send"
          PROVE  row'[run'[r].order].status \notin Unsent
      <3>1. run'[r].order = o
        BY <1>1, <2>4, BeforeWireStep DEF BeforeWire
      <3>2. RowMoves(o, "SUBMITTING")
        BY <1>1, <2>1, <2>4, AfterStep, CasEffect DEF Advance
      <3> QED BY <3>1, <3>2 DEF RowMoves, Unsent
    <2>5. \A q \in Runs \ {r} : run'[q].pc \notin BeforeWire \cup {"send"}
      BY <2>1 DEF BeforeWire, Judging
    <2> QED BY <2>2, <2>3, <2>4, <2>5 DEF RequestOnce
  <1>2. ASSUME NEW r \in Runs, RunNext(r), ~(SubmitStep(r) \/ CancelStep(r))
        PROVE  RequestOnce'
    <2>1. \A q \in Runs : run'[q].pc \notin BeforeWire \cup {"send"}
      BY <1>2, NotOnTheWay DEF BeforeWire, Judging
    <2>2. row' = row /\ wires' = wires
      BY <1>2 DEF RunNext, BeginSubmit, BeginCancel, Crash, FatalConnection, others
    <2> QED BY <2>1, <2>2 DEF RequestOnce
  <1>3. ASSUME NEW p \in Recons, PassNext(p)
        PROVE  RequestOnce'
    BY <1>0, <1>3, RequestOnceKept, PassFrame
  <1>4. CASE Outside \/ UNCHANGED vars
    <2>1. run' = run /\ wires' = wires
      BY <1>4, OutsideFrame
    <2>2. today' = today \/ lock = None
      BY <1>4 DEF Outside, SetHalt, ClearHalt, NextDay, Broker, others, vars
    <2> QED BY <1>0, <2>1, <2>2, RequestOnceKept
  <1>5. ASSUME NEW o \in Orders, SettleSell(o)
        PROVE  RequestOnce'
    BY <1>0, <1>5, RequestOnceKept, SettleSellFrame
  <1> QED BY <1>1, <1>2, <1>3, <1>4, <1>5 DEF Next, Outside

-----------------------------------------------------------------------------
(* HALT. *)

\* A run past the gate has sent nothing since HALT was set.
HaltHistory ==
  /\ halt => sinceHalt <= 1
  /\ \A r \in Runs : halt /\ run[r].pc \in {"approve", "mark", "send"} => sinceHalt = 0

\* Every step keeps the account of requests sent since HALT was set.
LEMMA HaltHistoryStep ==
  ASSUME TypeOK, LockOwner, HaltHistory, [Next]_vars
  PROVE  HaltHistory'
  <1>0. sinceHalt \in Nat
    BY DEF TypeOK
  <1>1. ASSUME sinceHalt' = 0
        PROVE  HaltHistory'
    BY <1>1 DEF HaltHistory
  <1>2. ASSUME run' = run, halt' = halt, sinceHalt' = sinceHalt
        PROVE  HaltHistory'
    BY <1>2 DEF HaltHistory
  <1>3. ASSUME NEW r \in Runs, SubmitStep(r) \/ CancelStep(r)
        PROVE  HaltHistory'
    <2>1. halt' = halt
      BY <1>3 DEF SubmitStep, CancelStep, Register, Step, Validate, ReadPositions,
         ReadOpenOrders, ReadFills, ReadFails, Judge, Gate, Reject, Approve,
         MarkSubmitting, Send, Await, Record, ForceUnknown, CancelLoad,
         CancelGate, CancelMark, CancelSend, CancelAwait, CancelRecord, others
    <2>2. \A q \in Runs \ {r} : run'[q].pc = "idle"
      BY <1>3, SubmitBusy, OthersIdle, RunMoves
    <2>3. CASE sinceHalt' = sinceHalt
      <3>1. ASSUME halt, run'[r].pc \in {"approve", "mark", "send"}
            PROVE  sinceHalt = 0
        <4>1. run'[r].pc # "approve"
          BY <1>3, <3>1, AfterStep, GateEffect
        <4>2. run[r].pc \in {"approve", "mark"}
          BY <1>3, <3>1, <4>1, AfterStep
        <4> QED BY <3>1, <4>2 DEF HaltHistory
      <3> QED BY <2>1, <2>2, <2>3, <3>1 DEF HaltHistory
    <2>4. CASE sinceHalt' # sinceHalt
      <3>1. Send(r)
        BY <1>3, <2>4 DEF SubmitStep, CancelStep, Register, Step, Validate,
           ReadPositions, ReadOpenOrders, ReadFills, ReadFails, Judge, Gate,
           Reject, Approve, MarkSubmitting, Await, Record, ForceUnknown,
           CancelLoad, CancelGate, CancelMark, CancelSend, CancelAwait,
           CancelRecord, others
      <3>2. run[r].pc = "send" /\ halt /\ sinceHalt' = sinceHalt + 1 /\ Goto(r, "await")
        BY <2>4, <3>1 DEF Send, At
      <3>3. sinceHalt = 0 /\ run'[r].pc = "await"
        BY <3>2, GotoEffect DEF HaltHistory
      <3> QED BY <2>2, <3>2, <3>3 DEF HaltHistory
    <2> QED BY <2>3, <2>4
  <1>4. ASSUME NEW r \in Runs, RunNext(r), ~(SubmitStep(r) \/ CancelStep(r))
        PROVE  HaltHistory'
    <2>1. \A q \in Runs : run'[q].pc \notin {"approve", "mark", "send"}
      BY <1>4, NotOnTheWay
    <2>2. CASE FatalConnection(r)
      <3>1. IF halt THEN sinceHalt' = sinceHalt ELSE sinceHalt' = 0
        BY <2>2 DEF FatalConnection
      <3>2. sinceHalt' <= 1
        BY <3>1 DEF HaltHistory
      <3> QED BY <2>1, <3>2 DEF HaltHistory
    <2>3. CASE ~FatalConnection(r)
      <3>1. halt' = halt /\ sinceHalt' = sinceHalt
        BY <1>4, <2>3 DEF RunNext, Crash, BeginSubmit, BeginCancel, others
      <3> QED BY <2>1, <3>1 DEF HaltHistory
    <2> QED BY <2>2, <2>3
  <1>5. ASSUME NEW p \in Recons, PassNext(p)
        PROVE  HaltHistory'
    <2>1. CASE PassFatal(p)
      <3>1. run' = run /\ (IF halt THEN sinceHalt' = sinceHalt ELSE sinceHalt' = 0)
        BY <2>1 DEF PassFatal
      <3> QED BY <1>1, <3>1 DEF HaltHistory
    <2>2. CASE ~PassFatal(p)
      <3>1. run' = run /\ halt' = halt /\ sinceHalt' = sinceHalt
        BY <1>5, <2>2 DEF PassNext, ApplyStep, StartPass, PassOpenOrders, PassFills,
           PassReadFails, PassList, Unresolved, Resolve, ResolveRaises, PhaseDone,
           PassCrash, engineVars
      <3> QED BY <1>2, <3>1
    <2> QED BY <2>1, <2>2
  <1>6. CASE SetHalt \/ ClearHalt
    BY <1>1, <1>6 DEF SetHalt, ClearHalt
  <1>7. CASE NextDay \/ (\E o \in Orders : Broker(o)) \/ UNCHANGED vars
    BY <1>2, <1>7 DEF NextDay, Broker, others, vars
  <1>8. ASSUME NEW o \in Orders, SettleSell(o)
        PROVE  HaltHistory'
    BY <1>2, <1>8, SettleSellFrame
  <1> QED BY <1>3, <1>4, <1>5, <1>6, <1>7, <1>8 DEF Next

\* What the judged snapshot said of UNKNOWN orders is still so.
UnknownSeen(r) ==
  /\ run[r].pc = "dirtyGate" => Side[run[r].order] = "sell"
  /\ run[r].pc \in {"gate", "approve", "mark", "send"} =>
       \A x \in Unknown : Side[run[r].order] = "sell" /\ Symbol[x] # Symbol[run[r].order]

\* Every step keeps what the snapshot showed of UNKNOWN orders true.
LEMMA UnknownSeenStep ==
  ASSUME TypeOK, LockOwner, SettlesLive, \A r \in Runs : UnknownSeen(r), [Next]_vars
  PROVE  \A r \in Runs : UnknownSeen(r)'
  <1>0. ASSUME run' = run, Unknown' \subseteq Unknown
        PROVE  \A r \in Runs : UnknownSeen(r)'
    BY <1>0 DEF UnknownSeen
  <1>1. ASSUME NEW r \in Runs, SubmitStep(r) \/ CancelStep(r)
        PROVE  \A q \in Runs : UnknownSeen(q)'
    <2> DEFINE o == run[r].order
    <2>1. \A q \in Runs \ {r} : run'[q].pc = "idle"
      BY <1>1, SubmitBusy, OthersIdle, RunMoves
    <2>2. o \in Orders /\ (run'[r].pc # "idle" => run'[r].order = o)
      BY <1>1, SubmitBusy, RunMoves
    <2>3. ASSUME run'[r].pc \in {"gate", "dirtyGate"}
          PROVE  UnknownSeen(r)'
      <3>1. Judge(r)
        BY <1>1, <2>3, AfterStep
      <3>2. /\ row' = row
            /\ run'[r].pc = "dirtyGate" => Side[o] = "sell"
            /\ run'[r].pc = "gate" => Unknown = {}
        BY <3>1, JudgeEffect
      <3> QED BY <2>2, <2>3, <3>2 DEF UnknownSeen, Unknown, WithStatus
    <2>4. ASSUME run'[r].pc = "approve"
          PROVE  UnknownSeen(r)'
      <3>1. Gate(r)
        BY <1>1, <2>4, AfterStep
      <3>2. row' = row
        BY <3>1, GateEffect
      <3>3. \A x \in Unknown : Side[o] = "sell" /\ Symbol[x] # Symbol[o]
        BY <2>4, <3>1, GateEffect DEF UnknownSeen
      <3> QED BY <2>2, <2>4, <3>2, <3>3 DEF UnknownSeen, Unknown, WithStatus
    <2>5. ASSUME run'[r].pc \in {"mark", "send"}
          PROVE  UnknownSeen(r)'
      <3>1. /\ run[r].pc \in {"approve", "mark"}
            /\ Advance(r, "APPROVED", FALSE) \/ Advance(r, "SUBMITTING", FALSE)
        BY <1>1, <2>5, AfterStep
      <3>2. RowMoves(o, "APPROVED") \/ RowMoves(o, "SUBMITTING")
        BY <2>2, <3>1, CasEffect DEF Advance
      <3>3. Unknown' \subseteq Unknown
        BY <3>2 DEF RowMoves, Unknown, WithStatus
      <3> QED BY <2>2, <2>5, <3>1, <3>3 DEF UnknownSeen
    <2> QED BY <2>1, <2>3, <2>4, <2>5 DEF UnknownSeen
  <1>2. ASSUME NEW r \in Runs, RunNext(r), ~(SubmitStep(r) \/ CancelStep(r))
        PROVE  \A q \in Runs : UnknownSeen(q)'
    BY <1>2, NotOnTheWay DEF UnknownSeen
  <1>3. ASSUME NEW p \in Recons, PassNext(p)
        PROVE  \A r \in Runs : UnknownSeen(r)'
    <2>1. Unknown' \subseteq Unknown
      BY <1>3, ReconMoves DEF RowMoves, Unknown, WithStatus
    <2> QED BY <1>0, <1>3, <2>1, PassFrame
  <1>4. CASE Outside \/ UNCHANGED vars
    BY <1>0, <1>4, OutsideFrame DEF Unknown, WithStatus
  <1>5. ASSUME NEW o \in Orders, SettleSell(o)
        PROVE  \A r \in Runs : UnknownSeen(r)'
    <2>1. Unknown' \subseteq Unknown
      BY <1>5, SettleSellMoves DEF RowMoves, Unknown, WithStatus
    <2> QED BY <1>0, <1>5, <2>1, SettleSellFrame
  <1> QED BY <1>1, <1>2, <1>3, <1>4, <1>5 DEF Next, Outside

-----------------------------------------------------------------------------
(* The broker's side: what it knows of an order only grows. *)

\* The statuses an order has from the moment its request was accepted.
AtBroker == {"open", "closed"}

\* The broker's books: nothing unsent is known, a full order is closed, and
\* only what was executed is published.
KisTruth ==
  \A o \in Orders :
    /\ wires[o] = 0 => kis[o].st = "none"
    /\ kis[o].st \in {"none", "transit", "refused"} => kis[o].filled = 0
    /\ kis[o].filled <= Qty[o]
    /\ kis[o].filled = Qty[o] => kis[o].st = "closed"
    /\ kis[o].cancelled => kis[o].st = "closed"
    /\ kis[o].shown <= kis[o].filled

\* What a step may do to the broker's books.
KisGrows ==
  \A o \in Orders :
    /\ kis[o].filled <= kis'[o].filled
    /\ kis[o].st = "open" => kis'[o].st \in AtBroker
    /\ kis[o].st = "closed" => kis'[o].st = "closed"
    /\ kis[o].st = "refused" => kis'[o].st = "refused"
    /\ kis[o].cancelled => kis'[o].cancelled
    /\ kis[o].st = "none" => kis'[o].st = "none" \/ row[o].status = "SUBMITTING"

\* What the broker does to one order it does to no other.
LEMMA BecomesEffect ==
  ASSUME TypeOK, NEW o \in Orders, NEW state, OrderBecomes(o, state)
  PROVE  kis'[o] = state /\ \A x \in Orders \ {o} : kis'[x] = kis[x]
  BY DEF OrderBecomes, TypeOK

\* An order is for at least one share.
LEMMA QtyType == \A o \in Orders : Qty[o] \in Nat /\ Qty[o] > 0
  BY IntentAssumption

\* One order changes at the broker, and stays true to itself.
LEMMA KisOne ==
  ASSUME TypeOK, KisTruth, NEW o \in Orders, NEW state \in KisOrders,
         OrderBecomes(o, state),
         \A x \in Orders \ {o} : wires'[x] = wires[x],
         wires'[o] = 0 => state.st = "none",
         state.st \in {"none", "transit", "refused"} => state.filled = 0,
         state.filled <= Qty[o],
         state.filled = Qty[o] => state.st = "closed",
         state.cancelled => state.st = "closed",
         state.shown <= state.filled,
         kis[o].filled <= state.filled,
         kis[o].st = "open" => state.st \in AtBroker,
         kis[o].st = "closed" => state.st = "closed",
         kis[o].st = "refused" => state.st = "refused",
         kis[o].cancelled => state.cancelled,
         kis[o].st = "none" => state.st = "none" \/ row[o].status = "SUBMITTING"
  PROVE  KisTruth' /\ KisGrows
  <1>1. kis'[o] = state /\ \A x \in Orders \ {o} : kis'[x] = kis[x]
    BY BecomesEffect
  <1>2. \A x \in Orders : kis[x].filled \in Nat
    BY DEF TypeOK, KisOrders
  <1>3. KisTruth'
    BY <1>1 DEF KisTruth
  <1>4. KisGrows
    BY <1>1, <1>2 DEF KisGrows, AtBroker
  <1> QED BY <1>3, <1>4

\* The broker keeps its own books: full means closed.
LEMMA MarketTruth ==
  ASSUME TypeOK, KisTruth, NEW o \in Orders, Market(o), wires' = wires
  PROVE  KisTruth' /\ KisGrows
  <1>0. kis[o] \in KisOrders /\ today \in Days /\ Qty[o] \in Nat /\ Qty[o] > 0
    BY QtyType DEF TypeOK
  <1>t. /\ wires[o] = 0 => kis[o].st = "none"
        /\ kis[o].st \in {"none", "transit", "refused"} => kis[o].filled = 0
        /\ kis[o].filled <= Qty[o]
        /\ kis[o].filled = Qty[o] => kis[o].st = "closed"
        /\ kis[o].cancelled => kis[o].st = "closed"
        /\ kis[o].shown <= kis[o].filled
    BY DEF KisTruth
  <1>1. CASE Accept(o)
    <2> DEFINE state == [kis[o] EXCEPT !.st = "open", !.day = today]
    <2>1. /\ state \in KisOrders /\ state.st = "open" /\ state.shown = kis[o].shown
          /\ state.filled = kis[o].filled /\ state.cancelled = kis[o].cancelled
      BY <1>0 DEF KisOrders
    <2>2. kis[o].st = "transit" /\ OrderBecomes(o, state)
      BY <1>1 DEF Accept
    <2> HIDE DEF state
    <2> QED BY <1>0, <1>t, <2>1, <2>2, KisOne DEF KisOrders
  <1>2. CASE Refuse(o)
    <2> DEFINE state == [kis[o] EXCEPT !.st = "refused"]
    <2>1. /\ state \in KisOrders /\ state.st = "refused" /\ state.shown = kis[o].shown
          /\ state.filled = kis[o].filled /\ state.cancelled = kis[o].cancelled
      BY <1>0 DEF KisOrders
    <2>2. kis[o].st = "transit" /\ OrderBecomes(o, state)
      BY <1>2 DEF Refuse
    <2> HIDE DEF state
    <2> QED BY <1>0, <1>t, <2>1, <2>2, KisOne DEF KisOrders
  <1>3. CASE Fill(o)
    <2> DEFINE st == IF kis[o].filled + 1 = Qty[o] THEN "closed" ELSE "open"
               state == [kis[o] EXCEPT !.filled = kis[o].filled + 1, !.st = st]
    <2>1. /\ state \in KisOrders /\ state.st = st /\ state.shown = kis[o].shown
          /\ state.filled = kis[o].filled + 1 /\ state.cancelled = kis[o].cancelled
      <3> DEFINE n == kis[o].filled + 1
                 mid == [kis[o] EXCEPT !.filled = n]
      <3>1. n \in Nat /\ st \in {"open", "closed"}
        BY <1>0 DEF KisOrders
      <3>2. state = [mid EXCEPT !.st = st]
        OBVIOUS
      <3> HIDE DEF n, st, state
      <3>3. /\ mid \in KisOrders /\ mid.filled = n
            /\ mid.cancelled = kis[o].cancelled /\ mid.shown = kis[o].shown
        BY <1>0, <3>1 DEF KisOrders
      <3> HIDE DEF mid
      <3>4. /\ state \in KisOrders /\ state.st = st /\ state.filled = n
            /\ state.cancelled = kis[o].cancelled /\ state.shown = kis[o].shown
        BY <3>1, <3>2, <3>3 DEF KisOrders
      <3> QED BY <3>4 DEF n
    <2>2. kis[o].st = "open" /\ kis[o].filled < Qty[o] /\ OrderBecomes(o, state)
      BY <1>3 DEF Fill, IsOpen
    <2>3. state.st \in {"open", "closed"} /\ (state.filled = Qty[o] => state.st = "closed")
      BY <2>1
    <2>4. ~kis[o].cancelled /\ kis[o].filled \in Nat /\ wires[o] # 0
      BY <1>0, <1>t, <2>2 DEF KisOrders
    <2> HIDE DEF state, st
    <2>5. /\ state.filled <= Qty[o] /\ kis[o].filled <= state.filled
          /\ state.shown <= state.filled
      <3>1. kis[o].shown \in Nat
        BY <1>0 DEF KisOrders
      <3> QED BY <1>0, <1>t, <2>1, <2>2, <2>4, <3>1
    <2> QED BY <2>1, <2>2, <2>3, <2>4, <2>5, KisOne DEF AtBroker
  <1>4. CASE TakeCancel(o)
    <2> DEFINE state == [kis[o] EXCEPT !.cancel = FALSE, !.st = "closed", !.cancelled = TRUE]
    <2>1. /\ state \in KisOrders /\ state.st = "closed" /\ state.shown = kis[o].shown
          /\ state.filled = kis[o].filled /\ state.cancelled = TRUE
      BY <1>0 DEF KisOrders
    <2>2. kis[o].st = "open" /\ OrderBecomes(o, state)
      BY <1>4 DEF TakeCancel, IsOpen
    <2>3. kis[o].filled \in Nat /\ wires[o] # 0
      BY <1>0, <1>t, <2>2 DEF KisOrders
    <2> HIDE DEF state
    <2> QED BY <1>t, <2>1, <2>2, <2>3, KisOne DEF AtBroker
  <1>5. CASE RefuseCancel(o)
    <2> DEFINE state == [kis[o] EXCEPT !.cancel = FALSE]
    <2>1. /\ state \in KisOrders /\ state.st = kis[o].st /\ state.shown = kis[o].shown
          /\ state.filled = kis[o].filled /\ state.cancelled = kis[o].cancelled
      BY <1>0 DEF KisOrders
    <2>2. OrderBecomes(o, state)
      BY <1>5 DEF RefuseCancel
    <2>3. kis[o].filled \in Nat
      BY <1>0 DEF KisOrders
    <2> HIDE DEF state
    <2> QED BY <1>t, <2>1, <2>2, <2>3, KisOne DEF AtBroker
  <1>6. CASE Publish(o)
    <2> DEFINE n == kis[o].shown + 1
               state == [kis[o] EXCEPT !.shown = n]
    <2>1. n \in Nat /\ n <= kis[o].filled /\ OrderBecomes(o, state)
      BY <1>0, <1>6 DEF Publish, KisOrders
    <2> HIDE DEF n
    <2>2. /\ state \in KisOrders /\ state.st = kis[o].st /\ state.shown = n
          /\ state.filled = kis[o].filled /\ state.cancelled = kis[o].cancelled
      BY <1>0, <2>1 DEF KisOrders
    <2>3. kis[o].filled \in Nat
      BY <1>0 DEF KisOrders
    <2> HIDE DEF state
    <2> QED BY <1>t, <2>1, <2>2, <2>3, KisOne DEF AtBroker
  <1> QED BY <1>1, <1>2, <1>3, <1>4, <1>5, <1>6 DEF Market

\* The end of the day keeps the books of the broker.
LEMMA DayEndTruth ==
  ASSUME TypeOK, KisTruth, DayEnd, wires' = wires
  PROVE  KisTruth' /\ KisGrows
  <1>1. ASSUME NEW o \in Orders
        PROVE  /\ kis'[o].filled = kis[o].filled /\ kis'[o].shown = kis[o].shown
               /\ kis'[o].cancelled = kis[o].cancelled
               /\ kis'[o].st = IF kis[o].st = "open" THEN "closed"
                               ELSE IF kis[o].st = "transit" THEN "refused"
                               ELSE kis[o].st
    <2>1. kis[o] \in KisOrders
      BY DEF TypeOK
    <2>2. CASE kis[o].st \in {"open", "transit"}
      <3>1. kis'[o] = [kis[o] EXCEPT !.st = IF kis[o].st = "open" THEN "closed"
                                             ELSE "refused", !.cancel = FALSE]
        BY <2>2 DEF DayEnd
      <3> QED BY <2>1, <2>2, <3>1 DEF KisOrders
    <2>3. CASE kis[o].st \notin {"open", "transit"}
      <3>1. kis'[o] = [kis[o] EXCEPT !.cancel = FALSE]
        BY <2>3 DEF DayEnd
      <3> QED BY <2>1, <2>3, <3>1 DEF KisOrders
    <2> QED BY <2>2, <2>3
  <1>2. \A o \in Orders : kis[o].filled \in Nat
    BY DEF TypeOK, KisOrders
  <1>3. KisTruth'
    BY <1>1 DEF KisTruth
  <1>4. KisGrows
    BY <1>1, <1>2 DEF KisGrows, AtBroker
  <1> QED BY <1>3, <1>4

\* Every step keeps the books, and fills only grow.
LEMMA KisStep ==
  ASSUME TypeOK, LockOwner, Holding, RequestOnce, KisTruth, [Next]_vars
  PROVE  KisTruth' /\ KisGrows
  <1>0. ASSUME kis' = kis, wires' = wires
        PROVE  KisTruth' /\ KisGrows
    <2>1. \A o \in Orders : kis[o].filled <= kis[o].filled
      BY DEF TypeOK, KisOrders
    <2> QED BY <1>0, <2>1 DEF KisTruth, KisGrows, AtBroker
  <1>1. ASSUME NEW r \in Runs, Send(r), ~(kis' = kis /\ wires' = wires)
        PROVE  KisTruth' /\ KisGrows
    <2> DEFINE o == run[r].order
               state == [kis[o] EXCEPT !.st = "transit"]
    <2>1. /\ run[r].pc = "send" /\ SendOrder(o)
          /\ wires' = [wires EXCEPT ![o] = wires[o] + 1]
      BY <1>1 DEF Send, At
    <2>2. o \in Orders /\ wires[o] = 0 /\ row[o].status = "SUBMITTING"
      BY <2>1 DEF LockOwner, RequestOnce, BeforeWire, Holding, HoldsRow, HoldsAt, OnWire
    <2>3. wires'[o] = 1 /\ \A x \in Orders \ {o} : wires'[x] = wires[x]
      BY <2>1, <2>2 DEF TypeOK
    <2>4. /\ kis[o].st = "none" /\ kis[o].filled = 0 /\ ~kis[o].cancelled
          /\ kis[o].shown <= kis[o].filled
      BY <2>2 DEF KisTruth
    <2>5. /\ state \in KisOrders /\ state.st = "transit" /\ state.shown = kis[o].shown
          /\ state.filled = kis[o].filled /\ state.cancelled = kis[o].cancelled
      BY <2>2 DEF TypeOK, KisOrders
    <2>6. OrderBecomes(o, state)
      BY <2>1 DEF SendOrder
    <2>7. Qty[o] \in Nat /\ Qty[o] > 0
      BY <2>2, QtyType
    <2> HIDE DEF o, state
    <2> QED BY <2>2, <2>3, <2>4, <2>5, <2>6, <2>7, KisOne
  <1>2. ASSUME NEW r \in Runs, CancelSend(r), kis' # kis
        PROVE  KisTruth' /\ KisGrows
    <2> DEFINE o == run[r].order
               state == [kis[o] EXCEPT !.cancel = TRUE]
    <2>1. run[r].pc = "cancelSend" /\ SendCancel(o) /\ wires' = wires
      BY <1>2 DEF CancelSend, At, others
    <2>2. o \in Orders
      BY <2>1 DEF LockOwner
    <2>3. /\ state \in KisOrders /\ state.st = kis[o].st /\ state.shown = kis[o].shown
          /\ state.filled = kis[o].filled /\ state.cancelled = kis[o].cancelled
      BY <2>2 DEF TypeOK, KisOrders
    <2>4. OrderBecomes(o, state)
      BY <2>1 DEF SendCancel
    <2>5. /\ wires[o] = 0 => kis[o].st = "none"
          /\ kis[o].st \in {"none", "transit", "refused"} => kis[o].filled = 0
          /\ kis[o].filled <= Qty[o]
          /\ kis[o].filled = Qty[o] => kis[o].st = "closed"
          /\ kis[o].cancelled => kis[o].st = "closed"
          /\ kis[o].shown <= kis[o].filled
      BY <2>2 DEF KisTruth
    <2>6. kis[o].filled <= kis[o].filled
      BY <2>2 DEF TypeOK, KisOrders
    <2> HIDE DEF o, state
    <2> QED BY <2>1, <2>2, <2>3, <2>4, <2>5, <2>6, KisOne DEF AtBroker
  <1>3. ASSUME NEW r \in Runs, RunNext(r), ~Send(r), ~CancelSend(r)
        PROVE  kis' = kis /\ wires' = wires
    BY <1>3 DEF RunNext, BeginSubmit, BeginCancel, Crash, FatalConnection,
       SubmitStep, CancelStep, Register, Step, Validate, ReadPositions,
       ReadOpenOrders, ReadFills, ReadFails, Judge, Gate, Reject, Approve,
       MarkSubmitting, Await, Record, ForceUnknown, CancelLoad,
       CancelGate, CancelMark, CancelAwait, CancelRecord, others
  <1>4. ASSUME NEW r \in Runs, CancelSend(r), kis' = kis
        PROVE  wires' = wires
    BY <1>4 DEF CancelSend, others
  <1>5. ASSUME NEW p \in Recons, PassNext(p)
        PROVE  KisTruth' /\ KisGrows
    BY <1>0, <1>5, PassFrame
  <1>6. CASE NextDay
    BY <1>6, DayEndTruth DEF NextDay
  <1>7. CASE \E o \in Orders : Broker(o)
    BY <1>7, MarketTruth DEF Broker, others
  <1>8. CASE SetHalt \/ ClearHalt \/ UNCHANGED vars
    BY <1>0, <1>8 DEF SetHalt, ClearHalt, vars
  <1>9. ASSUME NEW o \in Orders, SettleSell(o)
        PROVE  KisTruth' /\ KisGrows
    BY <1>0, <1>9, SettleSellFrame
  <1> QED
    BY <1>0, <1>1, <1>2, <1>3, <1>4, <1>5, <1>6, <1>7, <1>8, <1>9 DEF Next

\* What a pass has read of the fills is no more than there are.
FillsReported ==
  \A p \in Recons, o \in Orders : recon[p].fills[o] <= kis[o].filled

\* What a pass has read is what the broker once reported.
LEMMA PassReads ==
  ASSUME TypeOK, NEW p \in Recons, PassNext(p)
  PROVE  /\ \A q \in Recons \ {p} : recon'[q] = recon[q]
         /\ \/ recon'[p].fills = recon[p].fills
            \/ recon'[p].fills = NoFills
            \/ \E start : recon'[p].fills = FillsSince(start)
         /\ \/ recon'[p].open \subseteq recon[p].open
            \/ recon'[p].open = OpenOrders
  <1> DEFINE Goal == /\ \A q \in Recons \ {p} : recon'[q] = recon[q]
                     /\ \/ recon'[p].fills = recon[p].fills
                        \/ recon'[p].fills = NoFills
                        \/ \E start : recon'[p].fills = FillsSince(start)
                     /\ \/ recon'[p].open \subseteq recon[p].open
                        \/ recon'[p].open = OpenOrders
  <1> SUFFICES Goal
    OBVIOUS
  <1>0. recon[p] \in PassStates
    BY DEF TypeOK
  <1>1. ASSUME NEW state, PassBecomes(p, state),
               \/ state.fills = recon[p].fills
               \/ state.fills = NoFills
               \/ \E start : state.fills = FillsSince(start),
               state.open \subseteq recon[p].open \/ state.open = OpenOrders
        PROVE  Goal
    <2>1. recon'[p] = state /\ \A q \in Recons \ {p} : recon'[q] = recon[q]
      BY <1>1 DEF PassBecomes, TypeOK
    <2> QED BY <1>1, <2>1
  <1> HIDE DEF Goal
  <1>2. ASSUME EndPass(p) \/ EndPhase(p)
        PROVE  Goal
    <2>1. /\ IdlePass.fills = NoFills /\ IdlePass.open = {}
          /\ [IdlePass EXCEPT !.pc = "open", !.phase = "settle"].fills = NoFills
          /\ [IdlePass EXCEPT !.pc = "open", !.phase = "settle"].open = {}
      BY DEF IdlePass
    <2> QED BY <1>1, <1>2, <2>1 DEF EndPass, EndPhase
  <1>3. CASE StartPass(p)
    <2>1. /\ [IdlePass EXCEPT !.pc = "open"].fills = NoFills
          /\ [IdlePass EXCEPT !.pc = "open"].open = {}
      BY DEF IdlePass
    <2> QED BY <1>1, <1>3, <2>1 DEF StartPass
  <1>4. CASE PassOpenOrders(p)
    <2> DEFINE state == [recon[p] EXCEPT !.pc = "fills", !.open = OpenOrders]
    <2>1. state.fills = recon[p].fills /\ state.open = OpenOrders
      BY <1>0 DEF PassStates
    <2>2. PassBecomes(p, state)
      BY <1>4 DEF PassOpenOrders
    <2> QED BY <1>1, <2>1, <2>2
  <1>5. CASE PassFills(p)
    <2>1. PICK start : PassBecomes(p, [recon[p] EXCEPT !.pc = "list",
                                                      !.fills = FillsSince(start)])
      BY <1>5 DEF PassFills
    <2> DEFINE state == [recon[p] EXCEPT !.pc = "list", !.fills = FillsSince(start)]
    <2>2. state.fills = FillsSince(start) /\ state.open = recon[p].open
      BY <1>0 DEF PassStates
    <2> QED BY <1>1, <2>1, <2>2
  <1>6. CASE PassList(p)
    <2> DEFINE state == [recon[p] EXCEPT !.pc = "apply",
                           !.todo = {<<o, row[o]>> : o \in Listed(recon[p].phase)}]
    <2>1. state.fills = recon[p].fills /\ state.open = recon[p].open
      BY <1>0 DEF PassStates
    <2>2. PassBecomes(p, state)
      BY <1>6 DEF PassList
    <2> QED BY <1>1, <2>1, <2>2
  <1>7. ASSUME NEW e, Drop(p, e) \/ Enter(p, "raised")
        PROVE  Goal
    <2>1. /\ [recon[p] EXCEPT !.todo = recon[p].todo \ {e}].fills = recon[p].fills
          /\ [recon[p] EXCEPT !.todo = recon[p].todo \ {e}].open = recon[p].open
          /\ [recon[p] EXCEPT !.pc = "raised"].fills = recon[p].fills
          /\ [recon[p] EXCEPT !.pc = "raised"].open = recon[p].open
      BY <1>0 DEF PassStates
    <2> QED BY <1>1, <1>7, <2>1 DEF Drop, Enter
  <1>8. CASE ApplyStep(p)
    BY <1>7, <1>8 DEF ApplyStep, Unresolved, Resolve, ResolveRaises
  <1>9. CASE PassReadFails(p) \/ PhaseDone(p) \/ PassCrash(p) \/ PassFatal(p)
    BY <1>2, <1>9 DEF PassReadFails, PhaseDone, PassCrash, PassFatal
  <1> QED BY <1>3, <1>4, <1>5, <1>6, <1>8, <1>9 DEF PassNext

\* Every step keeps the fills a pass read below those at the broker.
LEMMA FillsReportedStep ==
  ASSUME TypeOK, TypeOK', FillsReported, KisTruth, KisGrows, [Next]_vars
  PROVE  FillsReported'
  <1>0. \A o \in Orders : /\ kis[o].filled \in Nat /\ kis'[o].filled \in Nat
                          /\ kis[o].filled <= kis'[o].filled
                          /\ kis[o].shown \in Nat /\ kis[o].shown <= kis[o].filled
    BY DEF TypeOK, KisOrders, KisTruth, KisGrows
  <1>1. \A p \in Recons, o \in Orders : recon[p].fills[o] \in Nat
    BY DEF TypeOK, PassStates
  <1>2. ASSUME NEW p \in Recons, recon'[p].fills = recon[p].fills
        PROVE  \A o \in Orders : recon'[p].fills[o] <= kis'[o].filled
    BY <1>0, <1>1, <1>2 DEF FillsReported
  <1>3. CASE recon' = recon
    BY <1>2, <1>3 DEF FillsReported
  <1>4. ASSUME NEW p \in Recons, PassNext(p)
        PROVE  FillsReported'
    <2>1. CASE recon'[p].fills = NoFills
      <3>1. \A o \in Orders : recon'[p].fills[o] <= kis'[o].filled
        BY <1>0, <2>1 DEF NoFills
      <3> QED BY <1>2, <1>4, <3>1, PassReads DEF FillsReported
    <2>2. ASSUME NEW start, recon'[p].fills = FillsSince(start)
          PROVE  FillsReported'
      <3>1. \A o \in Orders : recon'[p].fills[o] \in {0, kis[o].shown}
        BY <2>2 DEF FillsSince
      <3>2. \A o \in Orders : recon'[p].fills[o] <= kis'[o].filled
        BY <1>0, <3>1
      <3> QED BY <1>2, <1>4, <3>2, PassReads DEF FillsReported
    <2>3. CASE recon'[p].fills = recon[p].fills
      BY <1>2, <1>4, <2>3, PassReads DEF FillsReported
    <2> QED BY <1>4, <2>1, <2>2, <2>3, PassReads
  <1> QED BY <1>3, <1>4, RunFrame, OutsideFrame, SettleSellFrame DEF Next, Outside

\* What a pass has seen open has reached the broker.
OpenReported ==
  \A p \in Recons : \A o \in recon[p].open \cap Orders : kis[o].st \in AtBroker

\* Every step keeps what a pass has seen open at the broker.
LEMMA OpenReportedStep ==
  ASSUME TypeOK, OpenReported, KisGrows, [Next]_vars
  PROVE  OpenReported'
  <1>0. \A o \in Orders : kis[o].st \in AtBroker => kis'[o].st \in AtBroker
    BY DEF KisGrows, AtBroker
  <1>1. CASE recon' = recon
    BY <1>0, <1>1 DEF OpenReported
  <1>2. ASSUME NEW p \in Recons, PassNext(p)
        PROVE  OpenReported'
    <2>1. \A o \in OpenOrders : kis[o].st \in AtBroker
      BY DEF OpenOrders, IsOpen, AtBroker
    <2>2. \A o \in recon'[p].open \cap Orders : kis'[o].st \in AtBroker
      BY <1>0, <1>2, <2>1, PassReads DEF OpenReported
    <2> QED BY <1>0, <1>2, <2>2, PassReads DEF OpenReported
  <1> QED BY <1>1, <1>2, RunFrame, OutsideFrame, SettleSellFrame DEF Next, Outside

-----------------------------------------------------------------------------
(* A terminal row is true of the broker. *)

\* What a run is about to record, the broker has decided.
RunKnows(r) ==
  /\ run[r].pc = "record" /\ run[r].answer = "REJECTED" =>
       kis[run[r].order].st = "refused"
  /\ run[r].pc = "record" /\ run[r].answer = "ACCEPTED" =>
       kis[run[r].order].st \in AtBroker
  /\ run[r].pc = "cancelMark" => kis[run[r].order].st \in AtBroker
  /\ run[r].pc = "cancelRecord" => kis[run[r].order].cancelled

\* Every step keeps what a run knows of its order true at the broker.
LEMMA RunKnowsStep ==
  ASSUME TypeOK, LockOwner, \A r \in Runs : RunKnows(r), KisGrows, [Next]_vars
  PROVE  \A r \in Runs : RunKnows(r)'
  <1>0. ASSUME run' = run
        PROVE  \A r \in Runs : RunKnows(r)'
    BY <1>0 DEF RunKnows, KisGrows, LockOwner, AtBroker
  <1>1. ASSUME NEW r \in Runs, SubmitStep(r) \/ CancelStep(r)
        PROVE  \A q \in Runs : RunKnows(q)'
    <2> DEFINE o == run[r].order
    <2>1. \A q \in Runs \ {r} : run'[q].pc = "idle"
      BY <1>1, SubmitBusy, OthersIdle, RunMoves
    <2>2. CASE run'[r].pc = "record"
      <3>1. Await(r)
        BY <1>1, <2>2, AfterStep
      <3>2. kis' = kis
        BY <3>1 DEF Await
      <3>3. ASSUME Goto(r, "unknown") PROVE FALSE
        <4>1. run'[r].pc = "unknown"
          BY <1>1, <3>3, GotoEffect
        <4> QED BY <2>2, <4>1
      <3>4. PICK answer \in {"ACCEPTED", "REJECTED"} :
              /\ Become(r, [run[r] EXCEPT !.pc = "record", !.answer = answer])
              /\ answer = "REJECTED" => kis[o].st = "refused"
              /\ answer = "ACCEPTED" => kis[o].st \in AtBroker
        BY <3>1, <3>3 DEF Await, AtBroker
      <3>5. run'[r].order = run[r].order
        BY <1>1, <3>4, AnswerEffect
      <3>6. run'[r].answer = answer
        <4>1. run'[r] = [run[r] EXCEPT !.pc = "record", !.answer = answer]
          BY <1>1, <3>4, BecomeEffect
        <4> QED BY <1>1, <4>1 DEF TypeOK, RunStates
      <3> QED BY <2>1, <2>2, <3>2, <3>4, <3>5, <3>6 DEF RunKnows
    <2>3. CASE run'[r].pc = "cancelRecord"
      <3>1. CancelAwait(r)
        BY <1>1, <2>3, AfterStep
      <3>2. kis' = kis
        BY <3>1 DEF CancelAwait
      <3>3. ASSUME Goto(r, "unknown") PROVE FALSE
        <4>1. run'[r].pc = "unknown"
          BY <1>1, <3>3, GotoEffect
        <4> QED BY <2>3, <4>1
      <3>4. kis[o].cancelled /\ run'[r].order = o
        BY <1>1, <3>1, <3>3, GotoEffect DEF CancelAwait
      <3> QED BY <2>1, <2>3, <3>2, <3>4 DEF RunKnows
    <2>4. CASE run'[r].pc = "cancelMark"
      <3>1. CancelGate(r)
        BY <1>1, <2>4, AfterStep
      <3>2. kis' = kis
        BY <3>1 DEF CancelGate
      <3>3. ~Finish(r)
        BY <2>4, FinishEffect
      <3>4. kis[o].st = "open" /\ run'[r].order = o
        BY <1>1, <3>1, <3>3, GotoEffect DEF CancelGate, IsOpen
      <3> QED BY <2>1, <2>4, <3>2, <3>4 DEF RunKnows, AtBroker
    <2>5. CASE run'[r].pc \notin {"record", "cancelMark", "cancelRecord"}
      BY <2>1, <2>5 DEF RunKnows
    <2> QED BY <2>2, <2>3, <2>4, <2>5
  <1>2. ASSUME NEW r \in Runs, RunNext(r), ~(SubmitStep(r) \/ CancelStep(r))
        PROVE  \A q \in Runs : RunKnows(q)'
    BY <1>2, NotOnTheWay DEF RunKnows
  <1> QED
    BY <1>0, <1>1, <1>2, PassFrame, OutsideFrame, SettleSellFrame DEF Next, Outside

\* Who moves a row to a terminal status, and on what ground.
LEMMA EngineVerdict ==
  ASSUME TypeOK, LockOwner, NEW r \in Runs, SubmitStep(r) \/ CancelStep(r),
         NEW o \in Orders, row'[o].status # row[o].status,
         row'[o].status \in Terminal
  PROVE  /\ o = run[r].order
         /\ \/ row'[o].status = "REJECTED" /\ Reject(r)
            \/ row'[o].status = "REJECTED" /\ Record(r) /\ run[r].answer = "REJECTED"
            \/ row'[o].status = "CANCELLED" /\ CancelRecord(r)
  <1> USE DEF Terminal
  <1>o. run[r].order \in Orders
    BY SubmitBusy
  <1>cas. ASSUME NEW next, NEW learn,
                 Advance(r, next, learn) \/ AdvanceRaises(r, next, learn)
          PROVE  o = run[r].order /\ row'[o].status = next
    <2>1. RowMoves(run[r].order, next) \/ row' = row
      BY <1>o, <1>cas, CasEffect DEF Advance, AdvanceRaises, CasRaises
    <2> QED BY <1>o, <2>1 DEF RowMoves
  <1>step. ASSUME NEW from, NEW next, NEW to, Step(r, from, next, to)
           PROVE  row'[o].status = next
    BY <1>cas, <1>step DEF Step
  <1>1. CASE Register(r)
    <2>1. Registration(run[r].order) \/ row' = row
      BY <1>1 DEF Register
    <2>2. row'[o].status = "CREATED"
      BY <1>o, <2>1, RegistrationEffect
    <2> QED BY <2>2
  <1>2. CASE Validate(r) \/ Approve(r) \/ MarkSubmitting(r)
    <2>1. row'[o].status \in {"VALIDATING", "APPROVED", "SUBMITTING"}
      BY <1>2, <1>step DEF Validate, Approve, MarkSubmitting
    <2> QED BY <2>1
  <1>3. CASE Reject(r)
    BY <1>3, <1>cas DEF Reject
  <1>4. CASE Record(r)
    <2>1. o = run[r].order /\ row'[o].status = run[r].answer
      BY <1>4, <1>cas DEF Record
    <2>2. run[r].answer \in {"none", "ACCEPTED", "REJECTED"}
      BY DEF TypeOK, RunStates
    <2> QED BY <1>4, <2>1, <2>2
  <1>5. CASE ForceUnknown(r) \/ CancelMark(r)
    <2>1. row'[o].status \in {"UNKNOWN", "CANCEL_PENDING"}
      BY <1>5, <1>cas DEF ForceUnknown, CancelMark
    <2> QED BY <2>1
  <1>6. CASE CancelRecord(r)
    BY <1>6, <1>cas DEF CancelRecord
  <1>7. CASE \/ ReadPositions(r) \/ ReadOpenOrders(r) \/ ReadFills(r) \/ ReadFails(r)
             \/ Judge(r) \/ Gate(r) \/ Send(r) \/ Await(r) \/ CancelLoad(r)
             \/ CancelGate(r) \/ CancelSend(r) \/ CancelAwait(r)
    <2>1. row' = row
      BY <1>7 DEF ReadPositions, ReadOpenOrders, ReadFills, ReadFails, Judge, Gate,
         Send, Await, CancelLoad, CancelGate, CancelSend, CancelAwait
    <2> QED BY <2>1
  <1> QED
    BY <1>1, <1>2, <1>3, <1>4, <1>5, <1>6, <1>7 DEF SubmitStep, CancelStep

\* What a pass concludes is true at the broker.
LEMMA PassVerdict ==
  ASSUME TypeOK, SettlesLive, NEW p \in Recons, PassNext(p),
         NEW o \in Orders, row'[o].status # row[o].status,
         row'[o].status \in Terminal
  PROVE  row'[o].status = "FILLED" /\ recon[p].fills[o] >= Qty[o]
  <1>1. CASE \E e \in recon[p].todo : Resolve(p, e)
    <2>1. PICK e \in recon[p].todo : Resolve(p, e)
      BY <1>1
    <2>2. PICK next \in Outcome(p, e[1], e[2]) : ReconCas(p, e[1], e[2], next)
      BY <2>1 DEF Resolve
    <2>3. e[1] \in Orders /\ row' = Moved(e[1], next, FALSE)
      <3>1. e[1] \in Orders
        BY <2>1 DEF TypeOK, PassStates
      <3> QED BY <2>2, <3>1 DEF ReconCas, ReconcileUnknown, CompareAndSet
    <2>4. RowMoves(e[1], next)
      BY <2>3, MovedEffect
    <2>5. o = e[1] /\ row'[o].status = next
      BY <2>3, <2>4 DEF RowMoves
    <2>6. next = "FILLED"
      BY <2>2, <2>3, <2>5, OutcomeStatuses DEF Terminal
    <2>7. next \in FillEvidence(o, recon[p].fills)
      BY <2>2, <2>5, <2>6 DEF Outcome, Resolution, Settlement
    <2> QED BY <2>5, <2>6, <2>7 DEF FillEvidence
  <1>2. CASE ~ \E e \in recon[p].todo : Resolve(p, e)
    <2>1. row' = row
      BY <1>2 DEF PassNext, ApplyStep, StartPass, PassOpenOrders, PassFills,
         PassReadFails, PassList, Unresolved, ResolveRaises, PhaseDone, PassCrash,
         PassFatal
    <2> QED BY <2>1
  <1> QED BY <1>1, <1>2

\* A terminal row is true at the broker.
TerminalRows ==
  \A o \in Orders :
    /\ row[o].status = "FILLED" => kis[o].filled = Qty[o]
    /\ row[o].status = "CANCELLED" => kis[o].st = "closed"
    /\ row[o].status = "REJECTED" => kis[o].st \in {"none", "refused"}

\* Every step keeps terminal rows true at the broker.
LEMMA TerminalRowsStep ==
  ASSUME TypeOK, TypeOK', LockOwner, SettlesLive, RequestOnce, KisTruth, KisTruth',
         KisGrows, FillsReported, \A r \in Runs : RunKnows(r), TerminalRows,
         [Next]_vars
  PROVE  TerminalRows'
  <1> SUFFICES ASSUME NEW o \in Orders
               PROVE  /\ row'[o].status = "FILLED" => kis'[o].filled = Qty[o]
                      /\ row'[o].status = "CANCELLED" => kis'[o].st = "closed"
                      /\ row'[o].status = "REJECTED" => kis'[o].st \in {"none", "refused"}
    BY DEF TerminalRows
  <1>0. /\ kis[o].filled \in Nat /\ kis'[o].filled \in Nat /\ Qty[o] \in Nat
        /\ kis[o].filled <= Qty[o] /\ kis'[o].filled <= Qty[o]
        /\ kis[o].filled <= kis'[o].filled
        /\ kis[o].shown \in Nat /\ kis[o].shown <= kis[o].filled
    BY QtyType DEF TypeOK, KisOrders, KisTruth, KisGrows
  <1>1. CASE row'[o].status = row[o].status
    BY <1>0, <1>1 DEF TerminalRows, KisGrows
  <1>2. ASSUME row'[o].status # row[o].status, row'[o].status \in Terminal,
               NEW r \in Runs, SubmitStep(r) \/ CancelStep(r)
        PROVE  \/ row'[o].status = "CANCELLED" /\ kis'[o].st = "closed"
               \/ row'[o].status = "REJECTED" /\ kis'[o].st \in {"none", "refused"}
    <2>1. CASE row'[o].status = "REJECTED" /\ Reject(r)
      <3>1. o = run[r].order /\ run[r].pc = "reject" /\ kis' = kis
        BY <1>2, <2>1, EngineVerdict DEF Reject, At
      <3>2. kis[o].st = "none"
        BY <3>1 DEF RequestOnce, BeforeWire, KisTruth
      <3> QED BY <2>1, <3>1, <3>2
    <2>2. CASE row'[o].status = "REJECTED" /\ Record(r) /\ run[r].answer = "REJECTED"
      <3>1. o = run[r].order /\ run[r].pc = "record" /\ kis' = kis
        BY <1>2, <2>2, EngineVerdict DEF Record, At
      <3> QED BY <2>2, <3>1 DEF RunKnows
    <2>3. CASE row'[o].status = "CANCELLED" /\ CancelRecord(r)
      <3>1. o = run[r].order /\ run[r].pc = "cancelRecord" /\ kis' = kis
        BY <1>2, <2>3, EngineVerdict DEF CancelRecord, At
      <3>2. kis[o].cancelled
        BY <1>2, <3>1 DEF RunKnows
      <3>3. kis[o].st = "closed"
        BY <3>2, Zenon DEF KisTruth
      <3> QED BY <2>3, <3>1, <3>3
    <2> QED BY <1>2, <2>1, <2>2, <2>3, EngineVerdict
  <1>3. ASSUME row'[o].status # row[o].status, row'[o].status \in Terminal,
               NEW p \in Recons, PassNext(p)
        PROVE  row'[o].status = "FILLED" /\ kis'[o].filled = Qty[o]
    <2>1. row'[o].status = "FILLED" /\ recon[p].fills[o] >= Qty[o]
      BY <1>3, PassVerdict
    <2>2. recon[p].fills[o] \in Nat /\ recon[p].fills[o] <= kis[o].filled
      BY DEF TypeOK, PassStates, FillsReported
    <2> QED BY <1>0, <2>1, <2>2
  <1>4. ASSUME NEW r \in Runs, RunNext(r), ~(SubmitStep(r) \/ CancelStep(r))
        PROVE  row' = row
    BY <1>4 DEF RunNext, BeginSubmit, BeginCancel, Crash, FatalConnection
  <1>7. ASSUME row'[o].status # row[o].status, NEW x \in Orders, SettleSell(x)
        PROVE  row'[o].status = "FILLED" /\ kis'[o].filled = Qty[o]
    <2>1. kis[x].shown = Qty[x] /\ RowMoves(x, "FILLED") /\ kis' = kis
      BY <1>7, SettleSellMoves, SettleSellFrame
    <2>2. x = o
      BY <1>7, <2>1 DEF RowMoves
    <2> QED BY <1>0, <2>1, <2>2 DEF RowMoves
  <1>5. CASE row'[o].status # row[o].status /\ row'[o].status \in Terminal
    BY <1>2, <1>3, <1>4, <1>5, <1>7, OutsideFrame DEF Next, Outside
  <1>6. CASE row'[o].status \notin Terminal
    BY <1>6 DEF Terminal
  <1> QED BY <1>1, <1>5, <1>6

-----------------------------------------------------------------------------
(* The inductive invariant, and the theorems. *)

IInv ==
  /\ TypeOK /\ LockOwner /\ SettlesLive
  /\ Holding /\ RequestOnce /\ SignalKey
  /\ HaltHistory /\ (\A r \in Runs : UnknownSeen(r))
  /\ KisTruth /\ FillsReported /\ OpenReported
  /\ (\A r \in Runs : RunKnows(r)) /\ TerminalRows

\* The inductive invariant holds initially.
LEMMA InitInv == Init => IInv
  <1> SUFFICES ASSUME Init PROVE IInv
    OBVIOUS
  <1>1. TypeOK
    BY InitType
  <1>2. \A r \in Runs : run[r].pc = "idle"
    BY DEF Init, IdleRun
  <1>3. LockOwner /\ Holding /\ HaltHistory /\ \A r \in Runs : UnknownSeen(r) /\ RunKnows(r)
    BY <1>2 DEF Init, LockOwner, Holding, HoldsRow, HoldsAt, Judging, OnWire,
       CancelOnWire, HaltHistory, UnknownSeen, RunKnows
  <1>4. SettlesLive /\ FillsReported /\ OpenReported
    BY DEF Init, IdlePass, SettlesLive, FillsReported, OpenReported, NoFills, Absent
  <1>5. RequestOnce /\ SignalKey
    BY <1>2 DEF Init, RequestOnce, BeforeWire, Judging, SignalKey, Registered, NoRow
  <1>6. KisTruth /\ TerminalRows
    BY QtyType DEF Init, KisTruth, TerminalRows, NoRow, Absent
  <1> QED BY <1>1, <1>3, <1>4, <1>5, <1>6 DEF IInv

\* Every step preserves the inductive invariant.
LEMMA NextInv == IInv /\ [Next]_vars => IInv'
  <1> SUFFICES ASSUME IInv, [Next]_vars
               PROVE  IInv'
    OBVIOUS
  <1> USE DEF IInv
  <1>1. TypeOK' /\ LockOwner' /\ SettlesLive'
    BY NextType, LockOwnerStep, SettlesLiveStep
  <1>2. Holding' /\ RequestOnce' /\ SignalKey'
    BY HoldingStep, RequestOnceStep, SignalKeyStep
  <1>3. HaltHistory' /\ \A r \in Runs : UnknownSeen(r)'
    BY HaltHistoryStep, UnknownSeenStep
  <1>4. KisTruth' /\ KisGrows
    BY KisStep
  <1>5. FillsReported' /\ OpenReported' /\ \A r \in Runs : RunKnows(r)'
    BY <1>1, <1>4, FillsReportedStep, OpenReportedStep, RunKnowsStep
  <1>6. TerminalRows'
    BY <1>1, <1>4, TerminalRowsStep
  <1> QED BY <1>1, <1>2, <1>3, <1>4, <1>5, <1>6

\* The inductive invariant holds in every reachable state.
THEOREM Invariance == Spec => []IInv
  BY InitInv, NextInv, PTL DEF Spec

\* Every variable keeps its type (TypeOK).
THEOREM TypeCorrect == Spec => []TypeOK
  <1>1. IInv => TypeOK
    BY DEF IInv
  <1> QED BY <1>1, Invariance, PTL

\* At most one request per order, and per signal and day (register, the
\* unique keys and the compare-and-set to SUBMITTING).
THEOREM OneOrder == Spec => []OneOrderPerSignal
  <1>1. IInv => OneOrderPerSignal
    BY DEF IInv, TypeOK, RequestOnce, SignalKey, Registered, Unsent, OneOrderPerSignal
  <1> QED BY <1>1, Invariance, PTL

\* Nobody moves the row of a request in flight, though reconciliation does
\* not take the single-run lock.
THEOREM InFlight == Spec => []InFlightIsOwned
  <1>1. IInv => InFlightIsOwned
    <2> SUFFICES ASSUME IInv, NEW r \in Runs
                 PROVE  /\ run[r].pc \in OnWire =>
                             /\ row[run[r].order] = run[r].held
                             /\ run[r].held.status = "SUBMITTING"
                        /\ run[r].pc \in CancelOnWire =>
                             \/ /\ row[run[r].order] = run[r].held
                                /\ run[r].held.status = "CANCEL_PENDING"
                             \/ /\ Side[run[r].order] = "sell"
                                /\ row[run[r].order].status = "FILLED"
                                /\ kis[run[r].order].filled = Qty[run[r].order]
      BY DEF InFlightIsOwned, OnWire, CancelOnWire
    <2>1. run[r].pc \in CancelOnWire => run[r].order \in Orders
      BY DEF IInv, LockOwner, CancelOnWire
    <2> QED
      BY <2>1 DEF IInv, Holding, HoldsRow, HoldsAt, LosesToFill, TerminalRows
  <1> QED BY <1>1, Invariance, PTL

\* From the judged snapshot to the wire, no UNKNOWN order the run would have
\* to stop for.
THEOREM UnknownBlocks == Spec => []UnknownBlocksOrders
  <1>1. IInv => UnknownBlocksOrders
    BY DEF IInv, UnknownSeen, UnknownBlocksOrders
  <1> QED BY <1>1, Invariance, PTL

\* At most one request leaves after HALT is set, however many runs there are.
THEOREM HaltStops == Spec => []HaltStopsOrders
  <1>1. IInv => HaltStopsOrders
    BY DEF IInv, HaltHistory, HaltStopsOrders
  <1> QED BY <1>1, Invariance, PTL

\* A terminal row is true of the broker, and an order the broker may still
\* work has a row that says so.
THEOREM TerminalIsTrue == Spec => []TerminalTruth
  <1>1. IInv => TerminalTruth
    <2> SUFFICES ASSUME IInv, NEW o \in Orders
                 PROVE  /\ row[o].status = "FILLED" => kis[o].filled = Qty[o]
                        /\ row[o].status = "CANCELLED" => kis[o].st = "closed"
                        /\ row[o].status = "REJECTED" => kis[o].st \in {"none", "refused"}
                        /\ kis[o].st \in {"open", "transit"} =>
                             row[o].status \in LiveStatuses \cup {"UNKNOWN"}
      BY DEF TerminalTruth
    <2>1. /\ row[o].status = "FILLED" => kis[o].filled = Qty[o]
          /\ row[o].status = "CANCELLED" => kis[o].st = "closed"
          /\ row[o].status = "REJECTED" => kis[o].st \in {"none", "refused"}
      BY DEF IInv, TerminalRows
    <2>2. row[o].status \in Statuses \cup {"NONE"}
      BY DEF IInv, TypeOK, Rows
    <2>3. ASSUME kis[o].st \in {"open", "transit"}
          PROVE  row[o].status \in LiveStatuses \cup {"UNKNOWN"}
      <3>1. wires[o] # 0 /\ kis[o].filled # Qty[o]
        BY <2>3 DEF IInv, KisTruth
      <3>2. row[o].status \notin Unsent
        BY <3>1 DEF IInv, RequestOnce
      <3> QED BY <2>1, <2>2, <2>3, <3>1, <3>2 DEF Unsent, Statuses, LiveStatuses
    <2> QED BY <2>1, <2>3
  <1> QED BY <1>1, Invariance, PTL

-----------------------------------------------------------------------------
(* The order lifecycle keeps its promise (OrderPromise). *)

\* The claims, their order, and what the broker must bear out for each.
LEMMA ClaimTypes ==
  \A s \in Statuses \cup {"NONE"} : ClaimOf(s) \in Promise!Claims
  BY DEF ClaimOf, Statuses, Promise!Claims

\* A legal move of a row is a legal move of the claim, or none.
LEMMA MovesFollow ==
  ASSUME NEW s \in Statuses, NEW next,
         next \in Transitions(s) \/ (s = "UNKNOWN" /\ next \in Settled)
  PROVE  ClaimOf(s) = ClaimOf(next) \/ <<ClaimOf(s), ClaimOf(next)>> \in Promise!Successors
  BY DEF Transitions, Settled, Statuses, ClaimOf, Promise!Successors

\* What a claim says, in the terms of the broker's books.
LEMMA HoldsIs ==
  ASSUME NEW o \in Orders, NEW c,
         c = "working"   => kis[o].st \in AtBroker,
         c = "partial"   => kis[o].filled > 0,
         c = "filled"    => kis[o].filled = Qty[o],
         c = "cancelled" => kis[o].st = "closed",
         c = "rejected"  => kis[o].st \in {"none", "refused"}
  PROVE  Promise!Holds(o, c)
  BY DEF Promise!Holds, Truth, Filled, AtBroker

\* A move of a row on the evidence its new status needs is a step of the
\* promise, or changes no claim.
LEMMA ClaimStep ==
  ASSUME TypeOK, NEW o \in Orders, NEW next \in Statuses, RowMoves(o, next),
         row[o].status \in Statuses,
         \/ next \in Transitions(row[o].status)
         \/ row[o].status = "UNKNOWN" /\ next \in Settled,
         Promise!Holds(o, ClaimOf(next)),
         UNCHANGED <<kis, wires, today, halt, sinceHalt>>
  PROVE  [Promise!Next]_Promise!vars
  <1> DEFINE c == ClaimOf(next)
  <1>1. Claimed' = [Claimed EXCEPT ![o] = c]
    BY DEF Claimed, RowMoves
  <1>2. UNCHANGED <<today, SentOn, Truth, Filled, HaltSeen>>
    BY DEF SentOn, Truth, Filled, HaltSeen, RowMoves
  <1>3. Claimed[o] = ClaimOf(row[o].status)
    BY DEF Claimed
  <1>4. c \in Promise!Claims
    BY ClaimTypes
  <1> HIDE DEF c
  <1>5. CASE Claimed[o] = c
    <2>1. Claimed' = Claimed
      BY <1>1, <1>5 DEF Claimed
    <2> QED BY <1>2, <2>1 DEF Promise!vars
  <1>6. CASE <<Claimed[o], c>> \in Promise!Successors
    <2>1. Promise!Claim(o, c)
      BY <1>1, <1>2, <1>6 DEF Promise!Claim, Promise!broker, c
    <2> QED BY <1>4, <2>1 DEF Promise!Next
  <1> QED BY <1>3, <1>5, <1>6, MovesFollow DEF c

\* A step that leaves rows, books, calendar and HALT alone is not seen.
LEMMA UnseenStep ==
  ASSUME UNCHANGED <<row, kis, wires, today, halt, sinceHalt>>
  PROVE  [Promise!Next]_Promise!vars
  <1>1. UNCHANGED <<Claimed, SentOn, Truth, Filled, HaltSeen>>
    BY DEF Claimed, SentOn, Truth, Filled, HaltSeen
  <1> QED BY <1>1 DEF Promise!vars

\* A registration is not seen: the order is unsent before and after.
LEMMA RegistrationUnseen ==
  ASSUME TypeOK, RequestOnce, NEW o \in Orders, Existing(o) = {}, Registration(o),
         UNCHANGED <<kis, wires, today, halt, sinceHalt>>
  PROVE  [Promise!Next]_Promise!vars
  <1>1. row[o].status = "NONE" /\ wires[o] = 0
    BY DEF Existing, Registered, RequestOnce, Unsent
  <1>2. /\ row'[o].status = "CREATED"
        /\ \A x \in Orders \ {o} : row'[x] = row[x]
    BY RegistrationEffect
  <1>3. Claimed' = Claimed
    <2>1. ClaimOf("NONE") = ClaimOf("CREATED")
      BY DEF ClaimOf
    <2> QED BY <1>1, <1>2, <2>1 DEF Claimed
  <1>4. UNCHANGED <<SentOn, Truth, Filled, HaltSeen>>
    BY <1>1, <1>2 DEF SentOn, Truth, Filled, HaltSeen
  <1> QED BY <1>3, <1>4 DEF Promise!vars

\* What the engine records of an order, the broker has borne out.
LEMMA EngineEvidence ==
  ASSUME TypeOK, LockOwner, RequestOnce, KisTruth, \A r \in Runs : RunKnows(r),
         NEW r \in Runs, SubmitStep(r) \/ CancelStep(r), row' # row
  PROVE  LET o == run[r].order IN
         \/ Existing(o) = {} /\ Registration(o)
         \/ \E next \in Transitions(row[o].status) :
              RowMoves(o, next) /\ Promise!Holds(o, ClaimOf(next))
  <1> DEFINE o == run[r].order
             Goal == \/ Existing(o) = {} /\ Registration(o)
                     \/ \E next \in Transitions(row[o].status) :
                          RowMoves(o, next) /\ Promise!Holds(o, ClaimOf(next))
  <1> SUFFICES Goal
    OBVIOUS
  <1>o. o \in Orders
    BY SubmitBusy
  <1>cas. ASSUME NEW next, NEW learn,
                 Advance(r, next, learn) \/ AdvanceRaises(r, next, learn),
                 Promise!Holds(o, ClaimOf(next))
          PROVE  Goal
    BY <1>o, <1>cas, CasEffect DEF Advance, AdvanceRaises, CasRaises
  <1>open. \A next \in {"VALIDATING", "APPROVED", "SUBMITTING", "UNKNOWN"} :
             Promise!Holds(o, ClaimOf(next))
    BY <1>o, HoldsIs DEF ClaimOf
  <1>step. ASSUME NEW from, NEW next \in {"VALIDATING", "APPROVED", "SUBMITTING"},
                  NEW to, Step(r, from, next, to)
           PROVE  Goal
    BY <1>step, <1>open, <1>cas DEF Step
  <1>1. CASE Register(r)
    BY <1>1 DEF Register
  <1>2. CASE Validate(r) \/ Approve(r) \/ MarkSubmitting(r)
    BY <1>2, <1>step DEF Validate, Approve, MarkSubmitting
  <1>3. CASE Reject(r)
    <2>1. kis[o].st = "none"
      BY <1>o, <1>3 DEF Reject, At, RequestOnce, BeforeWire, KisTruth
    <2>2. Promise!Holds(o, ClaimOf("REJECTED"))
      BY <1>o, <2>1, HoldsIs DEF ClaimOf
    <2> QED BY <1>3, <1>cas, <2>2 DEF Reject
  <1>4. CASE Record(r)
    <2>1. run[r].pc = "record"
      BY <1>4 DEF Record, At
    <2>2. CASE run[r].answer = "ACCEPTED"
      <3>1. Promise!Holds(o, ClaimOf("ACCEPTED"))
        BY <1>o, <2>1, <2>2, HoldsIs DEF ClaimOf, RunKnows
      <3> QED BY <1>4, <1>cas, <2>2, <3>1 DEF Record
    <2>3. CASE run[r].answer = "REJECTED"
      <3>1. Promise!Holds(o, ClaimOf("REJECTED"))
        BY <1>o, <2>1, <2>3, HoldsIs DEF ClaimOf, RunKnows
      <3> QED BY <1>4, <1>cas, <2>3, <3>1 DEF Record
    <2>4. CASE run[r].answer = "none"
      <3>1. \E learn : Advance(r, "none", learn) \/ AdvanceRaises(r, "none", learn)
        BY <1>4, <2>4 DEF Record
      <3>2. "none" \notin Transitions(row[o].status)
        BY TransitionsType DEF Statuses
      <3>3. row' = row
        BY <1>o, <3>1, <3>2, CasEffect DEF Advance, AdvanceRaises, CasRaises
      <3> QED BY <3>3
    <2> QED BY <2>2, <2>3, <2>4 DEF TypeOK, RunStates
  <1>5. CASE ForceUnknown(r)
    BY <1>5, <1>open, <1>cas DEF ForceUnknown
  <1>6. CASE CancelMark(r)
    <2>1. Promise!Holds(o, ClaimOf("CANCEL_PENDING"))
      BY <1>o, <1>6, HoldsIs DEF CancelMark, At, ClaimOf, RunKnows
    <2> QED BY <1>6, <1>cas, <2>1 DEF CancelMark
  <1>7. CASE CancelRecord(r)
    <2>1. kis[o].cancelled
      BY <1>7 DEF CancelRecord, At, RunKnows
    <2>2. kis[o].st = "closed"
      BY <1>o, <2>1, Zenon DEF KisTruth
    <2>3. Promise!Holds(o, ClaimOf("CANCELLED"))
      BY <1>o, <2>2, HoldsIs DEF ClaimOf
    <2> QED BY <1>7, <1>cas, <2>3 DEF CancelRecord
  <1>8. CASE \/ ReadPositions(r) \/ ReadOpenOrders(r) \/ ReadFills(r) \/ ReadFails(r)
             \/ Judge(r) \/ Gate(r) \/ Send(r) \/ Await(r) \/ CancelLoad(r)
             \/ CancelGate(r) \/ CancelSend(r) \/ CancelAwait(r)
    BY <1>8 DEF ReadPositions, ReadOpenOrders, ReadFills, ReadFails, Judge, Gate,
       Send, Await, CancelLoad, CancelGate, CancelSend, CancelAwait
  <1> HIDE DEF Goal
  <1> QED
    BY <1>1, <1>2, <1>3, <1>4, <1>5, <1>6, <1>7, <1>8 DEF SubmitStep, CancelStep

\* What a pass concludes from what it has read, the broker has borne out.
LEMMA PassEvidence ==
  ASSUME TypeOK, SettlesLive, KisTruth, FillsReported, OpenReported,
         NEW p \in Recons, PassNext(p), row' # row
  PROVE  \E o \in Orders, next \in Settled :
           /\ RowMoves(o, next) /\ row[o].status \in Statuses
           /\ next \in Transitions(row[o].status) \/ row[o].status = "UNKNOWN"
           /\ Promise!Holds(o, ClaimOf(next))
  <1>1. PICK e \in recon[p].todo : Resolve(p, e)
    BY DEF PassNext, ApplyStep, StartPass, PassOpenOrders, PassFills,
       PassReadFails, PassList, Unresolved, ResolveRaises, PhaseDone, PassCrash,
       PassFatal
  <1>2. PICK next \in Outcome(p, e[1], e[2]) : ReconCas(p, e[1], e[2], next)
    BY <1>1 DEF Resolve
  <1> DEFINE o == e[1]
  <1>3. o \in Orders
    BY DEF TypeOK, PassStates
  <1>4. next \in Settled /\ next \in {"ACCEPTED", "PARTIALLY_FILLED", "FILLED"}
    BY <1>2, <1>3, OutcomeStatuses DEF Settled
  <1>5. /\ RowMoves(o, next) /\ row[o].status \in Statuses
        /\ next \in Transitions(row[o].status) \/ row[o].status = "UNKNOWN"
    <2>1. CASE recon[p].phase = "resolve"
      <3>1. ReconcileUnknown(o, e[2], next)
        BY <1>2, <2>1 DEF ReconCas
      <3>2. row[o].status = "UNKNOWN"
        BY <3>1 DEF ReconcileUnknown, Matches
      <3>3. RowMoves(o, next)
        BY <1>3, <3>1, MovedEffect DEF ReconcileUnknown
      <3> QED BY <3>2, <3>3 DEF Statuses
    <2>2. CASE recon[p].phase # "resolve"
      <3>1. CompareAndSet(o, e[2], next, FALSE)
        BY <1>2, <2>2 DEF ReconCas
      <3>2. RowMoves(o, next) /\ next \in Transitions(row[o].status)
        BY <1>3, <3>1, CasEffect
      <3> QED BY <3>2 DEF Transitions, Statuses
    <2> QED BY <2>1, <2>2
  <1>7. /\ recon[p].fills[o] \in Nat /\ recon[p].fills[o] <= kis[o].filled
        /\ kis[o].filled \in Nat /\ kis[o].filled <= Qty[o] /\ Qty[o] \in Nat
    BY <1>3, QtyType DEF TypeOK, PassStates, KisOrders, FillsReported, KisTruth
  <1>6. \/ next = "ACCEPTED" /\ o \in recon[p].open
        \/ recon[p].fills[o] > 0 /\ next \in FillEvidence(o, recon[p].fills)
    <2>1. \/ next \in Resolution(o, e[2], recon[p].open, recon[p].fills)
          \/ next \in Settlement(o, e[2], recon[p].open, recon[p].fills)
      BY <1>2 DEF Outcome
    <2>2. next \in FillEvidence(o, recon[p].fills) => recon[p].fills[o] > 0
      BY <1>7 DEF FillEvidence
    <2> QED BY <2>1, <2>2 DEF Resolution, Settlement
  <1>8. Promise!Holds(o, ClaimOf(next))
    <2>1. CASE next = "ACCEPTED" /\ o \in recon[p].open
      <3>1. kis[o].st \in AtBroker
        BY <1>3, <2>1 DEF OpenReported
      <3> QED BY <1>3, <2>1, <3>1, HoldsIs DEF ClaimOf
    <2>2. CASE recon[p].fills[o] > 0 /\ next \in FillEvidence(o, recon[p].fills)
      <3>1. /\ kis[o].filled > 0
            /\ next \in {"FILLED", "PARTIALLY_FILLED"}
            /\ next = "FILLED" => kis[o].filled = Qty[o]
        BY <1>7, <2>2 DEF FillEvidence
      <3> QED BY <1>3, <3>1, HoldsIs DEF ClaimOf
    <2> QED BY <1>6, <2>1, <2>2
  <1> QED BY <1>3, <1>4, <1>5, <1>8

\* The request leaves as the promise has it: no twin, no order in doubt, and
\* after HALT only the run that was past the gate.
LEMMA SendKept ==
  ASSUME IInv, NEW r \in Runs, Send(r), kis' # kis \/ wires' # wires
  PROVE  [Promise!Next]_Promise!vars
  <1> USE DEF IInv
  <1> DEFINE o == run[r].order
  <1>1. /\ run[r].pc = "send" /\ SendOrder(o)
        /\ wires' = [wires EXCEPT ![o] = wires[o] + 1]
        /\ sinceHalt' = IF halt THEN sinceHalt + 1 ELSE sinceHalt
        /\ UNCHANGED <<row, today, halt>>
    BY DEF Send, At
  <1>2. /\ o \in Orders /\ wires[o] = 0 /\ row[o].status = "SUBMITTING"
        /\ row[o].day = today /\ today # 0
    <2>1. o \in Orders /\ row[o].status = "SUBMITTING"
      BY <1>1 DEF LockOwner, Holding, HoldsRow, HoldsAt, OnWire
    <2>2. wires[o] = 0 /\ row[o].day = today
      BY <1>1 DEF RequestOnce, BeforeWire
    <2>3. today # 0
      BY DEF TypeOK, Days
    <2> QED BY <2>1, <2>2, <2>3
  <1>3. Claimed[o] = "asked" /\ SentOn[o] = 0 /\ Claimed' = Claimed
    BY <1>1, <1>2 DEF Claimed, SentOn, ClaimOf
  <1>4. ~Promise!Twin(o)
    <2> SUFFICES ASSUME NEW x \in Orders, x # o, Signal[x] = Signal[o],
                        SentOn[x] = today
                 PROVE  FALSE
      BY DEF Promise!Twin
    <2>1. wires[x] # 0 /\ row[x].day = today
      BY <1>2 DEF SentOn
    <2>2. x \in Registered /\ o \in Registered
      BY <1>2, <2>1 DEF Registered, RequestOnce, Unsent
    <2> QED BY <1>2, <2>1, <2>2 DEF SignalKey
  <1>5. Promise!Clear(o)
    <2> SUFFICES ASSUME NEW x \in Orders, Claimed[x] = "doubt"
                 PROVE  Side[o] = "sell" /\ Symbol[x] # Symbol[o]
      BY DEF Promise!Clear
    <2>1. row[x].status \in Statuses \cup {"NONE"}
      BY DEF TypeOK, Rows
    <2>2. x \in Unknown
      BY <2>1 DEF Claimed, ClaimOf, Statuses, Unknown, WithStatus
    <2> QED BY <1>1, <2>2 DEF UnknownSeen
  <1>6. HaltSeen # "used" /\ HaltSeen' = IF HaltSeen = "set" THEN "used" ELSE HaltSeen
    <2>1. halt => sinceHalt = 0
      BY <1>1 DEF HaltHistory
    <2> QED BY <1>1, <2>1 DEF HaltSeen
  <1>7. SentOn' = [SentOn EXCEPT ![o] = today]
    <2>1. wires'[o] = 1 /\ \A x \in Orders \ {o} : wires'[x] = wires[x]
      BY <1>1, <1>2 DEF TypeOK
    <2>2. /\ SentOn' = [x \in Orders |-> IF wires'[x] = 0 THEN 0 ELSE row[x].day]
          /\ SentOn = [x \in Orders |-> IF wires[x] = 0 THEN 0 ELSE row[x].day]
      BY <1>1 DEF SentOn
    <2> QED BY <1>2, <2>1, <2>2, SMTT(60)
  <1>8. Truth' = [Truth EXCEPT ![o] = "transit"] /\ Filled' = Filled
    <2>1. /\ kis'[o] = [kis[o] EXCEPT !.st = "transit"]
          /\ \A x \in Orders \ {o} : kis'[x] = kis[x]
      BY <1>1, <1>2, BecomesEffect DEF SendOrder
    <2>2. kis'[o].st = "transit" /\ kis'[o].filled = kis[o].filled
      BY <1>2, <2>1 DEF TypeOK, KisOrders
    <2> QED BY <1>2, <2>1, <2>2 DEF Truth, Filled
  <1>9. Promise!Send(o)
    BY <1>1, <1>3, <1>4, <1>5, <1>6, <1>7, <1>8 DEF Promise!Send
  <1> QED BY <1>2, <1>9 DEF Promise!Next

\* A cancel request on its way is not seen.
LEMMA CancelUnseen ==
  ASSUME TypeOK, NEW r \in Runs, CancelSend(r), LockOwner
  PROVE  [Promise!Next]_Promise!vars
  <1> DEFINE o == run[r].order
  <1>1. o \in Orders /\ UNCHANGED <<row, wires, today, halt, sinceHalt>>
    BY DEF CancelSend, At, LockOwner, others
  <1>2. UNCHANGED <<Truth, Filled>>
    <2>1. CASE SendCancel(o)
      <3>1. /\ kis'[o] = [kis[o] EXCEPT !.cancel = TRUE]
            /\ \A x \in Orders \ {o} : kis'[x] = kis[x]
        BY <1>1, <2>1, BecomesEffect DEF SendCancel
      <3>2. kis'[o].st = kis[o].st /\ kis'[o].filled = kis[o].filled
        BY <1>1, <3>1 DEF TypeOK, KisOrders
      <3> QED BY <3>1, <3>2 DEF Truth, Filled
    <2>2. CASE kis' = kis
      BY <2>2 DEF Truth, Filled
    <2> QED BY <2>1, <2>2 DEF CancelSend
  <1>3. UNCHANGED <<Claimed, SentOn, HaltSeen>>
    BY <1>1 DEF Claimed, SentOn, HaltSeen
  <1> QED BY <1>1, <1>2, <1>3 DEF Promise!vars

\* The broker's own steps.
LEMMA BrokerKept ==
  ASSUME TypeOK, NEW o \in Orders, Broker(o)
  PROVE  [Promise!Next]_Promise!vars
  <1>0. /\ kis[o] \in KisOrders
        /\ UNCHANGED <<today, Claimed, SentOn, HaltSeen>>
    BY DEF TypeOK, Broker, others, Claimed, SentOn, HaltSeen
  <1>1. ASSUME NEW state, OrderBecomes(o, state)
        PROVE  /\ Truth' = [Truth EXCEPT ![o] = state.st]
               /\ Filled' = [Filled EXCEPT ![o] = state.filled]
    <2>1. kis'[o] = state /\ \A x \in Orders \ {o} : kis'[x] = kis[x]
      BY <1>1, BecomesEffect
    <2> QED BY <2>1 DEF Truth, Filled
  <1>2. Truth[o] = kis[o].st /\ Filled[o] = kis[o].filled
    BY DEF Truth, Filled
  <1>3. /\ Truth = [Truth EXCEPT ![o] = kis[o].st]
        /\ Filled = [Filled EXCEPT ![o] = kis[o].filled]
    BY DEF Truth, Filled
  <1>4. CASE Accept(o) \/ Refuse(o)
    <2>1. PICK t \in {"open", "refused"} :
            /\ kis[o].st = "transit"
            /\ \/ OrderBecomes(o, [kis[o] EXCEPT !.st = t, !.day = today])
               \/ OrderBecomes(o, [kis[o] EXCEPT !.st = t])
      BY <1>4 DEF Accept, Refuse
    <2>2. PICK state :
            OrderBecomes(o, state) /\ state.st = t /\ state.filled = kis[o].filled
      <3> DEFINE dated == [kis[o] EXCEPT !.st = t, !.day = today]
                 undated == [kis[o] EXCEPT !.st = t]
      <3>1. /\ dated.st = t /\ undated.st = t
            /\ dated.filled = kis[o].filled /\ undated.filled = kis[o].filled
        BY <1>0 DEF KisOrders
      <3>2. OrderBecomes(o, dated) \/ OrderBecomes(o, undated)
        BY <2>1
      <3> HIDE DEF dated, undated
      <3> QED BY <3>1, <3>2
    <2>3. Truth' = [Truth EXCEPT ![o] = t] /\ Filled' = Filled
      BY <1>1, <1>3, <2>2
    <2>4. Promise!Answer(o)
      BY <1>0, <1>2, <2>1, <2>3 DEF Promise!Answer
    <2> QED BY <2>4 DEF Promise!Next
  <1>5. CASE Fill(o)
    <2> DEFINE st == IF kis[o].filled + 1 = Qty[o] THEN "closed" ELSE "open"
               n == kis[o].filled + 1
               state == [kis[o] EXCEPT !.filled = n, !.st = st]
    <2>1. kis[o].st = "open" /\ kis[o].filled < Qty[o] /\ OrderBecomes(o, state)
      BY <1>5 DEF Fill, IsOpen
    <2>2. state.st = st /\ state.filled = n
      <3> HIDE DEF st, n
      <3> QED BY <1>0 DEF KisOrders
    <2>3. Truth' = [Truth EXCEPT ![o] = st] /\ Filled' = [Filled EXCEPT ![o] = n]
      <3> HIDE DEF st, n, state
      <3> QED BY <1>1, <2>1, <2>2
    <2>4. Promise!Fill(o)
      BY <1>0, <1>2, <2>1, <2>3 DEF Promise!Fill
    <2> QED BY <2>4 DEF Promise!Next
  <1>6. CASE TakeCancel(o)
    <2> DEFINE state == [kis[o] EXCEPT !.cancel = FALSE, !.st = "closed", !.cancelled = TRUE]
    <2>1. kis[o].st = "open" /\ OrderBecomes(o, state)
      BY <1>6 DEF TakeCancel, IsOpen
    <2>2. state.st = "closed" /\ state.filled = kis[o].filled
      BY <1>0 DEF KisOrders
    <2>3. Truth' = [Truth EXCEPT ![o] = "closed"] /\ Filled' = Filled
      <3> HIDE DEF state
      <3> QED BY <1>1, <1>3, <2>1, <2>2
    <2>4. Promise!Cancel(o)
      BY <1>0, <1>2, <2>1, <2>3 DEF Promise!Cancel
    <2> QED BY <2>4 DEF Promise!Next
  <1>7. CASE RefuseCancel(o)
    <2> DEFINE state == [kis[o] EXCEPT !.cancel = FALSE]
    <2>1. OrderBecomes(o, state)
      BY <1>7 DEF RefuseCancel
    <2>2. state.st = kis[o].st /\ state.filled = kis[o].filled
      BY <1>0 DEF KisOrders
    <2>3. Truth' = Truth /\ Filled' = Filled
      <3> HIDE DEF state
      <3> QED BY <1>1, <1>3, <2>1, <2>2
    <2> QED BY <1>0, <2>3 DEF Promise!vars
  <1>8. CASE Publish(o)
    <2> DEFINE n == kis[o].shown + 1
               state == [kis[o] EXCEPT !.shown = n]
    <2>1. OrderBecomes(o, state)
      BY <1>8 DEF Publish
    <2>2. state.st = kis[o].st /\ state.filled = kis[o].filled
      <3> HIDE DEF n
      <3> QED BY <1>0 DEF KisOrders
    <2>3. Truth' = Truth /\ Filled' = Filled
      <3> HIDE DEF state
      <3> QED BY <1>1, <1>3, <2>1, <2>2
    <2> QED BY <1>0, <2>3 DEF Promise!vars
  <1> QED BY <1>4, <1>5, <1>6, <1>7, <1>8 DEF Broker, Market

\* The day ends.
LEMMA NextDayKept ==
  ASSUME TypeOK, NextDay
  PROVE  Promise!Next
  <1>1. /\ today' = today + 1 /\ DayEnd
        /\ UNCHANGED <<Claimed, SentOn, HaltSeen>>
    BY DEF NextDay, Claimed, SentOn, HaltSeen
  <1>2. ASSUME NEW o \in Orders
        PROVE  /\ kis'[o].filled = kis[o].filled
               /\ kis'[o].st = CASE kis[o].st = "open"    -> "closed"
                                 [] kis[o].st = "transit" -> "refused"
                                 [] OTHER                 -> kis[o].st
    <2>1. kis[o] \in KisOrders
      BY DEF TypeOK
    <2>2. CASE kis[o].st \in {"open", "transit"}
      <3>1. kis'[o] = [kis[o] EXCEPT !.st = IF kis[o].st = "open" THEN "closed"
                                             ELSE "refused", !.cancel = FALSE]
        BY <1>1, <2>2 DEF DayEnd
      <3> QED BY <2>1, <2>2, <3>1 DEF KisOrders
    <2>3. CASE kis[o].st \notin {"open", "transit"}
      <3>1. kis'[o] = [kis[o] EXCEPT !.cancel = FALSE]
        BY <1>1, <2>3 DEF DayEnd
      <3> QED BY <2>1, <2>3, <3>1 DEF KisOrders
    <2> QED BY <2>2, <2>3
  <1>3. Filled' = Filled
    BY <1>2 DEF Filled
  <1>4. Truth' = [o \in Orders |-> CASE Truth[o] = "open"    -> "closed"
                                     [] Truth[o] = "transit" -> "refused"
                                     [] OTHER                -> Truth[o]]
    BY <1>2 DEF Truth
  <1> QED BY <1>1, <1>3, <1>4 DEF Promise!NextDay, Promise!Next

\* HALT is set, by the operator or by a connection that cannot be closed, or
\* cleared.
LEMMA HaltKept ==
  ASSUME UNCHANGED <<row, kis, wires, today>>,
         \/ halt' = TRUE /\ sinceHalt' = IF halt THEN sinceHalt ELSE 0
         \/ halt /\ halt' = FALSE
  PROVE  [Promise!Next]_Promise!vars
  <1>1. UNCHANGED <<today, Claimed, SentOn, Truth, Filled>>
    BY DEF Claimed, SentOn, Truth, Filled
  <1>2. \/ HaltSeen' = HaltSeen
        \/ HaltSeen = "clear" /\ HaltSeen' = "set"
        \/ HaltSeen # "clear" /\ HaltSeen' = "clear"
    <2>1. CASE halt /\ halt' = FALSE
      BY <2>1 DEF HaltSeen
    <2>2. CASE halt' = TRUE /\ sinceHalt' = IF halt THEN sinceHalt ELSE 0
      <3>1. CASE halt
        BY <2>2, <3>1 DEF HaltSeen
      <3>2. CASE ~halt
        BY <2>2, <3>2 DEF HaltSeen
      <3> QED BY <3>1, <3>2
    <2> QED BY <2>1, <2>2
  <1>3. CASE HaltSeen' = HaltSeen
    BY <1>1, <1>3 DEF Promise!vars
  <1>4. CASE HaltSeen = "clear" /\ HaltSeen' = "set"
    BY <1>1, <1>4 DEF Promise!SetHalt, Promise!broker, Promise!Next
  <1>5. CASE HaltSeen # "clear" /\ HaltSeen' = "clear"
    BY <1>1, <1>5 DEF Promise!ClearHalt, Promise!broker, Promise!Next
  <1> QED BY <1>2, <1>3, <1>4, <1>5

\* A step of a run: a move of a row, a request, a stop for a broken
\* connection, or nothing that is seen.
LEMMA RunKept ==
  ASSUME IInv, NEW r \in Runs, RunNext(r)
  PROVE  [Promise!Next]_Promise!vars
  <1> USE DEF IInv
  <1>1. CASE SubmitStep(r) \/ CancelStep(r)
    <2> DEFINE o == run[r].order
    <2>o. o \in Orders
      BY <1>1, SubmitBusy
    <2>1. CASE row' # row
      <3>1. UNCHANGED <<kis, wires, today, halt, sinceHalt>>
        BY <1>1, <2>1 DEF SubmitStep, CancelStep, Register, Step, Validate,
           ReadPositions, ReadOpenOrders, ReadFills, ReadFails, Judge, Gate,
           Reject, Approve, MarkSubmitting, Send, Await, Record, ForceUnknown,
           CancelLoad, CancelGate, CancelMark, CancelSend, CancelAwait,
           CancelRecord, others
      <3>2. CASE Existing(o) = {} /\ Registration(o)
        BY <2>o, <3>1, <3>2, RegistrationUnseen
      <3>3. ASSUME NEW next \in Transitions(row[o].status),
                   RowMoves(o, next), Promise!Holds(o, ClaimOf(next))
            PROVE  [Promise!Next]_Promise!vars
        <4>1. next \in Statuses /\ row[o].status \in Statuses
          BY TransitionsType DEF Transitions, Statuses
        <4> QED BY <2>o, <3>1, <3>3, <4>1, ClaimStep
      <3>4. \/ Existing(o) = {} /\ Registration(o)
            \/ \E next \in Transitions(row[o].status) :
                 RowMoves(o, next) /\ Promise!Holds(o, ClaimOf(next))
        BY <1>1, <2>1, EngineEvidence
      <3> QED BY <3>2, <3>3, <3>4
    <2>2. CASE row' = row
      <3>1. CASE Send(r)
        <4>1. UNCHANGED <<row, today, halt>> /\ (wires' = wires => sinceHalt' = sinceHalt)
          <5>1. CASE wires' = [wires EXCEPT ![o] = wires[o] + 1]
            <6>1. wires'[o] # wires[o]
              BY <2>o, <5>1 DEF TypeOK
            <6> QED BY <3>1, <6>1 DEF Send
          <5> QED BY <3>1, <5>1 DEF Send
        <4> QED BY <3>1, <4>1, SendKept, UnseenStep
      <3>2. CASE CancelSend(r)
        BY <3>2, CancelUnseen
      <3>3. CASE ~Send(r) /\ ~CancelSend(r)
        <4>1. UNCHANGED <<kis, wires, today, halt, sinceHalt>>
          BY <1>1, <3>3 DEF SubmitStep, CancelStep, Register, Step, Validate,
             ReadPositions, ReadOpenOrders, ReadFills, ReadFails, Judge, Gate,
             Reject, Approve, MarkSubmitting, Await, Record, ForceUnknown,
             CancelLoad, CancelGate, CancelMark, CancelAwait, CancelRecord, others
        <4> QED BY <2>2, <4>1, UnseenStep
      <3> QED BY <3>1, <3>2, <3>3
    <2> QED BY <2>1, <2>2
  <1>2. CASE FatalConnection(r)
    BY <1>2, HaltKept DEF FatalConnection
  <1>3. CASE Crash(r) \/ \E o \in Orders : BeginSubmit(r, o) \/ BeginCancel(r, o)
    BY <1>3, UnseenStep DEF Crash, BeginSubmit, BeginCancel, others
  <1> QED BY <1>1, <1>2, <1>3 DEF RunNext

\* A step of a pass: a move of a row on what the broker has shown, a stop, or
\* nothing that is seen.
LEMMA PassKept ==
  ASSUME IInv, NEW p \in Recons, PassNext(p)
  PROVE  [Promise!Next]_Promise!vars
  <1> USE DEF IInv
  <1>1. CASE row' # row
    <2>1. UNCHANGED <<kis, wires, today, halt, sinceHalt>>
      BY <1>1 DEF PassNext, ApplyStep, StartPass, PassOpenOrders, PassFills,
         PassReadFails, PassList, Unresolved, Resolve, ResolveRaises, PhaseDone,
         PassCrash, PassFatal, engineVars
    <2>2. PICK o \in Orders, next \in Settled :
             /\ RowMoves(o, next) /\ row[o].status \in Statuses
             /\ next \in Transitions(row[o].status) \/ row[o].status = "UNKNOWN"
             /\ Promise!Holds(o, ClaimOf(next))
      BY <1>1, PassEvidence
    <2>3. next \in Statuses
      BY DEF Settled, Statuses
    <2> QED BY <2>1, <2>2, <2>3, ClaimStep
  <1>2. CASE PassFatal(p)
    BY <1>2, HaltKept DEF PassFatal
  <1>3. CASE row' = row /\ ~PassFatal(p)
    <2>1. UNCHANGED engineVars
      BY <1>3 DEF PassNext, ApplyStep, StartPass, PassOpenOrders, PassFills,
         PassReadFails, PassList, Unresolved, Resolve, ResolveRaises, PhaseDone,
         PassCrash
    <2> QED BY <1>3, <2>1, UnseenStep DEF engineVars
  <1> QED BY <1>1, <1>2, <1>3

\* A sell that is settled as FILLED has filled in full.
LEMMA SettleKept ==
  ASSUME IInv, NEW o \in Orders, SettleSell(o)
  PROVE  [Promise!Next]_Promise!vars
  <1> USE DEF IInv
  <1>0. /\ kis[o].shown = Qty[o] /\ RowMoves(o, "FILLED")
        /\ row[o].status \in {"UNKNOWN", "ACCEPTED", "PARTIALLY_FILLED", "CANCEL_PENDING"}
    BY SettleSellMoves
  <1>1. kis[o].filled = Qty[o]
    <2>1. /\ kis[o].shown \in Nat /\ kis[o].filled \in Nat /\ Qty[o] \in Nat
          /\ kis[o].shown <= kis[o].filled /\ kis[o].filled <= Qty[o]
      BY QtyType DEF TypeOK, KisOrders, KisTruth
    <2> QED BY <1>0, <2>1
  <1>2. UNCHANGED <<kis, wires, today, halt, sinceHalt>>
    BY SettleSellFrame
  <1>3. Promise!Holds(o, ClaimOf("FILLED"))
    BY <1>1, HoldsIs DEF ClaimOf
  <1>4. /\ "FILLED" \in Statuses /\ row[o].status \in Statuses
        /\ \/ "FILLED" \in Transitions(row[o].status)
           \/ row[o].status = "UNKNOWN" /\ "FILLED" \in Settled
    BY <1>0 DEF Statuses, Settled, Transitions
  <1> QED BY <1>0, <1>2, <1>3, <1>4, ClaimStep

\* Every step of the lifecycle is a step of the promise, or is not seen.
LEMMA PromiseStep == IInv /\ [Next]_vars => [Promise!Next]_Promise!vars
  <1> SUFFICES ASSUME IInv, [Next]_vars
               PROVE  [Promise!Next]_Promise!vars
    OBVIOUS
  <1>1. TypeOK
    BY DEF IInv
  <1>2. CASE SetHalt \/ ClearHalt
    BY <1>2, HaltKept DEF SetHalt, ClearHalt
  <1>3. CASE UNCHANGED vars
    BY <1>3, UnseenStep DEF vars
  <1> QED
    BY <1>1, <1>2, <1>3, RunKept, PassKept, SettleKept, BrokerKept, NextDayKept DEF Next

\* The first state of the lifecycle is the first state of the promise.
LEMMA PromiseInit == Init => Promise!Init
  BY DEF Init, NoRow, Absent, Claimed, ClaimOf, SentOn, Truth, Filled, HaltSeen,
     Promise!Init

\* The lifecycle, with its locks, compare-and-sets, crashes and reconciliation
\* passes, implements the promise.
THEOREM PromiseKept == Spec => KeepsPromise
  BY Invariance, PromiseInit, PromiseStep, PTL DEF Spec, KeepsPromise, Promise!Spec

-----------------------------------------------------------------------------
(* The lock the lifecycle assumes is the one the lock file provides. *)

Lock == INSTANCE SingleRun WITH Procs <- Runs, holder <- lock

\* A step takes the free lock, gives it back, or does not touch it.
LEMMA LockStep == IInv /\ [Next]_vars => [Lock!Next]_lock
  <1> SUFFICES ASSUME TypeOK, LockOwner, [Next]_vars
               PROVE  [Lock!Next]_lock
    BY DEF IInv
  <1>1. ASSUME NEW r \in Runs, SubmitStep(r) \/ CancelStep(r)
        PROVE  [Lock!Next]_lock
    <2>1. lock = r /\ (lock' = None \/ lock' = lock)
      BY <1>1, SubmitBusy, RunMoves
    <2> QED BY <2>1 DEF Lock!Next, Lock!Release
  <1>2. ASSUME NEW r \in Runs, Crash(r) \/ FatalConnection(r)
        PROVE  [Lock!Next]_lock
    <2>1. run[r].pc # "idle" /\ lock' = None
      BY <1>2 DEF Crash, FatalConnection, CasPcs, At, Finish
    <2>2. lock = r
      BY <2>1 DEF LockOwner
    <2> QED BY <2>1, <2>2 DEF Lock!Next, Lock!Release
  <1>3. ASSUME NEW r \in Runs, NEW o \in Orders, BeginSubmit(r, o) \/ BeginCancel(r, o)
        PROVE  [Lock!Next]_lock
    BY <1>3 DEF BeginSubmit, BeginCancel, Lock!Next, Lock!Acquire
  <1>4. CASE UNCHANGED lock
    BY <1>4
  <1>5. ASSUME NEW p \in Recons, PassNext(p)
        PROVE  UNCHANGED lock
    BY <1>5, PassFrame
  <1>6. ASSUME Outside \/ UNCHANGED vars
        PROVE  UNCHANGED lock
    BY <1>6, OutsideFrame
  <1>7. ASSUME NEW o \in Orders, SettleSell(o)
        PROVE  UNCHANGED lock
    BY <1>7, SettleSellFrame
  <1> QED
    BY <1>1, <1>2, <1>3, <1>4, <1>5, <1>6, <1>7 DEF Next, Outside, RunNext

\* The runs use the lock as SingleRun describes it: taken when free, given back
\* by its owner alone, by every way out of a call, a crash included.
THEOREM RunsLock == Spec => Lock!Spec
  <1>1. Init => Lock!Init
    BY DEF Init, Lock!Init
  <1> QED BY <1>1, Invariance, LockStep, PTL DEF Spec, Lock!Spec

=============================================================================
