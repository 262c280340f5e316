--------------------------- MODULE S6EntryProofs ---------------------------
(***************************************************************************)
(* Proofs about S6Entry, for any number of symbols, workers, shares, buys  *)
(* and deaths, and any limits.                                             *)
(***************************************************************************)
EXTENDS S6Entry, FiniteSetTheorems, TLAPS

Statuses == {"none", "SUBMITTING", "ACCEPTED", "PARTIALLY_FILLED", "FILLED",
             "CANCEL_PENDING", "CANCELLED", "REJECTED", "UNKNOWN"}
Unanswered == {"SUBMITTING", "UNKNOWN", "CANCEL_PENDING"}
Unsettled == Unanswered \cup {"ACCEPTED", "PARTIALLY_FILLED"}
Sent == {b \in Buys : buy[b].at \notin {"none", "refused"}}

\* The stages of a worker that has the lock; the reads of the snapshot among
\* them, and those after the read of the positions.
Reading == {"positions", "orders", "judge", "gate"}
Seen == Reading \ {"positions"}
Tenure == Reading \cup {"row", "book", "register", "await"}

-----------------------------------------------------------------------------
(* The inductive invariant: the types, without the bound on the shares (which
   the last section adds), and what the gate needs. *)

Orders == [symbol : Symbols \cup {None}, status : Statuses, number : BOOLEAN]
BrokerBuys ==
  [at : {"none", "wire", "lost", "refused", "open", "gone"},
   filled : 0 .. Shares, published : 0 .. Shares, old : BOOLEAN]
Rows ==
  [status : {"SUBMITTED", "OPEN", "CLOSED"}, quantity : Nat,
   client : 0 .. MaxBuys, entry : 0 .. MaxBuys, traded : BOOLEAN]
WorkerStates ==
  [pc : Tenure \cup {"idle", "record"}, symbol : Symbols \cup {None},
   buy : 0 .. MaxBuys, booked : BOOLEAN, positions : [Symbols -> Nat],
   open : SUBSET Buys]
TickPcs == {"idle", "sweep", "fills", "holdings", "adopt", "open", "timeouts",
            "cancelGate", "cancelSend", "abandon", "exits"}
TickStates ==
  [pc : TickPcs, next : {"idle", "sweep", "timeouts"}, symbol : Symbols \cup {None},
   read : BOOLEAN, sweep : SUBSET Buys, old : SUBSET Buys,
   positions : [Symbols -> Nat], left : SUBSET Symbols]

Types ==
  /\ ledger \in [Buys -> Orders]
  /\ buy \in [Buys -> BrokerBuys]
  /\ row \in [Symbols -> Rows]
  /\ held \in [Symbols -> Nat]
  /\ lock \in Workers \cup {Tick, None}
  /\ worker \in [Workers -> WorkerStates]
  /\ tick \in TickStates
  /\ crashes \in 0 .. MaxCrashes

\* What the ledger says of an order and what the broker has of it.
BuyOK(b) ==
  /\ ledger[b].status = "none" => buy[b].at = "none" /\ ~ledger[b].number
  /\ ledger[b].number => buy[b].at \in {"open", "gone"}
  /\ ledger[b].status \in {"ACCEPTED", "PARTIALLY_FILLED"} => ledger[b].number
  /\ buy[b].at # "none" => ledger[b].symbol \in Symbols
  /\ buy[b].at \in {"wire", "open"} => ledger[b].status \in Unsettled
  /\ b \in Sent => ledger[b].status \notin {"none", "REJECTED"}
  /\ buy[b].at = "open" => buy[b].filled < Shares
  /\ buy[b].at \in {"none", "wire", "refused", "lost"} => buy[b].filled = 0
  /\ buy[b].published <= buy[b].filled

\* One at a time submits, or walks the rows.
TickOK == ~At("idle") => lock = Tick
Owner(w) == worker[w].pc \in Tenure => lock = w /\ Symbol(w) \in Symbols

\* The worker's own order has not left before the gate.
Own(w) ==
  worker[w].pc \in Reading \cup {"await"} =>
    /\ worker[w].buy \in Buys
    /\ ledger[worker[w].buy].symbol = Symbol(w)
    /\ ledger[worker[w].buy].status = "SUBMITTING"
    /\ ~ledger[worker[w].buy].number
    /\ (buy[worker[w].buy].at = "none") <=> (worker[w].pc # "await")

\* Who has passed the book: a buy of the symbol that came into the book
\* since then has no number yet.
Unnumbered(s) ==
  \A b \in BuysOf(s) : buy[b].at = "open" => ~ledger[b].number
Passed(w) ==
  worker[w].pc \in Reading \cup {"register"} /\ ~worker[w].booked
    => Unnumbered(Symbol(w))

\* Shares that came after the positions were read are of such a buy, which
\* the ledger still has among the pending.
Late(w) ==
  \E b \in BuysOf(Symbol(w)) \ {worker[w].buy} :
     ~ledger[b].number /\ ledger[b].status \in Unanswered
NoneHeld(w) ==
  worker[w].pc \in Seen /\ ~worker[w].booked /\ worker[w].positions[Symbol(w)] = 0
    => held[Symbol(w)] = 0 \/ Late(w)

WorkerOK(w) == Owner(w) /\ Own(w) /\ Passed(w) /\ NoneHeld(w)

IInv ==
  /\ Types
  /\ \A b \in Buys : BuyOK(b)
  /\ TickOK
  /\ \A w \in Workers : WorkerOK(w)
  /\ DailyCapHolds

-----------------------------------------------------------------------------
(* Types. *)

LEMMA BuysAreNat == Buys \subseteq Nat /\ Shares \in Nat /\ Shares # 0
BY EntryAssumption DEF Buys

LEMMA InitTypes == Init => Types
<1> SUFFICES ASSUME Init PROVE Types
  OBVIOUS
<1>1. NoOrder \in Orders
  BY DEF NoOrder, Orders, Statuses
<1>2. NoBuy \in BrokerBuys
  BY BuysAreNat DEF NoBuy, BrokerBuys
<1>3. NoRow \in Rows
  BY EntryAssumption DEF NoRow, Rows
<1>4. Nothing \in [Symbols -> Nat]
  BY DEF Nothing
<1>5. IdleWorker \in WorkerStates
  BY <1>4, EntryAssumption DEF IdleWorker, WorkerStates
<1>6. IdleTick \in TickStates
  BY <1>4 DEF IdleTick, TickStates, TickPcs
<1> QED
  BY <1>1, <1>2, <1>3, <1>4, <1>5, <1>6, EntryAssumption DEF Init, Types

LEMMA IdleTypes ==
  /\ IdleWorker \in WorkerStates /\ IdleTick \in TickStates
  /\ Nothing \in [Symbols -> Nat]
<1>1. Nothing \in [Symbols -> Nat]
  BY DEF Nothing
<1> QED
  BY <1>1, EntryAssumption DEF IdleWorker, WorkerStates, IdleTick, TickStates, TickPcs

\* An update outside the domain changes nothing.
LEMMA UpdateType ==
  ASSUME NEW D, NEW R, NEW f \in [D -> R], NEW x, NEW r, x \in D => r \in R
  PROVE  [f EXCEPT ![x] = r] \in [D -> R]
OBVIOUS

LEMMA StatusType ==
  ASSUME Types, NEW b, NEW status \in Statuses, SetStatus(b, status)
  PROVE  ledger' \in [Buys -> Orders]
<1>1. b \in Buys => [ledger[b] EXCEPT !.status = status] \in Orders
  BY DEF Types, Orders
<1>2. ledger' = [ledger EXCEPT ![b] = [ledger[b] EXCEPT !.status = status]]
  BY DEF SetStatus
<1> QED
  BY <1>1, <1>2, UpdateType DEF Types

LEMMA LedgerType ==
  ASSUME Types, Next
  PROVE  ledger' \in [Buys -> Orders]
<1>1. ledger \in [Buys -> Orders]
  BY DEF Types
<1>2. ASSUME NEW b \in Buys, Reconcile(b)
      PROVE  ledger' \in [Buys -> Orders]
  BY <1>2, StatusType DEF Reconcile, FilledStatus, Statuses
<1>3. ASSUME NEW w \in Workers, WorkerStep(w)
      PROVE  ledger' \in [Buys -> Orders]
  <2>1. worker[w] \in WorkerStates
    BY DEF Types
  <2>2. CASE Register(w)
    <3>1. PICK b \in Unregistered :
            ledger' = [ledger EXCEPT ![b] =
              [symbol |-> Symbol(w), status |-> "SUBMITTING", number |-> FALSE]]
      BY <2>2 DEF Register
    <3>2. [symbol |-> Symbol(w), status |-> "SUBMITTING", number |-> FALSE] \in Orders
      BY <2>1 DEF Orders, Statuses, WorkerStates, Symbol
    <3> QED
      BY <1>1, <3>1, <3>2, UpdateType
  <2>3. CASE Refuse(w)
    BY <2>3, StatusType DEF Refuse, Statuses
  <2>4. CASE Answered(w)
    <3>1. PICK status \in Statuses, number \in BOOLEAN, pc \in {"idle", "record"} :
            Answer(w, status, number, pc)
      BY <2>4 DEF Answered, Statuses
    <3> DEFINE b == worker[w].buy
               o == [ledger[b] EXCEPT !.status = status, !.number = number]
    <3>2. b \in Buys => o \in Orders
      BY <1>1 DEF Orders
    <3>3. ledger' = [ledger EXCEPT ![b] = o]
      BY <3>1 DEF Answer
    <3> HIDE DEF o
    <3> QED
      BY <1>1, <3>2, <3>3, UpdateType
  <2>5. CASE CheckRow(w) \/ ReadBook(w) \/ Drop(w) \/ ReadPositions(w)
             \/ ReadOrders(w) \/ Judge(w) \/ Send(w) \/ Record(w) \/ RecordFails(w)
    BY <1>1, <2>5 DEF CheckRow, ReadBook, Drop, ReadPositions, ReadOrders, Judge,
       Send, Record, RecordFails, stores
  <2> QED
    BY <1>3, <2>2, <2>3, <2>4, <2>5 DEF WorkerStep
<1>4. CASE TickStep
  <2>1. CASE CancelGate \/ CancelConfirmed \/ CancelUnconfirmed \/ CancelRaises
    BY <2>1, StatusType DEF CancelGate, CancelConfirmed, CancelUnconfirmed,
       CancelRaises, Statuses
  <2>2. CASE UNCHANGED ledger
    BY <1>1, <2>2
  <2> QED
    BY <1>4, <2>1, <2>2 DEF TickStep, EntryTimeouts, EndTick, Sweep, SyncBuyFills,
       ReadHoldings, OpenAdopted, OpenFails, AdoptDone, Adopt, AskCancel,
       CancelRefused, Abandon, TimeoutsDone, stores
<1>5. CASE UNCHANGED ledger
  BY <1>1, <1>5
<1> QED
  BY <1>2, <1>3, <1>4, <1>5 DEF Next, StartTick, TickDies, WorkerDies, Take, Dies,
     Exit, Market, Land, Fill, Publish, Lapse, Age, stores


LEMMA GoneType ==
  ASSUME Types, NEW b,
         NEW at \in {"none", "wire", "lost", "refused", "open", "gone"},
         buy' = [buy EXCEPT ![b].at = at]
  PROVE  buy' \in [Buys -> BrokerBuys]
<1>1. b \in Buys => [buy[b] EXCEPT !.at = at] \in BrokerBuys
  BY DEF Types, BrokerBuys
<1>2. buy' = [buy EXCEPT ![b] = [buy[b] EXCEPT !.at = at]]
  OBVIOUS
<1> QED
  BY <1>1, <1>2, UpdateType DEF Types

LEMMA MarketType ==
  ASSUME Types, NEW b \in Buys, BuyOK(b), Market(b)
  PROVE  buy' \in [Buys -> BrokerBuys]
<1>1. buy \in [Buys -> BrokerBuys] /\ buy[b] \in BrokerBuys /\ Shares \in Nat
  BY BuysAreNat DEF Types
<1>2. CASE Land(b) \/ Lapse(b)
  BY <1>2, GoneType DEF Land, Lapse
<1>3. CASE Fill(b)
  <2> DEFINE x == [buy[b] EXCEPT !.filled = @ + 1,
                     !.at = IF buy[b].filled + 1 = Shares THEN "gone" ELSE @]
  <2>1. buy[b].filled < Shares
    BY <1>3 DEF Fill, OpenBuys, BuyOK
  <2>2. x \in BrokerBuys
    <3> DEFINE at == IF buy[b].filled + 1 = Shares THEN "gone" ELSE buy[b].at
    <3>1. at \in {"none", "wire", "lost", "refused", "open", "gone"}
      BY <1>1 DEF BrokerBuys
    <3>2. buy[b].filled + 1 \in 0 .. Shares
      BY <1>1, <2>1 DEF BrokerBuys
    <3>3. x = [buy[b] EXCEPT !.filled = buy[b].filled + 1, !.at = at]
      OBVIOUS
    <3> HIDE DEF at, x
    <3> QED
      BY <1>1, <3>1, <3>2, <3>3 DEF BrokerBuys
  <2>3. buy' = [buy EXCEPT ![b] = x]
    BY <1>3 DEF Fill
  <2> HIDE DEF x
  <2> QED
    BY <1>1, <2>2, <2>3
<1>4. CASE Publish(b)
  <2> DEFINE x == [buy[b] EXCEPT !.published = @ + 1]
  <2>1. buy[b].published < buy[b].filled
    BY <1>4 DEF Publish
  <2>2. x \in BrokerBuys
    BY <1>1, <2>1 DEF BrokerBuys
  <2>3. buy' = [buy EXCEPT ![b] = x]
    BY <1>4 DEF Publish
  <2> HIDE DEF x
  <2> QED
    BY <1>1, <2>2, <2>3
<1>5. CASE Age(b)
  <2> DEFINE x == [buy[b] EXCEPT !.old = TRUE]
  <2>1. x \in BrokerBuys
    BY <1>1 DEF BrokerBuys
  <2>2. buy' = [buy EXCEPT ![b] = x]
    BY <1>5 DEF Age
  <2> HIDE DEF x
  <2> QED
    BY <1>1, <2>1, <2>2
<1> QED
  BY <1>2, <1>3, <1>4, <1>5 DEF Market

LEMMA BuyType ==
  ASSUME Types, \A b \in Buys : BuyOK(b), Next
  PROVE  buy' \in [Buys -> BrokerBuys]
<1>1. buy \in [Buys -> BrokerBuys]
  BY DEF Types
<1>2. ASSUME NEW b \in Buys, Market(b)
      PROVE  buy' \in [Buys -> BrokerBuys]
  BY <1>2, MarketType
<1>3. ASSUME NEW w \in Workers, Send(w)
      PROVE  buy' \in [Buys -> BrokerBuys]
  BY <1>3, GoneType DEF Send
<1>4. CASE CancelConfirmed
  BY <1>4, GoneType DEF CancelConfirmed
<1>5. CASE CancelRaises
  <2>1. PICK taken \in BOOLEAN :
          buy' = [buy EXCEPT ![Cancelled].at = IF taken THEN "gone" ELSE @]
    BY <1>5 DEF CancelRaises
  <2>2. CASE taken
    BY <2>1, <2>2, GoneType
  <2>3. CASE ~taken
    <3> DEFINE x == [buy[Cancelled] EXCEPT !.at = buy[Cancelled].at]
    <3>1. Cancelled \in Buys => x \in BrokerBuys
      BY <1>1 DEF BrokerBuys
    <3>2. buy' = [buy EXCEPT ![Cancelled] = x]
      BY <2>1, <2>3
    <3> HIDE DEF x
    <3> QED
      BY <1>1, <3>1, <3>2, UpdateType
  <2> QED
    BY <2>2, <2>3
<1>6. CASE UNCHANGED buy
  BY <1>1, <1>6
<1>7. ASSUME NEW w \in Workers, WorkerStep(w), ~Send(w)
      PROVE  UNCHANGED buy
  BY <1>7 DEF WorkerStep, CheckRow, ReadBook, Drop, Register, ReadPositions,
     ReadOrders, Judge, Refuse, Answered, Record, RecordFails, broker
<1>8. CASE TickStep /\ ~CancelConfirmed /\ ~CancelRaises
  BY <1>6, <1>8 DEF TickStep, EntryTimeouts, EndTick, Sweep, SyncBuyFills,
     ReadHoldings, OpenAdopted, OpenFails, AdoptDone, Adopt, AskCancel, CancelGate,
     CancelUnconfirmed, CancelRefused, Abandon, TimeoutsDone, broker, CancelGoesOn
<1>9. CASE \/ StartTick \/ TickDies \/ \E s \in Symbols : Exit(s)
           \/ \E b \in Buys : Reconcile(b)
           \/ \E w \in Workers : WorkerDies(w) \/ \E s \in Symbols : Take(w, s)
  BY <1>6, <1>9 DEF StartTick, TickDies, Exit, Reconcile, WorkerDies, Take, Dies, broker
<1> QED
  BY <1>2, <1>3, <1>4, <1>5, <1>6, <1>7, <1>8, <1>9 DEF Next

LEMMA HeldType ==
  ASSUME Types, Next
  PROVE  held' \in [Symbols -> Nat]
<1>1. held \in [Symbols -> Nat] /\ row \in [Symbols -> Rows]
  BY DEF Types
<1>2. ASSUME NEW b \in Buys, Fill(b)
      PROVE  held' \in [Symbols -> Nat]
  <2> DEFINE s == ledger[b].symbol
             n == held[s] + 1
  <2>1. s \in Symbols => n \in Nat
    BY <1>1
  <2>2. held' = [held EXCEPT ![s] = n]
    BY <1>2 DEF Fill
  <2> HIDE DEF n, s
  <2> QED
    BY <1>1, <2>1, <2>2, UpdateType
<1>3. ASSUME NEW s \in Symbols, Exit(s)
      PROVE  held' \in [Symbols -> Nat]
  <2>1. held[s] \in Nat /\ row[s].quantity \in Nat /\ row[s].quantity <= held[s]
    BY <1>1, <1>3 DEF Exit, Rows
  <2>2. held[s] - row[s].quantity \in Nat
    BY <2>1
  <2> QED
    BY <1>1, <1>3, <2>2 DEF Exit
<1>4. CASE UNCHANGED held
  BY <1>1, <1>4
<1>5. ASSUME NEW w \in Workers, WorkerStep(w)
      PROVE  UNCHANGED held
  BY <1>5 DEF WorkerStep, CheckRow, ReadBook, Drop, Register, ReadPositions,
     ReadOrders, Judge, Send, Refuse, Answered, Record, RecordFails, broker
<1>6. CASE TickStep
  BY <1>4, <1>6 DEF TickStep, EntryTimeouts, EndTick, Sweep, SyncBuyFills,
     ReadHoldings, OpenAdopted, OpenFails, AdoptDone, Adopt, AskCancel, CancelGate,
     CancelUnconfirmed, CancelConfirmed, CancelRaises, CancelRefused, Abandon,
     TimeoutsDone, broker, CancelGoesOn
<1>7. ASSUME NEW b \in Buys, Market(b) \/ Reconcile(b), ~Fill(b)
      PROVE  UNCHANGED held
  BY <1>7 DEF Reconcile, Market, Land, Publish, Lapse, Age, broker
<1>8. CASE \/ StartTick \/ TickDies
           \/ \E w \in Workers : WorkerDies(w) \/ \E s \in Symbols : Take(w, s)
  BY <1>4, <1>8 DEF StartTick, TickDies, WorkerDies, Take, Dies, broker
<1> QED
  BY <1>2, <1>3, <1>4, <1>5, <1>6, <1>7, <1>8 DEF Next


\* The larger of two quantities is one of them.
LEMMA LargerIsOne ==
  ASSUME NEW x \in Nat, NEW y \in Nat
  PROVE  Max({x, y}) \in {x, y}
<1>1. \E z \in {x, y} : \A t \in {x, y} : z >= t
  <2>1. CASE x >= y
    BY <2>1
  <2>2. CASE y >= x
    BY <2>2
  <2> QED
    BY <2>1, <2>2
<1> QED
  BY <1>1 DEF Max

LEMMA LargerType ==
  ASSUME NEW x \in Nat, NEW y \in Nat
  PROVE  Max({x, y}) \in Nat
BY LargerIsOne

LEMMA SyncedType ==
  ASSUME Types, NEW s \in Symbols, NEW answers, NEW book
  PROVE  Synced(s, answers, book) \in Rows
<1> DEFINE b == CHOOSE x \in OrderOf(s) : TRUE
<1>1. row[s] \in Rows /\ buy \in [Buys -> BrokerBuys]
  BY DEF Types
<1>2. OrderOf(s) \subseteq Buys
  BY <1>1, BuysAreNat, EntryAssumption DEF OrderOf, Buys, Rows
<1>3. OrderOf(s) # {} => b \in Buys /\ b \in 0 .. MaxBuys
  BY <1>2 DEF Buys
<1>4. OrderOf(s) # {} => buy[b].published \in Nat
  BY <1>1, <1>3, BuysAreNat DEF BrokerBuys
<1> HIDE DEF b
<1>5. OrderOf(s) # {} => Applied(s, b) \in Rows
  <2> SUFFICES ASSUME OrderOf(s) # {} PROVE Applied(s, b) \in Rows
    OBVIOUS
  <2>1. row[s].quantity \in Nat
    BY <1>1 DEF Rows
  <2> DEFINE q == Max({row[s].quantity, buy[b].published})
  <2>2. q \in Nat
    BY <1>4, <2>1, LargerType
  <2> HIDE DEF q
  <2>3. [row[s] EXCEPT !.quantity = q] \in Rows
    BY <1>1, <2>2 DEF Rows
  <2>4. [row[s] EXCEPT !.status = "OPEN", !.entry = b,
                       !.quantity = buy[b].published] \in Rows
    BY <1>1, <1>3, <1>4 DEF Rows
  <2> QED
    BY <2>3, <2>4 DEF Applied, q
<1>6. [row[s] EXCEPT !.status = "CLOSED"] \in Rows
  BY <1>1 DEF Rows
<1> QED
  BY <1>1, <1>5, <1>6 DEF Synced, b

LEMMA RowType ==
  ASSUME Types, Next
  PROVE  row' \in [Symbols -> Rows]
<1>1. row \in [Symbols -> Rows] /\ tick \in TickStates
  BY DEF Types
<1>2. ASSUME NEW w \in Workers, Record(w)
      PROVE  row' \in [Symbols -> Rows]
  <2> DEFINE s == Symbol(w)
             r == [status |-> "SUBMITTED", quantity |-> 0, client |-> worker[w].buy,
                   entry |-> 0, traded |-> row[s].traded]
  <2>1. worker[w].buy \in 0 .. MaxBuys
    BY DEF Types, WorkerStates
  <2>2. s \in Symbols => r \in Rows
    BY <1>1, <2>1, EntryAssumption DEF Rows
  <2>3. row' = [row EXCEPT ![s] = r]
    BY <1>2 DEF Record
  <2> HIDE DEF r, s
  <2> QED
    BY <1>1, <2>2, <2>3, UpdateType
<1>3. ASSUME NEW answers \in SUBSET Symbols, SyncBuyFills(answers)
      PROVE  row' \in [Symbols -> Rows]
  BY <1>3, SyncedType DEF SyncBuyFills
<1>4. ASSUME NEW s \in Symbols, Adopt(s)
      PROVE  row' \in [Symbols -> Rows]
  <2> DEFINE r == [row[s] EXCEPT !.status = "SUBMITTED", !.quantity = 0, !.entry = 0]
  <2>1. r \in Rows
    <3>1. row[s] \in Rows /\ 0 \in Nat /\ 0 \in 0 .. MaxBuys
      BY <1>1, EntryAssumption
    <3> QED
      BY <3>1 DEF Rows
  <2>2. row' = [row EXCEPT ![s] = r]
    BY <1>4 DEF Adopt
  <2> HIDE DEF r
  <2> QED
    BY <1>1, <2>1, <2>2, UpdateType
<1>5. CASE OpenAdopted
  <2> DEFINE s == tick.symbol
  <2>1. PICK b \in FilledBuys(s) :
          row' = [row EXCEPT ![s].status = "OPEN",
                             ![s].quantity = tick.positions[s], ![s].entry = b]
    BY <1>5 DEF OpenAdopted
  <2> DEFINE r == [row[s] EXCEPT !.status = "OPEN",
                     !.quantity = tick.positions[s], !.entry = b]
  <2>2. b \in 0 .. MaxBuys
    BY <2>1 DEF FilledBuys, BuysOf, Buys
  <2>3. s \in Symbols => r \in Rows
    <3> SUFFICES ASSUME s \in Symbols PROVE r \in Rows
      OBVIOUS
    <3> DEFINE q == tick.positions[s]
    <3>1. q \in Nat
      BY <1>1 DEF TickStates
    <3>2. row[s] \in Rows
      BY <1>1
    <3>3. r = [row[s] EXCEPT !.status = "OPEN", !.quantity = q, !.entry = b]
      OBVIOUS
    <3> HIDE DEF q, r
    <3> QED
      BY <2>2, <3>1, <3>2, <3>3 DEF Rows
  <2>4. row' = [row EXCEPT ![s] = r]
    BY <2>1
  <2> HIDE DEF r, s
  <2> QED
    BY <1>1, <2>3, <2>4, UpdateType
<1>6. CASE Abandon
  <2> DEFINE s == tick.symbol
             r == [row[s] EXCEPT !.status = "CLOSED"]
  <2>1. s \in Symbols => r \in Rows
    BY <1>1 DEF Rows
  <2>2. row' = [row EXCEPT ![s] = r] \/ row' = row
    BY <1>6 DEF Abandon, CloseRow
  <2> HIDE DEF r, s
  <2> QED
    BY <1>1, <2>1, <2>2, UpdateType
<1>7. ASSUME NEW s \in Symbols, Exit(s)
      PROVE  row' \in [Symbols -> Rows]
  <2> DEFINE r == [row[s] EXCEPT !.status = "CLOSED", !.traded = TRUE]
  <2>1. r \in Rows
    BY <1>1 DEF Rows
  <2>2. row' = [row EXCEPT ![s] = r]
    BY <1>7 DEF Exit
  <2> HIDE DEF r
  <2> QED
    BY <1>1, <2>1, <2>2, UpdateType
<1>8. CASE UNCHANGED row
  BY <1>1, <1>8
<1>9. ASSUME NEW w \in Workers, WorkerStep(w), ~Record(w)
      PROVE  UNCHANGED row
  BY <1>9 DEF WorkerStep, CheckRow, ReadBook, Drop, Register, ReadPositions,
     ReadOrders, Judge, Send, Refuse, Answered, RecordFails, stores
<1>10. CASE EndTick \/ (\E read \in BOOLEAN : Sweep(read)) \/ ReadHoldings
            \/ OpenFails \/ AdoptDone \/ (EntryTimeouts /\ ~Abandon)
  BY <1>8, <1>10 DEF EntryTimeouts, EndTick, Sweep, ReadHoldings, OpenFails,
     AdoptDone, AskCancel, CancelGate, CancelUnconfirmed, CancelConfirmed,
     CancelRaises, CancelRefused, TimeoutsDone, stores, CancelGoesOn
<1>11. ASSUME NEW b \in Buys, Market(b) \/ Reconcile(b)
       PROVE  UNCHANGED row
  BY <1>11 DEF Reconcile, Market, Land, Fill, Publish, Lapse, Age, stores
<1>12. CASE \/ StartTick \/ TickDies
            \/ \E w \in Workers : WorkerDies(w) \/ \E s \in Symbols : Take(w, s)
  BY <1>8, <1>12 DEF StartTick, TickDies, WorkerDies, Take, Dies, stores
<1> QED
  BY <1>2, <1>3, <1>4, <1>5, <1>6, <1>7, <1>8, <1>9, <1>10, <1>11, <1>12
  DEF Next, TickStep


\* Every step of a worker leaves it in one of the worker's states.
LEMMA WorkerType ==
  ASSUME Types, Next
  PROVE  worker' \in [Workers -> WorkerStates]
<1>1. /\ worker \in [Workers -> WorkerStates]
      /\ IdleWorker \in WorkerStates /\ held \in [Symbols -> Nat]
  BY IdleTypes DEF Types
<1>2. ASSUME NEW w, NEW r \in WorkerStates, worker' = [worker EXCEPT ![w] = r]
      PROVE  worker' \in [Workers -> WorkerStates]
  BY <1>1, <1>2
<1>3. ASSUME NEW w \in Workers, NEW pc \in Tenure \cup {"record"}, WorkerGoto(w, pc)
      PROVE  worker' \in [Workers -> WorkerStates]
  <2> DEFINE r == [worker[w] EXCEPT !.pc = pc]
  <2>1. r \in WorkerStates
    BY <1>1 DEF WorkerStates
  <2>2. worker' = [worker EXCEPT ![w] = r]
    BY <1>3 DEF WorkerGoto
  <2> HIDE DEF r
  <2> QED
    BY <1>2, <2>1, <2>2
<1>4. ASSUME NEW w \in Workers, WorkerEnds(w)
      PROVE  worker' \in [Workers -> WorkerStates]
  BY <1>1, <1>2, <1>4 DEF WorkerEnds
<1>5. ASSUME NEW w \in Workers, NEW s \in Symbols, Take(w, s)
      PROVE  worker' \in [Workers -> WorkerStates]
  <2> DEFINE r == [IdleWorker EXCEPT !.pc = "row", !.symbol = s]
  <2>1. r \in WorkerStates
    BY <1>1 DEF WorkerStates, Tenure
  <2>2. worker' = [worker EXCEPT ![w] = r]
    BY <1>5 DEF Take
  <2> HIDE DEF r
  <2> QED
    BY <1>2, <2>1, <2>2
<1>6. ASSUME NEW w \in Workers, ReadBook(w) \/ Register(w) \/ ReadPositions(w)
                                \/ ReadOrders(w)
      PROVE  worker' \in [Workers -> WorkerStates]
  <2>1. worker[w] \in WorkerStates
    BY <1>1
  <2>2. CASE ReadBook(w)
    <3> DEFINE r == [worker[w] EXCEPT !.pc = "register",
                       !.booked = BuysOf(Symbol(w)) \cap OpenBuys # {}]
    <3>1. r \in WorkerStates
      BY <2>1 DEF WorkerStates, Tenure
    <3>2. worker' = [worker EXCEPT ![w] = r]
      BY <2>2 DEF ReadBook
    <3> HIDE DEF r
    <3> QED
      BY <1>2, <3>1, <3>2
  <2>3. CASE Register(w)
    <3>1. PICK b \in Unregistered :
            worker' = [worker EXCEPT ![w].pc = "positions", ![w].buy = b]
      BY <2>3 DEF Register
    <3> DEFINE r == [worker[w] EXCEPT !.pc = "positions", !.buy = b]
    <3>2. b \in 0 .. MaxBuys
      BY DEF Unregistered, Buys
    <3>3. r \in WorkerStates
      BY <2>1, <3>2 DEF WorkerStates, Tenure, Reading
    <3>4. worker' = [worker EXCEPT ![w] = r]
      BY <3>1
    <3> HIDE DEF r
    <3> QED
      BY <1>2, <3>3, <3>4
  <2>4. CASE ReadPositions(w)
    <3> DEFINE r == [worker[w] EXCEPT !.pc = "orders", !.positions = held]
    <3>1. r \in WorkerStates
      BY <1>1, <2>1 DEF WorkerStates, Tenure, Reading
    <3>2. worker' = [worker EXCEPT ![w] = r]
      BY <2>4 DEF ReadPositions
    <3> HIDE DEF r
    <3> QED
      BY <1>2, <3>1, <3>2
  <2>5. CASE ReadOrders(w)
    <3> DEFINE r == [worker[w] EXCEPT !.pc = "judge", !.open = OpenBuys]
    <3>1. OpenBuys \subseteq Buys
      BY DEF OpenBuys
    <3>2. r \in WorkerStates
      BY <2>1, <3>1 DEF WorkerStates, Tenure, Reading
    <3>3. worker' = [worker EXCEPT ![w] = r]
      BY <2>5 DEF ReadOrders
    <3> HIDE DEF r
    <3> QED
      BY <1>2, <3>2, <3>3
  <2> QED
    BY <1>6, <2>2, <2>3, <2>4, <2>5
<1>7. ASSUME NEW w \in Workers, Send(w)
      PROVE  worker' \in [Workers -> WorkerStates]
  <2> DEFINE r == [IdleWorker EXCEPT !.pc = "await", !.symbol = Symbol(w),
                                     !.buy = worker[w].buy]
  <2>1. worker[w] \in WorkerStates
    BY <1>1
  <2>2. r \in WorkerStates
    BY <1>1, <2>1 DEF WorkerStates, Tenure, Symbol
  <2>3. worker' = [worker EXCEPT ![w] = r]
    BY <1>7 DEF Send
  <2> HIDE DEF r
  <2> QED
    BY <1>2, <2>2, <2>3
<1>8. ASSUME NEW w \in Workers, Answered(w)
      PROVE  WorkerEnds(w) \/ WorkerGoto(w, "record")
  BY <1>8 DEF Answered, Answer
<1>9. ASSUME NEW w \in Workers, WorkerStep(w)
      PROVE  worker' \in [Workers -> WorkerStates]
  <2>1. CASE CheckRow(w) \/ Judge(w)
    BY <1>3, <2>1 DEF CheckRow, Judge, Tenure, Reading
  <2>2. CASE Drop(w) \/ Refuse(w) \/ Record(w) \/ RecordFails(w)
    BY <1>4, <2>2 DEF Drop, Refuse, Record, RecordFails
  <2> QED
    BY <1>3, <1>4, <1>6, <1>7, <1>8, <1>9, <2>1, <2>2 DEF WorkerStep
<1>10. CASE UNCHANGED worker
  BY <1>1, <1>10
<1>11. CASE TickStep \/ StartTick \/ TickDies \/ \E s \in Symbols : Exit(s)
  BY <1>10, <1>11 DEF StartTick, TickDies, Exit, TickStep, EntryTimeouts, EndTick,
     Sweep, SyncBuyFills, ReadHoldings, OpenAdopted, OpenFails, AdoptDone, Adopt,
     AskCancel, CancelGate, CancelUnconfirmed, CancelConfirmed, CancelRaises,
     CancelRefused, Abandon, TimeoutsDone, CancelGoesOn
<1>12. ASSUME NEW b \in Buys, Market(b) \/ Reconcile(b)
       PROVE  UNCHANGED worker
  BY <1>12 DEF Reconcile, Market, Land, Fill, Publish, Lapse, Age
<1>13. ASSUME NEW w \in Workers, WorkerDies(w)
       PROVE  WorkerEnds(w)
  BY <1>13 DEF WorkerDies
<1> QED
  BY <1>4, <1>5, <1>9, <1>10, <1>11, <1>12, <1>13 DEF Next


\* So does every step of the tick.
LEMMA TickType ==
  ASSUME Types, Next
  PROVE  tick' \in TickStates
<1>1. /\ tick \in TickStates /\ IdleTick \in TickStates
      /\ held \in [Symbols -> Nat]
  BY IdleTypes DEF Types
<1>2. ASSUME NEW pc \in TickPcs, Goto(pc)
      PROVE  tick' \in TickStates
  BY <1>1, <1>2 DEF Goto, TickStates
<1>3. CASE StartTick
  BY <1>1, <1>3 DEF StartTick, TickStates, TickPcs
<1>4. CASE EndTick \/ TickDies
  BY <1>1, <1>4 DEF EndTick, TickDies
<1>5. ASSUME NEW read \in BOOLEAN, Sweep(read)
      PROVE  tick' \in TickStates
  <2>1. OpenBuys \in SUBSET Buys /\ {} \in SUBSET Buys
        /\ {b \in Buys : buy[b].old} \in SUBSET Buys
    BY DEF OpenBuys
  <2> DEFINE sweep == IF read THEN OpenBuys ELSE {}
             old == {b \in Buys : buy[b].old}
  <2>2. sweep \in SUBSET Buys /\ old \in SUBSET Buys
    BY <2>1
  <2>3. tick' = [tick EXCEPT !.pc = "fills", !.read = read, !.sweep = sweep,
                             !.old = old]
    BY <1>5 DEF Sweep
  <2> HIDE DEF sweep, old
  <2> QED
    BY <1>1, <2>2, <2>3 DEF TickStates, TickPcs
<1>6. ASSUME NEW answers \in SUBSET Symbols, SyncBuyFills(answers)
      PROVE  tick' \in TickStates
  BY <1>1, <1>6 DEF SyncBuyFills, TickStates, TickPcs
<1>7. CASE ReadHoldings
  <2>1. Symbols \in SUBSET Symbols
    OBVIOUS
  <2> QED
    BY <1>1, <1>7, <2>1 DEF ReadHoldings, TickStates, TickPcs
<1>8. ASSUME NEW s \in Symbols, Adopt(s) \/ AskCancel(s)
      PROVE  tick' \in TickStates
  <2>1. tick.left \ {s} \in SUBSET Symbols
    BY <1>1 DEF TickStates
  <2> QED
    BY <1>1, <1>8, <2>1 DEF Adopt, AskCancel, TickStates, TickPcs
<1>9. CASE AdoptDone
  <2> DEFINE left == {s \in Symbols : Unfilled(s)}
  <2>1. left \in SUBSET Symbols
    OBVIOUS
  <2>2. tick' = [IdleTick EXCEPT !.pc = tick.next, !.left = left]
    BY <1>9 DEF AdoptDone
  <2> HIDE DEF left
  <2> QED
    BY <1>1, <2>1, <2>2 DEF TickStates, TickPcs
<1>10. CASE \E pc \in TickPcs : Goto(pc)
  BY <1>2, <1>10
<1>11. CASE OpenAdopted \/ OpenFails \/ (EntryTimeouts /\ ~\E s \in Symbols : AskCancel(s))
  BY <1>10, <1>11 DEF OpenAdopted, OpenFails, EntryTimeouts, CancelGate, CancelRefused,
     CancelConfirmed, CancelUnconfirmed, CancelRaises, Abandon, TimeoutsDone,
     CancelGoesOn, TickPcs
<1>12. CASE UNCHANGED tick
  BY <1>1, <1>12
<1>13. ASSUME NEW w \in Workers,
              WorkerStep(w) \/ WorkerDies(w) \/ \E s \in Symbols : Take(w, s)
       PROVE  UNCHANGED tick
  BY <1>13 DEF WorkerStep, CheckRow, ReadBook, Drop, Register, ReadPositions,
     ReadOrders, Judge, Send, Refuse, Answered, Record, RecordFails, WorkerDies, Take
<1>14. ASSUME NEW b \in Buys, Market(b) \/ Reconcile(b)
       PROVE  UNCHANGED tick
  BY <1>14 DEF Reconcile, Market, Land, Fill, Publish, Lapse, Age
<1>15. ASSUME NEW s \in Symbols, Exit(s)
       PROVE  UNCHANGED tick
  BY <1>15 DEF Exit
<1> QED
  BY <1>3, <1>4, <1>5, <1>6, <1>7, <1>8, <1>9, <1>11, <1>12, <1>13, <1>14, <1>15
  DEF Next, TickStep, EntryTimeouts

\* The lock and the deaths.
LEMMA LockType ==
  ASSUME Types, Next
  PROVE  lock' \in Workers \cup {Tick, None} /\ crashes' \in 0 .. MaxCrashes
<1>1. lock \in Workers \cup {Tick, None} /\ crashes \in 0 .. MaxCrashes
      /\ MaxCrashes \in Nat
  BY EntryAssumption DEF Types
<1>2. ASSUME NEW p, Dies(p)
      PROVE  lock' \in {lock, None} /\ crashes' \in 0 .. MaxCrashes
  BY <1>1, <1>2 DEF Dies
<1>3. ASSUME NEW w \in Workers, WorkerStep(w)
      PROVE  lock' \in {lock, None} /\ UNCHANGED crashes
  BY <1>3 DEF WorkerStep, CheckRow, ReadBook, Drop, Register, ReadPositions,
     ReadOrders, Judge, Send, Refuse, Answered, Record, RecordFails
<1>4. CASE TickStep
  BY <1>1, <1>4 DEF TickStep, EntryTimeouts, EndTick,
     Sweep, SyncBuyFills, ReadHoldings, OpenAdopted, OpenFails, AdoptDone, Adopt,
     AskCancel, CancelGate, CancelUnconfirmed, CancelConfirmed, CancelRaises,
     CancelRefused, Abandon, TimeoutsDone, CancelGoesOn
<1>5. CASE StartTick \/ \E s \in Symbols : Exit(s) \/ \E w \in Workers : Take(w, s)
  BY <1>1, <1>5 DEF StartTick, Exit, Take
<1>6. ASSUME NEW b \in Buys, Market(b) \/ Reconcile(b)
      PROVE  UNCHANGED <<lock, crashes>>
  BY <1>6 DEF Reconcile, Market, Land, Fill, Publish, Lapse, Age
<1>7. ASSUME NEW w \in Workers, WorkerDies(w)
      PROVE  Dies(w)
  BY <1>7 DEF WorkerDies
<1>8. TickDies => Dies(Tick)
  BY DEF TickDies
<1> QED
  BY <1>1, <1>2, <1>3, <1>4, <1>5, <1>6, <1>7, <1>8 DEF Next

LEMMA NextTypes ==
  ASSUME Types, \A b \in Buys : BuyOK(b), Next
  PROVE  Types'
BY LedgerType, BuyType, RowType, HeldType, WorkerType, TickType, LockType DEF Types


-----------------------------------------------------------------------------
(* The steps. *)

Quiet == UNCHANGED <<ledger, buy, held>>
Cancels == CancelGate \/ CancelConfirmed \/ CancelUnconfirmed \/ CancelRaises
Bookings(w) == Register(w) \/ Send(w) \/ Refuse(w) \/ Answered(w)

\* Most steps touch neither the ledger nor the broker.
LEMMA QuietWorker ==
  ASSUME NEW w \in Workers, WorkerStep(w), ~Bookings(w)
  PROVE  Quiet
BY DEF WorkerStep, Bookings, Quiet, CheckRow, ReadBook, Drop, ReadPositions,
   ReadOrders, Judge, Record, RecordFails, broker, stores

LEMMA QuietTick ==
  ASSUME TickStep, ~Cancels
  PROVE  Quiet
BY DEF TickStep, Cancels, Quiet, EntryTimeouts, EndTick, Sweep, SyncBuyFills,
   ReadHoldings, OpenAdopted, OpenFails, AdoptDone, Adopt, AskCancel,
   CancelRefused, Abandon, TimeoutsDone, CancelGoesOn, broker, stores

LEMMA QuietOthers ==
  ASSUME \/ StartTick \/ TickDies
         \/ \E w \in Workers : WorkerDies(w) \/ \E s \in Symbols : Take(w, s)
  PROVE  Quiet
BY DEF Quiet, StartTick, TickDies, WorkerDies, Take, Dies, broker, stores

\* An order of which only the status moves, from one that it may leave.
LEMMA StatusMoves ==
  ASSUME Types, NEW b, NEW status \in Statuses, SetStatus(b, status), UNCHANGED buy,
         b \in Buys =>
           /\ BuyOK(b)
           /\ status # "none"
           /\ status \in {"ACCEPTED", "PARTIALLY_FILLED"} => ledger[b].number
           /\ buy[b].at \in {"wire", "open"} => status \in Unsettled
           /\ b \in Sent => status # "REJECTED",
         NEW c \in Buys, BuyOK(c)
  PROVE  BuyOK(c)'
<1>1. ledger \in [Buys -> Orders]
  BY DEF Types
<1>2. CASE c = b
  <2>1. /\ ledger'[c].status = status /\ ledger'[c].number = ledger[c].number
        /\ ledger'[c].symbol = ledger[c].symbol
    BY <1>1, <1>2 DEF SetStatus, Orders
  <2> QED
    BY <1>2, <2>1 DEF BuyOK, Sent
<1>3. CASE c # b
  <2>1. ledger'[c] = ledger[c]
    BY <1>1, <1>3 DEF SetStatus
  <2> QED
    BY <2>1 DEF BuyOK, Sent
<1> QED
  BY <1>2, <1>3

LEMMA MarketBuys ==
  ASSUME Types, NEW b \in Buys, Market(b), BuyOK(b), NEW c \in Buys, BuyOK(c)
  PROVE  BuyOK(c)'
<1>1. /\ buy \in [Buys -> BrokerBuys] /\ buy[b] \in BrokerBuys
      /\ UNCHANGED ledger /\ Shares \in Nat /\ Shares # 0
      /\ buy[b].filled \in Nat /\ buy[b].published \in Nat
  BY BuysAreNat DEF Types, Market, Land, Fill, Publish, Lapse, Age, stores, BrokerBuys
<1>2. CASE c # b
  <2>1. buy'[c] = buy[c]
    BY <1>1, <1>2 DEF Market, Land, Fill, Publish, Lapse, Age
  <2> QED
    BY <1>1, <2>1 DEF BuyOK, Sent
<1>3. CASE c = b /\ Land(b)
  <2>1. /\ buy[b].at = "wire" /\ buy'[b].at \in {"open", "refused", "lost"}
        /\ buy'[b].filled = buy[b].filled /\ buy'[b].published = buy[b].published
    BY <1>1, <1>3 DEF Land, BrokerBuys
  <2>2. buy[b].filled = 0
    BY <2>1 DEF BuyOK
  <2>3. buy'[b].filled < Shares
    BY <1>1, <2>1, <2>2
  <2> QED
    BY <1>1, <1>3, <2>1, <2>2, <2>3 DEF BuyOK, Sent
<1>4. CASE c = b /\ Fill(b)
  <2>1. /\ buy[b].at = "open" /\ buy'[b].filled = buy[b].filled + 1
        /\ buy'[b].published = buy[b].published
        /\ buy'[b].at = IF buy[b].filled + 1 = Shares THEN "gone" ELSE "open"
    BY <1>1, <1>4 DEF Fill, OpenBuys, BrokerBuys
  <2>2. buy[b].filled < Shares /\ buy[b].published <= buy[b].filled
    BY <2>1 DEF BuyOK
  <2>3. /\ buy'[b].at = "open" => buy'[b].filled < Shares
        /\ buy'[b].published <= buy'[b].filled /\ buy'[b].at \in {"open", "gone"}
    BY <1>1, <2>1, <2>2
  <2> QED
    BY <1>1, <1>4, <2>1, <2>3 DEF BuyOK, Sent
<1>5. CASE c = b /\ Publish(b)
  <2>1. /\ buy'[b].at = buy[b].at /\ buy'[b].filled = buy[b].filled
        /\ buy'[b].published = buy[b].published + 1
        /\ buy[b].published < buy[b].filled
    BY <1>1, <1>5 DEF Publish, BrokerBuys
  <2>2. buy'[b].published <= buy'[b].filled
    BY <1>1, <2>1
  <2> QED
    BY <1>1, <1>5, <2>1, <2>2 DEF BuyOK, Sent
<1>6. CASE c = b /\ Lapse(b)
  <2>1. /\ buy[b].at = "open" /\ buy'[b].at = "gone"
        /\ buy'[b].filled = buy[b].filled /\ buy'[b].published = buy[b].published
    BY <1>1, <1>6 DEF Lapse, OpenBuys, BrokerBuys
  <2> QED
    BY <1>1, <1>6, <2>1 DEF BuyOK, Sent
<1>7. CASE c = b /\ Age(b)
  <2>1. /\ buy'[b].at = buy[b].at
        /\ buy'[b].filled = buy[b].filled /\ buy'[b].published = buy[b].published
    BY <1>1, <1>7 DEF Age, BrokerBuys
  <2> QED
    BY <1>1, <1>7, <2>1 DEF BuyOK, Sent
<1> QED
  BY <1>2, <1>3, <1>4, <1>5, <1>6, <1>7 DEF Market

LEMMA ReconcileBuys ==
  ASSUME Types, NEW b \in Buys, Reconcile(b), BuyOK(b), NEW c \in Buys, BuyOK(c)
  PROVE  BuyOK(c)'
<1>1. UNCHANGED buy /\ ledger[b].number
  BY DEF Reconcile, broker
<1>2. /\ buy \in [Buys -> BrokerBuys] /\ buy[b].filled \in Nat
      /\ buy[b].published \in Nat /\ Shares \in Nat
  BY BuysAreNat DEF Types, BrokerBuys
<1>3. buy[b].published = Shares => buy[b].at \notin {"wire", "open"}
  BY <1>1, <1>2 DEF BuyOK
<1>4. PICK status \in {FilledStatus(b), "ACCEPTED"} : SetStatus(b, status)
  BY DEF Reconcile
<1>5. /\ status \in {"FILLED", "PARTIALLY_FILLED", "ACCEPTED"}
      /\ status = "FILLED" => buy[b].published = Shares
  BY <1>4 DEF FilledStatus
<1> QED
  BY <1>1, <1>3, <1>4, <1>5, StatusMoves DEF Statuses, Unsettled, Unanswered


LEMMA BookingBuys ==
  ASSUME Types, NEW w \in Workers, Own(w), Owner(w), Bookings(w),
         \A b \in Buys : BuyOK(b), NEW c \in Buys
  PROVE  BuyOK(c)'
<1> DEFINE b == worker[w].buy
<1>1. ledger \in [Buys -> Orders] /\ buy \in [Buys -> BrokerBuys] /\ BuyOK(c)
  BY DEF Types
<1>2. CASE Register(w)
  <2>1. PICK n \in Unregistered :
          ledger' = [ledger EXCEPT ![n] =
            [symbol |-> Symbol(w), status |-> "SUBMITTING", number |-> FALSE]]
    BY <1>2 DEF Register
  <2>2. UNCHANGED buy
    BY <1>2 DEF Register, broker
  <2>3. CASE c = n
    <3>1. buy[c].at = "none"
      BY <1>1, <2>3 DEF Unregistered, BuyOK
    <3>2. ledger'[c] = [symbol |-> Symbol(w), status |-> "SUBMITTING", number |-> FALSE]
      BY <1>1, <2>1, <2>3
    <3> QED
      BY <1>1, <2>2, <3>1, <3>2 DEF BuyOK, Sent
  <2>4. CASE c # n
    <3>1. ledger'[c] = ledger[c]
      BY <1>1, <2>1, <2>4
    <3> QED
      BY <1>1, <2>2, <3>1 DEF BuyOK, Sent
  <2> QED
    BY <2>3, <2>4
<1>3. ASSUME worker[w].pc \in Reading \cup {"await"}
      PROVE  /\ b \in Buys /\ ledger[b].status = "SUBMITTING" /\ ~ledger[b].number
             /\ (buy[b].at = "none") <=> (worker[w].pc # "await")
             /\ ledger[b].symbol \in Symbols /\ BuyOK(b)
  BY <1>3 DEF Own, Owner, Tenure
<1>4. CASE Refuse(w)
  <2>1. SetStatus(b, "REJECTED") /\ UNCHANGED buy /\ worker[w].pc \in Reading
    BY <1>4 DEF Refuse, broker, Reading
  <2>2. b \in Buys /\ buy[b].at = "none" /\ BuyOK(b)
    BY <1>3, <2>1 DEF Reading
  <2> QED
    BY <1>1, <2>1, <2>2, StatusMoves DEF Statuses, Sent
<1>5. CASE Answered(w)
  <2>1. worker[w].pc = "await" /\ UNCHANGED buy
    BY <1>5 DEF Answered, broker
  <2>2. PICK status \in {"ACCEPTED", "UNKNOWN", "REJECTED"}, number \in BOOLEAN :
          /\ ledger' = [ledger EXCEPT ![b].status = status, ![b].number = number]
          /\ number => buy[b].at \in {"open", "gone"}
          /\ status = "ACCEPTED" => number
          /\ status = "REJECTED" => buy[b].at = "refused"
    <3>1. ASSUME NEW status, NEW number, NEW pc, Answer(w, status, number, pc)
          PROVE  ledger' = [ledger EXCEPT ![b].status = status, ![b].number = number]
      BY <3>1 DEF Answer
    <3> QED
      BY <1>5, <3>1 DEF Answered
  <2>3. CASE c # b
    <3>1. ledger'[c] = ledger[c]
      BY <1>1, <2>2, <2>3
    <3> QED
      BY <1>1, <2>1, <3>1 DEF BuyOK, Sent
  <2>4. CASE c = b
    <3>1. /\ ledger'[c].status = status /\ ledger'[c].number = number
          /\ ledger'[c].symbol = ledger[c].symbol
      BY <1>1, <2>2, <2>4 DEF Orders
    <3>2. BuyOK(c)
      BY <1>1
    <3> QED
      BY <2>1, <2>2, <2>4, <3>1, <3>2 DEF BuyOK, Sent, Unsettled, Unanswered
  <2> QED
    BY <2>3, <2>4
<1>6. CASE Send(w)
  <2>1. UNCHANGED ledger /\ buy' = [buy EXCEPT ![b].at = "wire"] /\ worker[w].pc = "gate"
    BY <1>6 DEF Send, stores
  <2>2. CASE c # b
    <3>1. buy'[c] = buy[c]
      BY <1>1, <2>1, <2>2
    <3> QED
      BY <1>1, <2>1, <3>1 DEF BuyOK, Sent
  <2>3. CASE c = b
    <3>1. /\ ledger[c].status = "SUBMITTING" /\ ~ledger[c].number
          /\ buy[c].at = "none" /\ ledger[c].symbol \in Symbols
      BY <1>3, <2>1, <2>3 DEF Reading
    <3>2. /\ buy'[c].at = "wire" /\ buy'[c].filled = buy[c].filled
          /\ buy'[c].published = buy[c].published
      BY <1>1, <2>1, <2>3 DEF BrokerBuys
    <3> QED
      BY <1>1, <2>1, <3>1, <3>2 DEF BuyOK, Sent, Unsettled, Unanswered
  <2> QED
    BY <2>2, <2>3
<1> QED
  BY <1>2, <1>4, <1>5, <1>6 DEF Bookings

LEMMA CancelBuys ==
  ASSUME Types, Cancels, \A b \in Buys : BuyOK(b), NEW c \in Buys
  PROVE  BuyOK(c)'
<1> DEFINE b == Cancelled
<1>1. ledger \in [Buys -> Orders] /\ buy \in [Buys -> BrokerBuys] /\ BuyOK(c)
  BY DEF Types
<1>2. CASE CancelGate \/ CancelUnconfirmed
  <2>1. PICK status \in {"CANCEL_PENDING", "UNKNOWN"} : SetStatus(b, status)
    BY <1>2 DEF CancelGate, CancelUnconfirmed
  <2>2. UNCHANGED buy
    BY <1>2 DEF CancelGate, CancelUnconfirmed
  <2> QED
    BY <1>1, <2>1, <2>2, StatusMoves DEF Statuses, Unsettled, Unanswered
<1>3. ASSUME NEW status \in {"CANCEL_PENDING", "UNKNOWN", "CANCELLED"},
             SetStatus(b, status), b \in OpenBuys,
             buy' = [buy EXCEPT ![b].at = "gone"]
      PROVE  BuyOK(c)'
  <2>1. CASE c = b
    <3>1. /\ ledger'[c].status = status /\ ledger'[c].number = ledger[c].number
          /\ ledger'[c].symbol = ledger[c].symbol
      BY <1>1, <1>3, <2>1 DEF SetStatus, Orders
    <3>2. /\ buy[c].at = "open" /\ buy'[c].at = "gone"
          /\ buy'[c].filled = buy[c].filled /\ buy'[c].published = buy[c].published
      BY <1>1, <1>3, <2>1 DEF BrokerBuys, OpenBuys
    <3> QED
      BY <1>1, <3>1, <3>2 DEF BuyOK, Sent
  <2>2. CASE c # b
    <3>1. ledger'[c] = ledger[c] /\ buy'[c] = buy[c]
      BY <1>1, <1>3, <2>2 DEF SetStatus
    <3> QED
      BY <1>1, <3>1 DEF BuyOK, Sent
  <2> QED
    BY <2>1, <2>2
<1>4. CASE CancelConfirmed
  BY <1>3, <1>4 DEF CancelConfirmed
<1>5. CASE CancelRaises
  <2>1. PICK taken \in {FALSE, (b \in OpenBuys)} :
          buy' = [buy EXCEPT ![b].at = IF taken THEN "gone" ELSE @]
    BY <1>5 DEF CancelRaises
  <2>2. PICK status \in {"UNKNOWN", "CANCEL_PENDING"} : SetStatus(b, status)
    BY <1>5 DEF CancelRaises
  <2>3. CASE taken
    BY <1>3, <2>1, <2>2, <2>3
  <2>4. CASE ~taken
    <3>1. buy' = buy
      BY <1>1, <2>1, <2>4 DEF BrokerBuys
    <3> QED
      BY <1>1, <2>2, <3>1, StatusMoves DEF Statuses, Unsettled, Unanswered
  <2> QED
    BY <2>3, <2>4
<1> QED
  BY <1>2, <1>4, <1>5 DEF Cancels

LEMMA NextBuys ==
  ASSUME IInv, Next, NEW c \in Buys
  PROVE  BuyOK(c)'
<1>1. Types /\ \A b \in Buys : BuyOK(b)
  BY DEF IInv
<1>2. CASE UNCHANGED <<ledger, buy>>
  BY <1>1, <1>2 DEF BuyOK, Sent
<1>3. ASSUME NEW w \in Workers, WorkerStep(w)
      PROVE  BuyOK(c)'
  BY <1>1, <1>2, <1>3, QuietWorker, BookingBuys DEF Quiet, IInv, WorkerOK
<1>4. CASE TickStep
  BY <1>1, <1>2, <1>4, QuietTick, CancelBuys DEF Quiet
<1>5. ASSUME NEW s \in Symbols, Exit(s)
      PROVE  UNCHANGED <<ledger, buy>>
  BY <1>5 DEF Exit
<1>6. ASSUME NEW b \in Buys, Market(b) \/ Reconcile(b)
      PROVE  BuyOK(c)'
  BY <1>1, <1>6, MarketBuys, ReconcileBuys
<1> QED
  BY <1>2, <1>3, <1>4, <1>5, <1>6, QuietOthers DEF Next, Quiet


\* While somebody else has the lock, or nobody, a worker is not at work.
LEMMA Alone ==
  ASSUME IInv, NEW v \in Workers, lock # v
  PROVE  worker[v].pc \notin Tenure
BY DEF IInv, WorkerOK, Owner

\* The steps under the lock are steps at a stage that needs it.
LEMMA LockedSteps ==
  ASSUME NEW w \in Workers, WorkerStep(w), ~Record(w), ~RecordFails(w)
  PROVE  worker[w].pc \in Tenure
BY DEF WorkerStep, Tenure, Reading, CheckRow, ReadBook, Drop, Register, ReadPositions,
   ReadOrders, Judge, Send, Refuse, Answered

LEMMA TickIsLocked ==
  ASSUME IInv, TickStep \/ TickDies \/ \E s \in Symbols : Exit(s)
  PROVE  lock = Tick
<1>1. ~At("idle")
  BY DEF At, TickStep, TickDies, Exit, EntryTimeouts, EndTick, Sweep, SyncBuyFills,
     ReadHoldings, OpenAdopted, OpenFails, AdoptDone, Adopt, AskCancel, CancelGate,
     CancelUnconfirmed, CancelConfirmed, CancelRaises, CancelRefused, Abandon,
     TimeoutsDone
<1> QED
  BY <1>1 DEF IInv, TickOK

\* A step of one worker is none of another.
LEMMA OthersStay ==
  ASSUME Types, NEW w \in Workers, NEW v \in Workers, v # w,
         WorkerStep(w) \/ WorkerDies(w) \/ \E s \in Symbols : Take(w, s)
  PROVE  worker'[v] = worker[v]
<1>1. worker \in [Workers -> WorkerStates]
  BY DEF Types
<1>2. CASE WorkerEnds(w) \/ \E pc : WorkerGoto(w, pc)
  BY <1>1, <1>2 DEF WorkerEnds, WorkerGoto
<1>3. CASE CheckRow(w) \/ Drop(w) \/ Judge(w) \/ Refuse(w) \/ Answered(w) \/ Record(w)
           \/ RecordFails(w) \/ WorkerDies(w)
  BY <1>2, <1>3 DEF CheckRow, Drop, Judge, Refuse, Answered, Answer, Record,
     RecordFails, WorkerDies
<1>4. CASE ReadBook(w) \/ Register(w) \/ ReadPositions(w) \/ ReadOrders(w) \/ Send(w)
           \/ \E s \in Symbols : Take(w, s)
  BY <1>1, <1>4 DEF ReadBook, Register, ReadPositions, ReadOrders, Send, Take
<1> QED
  BY <1>3, <1>4 DEF WorkerStep

LEMMA TickKeepsWorkers ==
  ASSUME StartTick \/ TickStep \/ TickDies \/ \E s \in Symbols : Exit(s)
  PROVE  UNCHANGED worker
BY DEF StartTick, TickDies, Exit, TickStep, EntryTimeouts, EndTick,
   Sweep, SyncBuyFills, ReadHoldings, OpenAdopted, OpenFails, AdoptDone, Adopt,
   AskCancel, CancelGate, CancelUnconfirmed, CancelConfirmed, CancelRaises,
   CancelRefused, Abandon, TimeoutsDone, CancelGoesOn

LEMMA WorkersKeepTick ==
  ASSUME NEW w \in Workers,
         WorkerStep(w) \/ WorkerDies(w) \/ \E s \in Symbols : Take(w, s)
  PROVE  UNCHANGED tick
BY DEF WorkerStep, CheckRow, ReadBook, Drop, Register, ReadPositions, ReadOrders,
   Judge, Send, Refuse, Answered, Record, RecordFails, WorkerDies, Take

LEMMA NextTick ==
  ASSUME IInv, Next
  PROVE  TickOK'
<1>0. TickOK /\ Tick \notin Workers /\ Tick # None
  BY EntryAssumption DEF IInv
<1>1. CASE StartTick
  BY <1>1 DEF StartTick, TickOK
<1>2. CASE EndTick \/ TickDies
  BY <1>2 DEF EndTick, TickDies, TickOK, IdleTick, At
<1>3. CASE TickStep /\ ~EndTick
  <2>1. UNCHANGED lock
    BY <1>3 DEF TickStep, EntryTimeouts,
       Sweep, SyncBuyFills, ReadHoldings, OpenAdopted, OpenFails, AdoptDone, Adopt,
       AskCancel, CancelGate, CancelUnconfirmed, CancelConfirmed, CancelRaises,
       CancelRefused, Abandon, TimeoutsDone, CancelGoesOn
  <2> QED
    BY <1>3, <2>1, TickIsLocked DEF TickOK
<1>4. CASE UNCHANGED <<tick, lock>>
  BY <1>0, <1>4 DEF TickOK, At
<1>5. ASSUME NEW w \in Workers, WorkerStep(w)
      PROVE  TickOK'
  <2>1. CASE Record(w) \/ RecordFails(w)
    BY <1>4, <2>1 DEF Record, RecordFails
  <2>2. CASE ~Record(w) /\ ~RecordFails(w)
    <3>1. lock = w
      BY <1>5, <2>2, LockedSteps, Alone
    <3> QED
      BY <1>0, <1>5, <3>1, WorkersKeepTick DEF TickOK, At
  <2> QED
    BY <2>1, <2>2
<1>6. ASSUME NEW w \in Workers, WorkerDies(w)
      PROVE  TickOK'
  BY <1>0, <1>6, WorkersKeepTick DEF WorkerDies, Dies, TickOK, At
<1>7. ASSUME NEW w \in Workers, NEW s \in Symbols, Take(w, s)
      PROVE  TickOK'
  BY <1>0, <1>7, WorkersKeepTick DEF Take, TickOK, At
<1>8. ASSUME NEW b \in Buys, Market(b) \/ Reconcile(b)
      PROVE  UNCHANGED <<tick, lock>>
  BY <1>8 DEF Reconcile, Market, Land, Fill, Publish, Lapse, Age
<1>9. ASSUME NEW s \in Symbols, Exit(s)
      PROVE  UNCHANGED <<tick, lock>>
  BY <1>9 DEF Exit
<1> QED
  BY <1>1, <1>2, <1>3, <1>4, <1>5, <1>6, <1>7, <1>8, <1>9 DEF Next, TickStep


LEMMA OffDuty ==
  ASSUME NEW v \in Workers, worker'[v].pc \notin Tenure
  PROVE  WorkerOK(v)'
BY DEF WorkerOK, Owner, Own, Passed, NoneHeld, Tenure, Reading, Seen

LEMMA OnDuty ==
  ASSUME IInv, NEW v \in Workers
  PROVE  /\ Owner(v) /\ Own(v) /\ Passed(v) /\ NoneHeld(v)
         /\ worker[v] \in WorkerStates
         /\ worker \in [Workers -> WorkerStates] /\ ledger \in [Buys -> Orders]
         /\ buy \in [Buys -> BrokerBuys] /\ held \in [Symbols -> Nat]
BY DEF IInv, Types, WorkerOK

\* What came in after the book was read is not numbered, and so is among the
\* pending when its shares come.
LEMMA MarketWorkers ==
  ASSUME IInv, NEW b \in Buys, Market(b), NEW v \in Workers
  PROVE  WorkerOK(v)'
<1>1. /\ UNCHANGED <<ledger, worker, lock>> /\ BuyOK(b)
      /\ buy \in [Buys -> BrokerBuys] /\ ledger \in [Buys -> Orders]
      /\ held \in [Symbols -> Nat]
  BY DEF IInv, Types, Market, Land, Fill, Publish, Lapse, Age, stores
<1>2. \A c \in Buys :
        /\ (buy'[c].at = "none") <=> (buy[c].at = "none")
        /\ buy'[c].at = "open" => buy[c].at \in {"open", "wire"}
  <2>1. ASSUME NEW c \in Buys, c # b
        PROVE  buy'[c] = buy[c]
    BY <1>1, <2>1 DEF Market, Land, Fill, Publish, Lapse, Age
  <2>2. /\ (buy'[b].at = "none") <=> (buy[b].at = "none")
        /\ buy'[b].at = "open" => buy[b].at \in {"open", "wire"}
    <3>1. CASE Land(b)
      BY <1>1, <3>1 DEF Land, BrokerBuys
    <3>2. CASE Fill(b)
      BY <1>1, <3>2 DEF Fill, BrokerBuys, OpenBuys
    <3>3. CASE Publish(b)
      BY <1>1, <3>3 DEF Publish, BrokerBuys
    <3>4. CASE Lapse(b)
      BY <1>1, <3>4 DEF Lapse, BrokerBuys, OpenBuys
    <3>5. CASE Age(b)
      BY <1>1, <3>5 DEF Age, BrokerBuys
    <3> QED
      BY <3>1, <3>2, <3>3, <3>4, <3>5 DEF Market
  <2> QED
    BY <2>1, <2>2
<1>3. Owner(v)'
  BY <1>1, OnDuty DEF Owner, Symbol
<1>4. Own(v)'
  BY <1>1, <1>2, OnDuty DEF Own, Symbol
<1>5. Passed(v)'
  <2>1. ASSUME NEW s, Unnumbered(s)
        PROVE  Unnumbered(s)'
    <3>1. \A c \in Buys : buy[c].at = "wire" => ~ledger[c].number
      BY DEF IInv, BuyOK
    <3> QED
      BY <1>1, <1>2, <2>1, <3>1 DEF Unnumbered, BuysOf
  <2> QED
    BY <1>1, <2>1, OnDuty DEF Passed, Symbol
<1>6. NoneHeld(v)'
  <2> SUFFICES ASSUME worker[v].pc \in Seen, ~worker[v].booked,
                      worker[v].positions[Symbol(v)] = 0
               PROVE  held'[Symbol(v)] = 0 \/ Late(v)
    BY <1>1 DEF NoneHeld, Symbol, Late, BuysOf
  <2>1. held[Symbol(v)] = 0 \/ Late(v)
    BY OnDuty DEF NoneHeld
  <2>2. CASE Fill(b) /\ ledger[b].symbol = Symbol(v)
    <3>1. worker[v].pc \in Reading /\ Passed(v) /\ Own(v)
      BY OnDuty DEF Seen
    <3>2. b \in BuysOf(Symbol(v)) /\ buy[b].at = "open"
      BY <2>2 DEF Fill, OpenBuys, BuysOf
    <3>3. ~ledger[b].number
      BY <3>1, <3>2 DEF Passed, Unnumbered
    <3>4. b # worker[v].buy
      BY <3>1, <3>2 DEF Own, Reading
    <3>5. ledger[b].status \in Unanswered
      BY <1>1, <3>2, <3>3 DEF BuyOK, Unsettled
    <3> QED
      BY <3>2, <3>3, <3>4, <3>5 DEF Late
  <2>3. CASE Fill(b) /\ ledger[b].symbol # Symbol(v)
    <3>1. Symbol(v) \in Symbols
      BY OnDuty DEF Owner, Seen, Tenure
    <3>2. held'[Symbol(v)] = held[Symbol(v)]
      BY <1>1, <2>3, <3>1 DEF Fill
    <3> QED
      BY <2>1, <3>2
  <2>4. CASE ~Fill(b)
    <3>1. UNCHANGED held
      BY <2>4 DEF Market, Land, Publish, Lapse, Age
    <3> QED
      BY <2>1, <3>1
  <2> QED
    BY <2>2, <2>3, <2>4
<1> QED
  BY <1>3, <1>4, <1>5, <1>6 DEF WorkerOK

\* Reconciliation moves only orders that have a number.
LEMMA ReconcileWorkers ==
  ASSUME IInv, NEW b \in Buys, Reconcile(b), NEW v \in Workers
  PROVE  WorkerOK(v)'
<1>1. /\ UNCHANGED <<buy, held, worker, lock>> /\ ledger[b].number
      /\ ledger \in [Buys -> Orders]
  BY DEF IInv, Types, Reconcile, broker
<1>2. \A c \in Buys : /\ ledger'[c].number = ledger[c].number
                      /\ ledger'[c].symbol = ledger[c].symbol
                      /\ c # b => ledger'[c] = ledger[c]
  BY <1>1 DEF Reconcile, SetStatus, Orders
<1>3. Owner(v)'
  BY <1>1, OnDuty DEF Owner, Symbol
<1>4. Own(v)'
  <2> SUFFICES ASSUME worker[v].pc \in Reading \cup {"await"}
               PROVE  Own(v)'
    BY <1>1 DEF Own
  <2>1. worker[v].buy \in Buys /\ worker[v].buy # b /\ Own(v)
    BY <1>1, OnDuty DEF Own
  <2> QED
    BY <1>1, <1>2, <2>1 DEF Own, Symbol
<1>5. Passed(v)'
  BY <1>1, <1>2, OnDuty DEF Passed, Symbol, Unnumbered, BuysOf
<1>6. NoneHeld(v)'
  <2>1. Late(v) => Late(v)'
    BY <1>1, <1>2 DEF Late, Symbol, BuysOf
  <2> QED
    BY <1>1, <2>1, OnDuty DEF NoneHeld, Symbol
<1> QED
  BY <1>3, <1>4, <1>5, <1>6 DEF WorkerOK


\* A worker's own steps.
LEMMA OwnSteps ==
  ASSUME IInv, NEW w \in Workers, WorkerStep(w)
  PROVE  WorkerOK(w)'
<1>1. /\ Owner(w) /\ Own(w) /\ Passed(w) /\ NoneHeld(w)
      /\ worker \in [Workers -> WorkerStates] /\ worker[w] \in WorkerStates
      /\ ledger \in [Buys -> Orders] /\ buy \in [Buys -> BrokerBuys]
      /\ held \in [Symbols -> Nat]
  BY OnDuty
<1>2. CASE WorkerEnds(w) \/ WorkerGoto(w, "record")
  <2>1. worker'[w].pc \in {"idle", "record"}
    BY <1>1, <1>2 DEF WorkerEnds, WorkerGoto, IdleWorker, WorkerStates
  <2> QED
    BY <2>1, OffDuty DEF Tenure, Reading
<1>3. CASE Drop(w) \/ Refuse(w) \/ Answered(w) \/ Record(w) \/ RecordFails(w)
  BY <1>2, <1>3 DEF Drop, Refuse, Answered, Answer, Record, RecordFails
<1>4. CASE CheckRow(w)
  <2>1. /\ worker'[w] = [worker[w] EXCEPT !.pc = "book"] /\ worker[w].pc = "row"
        /\ UNCHANGED lock
    BY <1>1, <1>4 DEF CheckRow, WorkerGoto
  <2>2. worker'[w].pc = "book" /\ worker'[w].symbol = worker[w].symbol
    BY <1>1, <2>1 DEF WorkerStates
  <2> QED
    BY <1>1, <2>1, <2>2 DEF WorkerOK, Owner, Own, Passed, NoneHeld, Symbol, Tenure,
       Reading, Seen
<1>5. CASE ReadBook(w)
  <2>1. /\ worker'[w] = [worker[w] EXCEPT !.pc = "register",
                           !.booked = BuysOf(Symbol(w)) \cap OpenBuys # {}]
        /\ worker[w].pc = "book" /\ UNCHANGED <<lock, ledger, buy, held>>
    BY <1>1, <1>5 DEF ReadBook, broker, stores
  <2>2. /\ worker'[w].pc = "register" /\ worker'[w].symbol = worker[w].symbol
        /\ worker'[w].booked = (BuysOf(Symbol(w)) \cap OpenBuys # {})
    BY <1>1, <2>1 DEF WorkerStates
  <2>3. Passed(w)'
    <3>1. ~worker'[w].booked => Unnumbered(worker[w].symbol)
      BY <2>2 DEF Unnumbered, OpenBuys, BuysOf, Symbol
    <3>2. Unnumbered(worker[w].symbol) => Unnumbered(worker[w].symbol)'
      BY <1>1, <2>1, <2>2 DEF Unnumbered, BuysOf
    <3> QED
      BY <2>1, <2>2, <3>1 DEF Passed, Symbol, Unnumbered, BuysOf
  <2> QED
    BY <1>1, <2>1, <2>2, <2>3 DEF WorkerOK, Owner, Own, NoneHeld, Symbol, Tenure,
       Reading, Seen
<1>6. CASE Register(w)
  <2>1. PICK b \in Unregistered :
          /\ ledger' = [ledger EXCEPT ![b] =
               [symbol |-> Symbol(w), status |-> "SUBMITTING", number |-> FALSE]]
          /\ worker' = [worker EXCEPT ![w].pc = "positions", ![w].buy = b]
    BY <1>6 DEF Register
  <2>2. worker[w].pc = "register" /\ UNCHANGED <<lock, buy, held>> /\ b \in Buys
    BY <1>6 DEF Register, broker, Unregistered
  <2>3. /\ worker'[w].pc = "positions" /\ worker'[w].buy = b
        /\ worker'[w].symbol = worker[w].symbol
        /\ worker'[w].booked = worker[w].booked
    BY <1>1, <2>1 DEF WorkerStates
  <2>4. /\ ledger'[b] = [symbol |-> Symbol(w), status |-> "SUBMITTING", number |-> FALSE]
        /\ \A c \in Buys : c # b => ledger'[c] = ledger[c]
    BY <1>1, <2>1, <2>2
  <2>5. buy[b].at = "none"
    BY <2>2 DEF IInv, BuyOK, Unregistered
  <2>6. Own(w)'
    BY <2>2, <2>3, <2>4, <2>5 DEF Own, Symbol
  <2>7. Passed(w)'
    <3>1. ASSUME Unnumbered(worker[w].symbol)
          PROVE  Unnumbered(worker[w].symbol)'
      BY <2>2, <2>3, <2>4, <2>5, <3>1 DEF Unnumbered, BuysOf
    <3> QED
      BY <1>1, <2>2, <2>3, <3>1 DEF Passed, Symbol
  <2> QED
    BY <1>1, <2>2, <2>3, <2>6, <2>7 DEF WorkerOK, Owner, NoneHeld, Symbol, Tenure,
       Reading, Seen
<1>7. ASSUME NEW pc \in Seen, worker[w].pc \in Reading,
             worker'[w].pc = pc, worker'[w].symbol = worker[w].symbol,
             worker'[w].buy = worker[w].buy, worker'[w].booked = worker[w].booked,
             UNCHANGED <<ledger, buy, held, lock>>,
             \/ worker'[w].positions = held
             \/ worker'[w].positions = worker[w].positions /\ worker[w].pc \in Seen
      PROVE  WorkerOK(w)'
  <2>1. Owner(w)'
    BY <1>1, <1>7 DEF Owner, Symbol, Tenure
  <2>2. Own(w)'
    BY <1>1, <1>7 DEF Own, Symbol, Seen, Reading
  <2>3. Passed(w)'
    BY <1>1, <1>7 DEF Passed, Symbol, Seen, Unnumbered, BuysOf
  <2>4. Late(w) => Late(w)'
    BY <1>7 DEF Late, Symbol, BuysOf
  <2>5. NoneHeld(w)'
    BY <1>1, <1>7, <2>4 DEF NoneHeld, Symbol
  <2> QED
    BY <2>1, <2>2, <2>3, <2>5 DEF WorkerOK
<1>8. CASE ReadPositions(w)
  <2>1. /\ worker'[w] = [worker[w] EXCEPT !.pc = "orders", !.positions = held]
        /\ worker[w].pc = "positions" /\ UNCHANGED <<ledger, buy, held, lock>>
    BY <1>1, <1>8 DEF ReadPositions, broker, stores
  <2>2. /\ worker'[w].pc = "orders" /\ worker'[w].positions = held
        /\ worker'[w].symbol = worker[w].symbol /\ worker'[w].buy = worker[w].buy
        /\ worker'[w].booked = worker[w].booked
    BY <1>1, <2>1 DEF WorkerStates
  <2> QED
    BY <1>7, <2>1, <2>2 DEF Seen, Reading
<1>9. CASE ReadOrders(w)
  <2>1. /\ worker'[w] = [worker[w] EXCEPT !.pc = "judge", !.open = OpenBuys]
        /\ worker[w].pc = "orders" /\ UNCHANGED <<ledger, buy, held, lock>>
    BY <1>1, <1>9 DEF ReadOrders, broker, stores
  <2>2. /\ worker'[w].pc = "judge" /\ worker'[w].positions = worker[w].positions
        /\ worker'[w].symbol = worker[w].symbol /\ worker'[w].buy = worker[w].buy
        /\ worker'[w].booked = worker[w].booked
    BY <1>1, <2>1 DEF WorkerStates
  <2> QED
    BY <1>7, <2>1, <2>2 DEF Seen, Reading
<1>10. CASE Judge(w)
  <2>1. /\ worker'[w] = [worker[w] EXCEPT !.pc = "gate"]
        /\ worker[w].pc = "judge" /\ UNCHANGED <<ledger, buy, held, lock>>
    BY <1>1, <1>10 DEF Judge, WorkerGoto, broker, stores
  <2>2. /\ worker'[w].pc = "gate" /\ worker'[w].positions = worker[w].positions
        /\ worker'[w].symbol = worker[w].symbol /\ worker'[w].buy = worker[w].buy
        /\ worker'[w].booked = worker[w].booked
    BY <1>1, <2>1 DEF WorkerStates
  <2> QED
    BY <1>7, <2>1, <2>2 DEF Seen, Reading
<1>11. CASE Send(w)
  <2>1. /\ worker'[w] = [IdleWorker EXCEPT !.pc = "await", !.symbol = Symbol(w),
                           !.buy = worker[w].buy]
        /\ buy' = [buy EXCEPT ![worker[w].buy].at = "wire"]
        /\ worker[w].pc = "gate" /\ UNCHANGED <<ledger, held, lock>>
    BY <1>1, <1>11 DEF Send, stores
  <2>2. /\ worker'[w].pc = "await" /\ worker'[w].symbol = worker[w].symbol
        /\ worker'[w].buy = worker[w].buy
    BY <2>1 DEF IdleWorker, Symbol
  <2>3. buy'[worker[w].buy].at = "wire"
    BY <1>1, <2>1 DEF Own, Reading, BrokerBuys
  <2> QED
    BY <1>1, <2>1, <2>2, <2>3 DEF WorkerOK, Owner, Own, Passed, NoneHeld, Symbol,
       Tenure, Reading, Seen
<1> QED
  BY <1>3, <1>4, <1>5, <1>6, <1>8, <1>9, <1>10, <1>11 DEF WorkerStep

LEMMA NextWorkers ==
  ASSUME IInv, Next, NEW v \in Workers
  PROVE  WorkerOK(v)'
<1>1. Types /\ Tick \notin Workers /\ None \notin Workers
  BY EntryAssumption DEF IInv
<1>2. ASSUME lock # v, worker'[v] = worker[v]
      PROVE  WorkerOK(v)'
  BY <1>2, Alone, OffDuty
<1>3. CASE TickStep \/ TickDies \/ \E s \in Symbols : Exit(s)
  BY <1>1, <1>2, <1>3, TickIsLocked, TickKeepsWorkers
<1>4. CASE StartTick
  BY <1>1, <1>2, <1>4, TickKeepsWorkers DEF StartTick
<1>5. ASSUME NEW b \in Buys, Market(b) \/ Reconcile(b)
      PROVE  WorkerOK(v)'
  BY <1>5, MarketWorkers, ReconcileWorkers
<1>6. ASSUME NEW w \in Workers, NEW s \in Symbols, Take(w, s)
      PROVE  WorkerOK(v)'
  <2>1. CASE v = w
    <3>1. /\ worker'[w] = [IdleWorker EXCEPT !.pc = "row", !.symbol = s]
          /\ lock' = w
      BY <1>1, <1>6 DEF Take, Types
    <3>2. worker'[w].pc = "row" /\ worker'[w].symbol = s
      BY <3>1 DEF IdleWorker
    <3> QED
      BY <2>1, <3>1, <3>2 DEF WorkerOK, Owner, Own, Passed, NoneHeld, Symbol, Tenure,
         Reading, Seen
  <2>2. CASE v # w
    BY <1>1, <1>2, <1>6, <2>2, OthersStay DEF Take
  <2> QED
    BY <2>1, <2>2
<1>7. ASSUME UNCHANGED <<ledger, buy, held>>, worker'[v] = worker[v],
             lock = v => lock' = v
      PROVE  WorkerOK(v)'
  <2>1. Owner(v) /\ Own(v) /\ Passed(v) /\ NoneHeld(v)
    BY OnDuty
  <2>2. Owner(v)' /\ Own(v)'
    BY <1>7, <2>1 DEF Owner, Own, Symbol
  <2>3. Passed(v)'
    BY <1>7, <2>1 DEF Passed, Symbol, Unnumbered, BuysOf
  <2>4. Late(v) => Late(v)'
    BY <1>7 DEF Late, Symbol, BuysOf
  <2>5. NoneHeld(v)'
    BY <1>7, <2>1, <2>4 DEF NoneHeld, Symbol
  <2> QED
    BY <2>2, <2>3, <2>5 DEF WorkerOK
<1>8. ASSUME NEW w \in Workers, WorkerStep(w)
      PROVE  WorkerOK(v)'
  <2>1. CASE v = w
    BY <1>8, <2>1, OwnSteps
  <2>2. CASE v # w /\ (Record(w) \/ RecordFails(w))
    <3>1. Quiet /\ UNCHANGED lock
      BY <2>2 DEF Record, RecordFails, Quiet, broker, stores
    <3> QED
      BY <1>1, <1>7, <1>8, <2>2, <3>1, OthersStay DEF Quiet
  <2>3. CASE v # w /\ ~Record(w) /\ ~RecordFails(w)
    BY <1>1, <1>2, <1>8, <2>3, OthersStay, LockedSteps, Alone
  <2> QED
    BY <2>1, <2>2, <2>3
<1>9. ASSUME NEW w \in Workers, WorkerDies(w)
      PROVE  WorkerOK(v)'
  <2>1. CASE v = w
    <3>1. worker'[w] = IdleWorker
      BY <1>1, <1>9 DEF WorkerDies, WorkerEnds, Types
    <3> QED
      BY <2>1, <3>1, OffDuty DEF IdleWorker, Tenure, Reading
  <2>2. CASE v # w
    <3>1. worker'[v] = worker[v]
      BY <1>1, <1>9, <2>2, OthersStay
    <3>2. lock = v => lock' = v
      BY <1>9, <2>2 DEF WorkerDies, Dies
    <3>3. UNCHANGED <<ledger, buy, held>>
      BY <1>9 DEF WorkerDies, Dies, broker, stores
    <3> QED
      BY <1>7, <3>1, <3>2, <3>3
  <2> QED
    BY <2>1, <2>2
<1> QED
  BY <1>3, <1>4, <1>5, <1>6, <1>8, <1>9 DEF Next


\* The gate of a worker counts every buy that was ever sent, and not its own.
LEMMA NextCap ==
  ASSUME IInv, Next
  PROVE  DailyCapHolds'
<1>1. /\ IsFiniteSet(Buys) /\ MaxBuys \in Nat /\ MaxEntries \in Nat
  BY EntryAssumption, FS_Interval DEF Buys
<1>2. /\ buy \in [Buys -> BrokerBuys] /\ Types /\ Cardinality(Sent) <= MaxEntries
      /\ \A b \in Buys : BuyOK(b)
  BY DEF IInv, Types, DailyCapHolds, Sent
<1>3. IsFiniteSet(Sent) /\ Cardinality(Sent) \in Nat
  BY <1>1, FS_Subset, FS_CardinalityType DEF Sent
<1>4. ASSUME Sent' \subseteq Sent
      PROVE  DailyCapHolds'
  <2>1. IsFiniteSet(Sent') /\ Cardinality(Sent') <= Cardinality(Sent)
        /\ Cardinality(Sent') \in Nat
    BY <1>3, <1>4, FS_Subset, FS_CardinalityType
  <2>2. Cardinality(Sent') <= MaxEntries
    BY <1>1, <1>2, <1>3, <2>1
  <2> QED
    BY <2>2 DEF DailyCapHolds, Sent
<1>5. ASSUME NEW w \in Workers, Send(w)
      PROVE  DailyCapHolds'
  <2> DEFINE b == worker[w].buy
  <2>1. worker[w].pc = "gate" /\ Allowed(w) /\ buy' = [buy EXCEPT ![b].at = "wire"]
    BY <1>5 DEF Send
  <2>2. buy[b].at = "none" /\ b \in Buys
    BY <2>1, OnDuty DEF Own, Reading
  <2>3. Sent \subseteq EntriesToday(w)
    BY <1>2, <2>2 DEF Sent, EntriesToday, BuyOK
  <2>4. IsFiniteSet(EntriesToday(w)) /\ Cardinality(EntriesToday(w)) \in Nat
    BY <1>1, FS_Subset, FS_CardinalityType DEF EntriesToday
  <2>5. Cardinality(Sent) <= Cardinality(EntriesToday(w))
    BY <2>3, <2>4, FS_Subset
  <2>6. Cardinality(EntriesToday(w)) < MaxEntries
    BY <2>1 DEF Allowed
  <2>7. Cardinality(Sent) + 1 <= MaxEntries
    BY <1>1, <1>3, <2>4, <2>5, <2>6
  <2>8. b \notin Sent
    BY <2>2 DEF Sent
  <2>9. Sent' = Sent \cup {b}
    <3>1. \A c \in Buys : buy'[c].at = IF c = b THEN "wire" ELSE buy[c].at
      BY <1>2, <2>1 DEF BrokerBuys
    <3> HIDE DEF b
    <3> QED
      BY <2>2, <3>1 DEF Sent
  <2>10. Cardinality(Sent') = Cardinality(Sent) + 1
    BY <1>3, <2>8, <2>9, FS_AddElement
  <2>11. Cardinality(Sent') <= MaxEntries
    BY <2>7, <2>10
  <2> QED
    BY <2>11 DEF DailyCapHolds, Sent
<1>6. CASE UNCHANGED buy
  BY <1>4, <1>6 DEF Sent
<1>7. ASSUME NEW b, b \notin Buys \/ b \in OpenBuys,
             buy' = [buy EXCEPT ![b].at = "gone"]
      PROVE  DailyCapHolds'
  <2>1. \A c \in Buys : c \in Sent' => c \in Sent
    BY <1>2, <1>7 DEF Sent, OpenBuys, BrokerBuys
  <2> QED
    BY <1>4, <2>1 DEF Sent
<1>8. ASSUME NEW b \in Buys, Market(b)
      PROVE  DailyCapHolds'
  <2>1. \A c \in Buys : (buy'[c].at = "none") <=> (buy[c].at = "none")
    BY <1>2, <1>8 DEF Market, Land, Fill, Publish, Lapse, Age, OpenBuys, BrokerBuys
  <2>2. \A c \in Buys : buy[c].at = "refused" => buy'[c].at = "refused"
    BY <1>2, <1>8 DEF Market, Land, Fill, Publish, Lapse, Age, OpenBuys, BrokerBuys
  <2> QED
    BY <1>4, <2>1, <2>2 DEF Sent
<1>9. CASE TickStep
  <2>1. CASE CancelConfirmed
    BY <1>7, <2>1 DEF CancelConfirmed
  <2>2. CASE CancelRaises
    <3>1. PICK taken \in {FALSE, (Cancelled \in OpenBuys)} :
            buy' = [buy EXCEPT ![Cancelled].at = IF taken THEN "gone" ELSE @]
      BY <2>2 DEF CancelRaises
    <3>2. CASE taken
      BY <1>7, <3>1, <3>2
    <3>3. CASE ~taken
      BY <1>2, <1>6, <3>1, <3>3 DEF BrokerBuys
    <3> QED
      BY <3>2, <3>3
  <2>3. CASE ~CancelConfirmed /\ ~CancelRaises
    BY <1>6, <1>9, <2>3, QuietTick DEF Quiet, Cancels, CancelGate, CancelUnconfirmed,
       CancelGoesOn
  <2> QED
    BY <2>1, <2>2, <2>3
<1>10. ASSUME NEW w \in Workers, WorkerStep(w), ~Send(w)
       PROVE  UNCHANGED buy
  BY <1>10, QuietWorker DEF Quiet, Bookings, Register, Refuse, Answered, broker
<1>11. ASSUME \/ \E s \in Symbols : Exit(s)
              \/ \E b \in Buys : Reconcile(b)
       PROVE  UNCHANGED buy
  BY <1>11 DEF Exit, Reconcile, broker
<1> QED
  BY <1>5, <1>6, <1>8, <1>9, <1>10, <1>11, QuietOthers DEF Next, Quiet

-----------------------------------------------------------------------------
(* The theorems. *)

LEMMA InitIInv == Init => IInv
<1> SUFFICES ASSUME Init PROVE IInv
  OBVIOUS
<1>1. \A b \in Buys : BuyOK(b)
  BY BuysAreNat DEF Init, BuyOK, NoOrder, NoBuy, Sent
<1>2. TickOK
  BY DEF Init, TickOK, At, IdleTick
<1>3. \A w \in Workers : WorkerOK(w)
  BY DEF Init, WorkerOK, Owner, Own, Passed, NoneHeld, IdleWorker, Tenure, Reading, Seen
<1>4. DailyCapHolds
  <2>1. {b \in Buys : buy[b].at \notin {"none", "refused"}} = {}
    BY DEF Init, NoBuy
  <2>2. Cardinality({}) = 0 /\ 0 <= MaxEntries
    BY EntryAssumption, FS_EmptySet
  <2> QED
    BY <2>1, <2>2 DEF DailyCapHolds
<1> QED
  BY <1>1, <1>2, <1>3, <1>4, InitTypes DEF IInv

LEMMA NextIInv == IInv /\ [Next]_vars => IInv'
<1> SUFFICES ASSUME IInv, [Next]_vars PROVE IInv'
  OBVIOUS
<1>1. CASE Next
  <2>1. Types'
    BY <1>1, NextTypes DEF IInv
  <2> QED
    BY <1>1, <2>1, NextBuys, NextTick, NextWorkers, NextCap DEF IInv
<1>2. CASE UNCHANGED vars
  BY <1>2 DEF vars, IInv, Types, BuyOK, Sent, TickOK, At, WorkerOK, Owner, Own, Passed,
     NoneHeld, Unnumbered, Late, BuysOf, Symbol, DailyCapHolds
<1> QED
  BY <1>1, <1>2

\* Row, book, positions, open orders and ledger are read one after the other;
\* the invariant says what each of them still tells while the broker, the
\* reconciliation service and other workers go on.
THEOREM EntryInvariance == Spec => []IInv
BY InitIInv, NextIInv, PTL DEF Spec

\* No more buys than the day allows ever reach the broker, whatever answers
\* are lost and whichever processes die (_daily_entry_count).
THEOREM DailyCap == Spec => []DailyCapHolds
<1>1. IInv => DailyCapHolds
  BY DEF IInv
<1> QED
  BY <1>1, EntryInvariance, PTL

\* What the gate lets pass is the first working buy of its symbol, and of a
\* symbol of which nothing is held.
LEMMA SendIsAlone ==
  ASSUME IInv, NEW w \in Workers, Send(w)
  PROVE  held[Symbol(w)] = 0 /\ Working(Symbol(w)) = {}
<1> DEFINE s == Symbol(w)
           b == worker[w].buy
<1>1. worker[w].pc = "gate" /\ Allowed(w)
  BY DEF Send
<1>2. /\ b \in Buys /\ buy[b].at = "none" /\ s \in Symbols
      /\ worker[w].positions[s] \in Nat
  BY <1>1, OnDuty DEF Own, Owner, Reading, Tenure, WorkerStates, Symbol
<1>3. s \notin Pending(w) /\ worker[w].positions[s] = 0 /\ ~worker[w].booked
  BY <1>1, <1>2 DEF Allowed, Owned
<1>4. \A c \in BuysOf(s) \ {b} : ledger[c].status \in {"none", "FILLED", "CANCELLED", "REJECTED"}
  BY <1>3 DEF Pending, BuysOf
<1>5. held[s] = 0
  BY <1>1, <1>3, <1>4, OnDuty DEF NoneHeld, Seen, Reading, Late, Unanswered
<1>6. ASSUME NEW c \in Working(s)
      PROVE  FALSE
  <2>1. c \in BuysOf(s) \ {b} /\ buy[c].at \in {"wire", "open"} /\ BuyOK(c)
    BY <1>2, <1>6 DEF Working, BuysOf, IInv
  <2> QED
    BY <1>4, <2>1 DEF BuyOK, Unsettled, Unanswered
<1> QED
  BY <1>5, <1>6

\* A buy leaves only while no other of its symbol is on its way or in the
\* book, and nothing of the symbol is held (evaluate_buy_gate).
THEOREM OneBuyAtATime == Spec => NoSecondBuy
<1>1. IInv /\ [Next]_vars =>
        [\A w \in Workers :
           Send(w) => held[Symbol(w)] = 0 /\ Working(Symbol(w)) = {}]_vars
  BY SendIsAlone
<1> QED
  BY <1>1, EntryInvariance, PTL DEF Spec, NoSecondBuy


-----------------------------------------------------------------------------
(* The bound on the shares: each share of a symbol that is held was bought  *)
(* by an execution of one of its buys, and rows and readings claim no more. *)

MaxShares == Shares * MaxBuys
Bought(s) ==
  {x \in Buys \X (1 .. Shares) : ledger[x[1]].symbol = s /\ x[2] <= buy[x[1]].filled}

HeldIsBought == \A s \in Symbols : held[s] <= Cardinality(Bought(s))
ClaimsBounded ==
  \A s \in Symbols : row[s].quantity <= MaxShares /\ tick.positions[s] <= MaxShares
Bounds == HeldIsBought /\ ClaimsBounded

\* The executions of all buys are as many as the shares of an entry, times them.
LEMMA BoughtFew ==
  ASSUME NEW s
  PROVE  /\ IsFiniteSet(Bought(s)) /\ Cardinality(Bought(s)) \in Nat
         /\ Cardinality(Bought(s)) <= MaxShares /\ MaxShares \in Nat
         /\ Shares <= MaxShares
<1> DEFINE all == Buys \X (1 .. Shares)
<1>1. /\ Shares \in Nat /\ MaxBuys \in Nat /\ MaxBuys >= 1
      /\ IsFiniteSet(Buys) /\ Cardinality(Buys) = MaxBuys
      /\ IsFiniteSet(1 .. Shares) /\ Cardinality(1 .. Shares) = Shares
  BY EntryAssumption, FS_Interval DEF Buys
<1>2. IsFiniteSet(all) /\ Cardinality(all) = MaxBuys * Shares
  BY <1>1, FS_Product
<1>3. Bought(s) \in SUBSET all
  BY DEF Bought
<1>4. /\ IsFiniteSet(Bought(s)) /\ Cardinality(Bought(s)) \in Nat
      /\ Cardinality(Bought(s)) <= MaxBuys * Shares
  BY <1>2, <1>3, FS_Subset, FS_CardinalityType
<1>5. MaxBuys * Shares = MaxShares /\ MaxShares \in Nat
  BY <1>1 DEF MaxShares
<1>6. Shares <= MaxShares
  BY <1>1 DEF MaxShares
<1> QED
  BY <1>4, <1>5, <1>6

\* A change of where an order is changes no execution.
LEMMA WhereNotFilled ==
  ASSUME Types, NEW b, NEW at, buy' = [buy EXCEPT ![b].at = at], NEW c \in Buys
  PROVE  buy'[c].filled = buy[c].filled
<1>1. buy[c] \in BrokerBuys /\ buy \in [Buys -> BrokerBuys]
  BY DEF Types
<1>2. buy'[c] = IF c = b THEN [buy[c] EXCEPT !.at = at] ELSE buy[c]
  BY <1>1
<1> QED
  BY <1>1, <1>2 DEF BrokerBuys

\* Executions are not taken back.
LEMMA FilledStays ==
  ASSUME Types, Next, NEW c \in Buys
  PROVE  buy'[c].filled = buy[c].filled \/ Fill(c)
<1>1. buy \in [Buys -> BrokerBuys]
  BY DEF Types
<1>2. ASSUME NEW b \in Buys, Market(b)
      PROVE  buy'[c].filled = buy[c].filled \/ Fill(c)
  <2>1. CASE Land(b) \/ Lapse(b)
    BY <2>1, WhereNotFilled DEF Land, Lapse
  <2>2. CASE Fill(b)
    BY <1>1, <2>2 DEF Fill
  <2>3. CASE Publish(b)
    BY <1>1, <2>3 DEF Publish, BrokerBuys
  <2>4. CASE Age(b)
    BY <1>1, <2>4 DEF Age, BrokerBuys
  <2> QED
    BY <1>2, <2>1, <2>2, <2>3, <2>4 DEF Market
<1>3. ASSUME NEW w \in Workers, Send(w)
      PROVE  buy'[c].filled = buy[c].filled
  BY <1>3, WhereNotFilled DEF Send
<1>4. CASE CancelConfirmed
  BY <1>4, WhereNotFilled DEF CancelConfirmed
<1>5. CASE CancelRaises
  <2>1. PICK taken \in BOOLEAN :
          buy' = [buy EXCEPT ![Cancelled].at = IF taken THEN "gone" ELSE buy[Cancelled].at]
    BY <1>5 DEF CancelRaises
  <2> QED
    BY <2>1, WhereNotFilled
<1>6. ASSUME NEW w \in Workers, WorkerStep(w), ~Send(w)
      PROVE  UNCHANGED buy
  BY <1>6 DEF WorkerStep, CheckRow, ReadBook, Drop, Register, ReadPositions,
     ReadOrders, Judge, Refuse, Answered, Record, RecordFails, broker
<1>7. CASE TickStep /\ ~CancelConfirmed /\ ~CancelRaises
  <2>1. UNCHANGED buy
    BY <1>7 DEF TickStep, EntryTimeouts, EndTick, Sweep, SyncBuyFills,
       ReadHoldings, OpenAdopted, OpenFails, AdoptDone, Adopt, AskCancel, CancelGate,
       CancelUnconfirmed, CancelRefused, Abandon, TimeoutsDone, broker, CancelGoesOn
  <2> QED
    BY <2>1
<1>8. CASE \/ StartTick \/ TickDies \/ \E s \in Symbols : Exit(s)
           \/ \E b \in Buys : Reconcile(b)
           \/ \E w \in Workers : WorkerDies(w) \/ \E s \in Symbols : Take(w, s)
  <2>1. UNCHANGED buy
    BY <1>8 DEF StartTick, TickDies, Exit, Reconcile, WorkerDies, Take, Dies, broker
  <2> QED
    BY <2>1
<1> QED
  BY <1>2, <1>3, <1>4, <1>5, <1>6, <1>7, <1>8 DEF Next

\* An order keeps its symbol while its status moves.
LEMMA StatusNotSymbol ==
  ASSUME Types, NEW b, NEW status, SetStatus(b, status), NEW c \in Buys
  PROVE  ledger'[c].symbol = ledger[c].symbol
<1>1. ledger[c] \in Orders /\ ledger \in [Buys -> Orders]
  BY DEF Types
<1>2. ledger'[c] = IF c = b THEN [ledger[c] EXCEPT !.status = status] ELSE ledger[c]
  BY <1>1 DEF SetStatus
<1> QED
  BY <1>1, <1>2 DEF Orders

\* Only what has not left can still become a row of another symbol.
LEMMA SymbolStays ==
  ASSUME Types, \A b \in Buys : BuyOK(b), Next, NEW c \in Buys
  PROVE  ledger'[c].symbol = ledger[c].symbol \/ buy[c].filled = 0
<1>1. ledger \in [Buys -> Orders] /\ ledger[c] \in Orders
  BY DEF Types
<1>2. ASSUME NEW b \in Buys, Reconcile(b)
      PROVE  ledger'[c].symbol = ledger[c].symbol
  BY <1>2, StatusNotSymbol DEF Reconcile
<1>3. ASSUME NEW w \in Workers, WorkerStep(w)
      PROVE  ledger'[c].symbol = ledger[c].symbol \/ buy[c].filled = 0
  <2>1. CASE Register(w)
    <3>1. PICK b \in Unregistered :
            ledger' = [ledger EXCEPT ![b] =
              [symbol |-> Symbol(w), status |-> "SUBMITTING", number |-> FALSE]]
      BY <2>1 DEF Register
    <3>2. c # b => ledger'[c] = ledger[c]
      BY <1>1, <3>1
    <3>3. c = b => buy[c].filled = 0
      BY DEF Unregistered, BuyOK
    <3> QED
      BY <3>2, <3>3
  <2>2. CASE Refuse(w)
    BY <2>2, StatusNotSymbol DEF Refuse
  <2>3. CASE Answered(w)
    <3>1. PICK status, number, pc : Answer(w, status, number, pc)
      BY <2>3 DEF Answered
    <3>2. ledger'[c] = IF c = worker[w].buy
                       THEN [ledger[c] EXCEPT !.status = status, !.number = number]
                       ELSE ledger[c]
      BY <1>1, <3>1 DEF Answer
    <3> QED
      BY <1>1, <3>2 DEF Orders
  <2>4. CASE ~Bookings(w)
    BY <1>3, <2>4, QuietWorker DEF Quiet
  <2>5. CASE Send(w)
    BY <2>5 DEF Send, stores
  <2> QED
    BY <2>1, <2>2, <2>3, <2>4, <2>5 DEF Bookings
<1>4. CASE TickStep
  <2>1. CASE Cancels
    BY <2>1, StatusNotSymbol DEF Cancels, CancelGate, CancelConfirmed,
       CancelUnconfirmed, CancelRaises
  <2>2. CASE ~Cancels
    BY <1>4, <2>2, QuietTick DEF Quiet
  <2> QED
    BY <2>1, <2>2
<1>5. CASE \E b \in Buys : Market(b)
  BY <1>5 DEF Market, Land, Fill, Publish, Lapse, Age, stores
<1>6. CASE \E s \in Symbols : Exit(s)
  BY <1>6 DEF Exit
<1> QED
  BY <1>2, <1>3, <1>4, <1>5, <1>6, QuietOthers DEF Next, Quiet

\* Shares are added by executions alone.
LEMMA HeldGrows ==
  ASSUME Types, Next, NEW s \in Symbols
  PROVE  \/ held'[s] <= held[s]
         \/ \E b \in Buys : Fill(b) /\ ledger[b].symbol = s /\ held'[s] = held[s] + 1
<1>1. held \in [Symbols -> Nat] /\ row \in [Symbols -> Rows]
  BY DEF Types
<1>2. ASSUME NEW b \in Buys, Fill(b)
      PROVE  \/ held'[s] <= held[s]
             \/ ledger[b].symbol = s /\ held'[s] = held[s] + 1
  BY <1>1, <1>2 DEF Fill
<1>3. ASSUME NEW z \in Symbols, Exit(z)
      PROVE  held'[s] <= held[s]
  <2>1. row[z].quantity \in Nat /\ held[z] \in Nat /\ held[s] \in Nat
    BY <1>1 DEF Rows
  <2>2. held' = [held EXCEPT ![z] = held[z] - row[z].quantity]
    BY <1>3 DEF Exit
  <2>3. held'[s] = IF s = z THEN held[z] - row[z].quantity ELSE held[s]
    BY <1>1, <2>2
  <2> QED
    BY <2>1, <2>3
<1>4. CASE UNCHANGED held
  BY <1>1, <1>4
<1>5. ASSUME NEW w \in Workers, WorkerStep(w)
      PROVE  UNCHANGED held
  BY <1>5 DEF WorkerStep, CheckRow, ReadBook, Drop, Register, ReadPositions,
     ReadOrders, Judge, Send, Refuse, Answered, Record, RecordFails, broker
<1>6. CASE TickStep
  <2>1. UNCHANGED held
    BY <1>6 DEF TickStep, EntryTimeouts, EndTick, Sweep, SyncBuyFills,
       ReadHoldings, OpenAdopted, OpenFails, AdoptDone, Adopt, AskCancel, CancelGate,
       CancelUnconfirmed, CancelConfirmed, CancelRaises, CancelRefused, Abandon,
       TimeoutsDone, broker, CancelGoesOn
  <2> QED
    BY <1>4, <2>1
<1>7. ASSUME NEW b \in Buys, Market(b) \/ Reconcile(b), ~Fill(b)
      PROVE  UNCHANGED held
  BY <1>7 DEF Reconcile, Market, Land, Publish, Lapse, Age, broker
<1> QED
  BY <1>2, <1>3, <1>4, <1>5, <1>6, <1>7, QuietOthers DEF Next, Quiet

\* So the held shares stay within the executions.
LEMMA HeldStaysBought ==
  ASSUME Types, \A b \in Buys : BuyOK(b), HeldIsBought, Next
  PROVE  HeldIsBought'
<1> SUFFICES ASSUME NEW s \in Symbols
             PROVE  held'[s] <= Cardinality(Bought(s)')
  BY DEF HeldIsBought
<1>1. /\ held[s] \in Nat /\ held[s] <= Cardinality(Bought(s))
      /\ \A c \in Buys : buy[c].filled \in 0 .. Shares
      /\ Shares \in Nat
  BY BuysAreNat DEF Types, HeldIsBought, BrokerBuys
<1>2. \A c \in Buys : buy'[c].filled = buy[c].filled \/ Fill(c)
  BY FilledStays
<1>3. \A c \in Buys : Fill(c) => buy'[c].filled = buy[c].filled + 1
  BY DEF Fill, Types, BrokerBuys
<1>4. \A c \in Buys : buy'[c].filled >= buy[c].filled
  BY <1>1, <1>2, <1>3
<1>5. Bought(s) \subseteq Bought(s)'
  <2> SUFFICES ASSUME NEW x \in Bought(s) PROVE x \in Bought(s)'
    OBVIOUS
  <2>1. /\ x \in Buys \X (1 .. Shares) /\ x[1] \in Buys /\ x[2] \in 1 .. Shares
        /\ ledger[x[1]].symbol = s /\ x[2] <= buy[x[1]].filled
    BY DEF Bought
  <2>2. buy[x[1]].filled # 0
    BY <1>1, <2>1
  <2>3. ledger'[x[1]].symbol = s
    BY <2>1, <2>2, SymbolStays
  <2>4. x[2] <= buy'[x[1]].filled
    BY <1>1, <1>2, <1>3, <2>1
  <2> QED
    BY <2>1, <2>3, <2>4 DEF Bought
<1>6. /\ IsFiniteSet(Bought(s)') /\ Cardinality(Bought(s)') \in Nat
      /\ IsFiniteSet(Bought(s)) /\ Cardinality(Bought(s)) \in Nat
  <2>1. IsFiniteSet(Buys \X (1 .. Shares))
    <3>1. IsFiniteSet(Buys) /\ IsFiniteSet(1 .. Shares)
      BY EntryAssumption, FS_Interval DEF Buys
    <3> QED
      BY <3>1, FS_Product
  <2>2. Bought(s)' \in SUBSET (Buys \X (1 .. Shares))
    BY DEF Bought
  <2> QED
    BY <2>1, <2>2, BoughtFew, FS_Subset, FS_CardinalityType
<1>7. CASE held'[s] <= held[s]
  <2>1. Cardinality(Bought(s)) <= Cardinality(Bought(s)')
    BY <1>5, <1>6, FS_Subset
  <2>2. held'[s] \in Nat
    BY HeldType
  <2> QED
    BY <1>1, <1>6, <1>7, <2>1, <2>2
<1>8. ASSUME NEW b \in Buys, Fill(b), ledger[b].symbol = s, held'[s] = held[s] + 1
      PROVE  held'[s] <= Cardinality(Bought(s)')
  <2> DEFINE n == buy[b].filled + 1
  <2>1. n \in 1 .. Shares /\ buy'[b].filled = n /\ UNCHANGED ledger
    <3>1. BuyOK(b) /\ buy[b].at = "open" /\ UNCHANGED ledger
      BY <1>8 DEF Fill, stores, OpenBuys
    <3>2. buy[b].filled < Shares /\ buy[b].filled \in 0 .. Shares
      BY <1>1, <3>1 DEF BuyOK
    <3> QED
      BY <1>1, <1>3, <1>8, <3>1, <3>2
  <2>2. <<b, n>> \in Bought(s)'
    BY <1>8, <2>1 DEF Bought
  <2>3. <<b, n>> \notin Bought(s)
    BY <1>1 DEF Bought
  <2> HIDE DEF n
  <2>4. /\ Cardinality(Bought(s) \cup {<<b, n>>}) = Cardinality(Bought(s)) + 1
        /\ IsFiniteSet(Bought(s) \cup {<<b, n>>})
    BY <1>6, <2>3, FS_AddElement
  <2>5. Cardinality(Bought(s) \cup {<<b, n>>}) <= Cardinality(Bought(s)')
    BY <1>5, <1>6, <2>2, FS_Subset
  <2> QED
    BY <1>1, <1>6, <1>8, <2>4, <2>5
<1> QED
  BY <1>7, <1>8, HeldGrows

\* No row claims more than could be bought after the fills were booked.
LEMMA SyncedBound ==
  ASSUME Types, NEW s \in Symbols, row[s].quantity <= MaxShares, NEW answers, NEW book
  PROVE  Synced(s, answers, book).quantity <= MaxShares
<1> DEFINE b == CHOOSE x \in OrderOf(s) : TRUE
<1>1. row[s] \in Rows /\ buy \in [Buys -> BrokerBuys] /\ row[s].quantity \in Nat
  BY DEF Types, Rows
<1>2. OrderOf(s) \subseteq Buys
  BY <1>1, BuysAreNat, EntryAssumption DEF OrderOf, Buys, Rows
<1>3. MaxShares \in Nat /\ Shares \in Nat /\ Shares <= MaxShares
  BY BoughtFew, BuysAreNat
<1>4. OrderOf(s) # {} =>
        buy[b].published \in Nat /\ buy[b].published <= MaxShares
  <2>1. OrderOf(s) # {} => buy[b].published \in 0 .. Shares
    BY <1>1, <1>2 DEF BrokerBuys
  <2> HIDE DEF b
  <2> QED
    BY <1>3, <2>1
<1> HIDE DEF b
<1>5. OrderOf(s) # {} => Applied(s, b).quantity <= MaxShares
  <2> SUFFICES ASSUME OrderOf(s) # {} PROVE Applied(s, b).quantity <= MaxShares
    OBVIOUS
  <2> DEFINE q == Max({row[s].quantity, buy[b].published})
  <2>1. q \in {row[s].quantity, buy[b].published}
    BY <1>1, <1>4, LargerIsOne
  <2>2. q <= MaxShares
    BY <1>4, <2>1
  <2> HIDE DEF q
  <2>3. [row[s] EXCEPT !.quantity = q].quantity = q
    BY <1>1 DEF Rows
  <2>4. [row[s] EXCEPT !.status = "OPEN", !.entry = b,
                       !.quantity = buy[b].published].quantity = buy[b].published
    BY <1>1 DEF Rows
  <2> QED
    BY <1>4, <2>2, <2>3, <2>4 DEF Applied, q
<1>6. [row[s] EXCEPT !.status = "CLOSED"].quantity = row[s].quantity
  BY <1>1 DEF Rows
<1> QED
  BY <1>5, <1>6 DEF Synced, b

\* Nor after any other step.
LEMMA RowStaysBounded ==
  ASSUME Types, ClaimsBounded, Next, NEW s \in Symbols
  PROVE  row'[s].quantity <= MaxShares
<1>1. /\ row \in [Symbols -> Rows] /\ row[s] \in Rows
      /\ row[s].quantity <= MaxShares /\ MaxShares \in Nat
  BY BoughtFew DEF Types, ClaimsBounded
<1>2. ASSUME NEW w \in Workers, Record(w)
      PROVE  row'[s].quantity \in {0, row[s].quantity}
  BY <1>1, <1>2 DEF Record
<1>3. ASSUME NEW answers \in SUBSET Symbols, SyncBuyFills(answers)
      PROVE  row'[s].quantity <= MaxShares
  BY <1>1, <1>3, SyncedBound DEF SyncBuyFills
<1>4. ASSUME NEW z \in Symbols, Adopt(z)
      PROVE  row'[s].quantity \in {0, row[s].quantity}
  <2>1. row'[s] = IF s = z THEN [row[s] EXCEPT !.status = "SUBMITTED", !.quantity = 0,
                                               !.entry = 0]
                  ELSE row[s]
    BY <1>1, <1>4 DEF Adopt
  <2> QED
    BY <1>1, <2>1 DEF Rows
<1>5. CASE OpenAdopted
  <2>1. PICK b \in FilledBuys(tick.symbol) :
          row' = [row EXCEPT ![tick.symbol].status = "OPEN",
                   ![tick.symbol].quantity = tick.positions[tick.symbol],
                   ![tick.symbol].entry = b]
    BY <1>5 DEF OpenAdopted
  <2>2. row'[s] = IF s = tick.symbol
                  THEN [row[s] EXCEPT !.status = "OPEN", !.quantity = tick.positions[s],
                                      !.entry = b]
                  ELSE row[s]
    BY <1>1, <2>1
  <2>3. row'[s].quantity \in {row[s].quantity, tick.positions[s]}
    BY <1>1, <2>2 DEF Rows
  <2> QED
    BY <1>1, <2>3 DEF ClaimsBounded
<1>6. CASE Abandon
  <2>1. row'[s] \in {row[s], [row[s] EXCEPT !.status = "CLOSED"]}
    BY <1>1, <1>6 DEF Abandon, CloseRow
  <2> QED
    BY <1>1, <2>1 DEF Rows
<1>7. ASSUME NEW z \in Symbols, Exit(z)
      PROVE  row'[s].quantity = row[s].quantity
  <2>1. row'[s] \in {row[s], [row[s] EXCEPT !.status = "CLOSED", !.traded = TRUE]}
    BY <1>1, <1>7 DEF Exit
  <2> QED
    BY <1>1, <2>1 DEF Rows
<1>8. CASE UNCHANGED row
  BY <1>1, <1>8
<1>9. ASSUME NEW w \in Workers, WorkerStep(w), ~Record(w)
      PROVE  UNCHANGED row
  BY <1>9 DEF WorkerStep, CheckRow, ReadBook, Drop, Register, ReadPositions,
     ReadOrders, Judge, Send, Refuse, Answered, RecordFails, stores
<1>10. CASE EndTick \/ (\E read \in BOOLEAN : Sweep(read)) \/ ReadHoldings
            \/ OpenFails \/ AdoptDone \/ (EntryTimeouts /\ ~Abandon)
  <2>1. UNCHANGED row
    BY <1>10 DEF EntryTimeouts, EndTick, Sweep, ReadHoldings, OpenFails,
       AdoptDone, AskCancel, CancelGate, CancelUnconfirmed, CancelConfirmed,
       CancelRaises, CancelRefused, TimeoutsDone, stores, CancelGoesOn
  <2> QED
    BY <1>8, <2>1
<1>11. ASSUME NEW b \in Buys, Market(b) \/ Reconcile(b)
       PROVE  UNCHANGED row
  BY <1>11 DEF Reconcile, Market, Land, Fill, Publish, Lapse, Age, stores
<1>12. CASE \/ StartTick \/ TickDies
            \/ \E w \in Workers : WorkerDies(w) \/ \E z \in Symbols : Take(w, z)
  <2>1. UNCHANGED row
    BY <1>12 DEF StartTick, TickDies, WorkerDies, Take, Dies, stores
  <2> QED
    BY <1>8, <2>1
<1> QED
  BY <1>1, <1>2, <1>3, <1>4, <1>5, <1>6, <1>7, <1>8, <1>9, <1>10, <1>11, <1>12
  DEF Next, TickStep

\* The tick has read what was held, or nothing.
LEMMA ReadingStaysBounded ==
  ASSUME Types, HeldIsBought, ClaimsBounded, Next, NEW s \in Symbols
  PROVE  tick'.positions[s] <= MaxShares
<1>1. /\ tick \in TickStates /\ tick.positions[s] <= MaxShares
      /\ MaxShares \in Nat /\ IdleTick.positions[s] = 0
      /\ Cardinality(Bought(s)) <= MaxShares /\ Cardinality(Bought(s)) \in Nat
      /\ held[s] \in Nat
  BY BoughtFew DEF Types, ClaimsBounded, IdleTick, Nothing
<1>2. held[s] <= MaxShares
  BY <1>1 DEF HeldIsBought
<1>3. CASE \E pc : Goto(pc)
  BY <1>1, <1>3 DEF Goto, TickStates
<1>4. CASE StartTick \/ EndTick \/ TickDies \/ AdoptDone
           \/ \E answers \in SUBSET Symbols : SyncBuyFills(answers)
  <2>1. tick'.positions = IdleTick.positions
    BY <1>4 DEF StartTick, EndTick, TickDies, AdoptDone, SyncBuyFills, IdleTick
  <2> QED
    BY <1>1, <2>1
<1>5. CASE ReadHoldings
  <2>1. tick'.positions = held
    BY <1>1, <1>5 DEF ReadHoldings, TickStates
  <2> QED
    BY <1>2, <2>1
<1>6. CASE \/ \E z \in Symbols : Adopt(z) \/ AskCancel(z)
           \/ \E read \in BOOLEAN : Sweep(read)
  <2>1. tick'.positions = tick.positions
    BY <1>1, <1>6 DEF Adopt, AskCancel, Sweep, TickStates
  <2> QED
    BY <1>1, <2>1
<1>7. CASE OpenAdopted \/ OpenFails \/ (EntryTimeouts /\ ~\E z \in Symbols : AskCancel(z))
  BY <1>3, <1>7 DEF OpenAdopted, OpenFails, EntryTimeouts, CancelGate, CancelRefused,
     CancelConfirmed, CancelUnconfirmed, CancelRaises, Abandon, TimeoutsDone,
     CancelGoesOn
<1>8. CASE UNCHANGED tick
  BY <1>1, <1>8
<1>9. ASSUME NEW w \in Workers,
             WorkerStep(w) \/ WorkerDies(w) \/ \E z \in Symbols : Take(w, z)
      PROVE  UNCHANGED tick
  BY <1>9, WorkersKeepTick
<1>10. ASSUME NEW b \in Buys, Market(b) \/ Reconcile(b)
       PROVE  UNCHANGED tick
  BY <1>10 DEF Reconcile, Market, Land, Fill, Publish, Lapse, Age
<1>11. ASSUME NEW z \in Symbols, Exit(z)
       PROVE  UNCHANGED tick
  BY <1>11 DEF Exit
<1> QED
  BY <1>4, <1>5, <1>6, <1>7, <1>8, <1>9, <1>10, <1>11 DEF Next, TickStep, EntryTimeouts

\* Nothing is held, claimed or read at first.
LEMMA InitBounds == Init => Bounds
<1> SUFFICES ASSUME Init PROVE Bounds
  OBVIOUS
<1>1. \A s \in Symbols : /\ held[s] = 0 /\ row[s].quantity = 0
                         /\ tick.positions[s] = 0
  BY DEF Init, Nothing, NoRow, IdleTick
<1>2. \A s \in Symbols : /\ Cardinality(Bought(s)) \in Nat /\ MaxShares \in Nat
  BY BoughtFew
<1> QED
  BY <1>1, <1>2 DEF Bounds, HeldIsBought, ClaimsBounded

\* The bounds hold in every reachable state.
LEMMA BoundsInvariance == Spec => []Bounds
<1>1. IInv /\ Bounds /\ [Next]_vars => Bounds'
  <2> SUFFICES ASSUME IInv, Bounds, [Next]_vars PROVE Bounds'
    OBVIOUS
  <2>1. CASE UNCHANGED vars
    BY <2>1 DEF vars, Bounds, HeldIsBought, ClaimsBounded, Bought
  <2>2. CASE Next
    BY <2>2, HeldStaysBought, RowStaysBounded, ReadingStaysBounded
    DEF IInv, Bounds, ClaimsBounded
  <2> QED
    BY <2>1, <2>2
<1> QED
  BY <1>1, InitBounds, EntryInvariance, PTL DEF Spec

\* TypeOK for every reachable state: in particular nothing is held that was not
\* bought, and no row claims more than all buys together can fill, whichever of
\* booking, adoption and the late row of a worker wrote it.
THEOREM TypeCorrect == Spec => []TypeOK
<1>1. IInv /\ Bounds => TypeOK
  <2> SUFFICES ASSUME IInv, Bounds PROVE TypeOK
    OBVIOUS
  <2>1. \A s \in Symbols :
          /\ MaxShares \in Nat /\ Cardinality(Bought(s)) \in Nat
          /\ Cardinality(Bought(s)) <= MaxShares
    BY BoughtFew
  <2>2. \A s \in Symbols : held[s] \in 0 .. MaxShares
    BY <2>1 DEF IInv, Types, Bounds, HeldIsBought
  <2>3. held \in [Symbols -> 0 .. MaxShares]
    BY <2>2 DEF IInv, Types
  <2>4. ASSUME NEW s \in Symbols
        PROVE  row[s] \in [status : {"SUBMITTED", "OPEN", "CLOSED"},
                 quantity : 0 .. MaxShares, client : 0 .. MaxBuys,
                 entry : 0 .. MaxBuys, traded : BOOLEAN]
    <3>1. row[s] \in Rows /\ row[s].quantity <= MaxShares
      BY DEF IInv, Types, Bounds, ClaimsBounded
    <3>2. row[s].quantity \in 0 .. MaxShares
      BY <2>1, <3>1 DEF Rows
    <3> QED
      BY <3>1, <3>2 DEF Rows
  <2>5. row \in [Symbols -> [status : {"SUBMITTED", "OPEN", "CLOSED"},
                 quantity : 0 .. MaxShares, client : 0 .. MaxBuys,
                 entry : 0 .. MaxBuys, traded : BOOLEAN]]
    BY <2>4 DEF IInv, Types
  <2> QED
    BY <2>3, <2>5 DEF TypeOK, MaxShares, IInv, Types, Orders, Statuses, BrokerBuys
<1> QED
  BY <1>1, EntryInvariance, BoundsInvariance, PTL

=============================================================================
