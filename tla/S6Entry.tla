------------------------------ MODULE S6Entry ------------------------------
(***************************************************************************)
(* How an S6 position begins (kis_live_trading.py, execution/entry_limits, *)
(* s6_live/entry_timeout, fill_adoption).  Workers prepare entries without *)
(* a lock and submit them, one at a time, under the execution lock; the    *)
(* exit monitor's tick, which holds the same lock, books their fills,      *)
(* adopts what was never booked and cancels what rests too long.  The      *)
(* position's row is written by the worker after it has let the lock go.   *)
(* Meanwhile the broker works, the reconciliation service moves the order  *)
(* ledger without any lock, and workers and ticks may die.  All of it      *)
(* happens on one trading day.                                             *)
(***************************************************************************)
EXTENDS Integers, FiniteSets, FiniteSetsExt

CONSTANTS
  Symbols,
  Workers,        \* the entry cycle and the buy worker
  Tick, None,     \* model values
  Shares,         \* shares every entry asks for
  MaxPositions,   \* LIVE_ROLLOUT_MAX_POSITIONS
  MaxEntries,     \* LIVE_ROLLOUT_MAX_DAILY_ENTRIES
  MaxBuys,        \* model bound: buys that are registered
  MaxCrashes      \* model bound: workers and ticks that die

Buys == 1 .. MaxBuys            \* in the order of their registration

ASSUME EntryAssumption ==
  /\ {Tick, None} \cap Workers = {} /\ Tick # None /\ None \notin Symbols
  /\ Shares \in Nat \ {0} /\ MaxBuys \in Nat \ {0}
  /\ MaxPositions \in Nat /\ MaxEntries \in Nat /\ MaxCrashes \in Nat

VARIABLES
  ledger,    \* ledger[b]: its row in kis_order_idempotency
  buy,       \* buy[b]: the order at the broker
  row,       \* row[s]: the newest s6_positions row of the symbol
  held,      \* held[s]: shares in the broker's position
  lock,      \* who has the execution lock (s6_exec.lock)
  worker,    \* local state of the workers
  tick,      \* local state of the tick
  crashes    \* processes that died

vars == <<ledger, buy, row, held, lock, worker, tick, crashes>>
broker == <<buy, held>>
stores == <<ledger, row>>

NoOrder == [symbol |-> None, status |-> "none", number |-> FALSE]
NoBuy == [at |-> "none", filled |-> 0, published |-> 0, old |-> FALSE]
NoRow == [status |-> "CLOSED", quantity |-> 0, client |-> 0, entry |-> 0,
          traded |-> FALSE]
Nothing == [s \in Symbols |-> 0]
IdleWorker == [pc |-> "idle", symbol |-> None, buy |-> 0, booked |-> FALSE,
               positions |-> Nothing, open |-> {}]
IdleTick == [pc |-> "idle", next |-> "idle", symbol |-> None, read |-> FALSE,
             sweep |-> {}, old |-> {}, positions |-> Nothing, left |-> {}]

Init ==
  /\ ledger = [b \in Buys |-> NoOrder]
  /\ buy = [b \in Buys |-> NoBuy]
  /\ row = [s \in Symbols |-> NoRow]
  /\ held = Nothing
  /\ lock = None
  /\ worker = [w \in Workers |-> IdleWorker]
  /\ tick = IdleTick
  /\ crashes = 0

-----------------------------------------------------------------------------
(* The broker's side. *)

OpenBuys == {b \in Buys : buy[b].at = "open"}
BuysOf(s) == {b \in Buys : ledger[b].symbol = s}

\* The request arrives, is refused, or never arrives.
Land(b) ==
  /\ buy[b].at = "wire"
  /\ \E at \in {"open", "refused", "lost"} : buy' = [buy EXCEPT ![b].at = at]
  /\ UNCHANGED <<stores, held, lock, worker, tick, crashes>>

\* An execution.  A full one takes the order out of the open-order book at
\* once; its row in the fill history is published later.
Fill(b) ==
  /\ b \in OpenBuys
  /\ held' = [held EXCEPT ![ledger[b].symbol] = @ + 1]
  /\ buy' = [buy EXCEPT ![b].filled = @ + 1,
                        ![b].at = IF buy[b].filled + 1 = Shares THEN "gone" ELSE @]
  /\ UNCHANGED <<stores, lock, worker, tick, crashes>>

Publish(b) ==
  /\ buy[b].published < buy[b].filled
  /\ buy' = [buy EXCEPT ![b].published = @ + 1]
  /\ UNCHANGED <<stores, held, lock, worker, tick, crashes>>

Lapse(b) ==         \* the end of its day
  /\ b \in OpenBuys
  /\ buy' = [buy EXCEPT ![b].at = "gone"]
  /\ UNCHANGED <<stores, held, lock, worker, tick, crashes>>

\* 900 seconds pass since its creation (kis_fill_inquiry).
Age(b) ==
  /\ buy[b].at \in {"open", "gone"} /\ ~buy[b].old
  /\ buy' = [buy EXCEPT ![b].old = TRUE]
  /\ UNCHANGED <<stores, held, lock, worker, tick, crashes>>

-----------------------------------------------------------------------------
(* The order ledger, and reconciliation, which takes no lock. *)

SetStatus(b, status) == ledger' = [ledger EXCEPT ![b].status = status]
FilledStatus(b) == IF buy[b].published = Shares THEN "FILLED" ELSE "PARTIALLY_FILLED"

\* settle_live_orders and resolve_unknown_orders.
Reconcile(b) ==
  /\ ledger[b].number
  /\ \/ /\ ledger[b].status \in {"ACCEPTED", "PARTIALLY_FILLED"}
        /\ b \notin OpenBuys /\ buy[b].published > 0
        /\ ledger[b].status # FilledStatus(b)
        /\ SetStatus(b, FilledStatus(b))
     \/ /\ ledger[b].status = "UNKNOWN" /\ buy[b].published > 0
        /\ SetStatus(b, FilledStatus(b))
     \/ /\ ledger[b].status = "UNKNOWN" /\ buy[b].published = 0
        /\ b \in OpenBuys
        /\ SetStatus(b, "ACCEPTED")
  /\ UNCHANGED <<broker, row, lock, worker, tick, crashes>>

-----------------------------------------------------------------------------
(* The worker: one prepared entry, under the execution lock. *)

Symbol(w) == worker[w].symbol
WorkerGoto(w, pc) == worker' = [worker EXCEPT ![w].pc = pc]
WorkerEnds(w) == worker' = [worker EXCEPT ![w] = IdleWorker]
Unregistered == {b \in Buys : ledger[b].status = "none"}
Live(s) == row[s].status # "CLOSED"

\* execution_lock.hold; an entry that does not get it in time is dropped.
Take(w, s) ==
  /\ worker[w].pc = "idle" /\ lock = None /\ Unregistered # {}
  /\ lock' = w
  /\ worker' = [worker EXCEPT ![w] = [IdleWorker EXCEPT !.pc = "row", !.symbol = s]]
  /\ UNCHANGED <<broker, stores, tick, crashes>>

\* _revalidate_before_submit: the symbol's row, then the open-order book.
CheckRow(w) ==
  /\ worker[w].pc = "row" /\ ~Live(Symbol(w))
  /\ WorkerGoto(w, "book")
  /\ UNCHANGED <<broker, stores, lock, tick, crashes>>
ReadBook(w) ==
  /\ worker[w].pc = "book"
  /\ worker' = [worker EXCEPT ![w].pc = "register",
                  ![w].booked = BuysOf(Symbol(w)) \cap OpenBuys # {}]
  /\ UNCHANGED <<broker, stores, lock, tick, crashes>>

\* A live row, a failed read, a HALT, an expired signal: nothing is sent.
Drop(w) ==
  /\ worker[w].pc \in {"row", "book"}
  /\ WorkerEnds(w) /\ lock' = None
  /\ UNCHANGED <<broker, stores, tick, crashes>>

\* submit_buy_order: the ledger row, then the snapshot's reads.  SUBMITTING
\* stands for every status before an answer.
Register(w) ==
  /\ worker[w].pc = "register"
  /\ \E b \in Unregistered :
       /\ \A c \in Unregistered : b <= c
       /\ ledger' = [ledger EXCEPT ![b] =
            [symbol |-> Symbol(w), status |-> "SUBMITTING", number |-> FALSE]]
       /\ worker' = [worker EXCEPT ![w].pc = "positions", ![w].buy = b]
  /\ UNCHANGED <<broker, row, lock, tick, crashes>>
ReadPositions(w) ==
  /\ worker[w].pc = "positions"
  /\ worker' = [worker EXCEPT ![w].pc = "orders", ![w].positions = held]
  /\ UNCHANGED <<broker, stores, lock, tick, crashes>>
ReadOrders(w) ==
  /\ worker[w].pc = "orders"
  /\ worker' = [worker EXCEPT ![w].pc = "judge", ![w].open = OpenBuys]
  /\ UNCHANGED <<broker, stores, lock, tick, crashes>>

\* The fill history is read last; then what was read is compared with the
\* position rows and the order ledger (build_snapshot, is_clean).
Tracked ==
  {b \in Buys : /\ ledger[b].status \in {"ACCEPTED", "PARTIALLY_FILLED", "CANCEL_PENDING"}
                /\ ledger[b].number}
Published == {b \in Buys : buy[b].published > 0}
Clean(positions, open) ==
  /\ \A s \in Symbols : positions[s] = IF Live(s) THEN row[s].quantity ELSE 0
  /\ open \subseteq Tracked
  /\ Tracked \subseteq open \cup Published
  /\ \A b \in Published : ledger[b].number => ledger[b].status # "CANCELLED"
  /\ \A b \in Buys : ledger[b].status # "UNKNOWN"
Judge(w) ==
  /\ worker[w].pc = "judge"
  /\ Clean(worker[w].positions, worker[w].open)
  /\ WorkerGoto(w, "gate")
  /\ UNCHANGED <<broker, stores, lock, tick, crashes>>

\* collect(): the snapshot's positions with the ledger as it is now.
\* Variant: an order without an answer is not pending.
PendingAnswered(w) ==
  {ledger[b].symbol : b \in
     {x \in Buys \ {worker[w].buy} : ledger[x].status \in {"ACCEPTED", "PARTIALLY_FILLED"}}}
Pending(w) ==
  {ledger[b].symbol : b \in
     {x \in Buys \ {worker[w].buy} :
        ledger[x].status \notin {"none", "FILLED", "CANCELLED", "REJECTED"}}}
Owned(w) == {s \in Symbols : worker[w].positions[s] > 0}
LiveSymbols == {s \in Symbols : Live(s)}
\* Variant: a cancelled buy gives its place in the day back.
EntriesNotCancelled(w) ==
  {b \in Buys \ {worker[w].buy} :
     ledger[b].status \notin {"none", "REJECTED", "CANCELLED"}}
EntriesToday(w) ==
  {b \in Buys \ {worker[w].buy} : ledger[b].status \notin {"none", "REJECTED"}}

\* The open-order check and _check_entry_limits of evaluate_buy_gate.  Its
\* brake on symbols refused today lets everything pass when it cannot read
\* the ledger, and so restrains nothing here.
Allowed(w) ==
  /\ ~worker[w].booked
  /\ Symbol(w) \notin Owned(w) \cup Pending(w) \cup LiveSymbols
  /\ ~row[Symbol(w)].traded
  /\ Cardinality(Owned(w) \cup Pending(w)) < MaxPositions
  /\ Cardinality(EntriesToday(w)) < MaxEntries
Send(w) ==
  /\ worker[w].pc = "gate" /\ Allowed(w)
  /\ buy' = [buy EXCEPT ![worker[w].buy].at = "wire"]
  /\ worker' = [worker EXCEPT ![w] =
       [IdleWorker EXCEPT !.pc = "await", !.symbol = Symbol(w), !.buy = worker[w].buy]]
  /\ UNCHANGED <<stores, held, lock, tick, crashes>>

\* A read fails, the snapshot is dirty, the gate refuses: _reject.
Refuse(w) ==
  /\ worker[w].pc \in {"positions", "orders", "judge", "gate"}
  /\ SetStatus(worker[w].buy, "REJECTED")
  /\ WorkerEnds(w) /\ lock' = None
  /\ UNCHANGED <<broker, row, tick, crashes>>

\* The answer is recorded and the lock let go.  Nothing is left to do after
\* a refusal, nor, as the engine then raises, after an acceptance it could
\* only record as UNKNOWN.
Answer(w, status, number, pc) ==
  /\ ledger' = [ledger EXCEPT ![worker[w].buy].status = status,
                              ![worker[w].buy].number = number]
  /\ IF pc = "idle" THEN WorkerEnds(w) ELSE WorkerGoto(w, pc)
Answered(w) ==
  /\ worker[w].pc = "await"
  /\ LET at == buy[worker[w].buy].at IN
       \/ at \in {"open", "gone"} /\ Answer(w, "ACCEPTED", TRUE, "record")
       \/ at \in {"open", "gone"} /\ Answer(w, "UNKNOWN", TRUE, "idle")
       \/ at = "refused" /\ Answer(w, "REJECTED", FALSE, "idle")
       \/ Answer(w, "UNKNOWN", FALSE, "record")
  /\ lock' = None
  /\ UNCHANGED <<broker, row, tick, crashes>>

\* record_entry_submission, without the lock.  A live row of the symbol
\* (idx_s6_positions_open_symbol) or a failed write leaves no row: a warning.
Record(w) ==
  /\ worker[w].pc = "record" /\ ~Live(Symbol(w))
  /\ row' = [row EXCEPT ![Symbol(w)] =
       [status |-> "SUBMITTED", quantity |-> 0, client |-> worker[w].buy,
        entry |-> 0, traded |-> @.traded]]
  /\ WorkerEnds(w)
  /\ UNCHANGED <<broker, ledger, lock, tick, crashes>>
RecordFails(w) ==
  /\ worker[w].pc = "record"
  /\ WorkerEnds(w)
  /\ UNCHANGED <<broker, stores, lock, tick, crashes>>

-----------------------------------------------------------------------------
(* The tick. *)

At(pc) == tick.pc = pc
Goto(pc) == tick' = [tick EXCEPT !.pc = pc]
Unfilled(s) == row[s].status = "SUBMITTED"
CloseRow(s) == row' = [row EXCEPT ![s].status = "CLOSED"]

\* With no live row the tick only asks whether there is something to adopt.
StartTick ==
  /\ At("idle") /\ lock = None
  /\ lock' = Tick
  /\ tick' = IF LiveSymbols = {}
             THEN [IdleTick EXCEPT !.pc = "holdings", !.next = "sweep"]
             ELSE [IdleTick EXCEPT !.pc = "sweep"]
  /\ UNCHANGED <<broker, stores, worker, crashes>>
EndTick ==
  /\ At("exits") \/ (At("sweep") /\ LiveSymbols = {})
  /\ tick' = IdleTick /\ lock' = None
  /\ UNCHANGED <<broker, stores, worker, crashes>>

\* One open-order sweep, which may fail, and one moment for the whole tick.
Sweep(read) ==
  /\ At("sweep") /\ LiveSymbols # {}
  /\ tick' = [tick EXCEPT !.pc = "fills", !.read = read,
                !.sweep = IF read THEN OpenBuys ELSE {},
                !.old = {b \in Buys : buy[b].old}]
  /\ UNCHANGED <<broker, stores, lock, worker, crashes>>

\* _order_id_for: the row's own entry order, else the number that the ledger
\* has for the order the row was written for.
OrderOf(s) ==
  IF row[s].entry # 0 THEN {row[s].entry}
  ELSE {b \in Buys : b = row[s].client /\ ledger[b].number}

\* Variant: a fill is added to what is booked.
AppliedOnTop(s, b) ==
  [row[s] EXCEPT !.status = "OPEN", !.entry = b,
                 !.quantity = @ + buy[b].published]

\* apply_fill: the cumulative quantity of the order, never less than before.
Applied(s, b) ==
  IF Unfilled(s) THEN [row[s] EXCEPT !.status = "OPEN", !.entry = b,
                                     !.quantity = buy[b].published]
  ELSE [row[s] EXCEPT !.quantity = Max({@, buy[b].published})]

\* The row of s after sync_buy_fills.  An order the ledger has as refused or
\* cancelled is not looked up; a report without a fill is final when the
\* order is not in the book and 900 seconds old.
Synced(s, answers, book) ==
  LET orders == OrderOf(s)
      b      == CHOOSE x \in orders : TRUE
  IN  IF ~Live(s) THEN row[s]
      ELSE IF Unfilled(s) /\ row[s].client # 0
              /\ ledger[row[s].client].status \in {"REJECTED", "CANCELLED"}
      THEN [row[s] EXCEPT !.status = "CLOSED"]
      ELSE IF s \notin answers \/ orders = {} THEN row[s]
      ELSE IF buy[b].published > 0 THEN Applied(s, b)
      ELSE IF Unfilled(s) /\ b \in tick.old \ book
      THEN [row[s] EXCEPT !.status = "CLOSED"]
      ELSE row[s]

\* The rows are independent of each other, so one step stands for the loop.
Books == IF tick.read THEN {tick.sweep} ELSE {OpenBuys, Buys}
SyncBuyFills(answers) ==
  /\ At("fills")
  /\ \E book \in Books : row' = [s \in Symbols |-> Synced(s, answers, book)]
  /\ tick' = [IdleTick EXCEPT !.pc = "holdings", !.next = "timeouts"]
  /\ UNCHANGED <<broker, ledger, lock, worker, crashes>>

(* adopt_untracked_fills. *)

ReadHoldings ==
  /\ At("holdings")
  /\ tick' = [tick EXCEPT !.pc = "adopt", !.positions = held, !.left = Symbols]
  /\ UNCHANGED <<broker, stores, lock, worker, crashes>>

\* record_submission, on the context of the symbol's newest row.
\* Variant: adopted is only the order that the last row was written for.
FilledBuysOfRow(s) == {b \in BuysOf(s) : ledger[b].status = "FILLED" /\ b = row[s].client}
FilledBuys(s) == {b \in BuysOf(s) : ledger[b].status = "FILLED"}
Adopt(s) ==
  /\ At("adopt") /\ s \in tick.left
  /\ tick.positions[s] > 0 /\ ~Live(s) /\ FilledBuys(s) # {}
  /\ row' = [row EXCEPT ![s].status = "SUBMITTED", ![s].quantity = 0,
                        ![s].entry = 0]
  /\ tick' = [tick EXCEPT !.pc = "open", !.symbol = s, !.left = @ \ {s}]
  /\ UNCHANGED <<broker, ledger, lock, worker, crashes>>

\* open_from_fill.
OpenAdopted ==
  /\ At("open")
  /\ \E b \in FilledBuys(tick.symbol) :
       /\ \A c \in FilledBuys(tick.symbol) : c <= b
       /\ row' = [row EXCEPT ![tick.symbol].status = "OPEN",
                             ![tick.symbol].quantity = tick.positions[tick.symbol],
                             ![tick.symbol].entry = b]
  /\ Goto("adopt")
  /\ UNCHANGED <<broker, ledger, lock, worker, crashes>>

\* Its second write fails (the row stays as the first one left it), or there
\* is nothing more to adopt or to read.
OpenFails ==
  /\ At("open") /\ Goto("adopt")
  /\ UNCHANGED <<broker, stores, lock, worker, crashes>>
AdoptDone ==
  /\ At("holdings") \/ At("adopt")
  /\ tick' = [IdleTick EXCEPT !.pc = tick.next,
                              !.left = {s \in Symbols : Unfilled(s)}]
  /\ UNCHANGED <<broker, stores, lock, worker, crashes>>

(* entry_timeout.evaluate: the unfilled rows whose time or reason is gone. *)

\* cancel_unfilled: an order of the symbol rests in the book.
AskCancel(s) ==
  /\ At("timeouts") /\ s \in tick.left /\ Unfilled(s)
  /\ \E b \in Buys : b = row[s].client /\ ledger[b].number
  /\ BuysOf(s) \cap OpenBuys # {}
  /\ tick' = [tick EXCEPT !.pc = "cancelGate", !.symbol = s, !.left = @ \ {s}]
  /\ UNCHANGED <<broker, stores, lock, worker, crashes>>
CancelGoesOn(pc) == Goto(pc) /\ UNCHANGED <<held, row, lock, worker, crashes>>
Cancelled == row[tick.symbol].client

\* submit_cancel: the book is read again, CANCEL_PENDING recorded, or not.
CancelGate ==
  /\ At("cancelGate")
  /\ BuysOf(tick.symbol) \cap OpenBuys # {}
  /\ ledger[Cancelled].status \in {"ACCEPTED", "PARTIALLY_FILLED"}
  /\ SetStatus(Cancelled, "CANCEL_PENDING")
  /\ CancelGoesOn("cancelSend") /\ UNCHANGED buy
CancelRefused ==
  /\ At("cancelGate")
  /\ CancelGoesOn("timeouts") /\ UNCHANGED <<buy, ledger>>

\* Confirmed; not confirmed; no usable answer, or an answer that could not
\* be recorded.  Only the last raises.
CancelConfirmed ==
  /\ At("cancelSend") /\ Cancelled \in OpenBuys
  /\ buy' = [buy EXCEPT ![Cancelled].at = "gone"]
  /\ SetStatus(Cancelled, "CANCELLED")
  /\ CancelGoesOn("abandon")
CancelUnconfirmed ==
  /\ At("cancelSend")
  /\ SetStatus(Cancelled, "UNKNOWN")
  /\ CancelGoesOn("abandon") /\ UNCHANGED buy
CancelRaises ==
  /\ At("cancelSend")
  /\ \E taken \in {FALSE, (Cancelled \in OpenBuys)} :
       buy' = [buy EXCEPT ![Cancelled].at = IF taken THEN "gone" ELSE @]
  /\ \E status \in {"UNKNOWN", "CANCEL_PENDING"} : SetStatus(Cancelled, status)
  /\ CancelGoesOn("timeouts")

\* abandon_submission, of a row that is still SUBMITTED.
Abandon ==
  /\ At("abandon")
  /\ IF Unfilled(tick.symbol) THEN CloseRow(tick.symbol) ELSE UNCHANGED row
  /\ Goto("timeouts")
  /\ UNCHANGED <<broker, ledger, lock, worker, crashes>>
TimeoutsDone ==
  /\ At("timeouts") /\ Goto("exits")
  /\ UNCHANGED <<broker, stores, lock, worker, crashes>>

EntryTimeouts ==
  \/ \E s \in Symbols : AskCancel(s)
  \/ CancelGate \/ CancelRefused
  \/ CancelConfirmed \/ CancelUnconfirmed \/ CancelRaises
  \/ Abandon \/ TimeoutsDone

\* The exits, in one step: what S6Exit does in many.  A SELL never asks for
\* more than the broker holds.
Exit(s) ==
  /\ At("exits") /\ row[s].status = "OPEN" /\ row[s].quantity <= held[s]
  /\ held' = [held EXCEPT ![s] = @ - row[s].quantity]
  /\ row' = [row EXCEPT ![s].status = "CLOSED", ![s].traded = TRUE]
  /\ UNCHANGED <<buy, ledger, lock, worker, tick, crashes>>

-----------------------------------------------------------------------------
\* A process dies; the kernel drops its lock.
Dies(p) ==
  /\ crashes < MaxCrashes /\ crashes' = crashes + 1
  /\ lock' = IF lock = p THEN None ELSE lock
  /\ UNCHANGED <<broker, stores>>
WorkerDies(w) ==
  /\ worker[w].pc # "idle" /\ WorkerEnds(w) /\ Dies(w) /\ UNCHANGED tick
TickDies ==
  /\ ~At("idle") /\ tick' = IdleTick /\ Dies(Tick) /\ UNCHANGED worker

WorkerStep(w) ==
  \/ CheckRow(w) \/ ReadBook(w) \/ Drop(w) \/ Register(w)
  \/ ReadPositions(w) \/ ReadOrders(w) \/ Judge(w) \/ Send(w) \/ Refuse(w)
  \/ Answered(w) \/ Record(w) \/ RecordFails(w)

TickStep ==
  \/ EndTick
  \/ \E read \in BOOLEAN : Sweep(read)
  \/ \E answers \in SUBSET Symbols : SyncBuyFills(answers)
  \/ ReadHoldings \/ OpenAdopted \/ OpenFails \/ AdoptDone
  \/ \E s \in Symbols : Adopt(s)
  \/ EntryTimeouts

Market(b) == Land(b) \/ Fill(b) \/ Publish(b) \/ Lapse(b) \/ Age(b)

Next ==
  \/ \E w \in Workers : WorkerStep(w) \/ WorkerDies(w) \/ \E s \in Symbols : Take(w, s)
  \/ StartTick \/ TickStep \/ TickDies
  \/ \E s \in Symbols : Exit(s)
  \/ \E b \in Buys : Market(b) \/ Reconcile(b)

Spec == Init /\ [][Next]_vars

\* Who has begun goes on.  Cron starts a tick every minute, and one gets the
\* lock again and again, as nobody keeps it; the reconciliation service runs
\* again and again; the reads and writes of adoption succeed again and again.
FairSpec ==
  /\ Spec
  /\ \A w \in Workers : WF_vars(WorkerStep(w))
  /\ WF_vars(TickStep) /\ SF_vars(StartTick)
  /\ SF_vars(ReadHoldings)
  /\ \A s \in Symbols : SF_vars(Adopt(s))
  /\ \A b \in Buys : WF_vars(Reconcile(b)) /\ WF_vars(Publish(b))

-----------------------------------------------------------------------------
(* Properties. *)

TypeOK ==
  /\ ledger \in [Buys ->
       [symbol : Symbols \cup {None}, number : BOOLEAN,
        status : {"none", "SUBMITTING", "ACCEPTED", "PARTIALLY_FILLED",
                  "FILLED", "CANCEL_PENDING", "CANCELLED", "REJECTED",
                  "UNKNOWN"}]]
  /\ buy \in [Buys ->
       [at : {"none", "wire", "lost", "refused", "open", "gone"},
        filled : 0 .. Shares, published : 0 .. Shares, old : BOOLEAN]]
  /\ row \in [Symbols ->
       [status : {"SUBMITTED", "OPEN", "CLOSED"},
        quantity : 0 .. Shares * MaxBuys, client : 0 .. MaxBuys,
        entry : 0 .. MaxBuys, traded : BOOLEAN]]
  /\ held \in [Symbols -> 0 .. Shares * MaxBuys]
  /\ lock \in Workers \cup {Tick, None}
  /\ crashes \in 0 .. MaxCrashes

\* A buy leaves only for a symbol of which the broker holds nothing and works
\* no other buy: row, open-order book, snapshot and ledger are read one after
\* the other while the broker, reconciliation and the worker of an earlier
\* entry, which writes its row without the lock, move on.
Working(s) == {b \in BuysOf(s) : buy[b].at \in {"wire", "open"}}
NoSecondBuy ==
  [][\A w \in Workers :
       Send(w) => held[Symbol(w)] = 0 /\ Working(Symbol(w)) = {}]_vars

\* No more buys than the day allows may have reached the broker, whatever
\* became of them and of the processes that sent them (_daily_entry_count).
DailyCapHolds ==
  Cardinality({b \in Buys : buy[b].at \notin {"none", "refused"}}) <= MaxEntries

\* Shares of a buy that the ledger has as FILLED come under a live row, or are
\* gone: the row may have been closed before the fill was seen, never written
\* by a worker that died or failed, or left half-written by an adoption.
FilledBuyIsTracked ==
  \A b \in Buys :
    ledger[b].status = "FILLED"
      ~> \A s \in Symbols : ledger[b].symbol = s => held[s] = 0 \/ Live(s)

\* The row that a confirmed cancel closes had no fill: a buy "filled in part"
\* is to be "OPEN for the filled quantity, remainder cancelled" (entry_timeout).
PartFilledStaysOpen ==
  [][Abandon /\ Unfilled(tick.symbol) /\ ledger[Cancelled].status = "CANCELLED"
       => buy[Cancelled].filled = 0]_vars

=============================================================================
