------------------------------- MODULE S6Exit -------------------------------
(***************************************************************************)
(* How a held S6 position leaves (s6_live, scripts/run_s6_runtime.py): one *)
(* symbol, whose entry is filled.  A tick runs its stages in order under   *)
(* the cron lock: apply BUY fills, decide and submit an exit, retry a      *)
(* latched one, apply SELL fills, cancel a stale SELL, release a dead one, *)
(* retire a row the broker no longer backs.  Meanwhile the broker fills    *)
(* and publishes, the reconciliation service resolves what is UNKNOWN, and *)
(* the tick may die between any two of its steps.                          *)
(***************************************************************************)
EXTENDS Integers, FiniteSets, FiniteSetsExt

CONSTANTS
  Shares,         \* shares the entry bought
  MaxSells,       \* model bound: SELL orders that are sent
  MaxPositions,   \* model bound: position rows of the symbol
  MaxCrashes      \* model bound: ticks that die

Sells == 1 .. MaxSells          \* in the order of their creation

ASSUME SizeAssumption ==
  /\ Shares \in Nat \ {0} /\ MaxSells \in Nat \ {0}
  /\ MaxPositions \in Nat \ {0} /\ MaxCrashes \in Nat

VARIABLES
  row,       \* the newest s6_positions row of the symbol
  intent,    \* intent[s]: its row in exit_intents
  order,     \* order[s]: what its row in kis_order_idempotency says
  sell,      \* sell[s]: the order at the broker
  held,      \* shares in the broker's position
  tick,      \* local state of the tick
  crashes    \* ticks that died

vars == <<row, intent, order, sell, held, tick, crashes>>
ledgers == <<intent, order>>
broker == <<sell, held>>

Ages == {"young", "stale", "old"}
Stages ==
  {"idle", "adopt", "buyFills", "exits", "retry", "readPosition", "readOrders",
   "snapshot", "gate", "await", "accepted", "submitted", "ambiguous",
   "unrecorded", "sellFills", "stale", "cancel", "confirm", "release",
   "recover", "recoverRow", "retire"}

NoIntent == [position |-> 0, state |-> "none", qty |-> 0, number |-> FALSE]
NoOrder == [unknown |-> FALSE, number |-> FALSE]
NoSell == [at |-> "none", filled |-> 0, published |-> 0, age |-> "young"]
NoTick == [pc |-> "idle", read |-> FALSE, sweep |-> {}, allowed |-> FALSE,
           ages |-> [s \in Sells |-> "young"], sell |-> 1, next |-> "idle",
           qty |-> 0, pending |-> FALSE, snap |-> 0, book |-> 0]

Init ==
  /\ \E q \in 1 .. Shares :     \* fewer when the entry filled in parts
       row = [position |-> 1, status |-> "OPEN", quantity |-> q,
              submitted |-> FALSE]
  /\ intent = [s \in Sells |-> NoIntent]
  /\ order = [s \in Sells |-> NoOrder]
  /\ sell = [s \in Sells |-> NoSell]
  /\ held = Shares
  /\ tick = NoTick
  /\ crashes = 0

-----------------------------------------------------------------------------
(* The broker's side. *)

Working == {s \in Sells : sell[s].at \in {"wire", "open"}}
OpenSells == {s \in Sells : sell[s].at = "open"}
Landed(s) == sell[s].at \in {"open", "gone"}

\* The request arrives, or never does.
Land(s) ==
  /\ sell[s].at = "wire"
  /\ \E at \in {"open", "lost"} : sell' = [sell EXCEPT ![s].at = at]
  /\ UNCHANGED <<row, ledgers, held, tick, crashes>>

\* An execution.  A full one takes the order out of the open-order book at
\* once; its row in the fill history is published later.
Fill(s) ==
  /\ s \in OpenSells /\ held > 0
  /\ held' = held - 1
  /\ sell' = [sell EXCEPT
       ![s].filled = sell[s].filled + 1,
       ![s].at = IF sell[s].filled + 1 = intent[s].qty THEN "gone" ELSE "open"]
  /\ UNCHANGED <<row, ledgers, tick, crashes>>

Publish(s) ==
  /\ sell[s].published < sell[s].filled
  /\ sell' = [sell EXCEPT ![s].published = sell[s].published + 1]
  /\ UNCHANGED <<row, ledgers, held, tick, crashes>>

\* The order leaves the book unfilled: its day ends, or a cancel that was
\* sent earlier takes effect.
Lapse(s) ==
  /\ s \in OpenSells
  /\ sell' = [sell EXCEPT ![s].at = "gone"]
  /\ UNCHANGED <<row, ledgers, held, tick, crashes>>

\* Since its creation 600 seconds pass (exit_timeout), then 900
\* (kis_fill_inquiry).
Age(s) ==
  /\ Landed(s) /\ sell[s].age # "old"
  /\ sell' = [sell EXCEPT
       ![s].age = IF sell[s].age = "young" THEN "stale" ELSE "old"]
  /\ UNCHANGED <<row, ledgers, held, tick, crashes>>

-----------------------------------------------------------------------------
(* The stores. *)

At(pc) == tick.pc = pc
Goto(pc) == tick' = [tick EXCEPT !.pc = pc]

Leaving == row.status = "EXIT_SUBMITTED" /\ row.submitted

\* get_active_intent
Active ==
  {s \in Sells :
     /\ intent[s].position = row.position
     /\ intent[s].state \in {"RESERVED", "SUBMITTED", "SUBMISSION_UNKNOWN"}}

EndIntent(state) ==
  intent' = [s \in Sells |->
               IF s \in Active THEN [intent[s] EXCEPT !.state = state]
               ELSE intent[s]]

Latch ==            \* latch_pending_exit
  row' = [row EXCEPT !.status = IF @ = "OPEN" THEN "EXIT_PENDING" ELSE @]

\* _abort_intent, then release_dead_exit, then on to next.
Abort(next) ==
  /\ EndIntent("ABORTED")
  /\ tick' = [tick EXCEPT !.pc = "release", !.next = next]

Close(state) ==     \* close_position, then the intent
  /\ row' = [row EXCEPT !.status = "CLOSED"]
  /\ EndIntent(state)

\* _order_id_for: the newest intent that carries a broker order number, else
\* the newest whose order ledger row does.
OfRow == {s \in Sells : intent[s].position = row.position}
Numbered ==
  LET own == {s \in OfRow : intent[s].number}
  IN  IF own # {} THEN own ELSE {s \in OfRow : order[s].number}

Silence == [sold |-> 0, terminal |-> FALSE]

\* Variant: absence is never final.
ReportOfFills(book) ==
  IF Numbered = {} THEN Silence
  ELSE LET p == sell[Max(Numbered)].published
       IN  [sold |-> p, terminal |-> p > 0 /\ p >= row.quantity]

\* inquire(): the published quantity, and whether it can still change, given
\* the orders the open-order book listed.  An unusable inquiry decides
\* nothing, like one that finds no fill yet.
Report(book) ==
  IF Numbered = {} THEN Silence
  ELSE LET s == Max(Numbered)
           p == sell[s].published
       IN  [sold |-> p,
            terminal |-> \/ p > 0 /\ p >= row.quantity
                         \/ s \notin book /\ tick.ages[s] = "old"]

\* The sweep of this tick; if it failed, a read of its own or none.
Books == IF tick.read THEN {tick.sweep} ELSE {OpenSells, Sells}
Reports == {Report(book) : book \in Books}

-----------------------------------------------------------------------------
(* The tick up to the exits. *)

\* Nothing tracked: adopt what the broker holds.  The ledger has the entry
\* as FILLED and S6 as its owner.
AdoptRead ==
  /\ At("idle") /\ row.status = "CLOSED"
  /\ held > 0 /\ row.position < MaxPositions
  /\ tick' = [NoTick EXCEPT !.pc = "adopt", !.book = held]
  /\ UNCHANGED <<row, ledgers, broker, crashes>>

Adopt ==
  /\ At("adopt")
  /\ row' = [position |-> row.position + 1, status |-> "OPEN",
             quantity |-> tick.book, submitted |-> FALSE]
  /\ tick' = NoTick
  /\ UNCHANGED <<ledgers, broker, crashes>>

\* One open-order sweep and one moment for the whole tick: ages are those of
\* its start.  The sweep may fail, and the session may not take exits.
Sweep(read, allowed) ==
  /\ At("idle") /\ row.status # "CLOSED"
  /\ tick' = [NoTick EXCEPT !.pc = "buyFills", !.read = read,
                !.sweep = IF read THEN OpenSells ELSE {}, !.allowed = allowed,
                !.ages = [s \in Sells |-> sell[s].age]]
  /\ UNCHANGED <<row, ledgers, broker, crashes>>

\* sync_buy_fills over the live rows without a submitted exit: the entry's
\* cumulative fill, if the inquiry answers.
SyncBuyFills ==
  /\ At("buyFills")
  /\ \E answers \in BOOLEAN :
       row' = IF answers /\ ~row.submitted /\ Shares > row.quantity
              THEN [row EXCEPT !.quantity = Shares] ELSE row
  /\ Goto("exits")
  /\ UNCHANGED <<ledgers, broker, crashes>>

-----------------------------------------------------------------------------
(* _submit_sell. *)

\* reserve(): one non-terminal intent per position.  Then on to next.
Unused == {s \in Sells : intent[s].state = "none"}
Reserve(next) ==
  IF Active # {} \/ Unused = {}
  THEN Goto(next) /\ UNCHANGED intent
  ELSE LET s == Min(Unused)
       IN  /\ intent' = [intent EXCEPT ![s] =
                  [position |-> row.position, state |-> "RESERVED",
                   qty |-> row.quantity, number |-> FALSE]]
           /\ tick' = [tick EXCEPT !.pc = "readPosition", !.sell = s,
                                   !.next = next]

\* run_exits: hold; or sell; or latch while the session takes no orders.
Hold == At("exits") /\ Goto("retry") /\ UNCHANGED <<row, ledgers>>
LatchExit ==
  /\ At("exits") /\ ~row.submitted /\ ~tick.allowed
  /\ Latch /\ Goto("retry") /\ UNCHANGED ledgers
DecideSell ==
  /\ At("exits") /\ ~row.submitted /\ tick.allowed
  /\ Reserve("retry") /\ UNCHANGED <<row, order>>
RunExits ==
  /\ Hold \/ LatchExit \/ DecideSell
  /\ UNCHANGED <<broker, crashes>>

RetryLatched ==
  /\ At("retry")
  /\ IF tick.allowed /\ row.status = "EXIT_PENDING" /\ ~row.submitted
     THEN Reserve("sellFills")
     ELSE Goto("sellFills") /\ UNCHANGED intent
  /\ UNCHANGED <<row, order, broker, crashes>>

\* The adapter's own two reads, then the engine's snapshot.
ReadPosition ==
  /\ At("readPosition")
  /\ tick' = [tick EXCEPT !.pc = "readOrders", !.qty = held]
  /\ UNCHANGED <<row, ledgers, broker, crashes>>
ReadOrders ==
  /\ At("readOrders")
  /\ tick' = [tick EXCEPT !.pc = "snapshot", !.pending = OpenSells # {}]
  /\ UNCHANGED <<row, ledgers, broker, crashes>>
Snapshot ==
  /\ At("snapshot")
  /\ tick' = [tick EXCEPT !.pc = "gate", !.snap = held]
  /\ UNCHANGED <<row, ledgers, broker, crashes>>

\* Variant: an UNKNOWN order elsewhere does not matter.
PermittedDespiteUnknown(qty) ==
  /\ qty <= tick.qty
  /\ ~tick.pending
  /\ tick.snap = row.quantity \/ tick.snap = tick.qty

\* Variant: the first read of the position is enough.
PermittedByOneRead(qty) ==
  /\ qty <= tick.qty
  /\ ~tick.pending
  /\ \A s \in Sells : ~order[s].unknown

\* evaluate_sell_gate.  The last conjunct is a clean snapshot, or else the
\* protective-exit evidence: two broker reads that agree.
Permitted(qty) ==
  /\ qty <= tick.qty
  /\ ~tick.pending
  /\ \A s \in Sells : ~order[s].unknown
  /\ tick.snap = row.quantity \/ tick.snap = tick.qty

Send ==
  /\ At("gate")
  /\ Permitted(intent[tick.sell].qty)
  /\ sell' = [sell EXCEPT ![tick.sell].at = "wire"]
  /\ Goto("await")
  /\ UNCHANGED <<row, ledgers, held, crashes>>

BeforeWire == tick.pc \in {"readPosition", "readOrders", "snapshot", "gate"}

\* A read fails, the gate refuses, or the broker rejects: the intent is
\* ABORTED and the exit latched.  Nothing reads such an intent again, so its
\* name is used for the next attempt.
Refuse ==
  /\ \/ BeforeWire
     \/ At("await") /\ sell[tick.sell].at = "wire"
  /\ intent' = [intent EXCEPT ![tick.sell] = NoIntent]
  /\ sell' = [sell EXCEPT ![tick.sell] = NoSell]
  /\ Latch /\ Goto(tick.next)
  /\ UNCHANGED <<order, held, crashes>>

\* The answer, recorded in the order ledger: accepted; lost; or accepted and
\* the record of it fails, which leaves UNKNOWN under a known number.
Answer(pc, unknown, number) ==
  /\ At("await") /\ (number => Landed(tick.sell))
  /\ order' = [order EXCEPT
       ![tick.sell] = [unknown |-> unknown, number |-> number]]
  /\ Goto(pc)
  /\ UNCHANGED <<row, intent, broker, crashes>>

Accepted == Answer("accepted", FALSE, TRUE)
Ambiguous == Answer("ambiguous", TRUE, FALSE)
Unrecorded == Answer("unrecorded", TRUE, TRUE)

MarkSubmitted ==
  /\ At("accepted")
  /\ intent' = [intent EXCEPT ![tick.sell].state = "SUBMITTED",
                              ![tick.sell].number = TRUE]
  /\ Goto("submitted")
  /\ UNCHANGED <<row, order, broker, crashes>>

MarkExitSubmitted ==
  /\ At("submitted")
  /\ row' = [row EXCEPT !.status = "EXIT_SUBMITTED", !.submitted = TRUE]
  /\ Goto(tick.next)
  /\ UNCHANGED <<ledgers, broker, crashes>>

\* An exception, of an ambiguous answer or of anything before the wire,
\* leaves the intent to reconciliation; an unrecorded acceptance comes back
\* from the adapter as a refusal.
MarkUnanswered ==
  /\ \E state \in {"SUBMISSION_UNKNOWN", "ABORTED"} :
       /\ IF state = "ABORTED" THEN At("unrecorded")
                              ELSE BeforeWire \/ At("ambiguous")
       /\ intent' = [intent EXCEPT ![tick.sell].state = state]
  /\ Latch /\ Goto(tick.next)
  /\ UNCHANGED <<order, broker, crashes>>

SubmitSell ==
  \/ ReadPosition \/ ReadOrders \/ Snapshot \/ Send \/ Refuse
  \/ Accepted \/ Ambiguous \/ Unrecorded
  \/ MarkSubmitted \/ MarkExitSubmitted \/ MarkUnanswered

-----------------------------------------------------------------------------
(* The stages after it. *)

\* Variant: a fill of exactly the rest does not close.
SyncSellFillsPastAll(f) ==
  /\ At("sellFills")
  /\ IF ~row.submitted \/ f.sold = 0
     THEN UNCHANGED <<row, ledgers>>
     ELSE IF f.sold > row.quantity
     THEN Close("CONFIRMED") /\ UNCHANGED order
     ELSE /\ row' = [row EXCEPT !.quantity = row.quantity - f.sold]
          /\ UNCHANGED ledgers
  /\ Goto("stale")
  /\ UNCHANGED <<broker, crashes>>

\* sync_sell_fills, with the inquiry's answer f.
SyncSellFills(f) ==
  /\ At("sellFills")
  /\ IF ~row.submitted \/ f.sold = 0
     THEN UNCHANGED <<row, ledgers>>
     ELSE IF f.sold >= row.quantity
     THEN /\ Close("CONFIRMED")
          /\ order' = [s \in Sells |->       \* settle_confirmed_sell
               IF s \in Active /\ f.sold >= intent[s].qty
               THEN [order[s] EXCEPT !.unknown = FALSE] ELSE order[s]]
     ELSE /\ row' = [row EXCEPT !.quantity = row.quantity - f.sold]
          /\ UNCHANGED ledgers
  /\ Goto("stale")
  /\ UNCHANGED <<broker, crashes>>

\* exit_timeout.evaluate: skip, or ask to cancel a stale SELL that the book
\* still lists.
SkipStale == At("stale") /\ Goto("recover") /\ UNCHANGED <<row, ledgers, sell>>
AskCancel ==
  /\ At("stale") /\ Leaving /\ OpenSells # {}
  /\ \E s \in Active :
       /\ tick.ages[s] # "young"
       /\ tick' = [tick EXCEPT !.pc = "cancel", !.sell = s]
  /\ UNCHANGED <<row, ledgers, sell>>

\* submit_cancel returns (next = "confirm") or raises; the order is taken
\* out of the book or not, its ledger row goes UNKNOWN or not.
Cancel(next) ==
  /\ At("cancel")
  /\ \E taken, unknown \in BOOLEAN :
       /\ taken => tick.sell \in OpenSells
       /\ next = "confirm" => taken \/ unknown
       /\ sell' = [sell EXCEPT ![tick.sell].at = IF taken THEN "gone" ELSE @]
       /\ order' = [order EXCEPT ![tick.sell].unknown = unknown \/ @]
  /\ Goto(next)
  /\ UNCHANGED <<row, intent>>

\* Variant: a cancel that returned is taken for done.
ConfirmNothing ==
  /\ At("confirm")
  /\ \/ Abort("recover")
     \/ Goto("recover") /\ UNCHANGED intent
  /\ UNCHANGED <<row, order, sell>>

\* The book is read once more before anything is released.
Confirm ==
  /\ At("confirm")
  /\ \/ OpenSells = {} /\ Abort("recover")
     \/ Goto("recover") /\ UNCHANGED intent
  /\ UNCHANGED <<row, order, sell>>

StaleSellTimeout ==
  /\ SkipStale \/ AskCancel \/ Cancel("confirm") \/ Cancel("recover") \/ Confirm
  /\ UNCHANGED <<held, crashes>>

\* recover_dead_exits: the positions, then the row and its inquiry.
RecoverRead ==
  /\ At("recover")
  /\ tick' = [tick EXCEPT !.pc = "recoverRow", !.book = held]
  /\ UNCHANGED <<row, ledgers, broker, crashes>>
RecoverUnread ==
  /\ At("recover") /\ Goto("retire")
  /\ UNCHANGED <<row, ledgers, broker, crashes>>

RecoverDeadExit(f) ==
  /\ At("recoverRow")
  /\ IF Leaving /\ f.terminal /\ f.sold < row.quantity
                /\ tick.book >= row.quantity
     THEN Abort("retire")
     ELSE Goto("retire") /\ UNCHANGED intent
  /\ UNCHANGED <<row, order, broker, crashes>>

Release ==
  /\ At("release")
  /\ row' = [row EXCEPT !.status = "EXIT_PENDING", !.submitted = FALSE]
  /\ Goto(tick.next)
  /\ UNCHANGED <<ledgers, broker, crashes>>

\* reconcile_unconfirmed_exits.  A position read as flat stays flat.
RetireUnconfirmed(f) ==
  /\ At("retire")
  /\ IF /\ Leaving /\ held = 0 /\ OpenSells = {}
        /\ f.sold = 0 /\ f.terminal
     THEN Close("ABORTED")
     ELSE UNCHANGED <<row, intent>>
  /\ tick' = NoTick
  /\ UNCHANGED <<order, broker, crashes>>

-----------------------------------------------------------------------------
(* The reconciliation service, and the death of a tick. *)

\* resolve_unknown_exit_intents.  KIS lists orders under its own numbers; an
\* intent whose answer was lost has none, so nothing matches, and what is
\* left is the quantity of the row.
ResolveIntent(s) ==
  /\ intent[s].state = "SUBMISSION_UNKNOWN"
  /\ row.quantity = intent[s].qty
  /\ intent' = [intent EXCEPT ![s].state = "ABORTED"]
  /\ UNCHANGED <<row, order, broker, tick, crashes>>

\* resolve_unknown_orders: an UNKNOWN order whose number KIS knows.
ResolveOrder(s) ==
  /\ order[s].unknown /\ order[s].number
  /\ s \in OpenSells \/ sell[s].published > 0
  /\ order' = [order EXCEPT ![s].unknown = FALSE]
  /\ UNCHANGED <<row, intent, broker, tick, crashes>>

Crash ==
  /\ ~At("idle") /\ crashes < MaxCrashes
  /\ crashes' = crashes + 1
  /\ tick' = NoTick
  /\ UNCHANGED <<row, ledgers, broker>>

TickStep ==
  \/ AdoptRead \/ Adopt
  \/ \E read, allowed \in BOOLEAN : Sweep(read, allowed)
  \/ SyncBuyFills \/ RunExits \/ RetryLatched \/ SubmitSell
  \/ \E f \in Reports \cup {Silence} :
       SyncSellFills(f) \/ RecoverDeadExit(f) \/ RetireUnconfirmed(f)
  \/ StaleSellTimeout \/ RecoverRead \/ RecoverUnread \/ Release

Market(s) == Land(s) \/ Fill(s) \/ Publish(s) \/ Lapse(s) \/ Age(s)
Service(s) == ResolveIntent(s) \/ ResolveOrder(s)

Next ==
  \/ TickStep \/ Crash
  \/ \E s \in Sells : Market(s) \/ Service(s)

Spec == Init /\ [][Next]_vars

\* Cron starts a tick every minute and a tick goes on to its end; ticks whose
\* reads of the broker all succeed come again and again; executions are
\* published, day orders lapse, time passes.
GoodRead(A(_)) == tick.read /\ A(Report(tick.sweep))

Fairness ==
  /\ WF_vars(TickStep)
  /\ SF_vars(\E allowed \in BOOLEAN : Sweep(TRUE, allowed))
  /\ SF_vars(GoodRead(SyncSellFills))
  /\ SF_vars(tick.read /\ RecoverRead)
  /\ SF_vars(GoodRead(RecoverDeadExit))
  /\ SF_vars(GoodRead(RetireUnconfirmed))
  /\ \A s \in Sells :
       WF_vars(Publish(s)) /\ WF_vars(Lapse(s)) /\ WF_vars(Age(s))

FairSpec == Spec /\ Fairness

-----------------------------------------------------------------------------
(* Properties. *)

\* The declared types; a row never claims zero shares, nor more than were
\* bought, whatever fills are synchronised into it.
TypeOK ==
  /\ row \in [position : 1 .. MaxPositions, quantity : 1 .. Shares,
               status : {"OPEN", "EXIT_PENDING", "EXIT_SUBMITTED", "CLOSED"},
               submitted : BOOLEAN]
  /\ intent \in [Sells ->
       [position : 0 .. MaxPositions, qty : 0 .. Shares, number : BOOLEAN,
        state : {"none", "RESERVED", "SUBMITTED", "SUBMISSION_UNKNOWN",
                 "CONFIRMED", "ABORTED"}]]
  /\ order \in [Sells -> [unknown : BOOLEAN, number : BOOLEAN]]
  /\ sell \in [Sells ->
       [at : {"none", "wire", "lost", "open", "gone"}, filled : 0 .. Shares,
        published : 0 .. Shares, age : Ages]]
  /\ held \in 0 .. Shares
  /\ tick \in
       [pc : Stages, read : BOOLEAN, sweep : SUBSET Sells, allowed : BOOLEAN,
        ages : [Sells -> Ages], sell : Sells, next : Stages,
        qty : 0 .. Shares, pending : BOOLEAN, snap : 0 .. Shares,
        book : 0 .. Shares]
  /\ crashes \in 0 .. MaxCrashes

\* At most one SELL of the symbol is on its way to the broker or working
\* there, whatever answers were lost, intents released and rows adopted.
OneWorkingSell == Cardinality(Working) <= 1

\* A SELL on its way or working never asks for more than the broker holds,
\* although the quantity comes from the book and every read may be outdated.
NoOversell == \A s \in Working : intent[s].qty - sell[s].filled <= held

\* A position returns to EXIT_PENDING, where the next tick sells it again,
\* only when no earlier SELL can still execute.
ReleasedExitIsDead ==
  [][row.status = "EXIT_SUBMITTED" /\ row'.status = "EXIT_PENDING"
       => Working = {}]_vars

\* A submitted exit is never stuck: it is closed, retired or released
\* (s6_live/exit_runtime.py:593-602, position_store.py:356-368).
SubmittedExitResolves ==
  row.status = "EXIT_SUBMITTED" ~> row.status # "EXIT_SUBMITTED"

\* A position is CLOSED only when its SELL sold all it asked for or the
\* broker holds nothing.  s6_live/exit_runtime.py:335-338: "A partial SELL
\* leaves the remainder OPEN and still managed."
PartialSellStaysOpen ==
  [][row.status # "CLOSED" /\ row'.status = "CLOSED"
       => held = 0 \/ \E s \in OfRow : sell[s].filled = intent[s].qty]_vars

=============================================================================
