------------------------- MODULE PositionLifecycle -------------------------
(***************************************************************************)
(* How one position of the general store leaves (positions/lifecycle,      *)
(* kis_position_manager, state_store/exit_intent_ledger): its buy fills,   *)
(* the stop is set, and exits, a partial one and a full one, are reserved, *)
(* submitted and booked.  The live pilot and the S1 executor tick over the *)
(* same positions.  A tick holds the store's lock for single commits only  *)
(* and reads the intent ledger, the broker and the record outside of it;   *)
(* three of its writes to the intent ledger are outside of it as well.     *)
(* Meanwhile the broker works, days end, and ticks may die.                *)
(***************************************************************************)
EXTENDS Integers, FiniteSetsExt

CONSTANTS
  Ticks,
  Shares,         \* shares the entry asks for
  MaxSells,       \* model bound: exit intents that are reserved
  MaxCrashes      \* model bound: ticks that die

Sells == 1 .. MaxSells          \* in the order of their reservation

ASSUME PositionAssumption ==
  Shares \in Nat \ {0} /\ MaxSells \in Nat \ {0} /\ MaxCrashes \in Nat

VARIABLES
  position,  \* its row in positions
  intent,    \* intent[i]: its row in exit_intents
  number,    \* number[i]: the order ledger knows the number of its SELL
  sell,      \* sell[i]: the SELL at the broker
  buy,       \* the buy at the broker
  held,      \* shares in the broker's position
  tick,      \* local state of the ticks
  crashes    \* ticks that died

vars == <<position, intent, number, sell, buy, held, tick, crashes>>
stores == <<position, intent, number>>
broker == <<sell, buy, held>>

Eligible == {"STOP_ACTIVE", "TARGET_1_ACTIVE", "PARTIAL_EXITED", "TRAILING"}
FillPending == {"ENTRY_SUBMITTED", "PARTIALLY_FILLED"}
Submitted == {"PARTIAL_EXIT_SUBMITTED", "EXIT_SUBMITTED"}
States == Eligible \cup FillPending \cup Submitted
          \cup {"SETUP_DETECTED", "CLOSED", "MANUAL_REVIEW"}
IntentStates ==
  {"none", "RESERVED", "SUBMITTED", "SUBMISSION_UNKNOWN",
   "RECONCILIATION_REQUIRED", "CONFIRMED", "ABORTED"}
Places == {"none", "wire", "refused", "lost", "open", "gone"}
Stages ==
  {"idle", "load", "find", "lookup", "missed", "writeRequired", "apply",
   "fill", "record", "finalize", "manage", "trail", "execute", "resume",
   "reserve", "check", "send", "await", "accepted", "writeSubmitted",
   "ambiguous", "writeUnknown", "refused"}

NoIntent == [state |-> "none", qty |-> 0, confirmed |-> 0, full |-> FALSE]
NoSell == [at |-> "none", filled |-> 0, published |-> 0, today |-> TRUE]
Idle == [pc |-> "idle", holding |-> 0, full |-> FALSE, resumed |-> FALSE,
         intent |-> 1, found |-> 0, booked |-> 0]

\* create_position has run; the buy has been accepted.
Init ==
  /\ position = [state |-> "SETUP_DETECTED", filled |-> 0, remaining |-> 0,
                 stop |-> FALSE]
  /\ intent = [i \in Sells |-> NoIntent]
  /\ number = [i \in Sells |-> FALSE]
  /\ sell = [i \in Sells |-> NoSell]
  /\ buy = [filled |-> 0, published |-> 0]
  /\ held = 0
  /\ tick = [t \in Ticks |-> Idle]
  /\ crashes = 0

-----------------------------------------------------------------------------
(* The broker's side. *)

BuyFills ==
  /\ buy.filled < Shares
  /\ buy' = [buy EXCEPT !.filled = @ + 1] /\ held' = held + 1
  /\ UNCHANGED <<stores, sell, tick, crashes>>
BuyIsPublished ==
  /\ buy.published < buy.filled
  /\ buy' = [buy EXCEPT !.published = @ + 1]
  /\ UNCHANGED <<stores, sell, held, tick, crashes>>

Working == {i \in Sells : sell[i].at \in {"wire", "open"}}
Landed(i) == sell[i].at \in {"open", "gone"}

\* The request arrives, is refused, or never arrives.
Land(i) ==
  /\ sell[i].at = "wire"
  /\ \E at \in {"open", "refused", "lost"} : sell' = [sell EXCEPT ![i].at = at]
  /\ UNCHANGED <<stores, buy, held, tick, crashes>>

\* An execution.  A full one takes the order out of the open-order book at
\* once; its row in the fill history is published later.
Fill(i) ==
  /\ sell[i].at = "open" /\ held > 0
  /\ held' = held - 1
  /\ sell' = [sell EXCEPT
       ![i].filled = @ + 1,
       ![i].at = IF sell[i].filled + 1 = intent[i].qty THEN "gone" ELSE "open"]
  /\ UNCHANGED <<stores, buy, tick, crashes>>
Publish(i) ==
  /\ sell[i].published < sell[i].filled
  /\ sell' = [sell EXCEPT ![i].published = @ + 1]
  /\ UNCHANGED <<stores, buy, held, tick, crashes>>

\* The day of a SELL ends: it leaves the book, and its fills are no longer
\* among those of today.
EndOfDay(i) ==
  /\ Landed(i) /\ sell[i].today
  /\ sell' = [sell EXCEPT ![i].at = "gone", ![i].today = FALSE]
  /\ UNCHANGED <<stores, buy, held, tick, crashes>>

-----------------------------------------------------------------------------
(* The stores. *)

\* TRANSITIONS, as far as the code below moves.
Moves ==
  {<<"STOP_ACTIVE", "TARGET_1_ACTIVE">>, <<"STOP_ACTIVE", "EXIT_SUBMITTED">>,
   <<"TARGET_1_ACTIVE", "PARTIAL_EXIT_SUBMITTED">>,
   <<"TARGET_1_ACTIVE", "EXIT_SUBMITTED">>,
   <<"PARTIAL_EXIT_SUBMITTED", "PARTIAL_EXITED">>,
   <<"PARTIAL_EXIT_SUBMITTED", "MANUAL_REVIEW">>,
   <<"PARTIAL_EXITED", "TRAILING">>, <<"PARTIAL_EXITED", "EXIT_SUBMITTED">>,
   <<"TRAILING", "EXIT_SUBMITTED">>,
   <<"EXIT_SUBMITTED", "CLOSED">>, <<"EXIT_SUBMITTED", "MANUAL_REVIEW">>}

\* Variant: a partial exit may end in CLOSED.
LooseLegal(from, to) ==
  <<from, to>> \in Moves \cup {<<"PARTIAL_EXIT_SUBMITTED", "CLOSED">>}
Legal(from, to) == <<from, to>> \in Moves

\* _transition_to_submitted: a partial exit goes through TARGET_1_ACTIVE.
Target(full) == IF full THEN "EXIT_SUBMITTED" ELSE "PARTIAL_EXIT_SUBMITTED"
From(full) ==
  IF ~full /\ position.state = "STOP_ACTIVE" THEN "TARGET_1_ACTIVE"
  ELSE position.state
MaySubmit(full) == Legal(From(full), Target(full))
Exited(full) == IF full THEN "CLOSED" ELSE "PARTIAL_EXITED"
SetState(state) == position' = [position EXCEPT !.state = state]

\* get_active_intent, NON_TERMINAL_STATES.
\* Variant: what an operator has to look at is not active.
ActiveUnlessFlagged ==
  {i \in Sells :
     intent[i].state \in {"RESERVED", "SUBMITTED", "SUBMISSION_UNKNOWN"}}
Active ==
  {i \in Sells :
     intent[i].state \in
       {"RESERVED", "SUBMITTED", "SUBMISSION_UNKNOWN", "RECONCILIATION_REQUIRED"}}

\* _transition: what is CONFIRMED or ABORTED when it is read raises; the
\* write that follows is unconditional and keeps the confirmed count.
Terminal(i) == intent[i].state \in {"CONFIRMED", "ABORTED"}
Overwrite(i, state) == intent' = [intent EXCEPT ![i].state = state]

\* The buyer's second commit; between the two the row is SETUP_DETECTED.
EntrySubmitted ==
  /\ position.state = "SETUP_DETECTED"
  /\ SetState("ENTRY_SUBMITTED")
  /\ UNCHANGED <<intent, number, broker, tick, crashes>>

-----------------------------------------------------------------------------
(* The tick: what it finds. *)

At(t, pc) == tick[t].pc = pc
Becomes(t, r) == tick' = [tick EXCEPT ![t] = r]
Goto(t, pc) == Becomes(t, [tick[t] EXCEPT !.pc = pc])
Ends(t) == Becomes(t, Idle)

ReadHoldings(t) ==
  /\ At(t, "idle") /\ position.state # "CLOSED"
  /\ Becomes(t, [tick[t] EXCEPT !.pc = "load", !.holding = held])
  /\ UNCHANGED <<stores, broker, crashes>>

\* The rest of the loop with record p: it is managed if what the broker
\* holds is what it claims and its stop is set.
GoesOn(t, p) ==
  IF p.state \in Eligible /\ tick[t].holding = p.remaining /\ p.stop
  THEN Becomes(t, [Idle EXCEPT !.pc = "manage"]) ELSE Ends(t)

Load(t) ==
  /\ At(t, "load")
  /\ CASE position.state \in Submitted -> Goto(t, "find")
       [] position.state \in FillPending -> Goto(t, "fill")
       [] OTHER -> GoesOn(t, position)
  /\ UNCHANGED <<stores, broker, crashes>>

\* find_fill: the cumulative fill of the buy, of whatever day.
FindFill(t) ==
  /\ At(t, "fill")
  /\ IF buy.published > 0
     THEN Becomes(t, [tick[t] EXCEPT !.pc = "record", !.found = buy.published])
     ELSE Ends(t)
  /\ UNCHANGED <<stores, broker, crashes>>
FindNothing(t) ==
  /\ At(t, "fill") /\ Ends(t)
  /\ UNCHANGED <<stores, broker, crashes>>

\* record_fill raises when the row has moved on or the fill goes back.
Recordable(t) ==
  position.state \in FillPending /\ tick[t].found >= position.filled
RecordFill(t) ==
  /\ At(t, "record")
  /\ IF ~Recordable(t) THEN Ends(t) /\ UNCHANGED position
     ELSE /\ position' = [position EXCEPT
               !.filled = tick[t].found, !.remaining = tick[t].found,
               !.state = IF tick[t].found = Shares THEN "STOP_ACTIVE"
                         ELSE "PARTIALLY_FILLED"]
          /\ IF tick[t].found = Shares THEN Goto(t, "finalize") ELSE Ends(t)
  /\ UNCHANGED <<intent, number, broker, crashes>>

\* finalize_stop_and_targets_from_fill
Finalize(t) ==
  /\ At(t, "finalize")
  /\ position' = [position EXCEPT !.stop = @ \/ position.state = "STOP_ACTIVE"]
  /\ GoesOn(t, position')
  /\ UNCHANGED <<intent, number, broker, crashes>>

-----------------------------------------------------------------------------
(* reconcile_pending_exit, from the loop or from _execute_exit's resume. *)

\* Back to the loop with record p; what resumed an exit was its end.
Returns(t, p) == IF tick[t].resumed THEN Ends(t) ELSE GoesOn(t, p)

\* The newest active intent.
FindIntent(t) ==
  /\ At(t, "find")
  /\ \/ Active = {} /\ Ends(t)
     \/ \E i \in Active :
          /\ \A j \in Active : j <= i
          /\ Becomes(t, [tick[t] EXCEPT !.pc = "lookup", !.intent = i,
                           !.full = IF tick[t].resumed THEN @
                                    ELSE intent[i].full,
                           !.booked = intent[i].confirmed])
  /\ UNCHANGED <<stores, broker, crashes>>

\* get_order_by_client_order_id: by the number in the order ledger, among
\* the fills of today, then in the open-order book; each may be unreadable.
Sought(t) == tick[t].intent
LookUp(t) ==
  /\ At(t, "lookup") /\ number[Sought(t)]
  /\ sell[Sought(t)].today /\ sell[Sought(t)].published > 0
  /\ Becomes(t, [tick[t] EXCEPT !.pc = "apply",
                                !.found = sell[Sought(t)].published])
  /\ UNCHANGED <<stores, broker, crashes>>
LookUpBook(t) ==
  /\ At(t, "lookup") /\ number[Sought(t)] /\ sell[Sought(t)].at = "open"
  /\ Becomes(t, [tick[t] EXCEPT !.pc = "apply", !.found = 0])
  /\ UNCHANGED <<stores, broker, crashes>>
LookUpNothing(t) ==
  /\ At(t, "lookup") /\ Goto(t, "missed")
  /\ UNCHANGED <<stores, broker, crashes>>

\* The two halves of _transition, as the callers without the lock run it:
\* the intent is read, and later written.  Between the two another tick may
\* book it or end it.
Test(t, pc, next) ==
  /\ At(t, pc)
  /\ IF Terminal(Sought(t)) THEN Ends(t) ELSE Goto(t, next)
  /\ UNCHANGED <<stores, broker, crashes>>
Write(t, pc, state) ==
  /\ At(t, pc)
  /\ Overwrite(Sought(t), state)
  /\ UNCHANGED <<position, number, broker, crashes>>

\* mark_reconciliation_required
TestRequired(t) == Test(t, "missed", "writeRequired")
MarkRequired(t) ==
  Write(t, "writeRequired", "RECONCILIATION_REQUIRED") /\ Returns(t, position)

\* The broker's status of an order of qty shares of which n are filled.
\* Variant: filled as soon as there is a fill.
FilledAtFirst(n, qty) == n > 0
IsFilled(n, qty) == n >= qty

\* Variant: what was booked when the intent was found.
BookedWhenFound(t) == tick[t].booked
Booked(t) == intent[Sought(t)].confirmed

\* _apply_exit_fill_progress, of an intent that is still active; an illegal
\* move or a fill that goes back raises, and nothing is written.
Apply(t) ==
  LET i        == Sought(t)
      state    == IF position.state \in Submitted THEN position.state
                  ELSE Target(tick[t].full)
      n        == IF tick[t].found = 0 THEN Booked(t) ELSE tick[t].found
      isFilled == tick[t].found > 0 /\ IsFilled(n, intent[i].qty)
      raises   == \/ position.state \notin Submitted /\ ~MaySubmit(tick[t].full)
                  \/ n < Booked(t)
                  \/ isFilled /\ ~Legal(state, Exited(tick[t].full))
  IN  /\ At(t, "apply")
      /\ IF Terminal(i) THEN Returns(t, position) /\ UNCHANGED <<position, intent>>
         ELSE IF raises THEN Ends(t) /\ UNCHANGED <<position, intent>>
         ELSE /\ position' = [position EXCEPT
                   !.remaining = @ - (n - Booked(t)),
                   !.state = IF isFilled THEN Exited(tick[t].full) ELSE state]
              /\ intent' = [intent EXCEPT
                   ![i].confirmed = n,
                   ![i].state = IF isFilled THEN "CONFIRMED" ELSE @]
              /\ Returns(t, position')
      /\ UNCHANGED <<number, broker, crashes>>

-----------------------------------------------------------------------------
(* check_and_manage. *)

\* The record is read again and the rules decide: out at any time, half at
\* the first target, the stop to the entry price after that, or nothing.
Decide(t) ==
  /\ At(t, "manage")
  /\ \/ Ends(t)
     \/ /\ position.state \in Eligible
        /\ \E full \in BOOLEAN :
             /\ full \/ position.state = "STOP_ACTIVE"
             /\ Becomes(t, [tick[t] EXCEPT !.pc = "execute", !.full = full])
     \/ position.state = "PARTIAL_EXITED" /\ Goto(t, "trail")
  /\ UNCHANGED <<stores, broker, crashes>>

Trail(t) ==
  /\ At(t, "trail")
  /\ IF position.state = "PARTIAL_EXITED" THEN SetState("TRAILING")
     ELSE UNCHANGED position
  /\ Ends(t)
  /\ UNCHANGED <<intent, number, broker, crashes>>

\* _execute_exit looks for an active intent without the lock.
Execute(t) ==
  /\ At(t, "execute")
  /\ Goto(t, IF Active = {} THEN "reserve" ELSE "resume")
  /\ UNCHANGED <<stores, broker, crashes>>

\* There was one: the row catches up, then reconcile_pending_exit.
Resume(t) ==
  LET reachable == position.state \in Eligible /\ MaySubmit(tick[t].full)
  IN  /\ At(t, "resume")
      /\ IF reachable THEN SetState(Target(tick[t].full)) ELSE UNCHANGED position
      /\ IF reachable \/ position.state \in Submitted
         THEN Becomes(t, [tick[t] EXCEPT !.pc = "find", !.resumed = TRUE])
         ELSE Ends(t)
      /\ UNCHANGED <<intent, number, broker, crashes>>

\* _force_full_exit and _partial_exit_at_target_1: the quantity.
\* Variant: of what was bought.
QuantityOfBuy(full) == IF full THEN position.filled ELSE position.filled \div 2
Quantity(full) == IF full THEN position.remaining ELSE position.remaining \div 2

\* There was none: intent and row in one commit, if the row is still to be
\* sold and there is no intent now.  Nothing left to sell is never the case.
Reserve(t) ==
  LET full == tick[t].full
  IN  /\ At(t, "reserve")
      /\ position.state \in Eligible /\ MaySubmit(full)
      /\ Quantity(full) > 0 /\ Active = {}
      /\ \E i \in Sells :
           /\ intent[i].state = "none"
           /\ \A j \in Sells : intent[j].state = "none" => i <= j
           /\ intent' = [intent EXCEPT ![i] =
                [state |-> "RESERVED", qty |-> Quantity(full), confirmed |-> 0,
                 full |-> full]]
           /\ Becomes(t, [tick[t] EXCEPT !.pc = "check", !.intent = i])
      /\ SetState(Target(full))
      /\ UNCHANGED <<number, broker, crashes>>
ReserveNothing(t) ==
  /\ At(t, "reserve") /\ Ends(t)
  /\ UNCHANGED <<stores, broker, crashes>>

-----------------------------------------------------------------------------
(* submit_order, through the KIS adapter. *)

\* The position and the open orders are read; the gate passes.
CheckBroker(t) ==
  /\ At(t, "check")
  /\ intent[Sought(t)].qty <= held
  /\ \A i \in Sells : sell[i].at # "open"
  /\ Goto(t, "send")
  /\ UNCHANGED <<stores, broker, crashes>>
Send(t) ==
  /\ At(t, "send")
  /\ sell' = [sell EXCEPT ![Sought(t)].at = "wire"]
  /\ Goto(t, "await")
  /\ UNCHANGED <<stores, buy, held, crashes>>

\* A kill switch, a gate, a read or the broker refuses.
Refused(t) ==
  /\ At(t, "check") \/ At(t, "send")
     \/ (At(t, "await") /\ sell[Sought(t)].at = "refused")
  /\ Goto(t, "refused")
  /\ UNCHANGED <<stores, broker, crashes>>

\* Accepted; or accepted, but that cannot be recorded: the adapter answers
\* as if the gate had refused.
Answered(t, pc) ==
  /\ At(t, "await") /\ Landed(Sought(t))
  /\ number' = [number EXCEPT ![Sought(t)] = TRUE]
  /\ Goto(t, pc)
  /\ UNCHANGED <<position, intent, broker, crashes>>
\* No usable answer, or another exception.
Raises(t) ==
  /\ At(t, "check") \/ At(t, "send") \/ At(t, "await")
  /\ Goto(t, "ambiguous")
  /\ UNCHANGED <<stores, broker, crashes>>

\* mark_submitted and mark_submission_unknown.  KIS only ever answers that
\* an order is accepted, so there is no fill to apply.
TestSubmitted(t) == Test(t, "accepted", "writeSubmitted")
MarkSubmitted(t) == Write(t, "writeSubmitted", "SUBMITTED") /\ Ends(t)
TestUnknown(t) == Test(t, "ambiguous", "writeUnknown")
MarkUnknown(t) == Write(t, "writeUnknown", "SUBMISSION_UNKNOWN") /\ Ends(t)

\* The end of a refused exit: intent and row in one commit, or neither.
AbortExit(t) ==
  /\ At(t, "refused")
  /\ IF Terminal(Sought(t)) \/ ~Legal(position.state, "MANUAL_REVIEW")
     THEN UNCHANGED <<position, intent>>
     ELSE SetState("MANUAL_REVIEW") /\ Overwrite(Sought(t), "ABORTED")
  /\ Ends(t)
  /\ UNCHANGED <<number, broker, crashes>>

-----------------------------------------------------------------------------
\* A tick dies, or gives up because it does not get the store's lock.
Crash(t) ==
  /\ ~At(t, "idle") /\ crashes < MaxCrashes
  /\ crashes' = crashes + 1 /\ Ends(t)
  /\ UNCHANGED <<stores, broker>>

Reconcile(t) ==
  \/ FindIntent(t) \/ LookUp(t) \/ LookUpBook(t) \/ LookUpNothing(t)
  \/ TestRequired(t) \/ MarkRequired(t) \/ Apply(t)
Submit(t) ==
  \/ CheckBroker(t) \/ Send(t) \/ Refused(t)
  \/ Answered(t, "accepted") \/ Answered(t, "refused") \/ Raises(t)
  \/ TestSubmitted(t) \/ MarkSubmitted(t) \/ TestUnknown(t) \/ MarkUnknown(t)
  \/ AbortExit(t)
TickStep(t) ==
  \/ ReadHoldings(t) \/ Load(t)
  \/ FindFill(t) \/ FindNothing(t) \/ RecordFill(t) \/ Finalize(t)
  \/ Reconcile(t)
  \/ Decide(t) \/ Trail(t) \/ Execute(t) \/ Resume(t)
  \/ Reserve(t) \/ ReserveNothing(t) \/ Submit(t)
Market(i) == Land(i) \/ Fill(i) \/ Publish(i) \/ EndOfDay(i)

Next ==
  \/ EntrySubmitted \/ BuyFills \/ BuyIsPublished
  \/ \E t \in Ticks : TickStep(t) \/ Crash(t)
  \/ \E i \in Sells : Market(i)

Spec == Init /\ [][Next]_vars

\* Timers start the ticks again and again and a tick goes on to its end; a
\* lookup succeeds again and again; what is executed is published.
FairSpec ==
  /\ Spec
  /\ \A t \in Ticks : WF_vars(TickStep(t))
  /\ SF_vars(\E t \in Ticks : LookUp(t))
  /\ WF_vars(\E i \in Sells : Publish(i))

-----------------------------------------------------------------------------
(* Properties. *)

\* The declared types; no row claims less than nothing or more than bought.
TypeOK ==
  /\ position \in [state : States, filled : 0 .. Shares,
                   remaining : 0 .. Shares, stop : BOOLEAN]
  /\ intent \in [Sells -> [state : IntentStates, qty : 0 .. Shares,
                           confirmed : 0 .. Shares, full : BOOLEAN]]
  /\ number \in [Sells -> BOOLEAN]
  /\ sell \in [Sells -> [at : Places, filled : 0 .. Shares,
                         published : 0 .. Shares, today : BOOLEAN]]
  /\ buy \in [filled : 0 .. Shares, published : 0 .. Shares]
  /\ held \in 0 .. Shares
  /\ tick \in [Ticks ->
       [pc : Stages, holding : 0 .. Shares, full : BOOLEAN,
        resumed : BOOLEAN, intent : Sells, found : 0 .. Shares,
        booked : 0 .. Shares]]
  /\ crashes \in 0 .. MaxCrashes

\* A SELL that can still execute has an active intent, which keeps every
\* tick from reserving another, or the position waits for the operator.
WorkingIsOwned ==
  \A i \in Working : i \in Active \/ position.state = "MANUAL_REVIEW"

\* An active intent never asks for more than the broker still holds: its
\* quantity is that of the row at the moment of the reservation, although
\* the tick decided on an older one.
ReservedIsHeld ==
  \A i \in Active : intent[i].qty - sell[i].filled <= held

\* The step that closes a position books the last of its shares, although a tick
\* that decided on a full exit may be the one that books a partial one, and a fill
\* is booked late (lifecycle.py, _apply_exit_fill_progress).  There is one other way,
\* which the property names: a mark written late has brought a booked partial exit
\* back, a full exit resumes on it, and the row is closed with shares in hand.
ClosesWhatIsSold ==
  [][position.state # "CLOSED" /\ position'.state = "CLOSED"
       => \/ held = 0
          \/ \E i \in Active : intent[i].confirmed = intent[i].qty /\ Terminal(i)']_vars

\* Every published share is booked once, whichever ticks see it how often:
\* what left the row is what its intents have confirmed.
FillsBookedOnce ==
  /\ position.filled - position.remaining =
       MapThenSumSet(LAMBDA i : intent[i].confirmed, Sells)
  /\ \A i \in Sells : intent[i].confirmed <= sell[i].published

\* The shares of an exit that filled in full are booked in the end, however
\* often it could not be found, unless its day is over first or its tick
\* handed the position to the operator.  That its intent then stays CONFIRMED
\* is not said: a mark written late may bring it back for good.
FilledExitIsBooked ==
  \A i \in Sells :
    i \in Active /\ number[i] /\ sell[i].filled = intent[i].qty
      ~> \/ intent[i].confirmed = intent[i].qty
         \/ ~sell[i].today \/ position.state = "MANUAL_REVIEW"

=============================================================================
