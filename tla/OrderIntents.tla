---------------------------- MODULE OrderIntents ----------------------------
(***************************************************************************)
(* The order intents the program may build (domain/order_intent.py) and    *)
(* the trading calendar, shared by the ledger, the broker and the engine.  *)
(***************************************************************************)
EXTENDS Integers

CONSTANTS
  Orders,     \* internal order ids
  Signal,     \* Signal[o]: the (signal_id, symbol, side) of intent o
  Symbol,     \* Symbol[o]
  Side,       \* Side[o]: "buy" or "sell"
  Qty,        \* Qty[o]: shares requested
  MaxDay      \* model bound: the calendar has days 1 .. MaxDay

Days == 1 .. MaxDay

ASSUME IntentAssumption ==
  /\ MaxDay \in Nat \ {0}
  /\ Side \in [Orders -> {"buy", "sell"}]
  /\ Qty \in [Orders -> Nat \ {0}]
  /\ DOMAIN Signal = Orders
  /\ DOMAIN Symbol = Orders
  \* the uniqueness key names the symbol and the side itself
  /\ \A x, y \in Orders :
       Signal[x] = Signal[y] => Symbol[x] = Symbol[y] /\ Side[x] = Side[y]

VARIABLE today          \* the current US trading day

=============================================================================
