---------------------------- MODULE OrderPromise ----------------------------
(***************************************************************************)
(* What the order path of execution/ promises the strategies: one request  *)
(* per order, and per signal and day, which leaves in one step; and a      *)
(* ledger that claims of an order only what is true of it at the broker.   *)
(* Runs, locks, rows, reconciliation passes and crashes are not seen here. *)
(***************************************************************************)
EXTENDS Integers

CONSTANTS Orders, Signal, Symbol, Side, Qty

VARIABLES
  today,        \* the current US trading day
  claim,        \* claim[o]: what the ledger says has become of o
  sentOn,       \* sentOn[o]: the day the request for o left, 0 if it has not
  truth,        \* truth[o]: what has become of o at the broker
  filled,       \* filled[o]: the shares it has brought
  halt          \* "clear", "set", or "used": a request has left since

vars == <<today, claim, sentOn, truth, filled, halt>>
broker == <<today, truth, filled>>

Init ==
  /\ today = 1
  /\ claim = [o \in Orders |-> "unsent"]
  /\ sentOn = [o \in Orders |-> 0]
  /\ truth = [o \in Orders |-> "none"]
  /\ filled = [o \in Orders |-> 0]
  /\ halt = "clear"

-----------------------------------------------------------------------------
(* The ledger. *)

\* Which claim may follow which: filled, cancelled and rejected are final,
\* and an order in doubt is never given up for dead.
Successors ==
  {<<"unsent", "asked">>, <<"unsent", "rejected">>,
   <<"asked", "working">>, <<"asked", "rejected">>, <<"asked", "doubt">>,
   <<"working", "partial">>, <<"working", "filled">>,
   <<"working", "cancelled">>, <<"working", "doubt">>,
   <<"partial", "working">>, <<"partial", "filled">>, <<"partial", "doubt">>,
   <<"doubt", "working">>, <<"doubt", "partial">>, <<"doubt", "filled">>}

\* What must be so at the broker when a claim is made.
Holds(o, c) ==
  /\ c = "working"   => truth[o] \in {"open", "closed"}
  /\ c = "partial"   => filled[o] > 0
  /\ c = "filled"    => filled[o] = Qty[o]
  /\ c = "cancelled" => truth[o] = "closed"
  /\ c = "rejected"  => truth[o] \in {"none", "refused"}

Claim(o, c) ==
  /\ <<claim[o], c>> \in Successors
  /\ Holds(o, c)
  /\ claim' = [claim EXCEPT ![o] = c]
  /\ UNCHANGED <<broker, sentOn, halt>>

\* Another request for the same signal has left today.
Twin(o) ==
  \E x \in Orders : x # o /\ Signal[x] = Signal[o] /\ sentOn[x] = today

\* No order is in doubt; for a sell, none of its own symbol.
Clear(o) ==
  \A x \in Orders :
    claim[x] = "doubt" => Side[o] = "sell" /\ Symbol[x] # Symbol[o]

\* The request for o leaves.  HALT stops all but the one already authorized.
Send(o) ==
  /\ claim[o] = "asked" /\ sentOn[o] = 0
  /\ ~Twin(o) /\ Clear(o)
  /\ halt # "used"
  /\ halt' = IF halt = "set" THEN "used" ELSE halt
  /\ sentOn' = [sentOn EXCEPT ![o] = today]
  /\ truth' = [truth EXCEPT ![o] = "transit"]
  /\ UNCHANGED <<today, claim, filled>>

-----------------------------------------------------------------------------
(* The broker, the calendar and the operator. *)

Answer(o) ==
  /\ truth[o] = "transit"
  /\ \E t \in {"open", "refused"} : truth' = [truth EXCEPT ![o] = t]
  /\ UNCHANGED <<today, claim, sentOn, filled, halt>>

Fill(o) ==
  /\ truth[o] = "open" /\ filled[o] < Qty[o]
  /\ filled' = [filled EXCEPT ![o] = filled[o] + 1]
  /\ truth' = [truth EXCEPT ![o] = IF filled[o] + 1 = Qty[o] THEN "closed" ELSE "open"]
  /\ UNCHANGED <<today, claim, sentOn, halt>>

Cancel(o) ==
  /\ truth[o] = "open"
  /\ truth' = [truth EXCEPT ![o] = "closed"]
  /\ UNCHANGED <<today, claim, sentOn, filled, halt>>

NextDay ==
  /\ today' = today + 1
  /\ truth' = [o \in Orders |-> CASE truth[o] = "open"    -> "closed"
                                  [] truth[o] = "transit" -> "refused"
                                  [] OTHER                -> truth[o]]
  /\ UNCHANGED <<claim, sentOn, filled, halt>>

SetHalt == halt = "clear" /\ halt' = "set" /\ UNCHANGED <<broker, claim, sentOn>>
ClearHalt == halt # "clear" /\ halt' = "clear" /\ UNCHANGED <<broker, claim, sentOn>>

Claims == {"unsent", "asked", "working", "partial", "filled", "cancelled",
           "rejected", "doubt"}

Next ==
  \/ \E o \in Orders :
       \/ \E c \in Claims : Claim(o, c)
       \/ Send(o) \/ Answer(o) \/ Fill(o) \/ Cancel(o)
  \/ NextDay \/ SetHalt \/ ClearHalt

Spec == Init /\ [][Next]_vars

=============================================================================
