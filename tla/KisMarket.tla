----------------------------- MODULE KisMarket -----------------------------
(***************************************************************************)
(* The broker (KIS) as the code under src/ uses it: an order request is    *)
(* sent, reaches the broker later or never, is accepted or refused, fills  *)
(* share by share while open, and is closed by a full fill, a cancel or    *)
(* the end of its day (orders are day orders).  Every request may outlive  *)
(* the HTTP call that sent it.  A filled order leaves the open orders      *)
(* before its executions are published: for minutes it is in neither       *)
(* (kis_fill_inquiry.NO_FILL_CONFIRMATION_GRACE_SECONDS).                  *)
(***************************************************************************)
EXTENDS OrderIntents

VARIABLE kis            \* kis[o]: the broker's view of o

Absent == [st |-> "none", filled |-> 0, shown |-> 0, cancel |-> FALSE,
           cancelled |-> FALSE, day |-> 1]

KisOrders ==
  [st : {"none", "transit", "open", "closed", "refused"}, filled : Nat,
   shown : Nat,           \* filled shares the fill history shows by now
   cancel : BOOLEAN,      \* a cancel request is on its way
   cancelled : BOOLEAN,   \* a cancel request took effect
   day : Days]            \* the day it was accepted, which dates its fills

IsOpen(o) == kis[o].st = "open"
OpenOrders == {o \in Orders : IsOpen(o)}

\* get_fills(start, today): shares published, by order, dated start or later.
FillsSince(start) ==
  [o \in Orders |-> IF kis[o].day >= start THEN kis[o].shown ELSE 0]

OrderBecomes(o, state) == kis' = [kis EXCEPT ![o] = state]

\* The new-order request leaves this process.
SendOrder(o) == OrderBecomes(o, [kis[o] EXCEPT !.st = "transit"])
\* The cancel request leaves this process.
SendCancel(o) == OrderBecomes(o, [kis[o] EXCEPT !.cancel = TRUE])

Accept(o) ==
  /\ kis[o].st = "transit"
  /\ OrderBecomes(o, [kis[o] EXCEPT !.st = "open", !.day = today])

\* Refused, or lost on the way.
Refuse(o) ==
  /\ kis[o].st = "transit"
  /\ OrderBecomes(o, [kis[o] EXCEPT !.st = "refused"])

Fill(o) ==
  /\ IsOpen(o)
  /\ kis[o].filled < Qty[o]
  /\ OrderBecomes(o, [kis[o] EXCEPT
        !.filled = kis[o].filled + 1,
        !.st = IF kis[o].filled + 1 = Qty[o] THEN "closed" ELSE "open"])

\* An execution enters the fill history.
Publish(o) ==
  /\ kis[o].shown < kis[o].filled
  /\ OrderBecomes(o, [kis[o] EXCEPT !.shown = kis[o].shown + 1])

TakeCancel(o) ==
  /\ kis[o].cancel
  /\ IsOpen(o)
  /\ OrderBecomes(o, [kis[o] EXCEPT !.cancel = FALSE, !.st = "closed",
                               !.cancelled = TRUE])

\* A cancel that changes nothing: refused (closed already, or the broker
\* will not take it), or lost.
RefuseCancel(o) ==
  /\ kis[o].cancel
  /\ OrderBecomes(o, [kis[o] EXCEPT !.cancel = FALSE])

\* Day orders lapse with their day, and so does a request still on its way.
DayEnd ==
  kis' = [o \in Orders |->
            IF kis[o].st \in {"open", "transit"}
            THEN [kis[o] EXCEPT !.st = IF kis[o].st = "open" THEN "closed"
                                       ELSE "refused",
                                !.cancel = FALSE]
            ELSE [kis[o] EXCEPT !.cancel = FALSE]]

Market(o) ==
  \/ Accept(o) \/ Refuse(o) \/ Fill(o) \/ Publish(o)
  \/ TakeCancel(o) \/ RefuseCancel(o)

=============================================================================
