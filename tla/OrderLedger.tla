---------------------------- MODULE OrderLedger ----------------------------
(***************************************************************************)
(* The durable order ledger: the table kis_order_idempotency, written by   *)
(* execution/idempotency.py (register) and, for every later change, by the *)
(* compare-and-set of execution/order_repository.py.  One row per internal *)
(* order id; the broker's order number is abstracted to whether it is      *)
(* recorded.                                                               *)
(***************************************************************************)
EXTENDS OrderStates, OrderIntents

VARIABLE row            \* row[o]: the ledger's row for o

\* An absent row is a row whose status is NONE.
NoRow == [status |-> "NONE", version |-> 0, known |-> FALSE, day |-> 1]

Rows == [status : Statuses \cup {"NONE"}, version : Nat,
         known : BOOLEAN, day : Days]

Registered == {o \in Orders : row[o].status # "NONE"}
WithStatus(S) == {o \in Orders : row[o].status \in S}

\* Variant: only the internal id is unique.
ExistingById(o) == {x \in Registered : x = o}

\* find_existing and the UNIQUE constraints: an attempt under the same
\* internal id, or for the same signal on the same trading day.
Existing(o) ==
  {x \in Registered :
     x = o \/ (Signal[x] = Signal[o] /\ row[x].day = today)}

\* Variant: registered under a status the state machine does not have.
RegistrationAsNew(o) ==
  row' = [row EXCEPT ![o] = [status |-> "NEW", version |-> 0,
                             known |-> FALSE, day |-> today]]

\* register: the row and its creation event, in one transaction.
Registration(o) ==
  row' = [row EXCEPT ![o] = [status |-> "CREATED", version |-> 0,
                             known |-> FALSE, day |-> today]]

\* The UPDATE ... WHERE status = ? AND version = ? matches the row read
\* earlier as h.
Matches(o, h) == row[o].status = h.status /\ row[o].version = h.version

Moved(o, next, learn) ==
  [row EXCEPT ![o] = [status |-> next, version |-> row[o].version + 1,
                      known |-> row[o].known \/ learn, day |-> row[o].day]]

\* compare_and_set_state commits: the row is still what the caller read,
\* and the move is legal.  learn: a broker_order_id is passed along.
CompareAndSet(o, h, next, learn) ==
  /\ Matches(o, h)
  /\ next \in Transitions(h.status)
  /\ row' = Moved(o, next, learn)

\* The same with via_reconciliation = True: only out of UNKNOWN.
ReconcileUnknown(o, h, next) ==
  /\ Matches(o, h)
  /\ h.status = "UNKNOWN"
  /\ next \in ReconcileTargets
  /\ row' = Moved(o, next, FALSE)

\* The compare-and-set raises.  It rolled back (conflict, illegal move, a
\* failed write or commit), or it committed and only the row's re-read
\* after the commit failed.
CasRaises(o, h, next, learn) ==
  CompareAndSet(o, h, next, learn) \/ UNCHANGED row

(***************************************************************************)
(* The window of fill history that reconciliation reads.                   *)
(***************************************************************************)
LiveStatuses == {"SUBMITTING", "ACCEPTED", "PARTIALLY_FILLED", "CANCEL_PENDING"}

\* Variant: only today's fills are read.
WindowOfToday == today

\* oldest_live_trading_date / window: back to the oldest row still believed
\* live at the broker, else today only.
WindowStart ==
  LET live == {row[o].day : o \in {x \in WithStatus(LiveStatuses) : row[x].known}}
  IN  CHOOSE d \in live \cup {today} : \A e \in live \cup {today} : d <= e

\* oldest_live_trading_date answers None when the ledger cannot be read, and
\* window then starts today.
FillWindows == {WindowStart, today}

=============================================================================
