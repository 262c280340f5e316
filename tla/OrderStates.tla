---------------------------- MODULE OrderStates ----------------------------
(***************************************************************************)
(* The order status graph of execution/order_state_machine.py: which       *)
(* status may follow which, the terminal ones, and the statuses an UNKNOWN *)
(* order may be reconciled to.  Pure data, used by every module that moves *)
(* an order.                                                               *)
(***************************************************************************)

Statuses ==
  {"CREATED", "VALIDATING", "APPROVED", "SUBMITTING", "ACCEPTED",
   "PARTIALLY_FILLED", "FILLED", "CANCEL_PENDING", "CANCELLED", "REJECTED",
   "UNKNOWN"}

\* _TRANSITIONS: nothing plainly leaves a terminal status, nor UNKNOWN.
Transitions(s) ==
  CASE s = "CREATED"          -> {"VALIDATING", "REJECTED"}
    [] s = "VALIDATING"       -> {"APPROVED", "REJECTED"}
    [] s = "APPROVED"         -> {"SUBMITTING", "REJECTED"}
    [] s = "SUBMITTING"       -> {"ACCEPTED", "REJECTED", "UNKNOWN"}
    [] s = "ACCEPTED"         -> {"PARTIALLY_FILLED", "FILLED",
                                  "CANCEL_PENDING", "UNKNOWN"}
    [] s = "PARTIALLY_FILLED" -> {"PARTIALLY_FILLED", "FILLED",
                                  "CANCEL_PENDING", "UNKNOWN"}
    [] s = "CANCEL_PENDING"   -> {"CANCELLED", "PARTIALLY_FILLED", "FILLED",
                                  "UNKNOWN"}
    [] OTHER                  -> {}

Terminal == {"CANCELLED", "FILLED", "REJECTED"}

\* reconcile_unknown: the only exits of UNKNOWN.
ReconcileTargets ==
  Statuses \ {"CREATED", "VALIDATING", "APPROVED", "SUBMITTING", "UNKNOWN"}

=============================================================================
