---------------------------- MODULE AtomicLedger ----------------------------
(***************************************************************************)
(* What execution/order_repository.compare_and_set_state promises its      *)
(* callers: a row moves in one step, from the version the caller holds,    *)
(* together with its event and nothing else; and the caller is told so, or *)
(* gets an exception that leaves open whether the row has moved.           *)
(***************************************************************************)
EXTENDS Integers

CONSTANTS Procs, Orders, MaxVersion, None

VARIABLES
  row,          \* row[o]: the version of the row, -1 if there is none, and its events
  request,      \* request[p]: the move p asks for, if any, and whether it is done
  won           \* history: <<p, o, v>> if p was told that it moved o to v

vars == <<row, request, won>>

NoRequest == [state |-> "none", order |-> None, from |-> -1]

Init ==
  /\ row = [o \in Orders |-> [version |-> -1, events |-> {}]]
  /\ request = [p \in Procs |-> NoRequest]
  /\ won = {}

\* Rows appear, at version 0 and with their creation event or without it.
Create(S) ==
  /\ \A o \in S : row[o].version = -1
  /\ \E history \in [S -> SUBSET {0}] :
       row' = [o \in Orders |-> IF o \in S
                                THEN [version |-> 0, events |-> history[o]]
                                ELSE row[o]]
  /\ UNCHANGED <<request, won>>

\* p asks for a move of o from the version v it holds.
Ask(p, o, v) ==
  /\ request[p].state = "none"
  /\ request' = [request EXCEPT ![p] = [state |-> "asked", order |-> o, from |-> v]]
  /\ UNCHANGED <<row, won>>

Move(p) ==
  /\ request[p].state = "asked"
  /\ LET o == request[p].order  v == request[p].from IN
     /\ row[o].version = v
     /\ row' = [row EXCEPT ![o] = [version |-> v + 1,
                                   events  |-> row[o].events \cup {v + 1}]]
  /\ request' = [request EXCEPT ![p].state = "done"]
  /\ UNCHANGED won

Answer(p) ==
  /\ request[p].state = "done"
  /\ won' = won \cup {<<p, request[p].order, request[p].from + 1>>}
  /\ request' = [request EXCEPT ![p] = NoRequest]
  /\ UNCHANGED row

\* A conflict, a failure, or the end of the process.
Raise(p) ==
  /\ request[p].state # "none"
  /\ request' = [request EXCEPT ![p] = NoRequest]
  /\ UNCHANGED <<row, won>>

Next ==
  \/ \E S \in SUBSET Orders : Create(S)
  \/ \E p \in Procs :
       \/ \E o \in Orders, v \in 0 .. MaxVersion - 1 : Ask(p, o, v)
       \/ Move(p) \/ Answer(p) \/ Raise(p)

Spec == Init /\ [][Next]_vars

=============================================================================
