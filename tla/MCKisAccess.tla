----------------------------- MODULE MCKisAccess -----------------------------
(***************************************************************************)
(* Instances of KisAccess for TLC.                                         *)
(***************************************************************************)
EXTENDS KisAccess, TLC

\* One unit for a read's or an order's interval, three for a token's.
Intervals == [c \in Categories |-> IF c = "TOKEN" THEN 3 ELSE 1]

ProcSymmetry == Permutations(Procs)

=============================================================================
