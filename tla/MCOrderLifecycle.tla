-------------------------- MODULE MCOrderLifecycle --------------------------
(***************************************************************************)
(* Instances of OrderLifecycle for TLC.                                    *)
(***************************************************************************)
EXTENDS OrderLifecycle, TLC

CONSTANTS o1, o2, r1, s1, none

\* Two buys, of two symbols.
PairSignal == o1 :> "s" @@ o2 :> "t"
PairSymbol == o1 :> "X" @@ o2 :> "Y"
PairSide   == o1 :> "buy" @@ o2 :> "buy"
PairQty    == o1 :> 1 @@ o2 :> 1

\* A sell of two shares, which may fill in part.
SoloSignal == o1 :> "s"
SoloSymbol == o1 :> "X"
SoloSide   == o1 :> "sell"
SoloQty    == o1 :> 2

=============================================================================
