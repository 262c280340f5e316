------------------------- MODULE MCOrphanRelease -------------------------
(***************************************************************************)
(* The instance of OrphanRelease, and of the order lifecycle in it, for    *)
(* TLC: two buys of one signal and a sell of the symbol.                   *)
(***************************************************************************)
EXTENDS OrphanRelease, TLC
CONSTANTS o1, o2, o3, r1, r2, none
TradeSignal == o1 :> "s" @@ o2 :> "s" @@ o3 :> "t"
TradeSymbol == o1 :> "X" @@ o2 :> "X" @@ o3 :> "X"
TradeSide   == o1 :> "buy" @@ o2 :> "buy" @@ o3 :> "sell"
TradeQty    == o1 :> 1 @@ o2 :> 1 @@ o3 :> 1

\* The two buys, and the runs, differ in their names only.
NameSymmetry == Permutations({o1, o2}) \cup Permutations(Runs)
=============================================================================
