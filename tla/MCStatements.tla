----------------------------- MODULE MCStatements -----------------------------
(* Two baskets contend for the last units, in sessions that overlap.          *)
EXTENDS LedgerStatements, TLC

CONSTANTS t1, t2, milk, bread, w1, w2, w3

MCOpening == (milk :> 1 @@ bread :> 2)

MCBaskets == {(milk :> 1 @@ bread :> 1), (milk :> 0 @@ bread :> 1)}

MCSkuOrder == (bread :> 1 @@ milk :> 2)

MCSymmetry == Permutations(Tx) \union Permutations(Sessions)
=============================================================================
