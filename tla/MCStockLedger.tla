---------------------------- MODULE MCStockLedger ----------------------------
(* Two transactions, two attempts each, contending for the last units of two  *)
(* SKUs; every order, repetition and omission of their requests.              *)
EXTENDS StockLedger, TLC

CONSTANTS t1, t2, milk, bread

MCOpening == (milk :> 2 @@ bread :> 1)

MCBaskets == {(milk :> 1 @@ bread :> 1), (milk :> 2 @@ bread :> 0)}

MCSymmetry == Permutations(Tx)
=============================================================================
