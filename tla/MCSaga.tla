------------------------------- MODULE MCSaga -------------------------------
(* Small instances of the saga.  Two handlers and one recovery loop are the   *)
(* three drivers of the code: the call that began, its retry, and recovery.   *)
EXTENDS SagaInvariants, SagaRefinesPurchase, StoreReports, TLC

CONSTANTS t1, t2, milk, h1, h2, r1

MCOpening == (milk :> 1)
MCTwoUnits == (milk :> 2)

MCBaskets == {(milk :> 1)}
\* A shopper whose attempt failed may scan another unit before the next one.
MCGrowingBaskets == {(milk :> 1), (milk :> 2)}

MCSymmetry == Permutations(Tx) \union Permutations(Handlers)
=============================================================================
