----------------------------- MODULE StoreReports -----------------------------
(***************************************************************************)
(* What the two services report of their data, and the operator's tool     *)
(* that compares the reports (tools/verify_invariant.py).  What it checks  *)
(* of outbox, relay and Analytics is in their modules.                     *)
(***************************************************************************)
EXTENDS CompletionSaga

\* Rows of transaction_item under COMPLETED transactions.
SoldUnits(s) ==
  SumFunction([t \in Tx |-> IF status[t] = "COMPLETED" THEN basket[t][s] ELSE 0])

\* Checkout: GET /internal/reports/sold-by-sku.
SoldReport ==
  [sold |-> [s \in Skus |-> SoldUnits(s)],
   completing |-> {t \in Tx : status[t] = "COMPLETING"},
   openCompletions |-> {t \in Tx : saga[t].state \notin Closed},
   completed |-> {t \in Tx : status[t] = "COMPLETED"}]

\* Inventory: GET /internal/reports/stock.
StockReport ==
  [initial |-> Opening, current |-> stock,
   applied |-> {t \in Tx : \E e \in Epochs : StateOf(t, e) = "APPLIED"}]

\* The tool's verdict on the two.
Check(checkout, inventory) ==
  /\ \A s \in Skus :
       /\ inventory.initial[s] - inventory.current[s] = checkout.sold[s]
       /\ inventory.current[s] >= 0
  /\ checkout.completing = {} /\ checkout.openCompletions = {}
  /\ inventory.applied = checkout.completed

\* When nothing is in flight the tool passes: what left the shelf is what
\* completed transactions bought, and a transaction has an APPLIED reservation if
\* and only if it is COMPLETED (verify_invariant.py, 1 to 4).
StoresAgree == Settled => Check(SoldReport, StockReport)
=============================================================================
