------------------------- MODULE SagaRefinesPurchase -------------------------
(***************************************************************************)
(* The saga implements a purchase.  COMPLETING is an open purchase (the    *)
(* public API reports it as OPEN), and a purchase holds what the current   *)
(* attempt's reservation holds: an orphaned reservation of an earlier      *)
(* attempt would be a shelf that shrinks while nobody holds anything.      *)
(***************************************************************************)
EXTENDS CompletionSaga

PhaseOf(state) ==
  CASE state = "ABSENT"    -> "absent"
    [] state = "COMPLETED" -> "sold"
    [] state = "CANCELLED" -> "left"
    [] OTHER               -> "open"

Held(t) ==
  IF saga[t].epoch \in Epochs /\ StateOf(t, saga[t].epoch) = "APPLIED"
  THEN record[t][saga[t].epoch].lines ELSE Nothing

P == INSTANCE Purchase WITH
       phase <- [t \in Tx |-> PhaseOf(status[t])],
       hold  <- [t \in Tx |-> Held(t)],
       bill  <- charged,
       shelf <- stock

\* Every step of the saga, of its recovery and of Inventory is a step of a
\* purchase or changes nothing a shopper or the shelf can see.
ImplementsPurchase == P!Spec
=============================================================================
