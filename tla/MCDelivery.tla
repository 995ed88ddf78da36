------------------------------ MODULE MCDelivery ------------------------------
(* Values for checking Delivery: one event, and two of everything else.    *)
EXTENDS Delivery

OneEvent == <<"tx1">>
=============================================================================
