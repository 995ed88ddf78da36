------------------------------- MODULE Purchase -------------------------------
(***************************************************************************)
(* What Checkout and Inventory promise together: a purchase as one system  *)
(* would make it.  The shopper fills a basket; its units are held off the  *)
(* shelf all at once or not at all; held units are sold for what they cost *)
(* or put back; an open purchase that holds nothing may be abandoned.      *)
(* There are no messages, attempts, drivers or leases here.                *)
(***************************************************************************)
EXTENDS Integers

CONSTANTS Tx, Skus, Opening

Nothing == [s \in Skus |-> 0]

VARIABLES phase,   \* "absent", "open", "sold" or "left"
          basket,  \* units per SKU
          hold,    \* units held off the shelf for the purchase
          bill,    \* what the shopper was charged for
          shelf    \* units per SKU that nobody holds

purchaseVars == <<phase, basket, hold, bill, shelf>>

Init ==
  /\ phase = [t \in Tx |-> "absent"]
  /\ basket = [t \in Tx |-> Nothing]
  /\ hold = [t \in Tx |-> Nothing]
  /\ bill = [t \in Tx |-> Nothing]
  /\ shelf = Opening

Arrive(t) ==
  /\ phase[t] = "absent"
  /\ phase' = [phase EXCEPT ![t] = "open"]
  /\ UNCHANGED <<basket, hold, bill, shelf>>

Pick(t, s) ==
  /\ phase[t] = "open" /\ hold[t] = Nothing
  /\ basket' = [basket EXCEPT ![t][s] = @ + 1]
  /\ UNCHANGED <<phase, hold, bill, shelf>>

Hold(t) ==
  /\ phase[t] = "open" /\ hold[t] = Nothing
  /\ \A s \in Skus : basket[t][s] <= shelf[s]
  /\ hold' = [hold EXCEPT ![t] = basket[t]]
  /\ shelf' = [s \in Skus |-> shelf[s] - basket[t][s]]
  /\ UNCHANGED <<phase, basket, bill>>

PutBack(t) ==
  /\ phase[t] = "open"
  /\ hold' = [hold EXCEPT ![t] = Nothing]
  /\ shelf' = [s \in Skus |-> shelf[s] + hold[t][s]]
  /\ UNCHANGED <<phase, basket, bill>>

Sell(t) ==
  /\ phase[t] = "open" /\ hold[t] = basket[t]
  /\ phase' = [phase EXCEPT ![t] = "sold"]
  /\ bill' = [bill EXCEPT ![t] = basket[t]]
  /\ UNCHANGED <<basket, hold, shelf>>

Leave(gone) ==
  /\ \A t \in gone : phase[t] = "open" /\ hold[t] = Nothing
  /\ phase' = [t \in Tx |-> IF t \in gone THEN "left" ELSE phase[t]]
  /\ UNCHANGED <<basket, hold, bill, shelf>>

Next ==
  \/ \E t \in Tx : Arrive(t) \/ Hold(t) \/ PutBack(t) \/ Sell(t) \/ \E s \in Skus : Pick(t, s)
  \/ \E gone \in SUBSET Tx : Leave(gone)

Spec == Init /\ [][Next]_purchaseVars
=============================================================================
