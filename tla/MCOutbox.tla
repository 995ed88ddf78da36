------------------------------- MODULE MCOutbox -------------------------------
(* Values for checking Outbox: two events of one transaction and one of    *)
(* another; sweepers are interchangeable.                                  *)
EXTENDS Outbox, TLC

TwoThenOne == <<"tx1", "tx1", "tx2">>
SweepersAlike == Permutations(Sweepers)
=============================================================================
