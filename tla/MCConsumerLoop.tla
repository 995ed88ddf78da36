---------------------------- MODULE MCConsumerLoop ----------------------------
(* Values for checking ConsumerLoop: two events of one key, one of another. *)
EXTENDS ConsumerLoop, TLC

OneKey == <<"tx1", "tx1">>
TwoThenOne == <<"tx1", "tx1", "tx2">>
ConsumersAlike == Permutations(Consumers)
=============================================================================
