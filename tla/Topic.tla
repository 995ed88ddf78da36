--------------------------------- MODULE Topic ---------------------------------
(***************************************************************************)
(* One partition of a Kafka topic, external: a sequence of events that     *)
(* grows at its end, each of them perhaps more than once.                  *)
(***************************************************************************)
EXTENDS Integers, Sequences, FiniteSets

CONSTANTS MaxEvents,   \* bound: events
          KeyOf,       \* the key (transaction) of each event
          MaxCopies    \* bound: copies of one event in the topic

Events == 1..MaxEvents

ASSUME MaxEventsAssumption == MaxEvents \in Nat
ASSUME MaxCopiesAssumption == MaxCopies \in Nat \ {0}

VARIABLE topic

Offsets == 1..Len(topic)
Key(i) == KeyOf[topic[i]]
Copies(e) == {i \in Offsets : topic[i] = e}
InTopic(e) == \E i \in Offsets : topic[i] = e

\* The broker acknowledges e.  Copies beyond the bound are left out.
Publish(e) ==
  topic' = IF Cardinality(Copies(e)) < MaxCopies THEN Append(topic, e) ELSE topic
=============================================================================
