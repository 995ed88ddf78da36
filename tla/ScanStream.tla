------------------------------ MODULE ScanStream ------------------------------
(***************************************************************************)
(* The topic checkout.scans.v1, one partition, between Checkout's scan     *)
(* relay, which writes it, and Analytics, which reads it: the scans of one *)
(* log, in id order, until a reset names the log that replaces it.         *)
(***************************************************************************)
EXTENDS Integers, Sequences, FiniteSets

CONSTANTS MaxScans,   \* bound: ids of one scan log
          MaxLogs     \* bound: scan logs, each replaced by the next

ASSUME MaxScansAssumption == MaxScans \in Nat
ASSUME MaxLogsAssumption == MaxLogs \in Nat \ {0}

Ids == 1..MaxScans
Logs == 1..MaxLogs

VARIABLE stream

\* An event carries its scan's transaction and SKU; here, the log it is from.
Recorded(i, g) == [type |-> "scan-recorded", id |-> i, log |-> g]
LogReset(g) == [type |-> "scan-log-reset", id |-> 0, log |-> g]

Stored(e) == stream' = Append(stream, e)

-----------------------------------------------------------------------------
(* What the topic says to a reader of all of it *)

\* Positions after the last reset.
Current ==
  {k \in 1..Len(stream) :
     \A j \in k..Len(stream) : stream[j].type = "scan-recorded"}

Heard(i) == {k \in Current : stream[k].id = i}

\* A reader keeps the first event of an id and ignores the others.
First(i) == CHOOSE k \in Heard(i) : \A j \in Heard(i) : k <= j

\* The next scan of log g is one said before, or has the highest id of them.
InOrder(i, g) ==
  LET said == {stream[k].id : k \in {j \in Current : stream[j].log = g}}
  IN i \in said \/ \A j \in said : j < i
=============================================================================
