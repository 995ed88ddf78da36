-------------------------------- MODULE Outbox --------------------------------
(***************************************************************************)
(* The transactional outbox of Checkout and of Inventory.  An event is a   *)
(* row written in the local transaction of the state change that causes    *)
(* it.  After the COMMIT its writer publishes it and marks the row; a row  *)
(* left unmarked is published later by a sweeper, of which every worker    *)
(* runs one; marked rows are purged in the end.                            *)
(*                                                                         *)
(* A publish that fails (3 s) may still be in the client's buffer and      *)
(* arrive later (its request times out after 5 s).                         *)
(***************************************************************************)
EXTENDS Topic

CONSTANTS Sweepers,
          SweepLimit   \* rows one sweep claims

ASSUME SweepLimitAssumption == SweepLimit \in Nat \ {0}

VARIABLES row,     \* the outbox table
          writer,  \* publish_now, the task of the event's writer
          claim,   \* rows a sweep has claimed and not yet published
          marked,  \* rows a sweep has marked in its open transaction
          adrift   \* events in the client's buffer that nobody waits for

outboxVars == <<row, writer, claim, marked, adrift, topic>>

RowState == {"none", "unpublished", "published", "purged"}
OutboxTypeOK ==
  /\ row \in [Events -> RowState]
  /\ writer \in [Events -> {"none", "publish", "mark"}]
  /\ claim \in [Sweepers -> {rows \in SUBSET Events : Cardinality(rows) <= SweepLimit}]
  /\ marked \in [Sweepers -> SUBSET Events]
  /\ adrift \subseteq Events
  /\ topic \in Seq(Events)

OutboxInit ==
  /\ row = [e \in Events |-> "none"]
  /\ writer = [e \in Events |-> "none"]
  /\ claim = [w \in Sweepers |-> {}]
  /\ marked = [w \in Sweepers |-> {}]
  /\ adrift = {}
  /\ topic = <<>>

-----------------------------------------------------------------------------

\* The client gives up on e, which may have been buffered.
GiveUp(e) == adrift' = adrift \/ adrift' = adrift \union {e}

InClaim(e, w) == e \in claim[w] \union marked[w]
Locked(e) == \E w \in Sweepers : InClaim(e, w)

\* The state change and its event, the events of one key in order.
WriteEvent(e) ==
  /\ row[e] = "none"
  /\ \A d \in Events : d < e /\ KeyOf[d] = KeyOf[e] => row[d] # "none"
  /\ row' = [row EXCEPT ![e] = "unpublished"]
  /\ writer' = [writer EXCEPT ![e] = "publish"]
  /\ UNCHANGED <<claim, marked, adrift, topic>>

(* The writer *)

WriterPublishes(e) ==
  /\ writer[e] = "publish"
  /\ Publish(e)
  /\ writer' = [writer EXCEPT ![e] = "mark"]
  /\ UNCHANGED <<row, claim, marked, adrift>>

WriterMarks(e) ==
  /\ writer[e] = "mark"
  /\ ~ Locked(e)
  /\ row' = [row EXCEPT ![e] = IF @ = "unpublished" THEN "published" ELSE @]
  /\ writer' = [writer EXCEPT ![e] = "none"]
  /\ UNCHANGED <<claim, marked, adrift, topic>>

\* The publish fails or is cancelled, the mark fails, or the process dies.
WriterStops(e) ==
  /\ writer[e] # "none"
  /\ writer' = [writer EXCEPT ![e] = "none"]
  /\ IF writer[e] = "publish" THEN GiveUp(e) ELSE UNCHANGED adrift
  /\ UNCHANGED <<row, claim, marked, topic>>

\* The same request again while its answer is awaited (Checkout only).
Republish(e) ==
  /\ row[e] # "none"
  /\ Publish(e)
  /\ UNCHANGED <<row, writer, claim, marked, adrift>>

RepublishFails(e) ==
  /\ row[e] # "none"
  /\ GiveUp(e)
  /\ UNCHANGED <<row, writer, claim, marked, topic>>

(* A sweep: one transaction that claims rows, publishes and marks them *)

\* Which rows are old enough is left open; locked rows are skipped.
SweepClaims(w, rows) ==
  /\ claim[w] = {} /\ marked[w] = {}
  /\ rows # {} /\ Cardinality(rows) <= SweepLimit
  /\ \A e \in rows : row[e] = "unpublished" /\ ~ Locked(e)
  /\ claim' = [claim EXCEPT ![w] = rows]
  /\ UNCHANGED <<row, writer, marked, adrift, topic>>

\* The row whose turn it is: they go out in id order.
Turn(e, w) == e \in claim[w] /\ \A d \in claim[w] : e <= d

SweepPublishes(e, w) ==
  /\ Turn(e, w)
  /\ Publish(e)
  /\ claim' = [claim EXCEPT ![w] = @ \ {e}]
  /\ marked' = [marked EXCEPT ![w] = @ \union {e}]
  /\ UNCHANGED <<row, writer, adrift>>

\* Mutant: the row whose publish failed is marked all the same.
SweepFailsMarking(e, w) ==
  /\ Turn(e, w)
  /\ GiveUp(e)
  /\ claim' = [claim EXCEPT ![w] = {}]
  /\ marked' = [marked EXCEPT ![w] = @ \union {e}]
  /\ UNCHANGED <<row, writer, topic>>

\* The broker is down: the rest of the claim waits for another sweep.
SweepFails(e, w) ==
  /\ Turn(e, w)
  /\ GiveUp(e)
  /\ claim' = [claim EXCEPT ![w] = {}]
  /\ UNCHANGED <<row, writer, marked, topic>>

SweepCommits(w) ==
  /\ claim[w] = {} /\ marked[w] # {}
  /\ row' = [e \in Events |-> IF e \in marked[w] THEN "published" ELSE row[e]]
  /\ marked' = [marked EXCEPT ![w] = {}]
  /\ UNCHANGED <<writer, claim, adrift, topic>>

\* A crash or an error rolls the transaction back; a publish may be under way.
SweepDies(w) ==
  /\ claim[w] # {} \/ marked[w] # {}
  /\ adrift' = adrift \/ \E e \in Events : Turn(e, w) /\ adrift' = adrift \union {e}
  /\ claim' = [claim EXCEPT ![w] = {}]
  /\ marked' = [marked EXCEPT ![w] = {}]
  /\ UNCHANGED <<row, writer, topic>>

\* Mutant: rows are purged by age alone.
PurgeOld(old) ==
  /\ old # {} /\ \A e \in old : row[e] \in {"unpublished", "published"} /\ ~ Locked(e)
  /\ row' = [e \in Events |-> IF e \in old THEN "purged" ELSE row[e]]
  /\ UNCHANGED <<writer, claim, marked, adrift, topic>>

Purge(old) ==
  /\ old # {} /\ \A e \in old : row[e] = "published"
  /\ row' = [e \in Events |-> IF e \in old THEN "purged" ELSE row[e]]
  /\ UNCHANGED <<writer, claim, marked, adrift, topic>>

(* The client's buffer *)

BufferArrives(e) ==
  /\ e \in adrift
  /\ Publish(e)
  /\ adrift' = adrift \ {e}
  /\ UNCHANGED <<row, writer, claim, marked>>

BufferExpires(e) ==
  /\ e \in adrift
  /\ adrift' = adrift \ {e}
  /\ UNCHANGED <<row, writer, claim, marked, topic>>

-----------------------------------------------------------------------------

OutboxNext ==
  \/ \E e \in Events :
       \/ WriteEvent(e) \/ WriterPublishes(e) \/ WriterMarks(e) \/ WriterStops(e)
       \/ Republish(e) \/ RepublishFails(e) \/ BufferArrives(e) \/ BufferExpires(e)
  \/ \E w \in Sweepers :
       \/ SweepCommits(w) \/ SweepDies(w)
       \/ \E e \in Events : SweepPublishes(e, w) \/ SweepFails(e, w)
  \/ \E w \in Sweepers, rows \in SUBSET Events : SweepClaims(w, rows)
  \/ \E old \in SUBSET Events : Purge(old)

OutboxSpec == OutboxInit /\ [][OutboxNext]_outboxVars

-----------------------------------------------------------------------------
(* Properties *)

\* A row is marked, and so forgotten, only after the broker has its event:
\* whatever fails between COMMIT, publish and mark, no event is lost (outbox.py:
\* "no state change without its event").
MarkedIsPublished ==
  \A e \in Events : row[e] \in {"published", "purged"} => InTopic(e)

\* Two sweeps never hold one row, and none is marked by the writer or purged
\* under a sweep (SKIP LOCKED and the row lock).
SweepsAreApart ==
  /\ \A e \in Events, v, w \in Sweepers : InClaim(e, v) /\ InClaim(e, w) => v = w
  /\ \A e \in Events : Locked(e) => row[e] = "unpublished"

\* What is in the topic, or on its way, was written with a state change
\* (architecture.md: "none announced without its state change").
AnnouncedIsWritten ==
  \A e \in Events :
    InTopic(e) \/ e \in adrift \/ writer[e] # "none" => row[e] # "none"

\* MarkedIsPublished made inductive: who is about to mark a row has published it.
OutboxInv ==
  /\ OutboxTypeOK
  /\ MarkedIsPublished
  /\ SweepsAreApart
  /\ AnnouncedIsWritten
  /\ \A e \in Events : writer[e] = "mark" => InTopic(e)
  /\ \A w \in Sweepers : \A e \in marked[w] : InTopic(e)
=============================================================================
