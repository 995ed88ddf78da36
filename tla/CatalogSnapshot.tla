---------------------------- MODULE CatalogSnapshot ----------------------------
(***************************************************************************)
(* Catalog publishes its items and a marker with their number to the      *)
(* compacted topic catalog.items.v1 at each start.  Every process of the   *)
(* other services copies the topic into memory; it is ready once it has    *)
(* the marker and as many items.  It never calls Catalog.                  *)
(***************************************************************************)
EXTENDS Integers, FiniteSets

CONSTANTS CatalogSize,   \* items of the catalog file, in SKU order
          Chunk,         \* _CHUNK: events of one batch of the publisher
          Readers,       \* processes that keep a snapshot
          Batch,         \* records of one poll
          MaxFaults      \* bound: failed publishes, stops and restarts

ASSUME CatalogAssumption ==
  /\ CatalogSize \in Nat
  /\ Chunk \in Nat \ {0}
  /\ Batch \in Nat \ {0}
  /\ MaxFaults \in Nat

Items == 1..CatalogSize
MarkerKey == 0                    \* "__marker__"
Keys == Items \cup {MarkerKey}

VARIABLES topic,      \* the records that are left, with their offsets
          end,        \* the next offset
          publisher,  \* Catalog: down, publishing (from next on) or done
          late,       \* keys of events given up by it that may still be stored
          snap,       \* each reader's TopicSnapshot and its consumer
          faults      \* counts faults, for MaxFaults

catalogVars == <<topic, end, publisher, late, snap, faults>>

NoCount == -1
Empty == [pos |-> 0, batch |-> {}, left |-> {}, items |-> {}, expected |-> NoCount,
          ready |-> FALSE]

CatalogInit ==
  /\ topic = {} /\ end = 0
  /\ publisher = [at |-> "down", next |-> 1]
  /\ late = {}
  /\ snap = [r \in Readers |-> Empty]
  /\ faults = 0

Fails == faults < MaxFaults /\ faults' = faults + 1

\* The marker carries the number of items.
Stored(k) ==
  /\ topic' = topic \cup {[off |-> end, key |-> k]}
  /\ end' = end + 1

-----------------------------------------------------------------------------
(* Catalog *)

\* Startup: the file is loaded, and published from its first row on.
CatalogStarts ==
  /\ publisher.at = "down"
  /\ publisher' = [at |-> "publishing", next |-> 1]
  /\ UNCHANGED <<topic, end, late, snap, faults>>

\* A batch is stored in the order of its calls.
PublishItem ==
  /\ publisher.at = "publishing" /\ publisher.next \in Items
  /\ Stored(publisher.next)
  /\ publisher' = [publisher EXCEPT !.next = @ + 1]
  /\ UNCHANGED <<late, snap, faults>>

PublishMarker ==
  /\ publisher.at = "publishing" /\ publisher.next > CatalogSize
  /\ Stored(MarkerKey)
  /\ publisher' = [publisher EXCEPT !.at = "done"]
  /\ UNCHANGED <<late, snap, faults>>

\* What is handed to the client and not acknowledged: the rest of the chunk.
Unacknowledged ==
  IF publisher.next > CatalogSize THEN {MarkerKey}
  ELSE {i \in Items : /\ i >= publisher.next
                      /\ (i - 1) \div Chunk = (publisher.next - 1) \div Chunk}

\* Mutant: the failed chunk is given up and the next one published.
PublishFailsGoesOn ==
  /\ Fails
  /\ publisher.at = "publishing"
  /\ \E S \in SUBSET Unacknowledged : late' = late \cup S
  /\ \E n \in 1..(CatalogSize + 1) :
       /\ publisher.next <= n /\ (n > CatalogSize \/ (n - 1) % Chunk = 0)
       /\ publisher' = [publisher EXCEPT !.next = n]
  /\ UNCHANGED <<topic, end, snap>>

\* Transient: everything is published again; what was given up may come late.
PublishFails ==
  /\ Fails
  /\ publisher.at = "publishing"
  /\ \E S \in SUBSET Unacknowledged : late' = late \cup S
  /\ publisher' = [publisher EXCEPT !.next = 1]
  /\ UNCHANGED <<topic, end, snap>>

LateArrives(k) ==
  /\ k \in late
  /\ Stored(k)
  /\ late' = late \ {k}
  /\ UNCHANGED <<publisher, snap, faults>>

CatalogStops ==
  /\ Fails
  /\ publisher.at # "down"
  /\ publisher' = [at |-> "down", next |-> 1]
  /\ late' = {}
  /\ UNCHANGED <<topic, end, snap>>

\* Mutant: the topic is not compacted but loses what is old.
CompactsAny(x) ==
  /\ topic' = topic \ {x}
  /\ UNCHANGED <<end, publisher, late, snap, faults>>

\* The broker keeps the last record of each key and any of the others.
Compacts(x) ==
  /\ \E y \in topic : y.key = x.key /\ y.off > x.off
  /\ topic' = topic \ {x}
  /\ UNCHANGED <<end, publisher, late, snap, faults>>

-----------------------------------------------------------------------------
(* TopicSnapshot *)

\* A new process reads from the beginning.
ReaderRestarts(r) ==
  /\ Fails
  /\ snap' = [snap EXCEPT ![r] = Empty]
  /\ UNCHANGED <<topic, end, publisher, late>>

\* The next records, at most Batch of them, up to offset upto.
ReaderPolls(r, upto) ==
  LET batch == {x \in topic : snap[r].pos <= x.off /\ x.off <= upto}
  IN /\ snap[r].left = {}
     /\ batch # {} /\ Cardinality(batch) <= Batch
     /\ snap' = [snap EXCEPT ![r].pos = upto + 1, ![r].batch = batch, ![r].left = batch]
     /\ UNCHANGED <<topic, end, publisher, late, faults>>

\* The consumer loop takes a batch key by key, in the order of the keys' first
\* records, and one record at a time.
FirstOf(k, batch) ==
  CHOOSE n \in {x.off : x \in {y \in batch : y.key = k}} :
    \A x \in batch : x.key = k => n <= x.off

TakenBefore(x, y, batch) ==
  \/ FirstOf(x.key, batch) < FirstOf(y.key, batch)
  \/ x.key = y.key /\ x.off <= y.off

\* Mutant: the marker alone makes a snapshot ready.
AppliedOnMarker(s, x) ==
  LET items == IF x.key = MarkerKey THEN s.items ELSE s.items \cup {x.key}
      expected == IF x.key = MarkerKey THEN CatalogSize ELSE s.expected
  IN [s EXCEPT !.left = @ \ {x}, !.items = items, !.expected = expected,
               !.ready = @ \/ expected # NoCount]

\* _apply: ready is set, and never cleared.
Applied(s, x) ==
  LET items == IF x.key = MarkerKey THEN s.items ELSE s.items \cup {x.key}
      expected == IF x.key = MarkerKey THEN CatalogSize ELSE s.expected
  IN [s EXCEPT !.left = @ \ {x}, !.items = items, !.expected = expected,
               !.ready = @ \/ (expected # NoCount /\ Cardinality(items) >= expected)]

ReaderApplies(r) ==
  \E x \in snap[r].left :
    /\ \A y \in snap[r].left : TakenBefore(x, y, snap[r].batch)
    /\ snap' = [snap EXCEPT ![r] = Applied(@, x)]
    /\ UNCHANGED <<topic, end, publisher, late, faults>>

\* What Checkout answers to a scan of a SKU: 200, 404 or 503.
Answer(r, sku) ==
  IF ~ snap[r].ready THEN "unavailable"
  ELSE IF sku \in snap[r].items THEN "found" ELSE "not found"

-----------------------------------------------------------------------------
Reading(r) == (\E upto \in 0..(end - 1) : ReaderPolls(r, upto)) \/ ReaderApplies(r)

CatalogNext ==
  \/ CatalogStarts \/ PublishItem \/ PublishMarker \/ PublishFails \/ CatalogStops
  \/ \E k \in Keys : LateArrives(k)
  \/ \E x \in topic : Compacts(x)
  \/ \E r \in Readers : Reading(r) \/ ReaderRestarts(r)

CatalogSpec == CatalogInit /\ [][CatalogNext]_catalogVars

\* Readers poll for ever.  Nothing is asked of Catalog or of compaction.
FairReaders == CatalogSpec /\ \A r \in Readers : WF_catalogVars(Reading(r))

-----------------------------------------------------------------------------
(* Properties *)

Snapshot ==
  [pos : 0..end, batch : SUBSET [off : 0..(end - 1), key : Keys],
   left : SUBSET [off : 0..(end - 1), key : Keys],
   items : SUBSET Items, expected : {NoCount, CatalogSize}, ready : BOOLEAN]

CatalogTypeOK ==
  /\ end \in Nat
  /\ topic \subseteq [off : 0..(end - 1), key : Keys]
  /\ publisher \in [at : {"down", "publishing", "done"}, next : 1..(CatalogSize + 1)]
  /\ late \subseteq Keys
  /\ snap \in [Readers -> Snapshot]
  /\ faults \in 0..MaxFaults

\* A process never says that an item of the catalog does not exist, whatever the
\* order in which its snapshot loads (catalog_snapshot.py: "a cold start is a clean
\* 503 and an unknown SKU is still a clean 404").
NoItemIsUnknown == \A r \in Readers, i \in Items : Answer(r, i) # "not found"

\* Behind a marker, stored or still on its way, the topic holds every item:
\* neither compaction nor a later publish that stops half-way takes one away.
MarkerHasItsItems ==
  (\E x \in topic : x.key = MarkerKey) \/ MarkerKey \in late
    => \A i \in Items : \E x \in topic : x.key = i

\* One whole publish is enough: every snapshot loads, without Catalog
\* (publisher.py: "independent of Catalog's availability").
SnapshotsLoad ==
  [](MarkerKey \in {x.key : x \in topic} => <>[](\A r \in Readers : snap[r].ready))
=============================================================================
