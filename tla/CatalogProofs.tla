----------------------------- MODULE CatalogProofs -----------------------------
(* Proofs about the catalog's topic and its snapshots (CatalogSnapshot).   *)
EXTENDS CatalogSnapshot, FiniteSetTheorems, TLAPS

\* A snapshot that holds as many items of the catalog as it has, has them all.
LEMMA CountIsEnough ==
  ASSUME NEW S \in SUBSET Items, Cardinality(S) >= CatalogSize
  PROVE  S = Items
<1>1. IsFiniteSet(Items) /\ Cardinality(Items) = CatalogSize
  BY FS_Interval, CatalogAssumption DEF Items
<1>2. IsFiniteSet(S) /\ Cardinality(S) <= Cardinality(Items)
  BY <1>1, FS_Subset
<1>3. Cardinality(S) \in Nat
  BY <1>2, FS_CardinalityType
<1>4. Cardinality(Items) = Cardinality(S)
  BY <1>1, <1>2, <1>3, CatalogAssumption
<1> QED BY <1>1, <1>4, FS_Subset

\* A step leaves in the topic a record of every key that has one: compaction
\* spares the last, and nothing else removes any.
LEMMA KeysStay ==
  ASSUME CatalogTypeOK, [CatalogNext]_catalogVars,
         NEW k, \E x \in topic : x.key = k
  PROVE  \E x \in topic' : x.key = k
<1>1. PICK y \in topic : y.key = k
  OBVIOUS
<1>2. CASE \E x \in topic : Compacts(x)
  <2>1. PICK x \in topic : Compacts(x)
    BY <1>2
  <2>2. PICK z \in topic : z.key = x.key /\ z.off > x.off
    BY <2>1 DEF Compacts
  <2>3. x.off \in Int /\ z.off \in Int
    BY DEF CatalogTypeOK
  <2>4. z # x
    BY <2>2, <2>3
  <2>5. topic' = topic \ {x}
    BY <2>1 DEF Compacts
  <2>6. CASE y = x
    BY <1>1, <2>2, <2>4, <2>5, <2>6
  <2>7. CASE y # x
    BY <1>1, <2>5, <2>7
  <2> QED BY <2>6, <2>7
<1>3. CASE ~ \E x \in topic : Compacts(x)
  <2>1. topic \subseteq topic'
    BY <1>3 DEF CatalogNext, CatalogStarts, PublishItem, PublishMarker, PublishFails,
      CatalogStops, LateArrives, Reading, ReaderPolls, ReaderApplies, ReaderRestarts,
      Stored, catalogVars
  <2> QED BY <1>1, <2>1
<1> QED BY <1>2, <1>3

-----------------------------------------------------------------------------
(* Types *)

LEMMA StoredTypes ==
  ASSUME CatalogTypeOK, NEW k \in Keys, Stored(k)
  PROVE  /\ end' \in Nat /\ end <= end'
         /\ topic' \subseteq [off : 0..(end' - 1), key : Keys]
<1>1. end \in Nat /\ end' = end + 1
  BY DEF CatalogTypeOK, Stored
<1>2. 0..(end - 1) \subseteq 0..(end' - 1) /\ end \in 0..(end' - 1)
  BY <1>1
<1>3. topic \subseteq [off : 0..(end' - 1), key : Keys]
  BY <1>2 DEF CatalogTypeOK
<1>4. [off |-> end, key |-> k] \in [off : 0..(end' - 1), key : Keys]
  BY <1>2
<1> QED BY <1>1, <1>3, <1>4 DEF Stored

LEMMA IntervalGrows ==
  ASSUME NEW a \in Nat, NEW b \in Nat, a <= b
  PROVE  0..(a - 1) \subseteq 0..(b - 1) /\ 0..a \subseteq 0..b
OBVIOUS

\* The snapshots' types, which mention the end of the topic, as it grows.
LEMMA SnapTypesGrow ==
  ASSUME CatalogTypeOK, end' \in Nat, end <= end', snap' = snap
  PROVE  snap' \in [Readers -> Snapshot']
<1>0. end \in Nat
  BY DEF CatalogTypeOK
<1>1. 0..end \subseteq 0..end' /\ 0..(end - 1) \subseteq 0..(end' - 1)
  BY <1>0, IntervalGrows
<1>3. [off : 0..(end - 1), key : Keys] \subseteq [off : 0..(end' - 1), key : Keys]
  BY <1>1
<1> QED BY <1>1, <1>3 DEF CatalogTypeOK, Snapshot

LEMMA CatalogInitTypes == CatalogInit => CatalogTypeOK
BY CatalogAssumption DEF CatalogInit, CatalogTypeOK, Snapshot, Empty, NoCount, Keys

LEMMA CatalogNextTypes ==
  CatalogTypeOK /\ [CatalogNext]_catalogVars => CatalogTypeOK'
<1> SUFFICES ASSUME CatalogTypeOK, [CatalogNext]_catalogVars
             PROVE  CatalogTypeOK'
  OBVIOUS
<1> USE CatalogAssumption
<1>1. CASE CatalogStarts
  BY <1>1 DEF CatalogTypeOK, Snapshot, CatalogStarts
<1>2. CASE PublishItem
  <2>1. publisher.next \in Keys /\ Stored(publisher.next)
    BY <1>2 DEF PublishItem, Keys
  <2>2. publisher' \in [at : {"down", "publishing", "done"}, next : 1..(CatalogSize + 1)]
    BY <1>2 DEF CatalogTypeOK, PublishItem, Items
  <2> QED BY <1>2, <2>1, <2>2, StoredTypes, SnapTypesGrow DEF CatalogTypeOK, PublishItem
<1>3. CASE PublishMarker
  <2>1. MarkerKey \in Keys /\ Stored(MarkerKey)
    BY <1>3 DEF PublishMarker, Keys
  <2>2. publisher' \in [at : {"down", "publishing", "done"}, next : 1..(CatalogSize + 1)]
    BY <1>3 DEF CatalogTypeOK, PublishMarker
  <2> QED BY <1>3, <2>1, <2>2, StoredTypes, SnapTypesGrow DEF CatalogTypeOK, PublishMarker
<1>4. CASE PublishFails
  <2>1. Unacknowledged \subseteq Keys
    BY DEF Unacknowledged, Keys
  <2> QED BY <1>4, <2>1 DEF CatalogTypeOK, Snapshot, PublishFails, Fails
<1>5. CASE CatalogStops
  BY <1>5 DEF CatalogTypeOK, Snapshot, CatalogStops, Fails
<1>6. ASSUME NEW k \in Keys, LateArrives(k)
      PROVE  CatalogTypeOK'
  BY <1>6, StoredTypes, SnapTypesGrow DEF CatalogTypeOK, LateArrives
<1>7. ASSUME NEW x \in topic, Compacts(x)
      PROVE  CatalogTypeOK'
  BY <1>7 DEF CatalogTypeOK, Snapshot, Compacts
<1>8. ASSUME NEW r \in Readers, NEW upto \in 0..(end - 1), ReaderPolls(r, upto)
      PROVE  CatalogTypeOK'
  <2> DEFINE batch == {x \in topic : snap[r].pos <= x.off /\ x.off <= upto}
  <2>1. upto + 1 \in 0..end /\ batch \subseteq [off : 0..(end - 1), key : Keys]
    BY DEF CatalogTypeOK
  <2> DEFINE polled == [snap[r] EXCEPT !.pos = upto + 1, !.batch = batch, !.left = batch]
  <2>2. snap' = [snap EXCEPT ![r] = polled]
    BY <1>8 DEF ReaderPolls, CatalogTypeOK
  <2> HIDE DEF batch
  <2>3. snap[r] \in Snapshot
    BY DEF CatalogTypeOK
  <2>4. polled \in Snapshot
    BY <2>1, <2>3 DEF Snapshot
  <2> HIDE DEF polled
  <2>5. snap' \in [Readers -> Snapshot]
    BY <2>2, <2>4 DEF CatalogTypeOK, Snapshot
  <2> QED BY <1>8, <2>5 DEF CatalogTypeOK, ReaderPolls, Snapshot
<1>9. ASSUME NEW r \in Readers, ReaderApplies(r)
      PROVE  CatalogTypeOK'
  <2>1. PICK x \in snap[r].left : snap' = [snap EXCEPT ![r] = Applied(snap[r], x)]
    BY <1>9 DEF ReaderApplies
  <2>2. x.key \in Keys
    BY <2>1 DEF CatalogTypeOK, Snapshot
  <2>3. snap[r] \in Snapshot
    BY DEF CatalogTypeOK
  <2>4. Applied(snap[r], x) \in Snapshot
    <3>1. x.key # MarkerKey => x.key \in Items
      BY <2>2 DEF Keys
    <3>2. snap[r].left \ {x} \subseteq [off : 0..(end - 1), key : Keys]
      BY <2>3 DEF Snapshot
    <3> QED BY <2>3, <3>1, <3>2 DEF Applied, Snapshot
  <2>5. snap' \in [Readers -> Snapshot]
    BY <2>1, <2>4 DEF CatalogTypeOK, Snapshot
  <2> QED BY <1>9, <2>5 DEF CatalogTypeOK, ReaderApplies, Snapshot
<1>10. ASSUME NEW r \in Readers, ReaderRestarts(r)
       PROVE  CatalogTypeOK'
  BY <1>10 DEF CatalogTypeOK, Snapshot, ReaderRestarts, Empty, Fails
<1>11. CASE UNCHANGED catalogVars
  BY <1>11 DEF CatalogTypeOK, Snapshot, catalogVars
<1> QED BY <1>1, <1>2, <1>3, <1>4, <1>5, <1>6, <1>7, <1>8, <1>9, <1>10, <1>11
        DEF CatalogNext, Reading

\* The catalog's topic and snapshots keep their types.
THEOREM CatalogTypes == CatalogSpec => []CatalogTypeOK
BY CatalogInitTypes, CatalogNextTypes, PTL DEF CatalogSpec

-----------------------------------------------------------------------------
(* What the topic holds *)

\* What Catalog has published of the pass it is in is in the topic.
PassIsStored ==
  publisher.at # "down" =>
    \A i \in Items : i < publisher.next => \E x \in topic : x.key = i

\* After a whole pass, next is beyond the last item.
DoneIsWhole == publisher.at = "done" => publisher.next = CatalogSize + 1

TopicInv == CatalogTypeOK /\ PassIsStored /\ DoneIsWhole /\ MarkerHasItsItems

LEMMA CatalogInitTopic == CatalogInit => PassIsStored /\ DoneIsWhole /\ MarkerHasItsItems
BY DEF CatalogInit, PassIsStored, DoneIsWhole, MarkerHasItsItems

\* Storing a key adds its record.
LEMMA StoredIsThere ==
  ASSUME NEW k, Stored(k)
  PROVE  (\E x \in topic' : x.key = k) /\ \A x \in topic' : x \in topic \/ x.key = k
<1> DEFINE record == [off |-> end, key |-> k]
<1>1. topic' = topic \cup {record}
  BY DEF Stored
<1>2. record.key = k
  OBVIOUS
<1> HIDE DEF record
<1> QED BY <1>1, <1>2

LEMMA CatalogNextTopic ==
  TopicInv /\ [CatalogNext]_catalogVars => TopicInv'
<1> SUFFICES ASSUME TopicInv, [CatalogNext]_catalogVars
             PROVE  TopicInv'
  OBVIOUS
<1> USE CatalogAssumption
<1>t. CatalogTypeOK /\ CatalogTypeOK'
  BY CatalogNextTypes DEF TopicInv
<1>k. ASSUME NEW k, \E x \in topic : x.key = k
      PROVE  \E x \in topic' : x.key = k
  BY <1>t, <1>k, KeysStay
<1>n. publisher.next \in Nat /\ \A i \in Items : i \in Nat /\ i <= CatalogSize
  BY <1>t DEF CatalogTypeOK, Items
<1>1. CASE CatalogStarts
  <2>1. PassIsStored' /\ DoneIsWhole'
    BY <1>1, <1>n DEF CatalogStarts, PassIsStored, DoneIsWhole, Items
  <2> QED BY <1>1, <1>t, <2>1 DEF CatalogStarts, TopicInv, MarkerHasItsItems
<1>2. CASE PublishItem
  <2>1. publisher.next # MarkerKey
    BY <1>2 DEF PublishItem, Items, MarkerKey
  <2>2. publisher' = [publisher EXCEPT !.next = publisher.next + 1]
    BY <1>2 DEF PublishItem
  <2>3. publisher'.next = publisher.next + 1 /\ publisher'.at = "publishing"
    BY <1>2, <1>t, <2>2 DEF CatalogTypeOK, PublishItem
  <2>4. PassIsStored'
    BY <1>2, <1>k, <1>n, <2>3, StoredIsThere DEF PassIsStored, PublishItem, TopicInv
  <2>5. MarkerHasItsItems'
    BY <1>2, <1>k, <2>1, StoredIsThere DEF MarkerHasItsItems, PublishItem, TopicInv
  <2> QED BY <1>t, <2>3, <2>4, <2>5 DEF TopicInv, DoneIsWhole
<1>3. CASE PublishMarker
  <2>1. \A i \in Items : i < publisher.next
    BY <1>3, <1>n DEF PublishMarker
  <2>2. \A i \in Items : \E x \in topic : x.key = i
    BY <1>3, <2>1 DEF PublishMarker, TopicInv, PassIsStored
  <2>3. publisher.next = CatalogSize + 1
    BY <1>3, <1>t DEF PublishMarker, CatalogTypeOK
  <2>4. publisher' = [publisher EXCEPT !.at = "done"]
    BY <1>3 DEF PublishMarker
  <2>5. publisher'.next = CatalogSize + 1
    BY <1>t, <2>3, <2>4 DEF CatalogTypeOK
  <2>6. \A i \in Items : \E x \in topic' : x.key = i
    BY <1>k, <2>2
  <2> QED BY <1>t, <2>5, <2>6 DEF TopicInv, PassIsStored, DoneIsWhole, MarkerHasItsItems
<1>4. CASE PublishFails
  <2>1. publisher' = [publisher EXCEPT !.next = 1] /\ topic' = topic
    BY <1>4 DEF PublishFails
  <2>2. publisher'.next = 1 /\ publisher'.at = "publishing"
    BY <1>4, <1>t, <2>1 DEF PublishFails, CatalogTypeOK
  <2>3. PassIsStored' /\ DoneIsWhole'
    BY <2>2, <1>n DEF PassIsStored, DoneIsWhole, Items
  <2>4. CASE publisher.next > CatalogSize
    <3>1. \A i \in Items : \E x \in topic : x.key = i
      BY <1>4, <1>n, <2>4 DEF PublishFails, TopicInv, PassIsStored
    <3> QED BY <1>t, <2>1, <2>3, <3>1 DEF TopicInv, MarkerHasItsItems
  <2>5. CASE ~ publisher.next > CatalogSize
    <3>1. MarkerKey \notin Unacknowledged
      BY <2>5 DEF Unacknowledged, Items, MarkerKey
    <3>2. MarkerKey \in late' => MarkerKey \in late
      BY <1>4, <3>1 DEF PublishFails
    <3> QED BY <1>t, <2>1, <2>3, <3>2 DEF TopicInv, MarkerHasItsItems
  <2> QED BY <2>4, <2>5
<1>5. CASE CatalogStops
  <2>1. publisher'.at = "down" /\ late' = {} /\ topic' = topic
    BY <1>5 DEF CatalogStops
  <2> QED BY <1>t, <2>1 DEF TopicInv, PassIsStored, DoneIsWhole, MarkerHasItsItems
<1>6. ASSUME NEW k \in Keys, LateArrives(k)
      PROVE  TopicInv'
  <2>1. PassIsStored' /\ DoneIsWhole'
    BY <1>6, <1>k DEF LateArrives, TopicInv, PassIsStored, DoneIsWhole
  <2>2. MarkerHasItsItems'
    BY <1>6, <1>k, StoredIsThere DEF LateArrives, TopicInv, MarkerHasItsItems
  <2> QED BY <1>t, <2>1, <2>2 DEF TopicInv
<1>7. ASSUME NEW x \in topic, Compacts(x)
      PROVE  TopicInv'
  <2>1. topic' \subseteq topic /\ publisher' = publisher /\ late' = late
    BY <1>7 DEF Compacts
  <2> QED BY <1>t, <1>k, <2>1 DEF TopicInv, PassIsStored, DoneIsWhole, MarkerHasItsItems
<1>8. CASE /\ UNCHANGED <<topic, publisher, late>>
  BY <1>8, <1>t DEF TopicInv, PassIsStored, DoneIsWhole, MarkerHasItsItems
<1>9. (\E r \in Readers : Reading(r) \/ ReaderRestarts(r)) \/ UNCHANGED catalogVars
        => UNCHANGED <<topic, publisher, late>>
  BY DEF Reading, ReaderPolls, ReaderApplies, ReaderRestarts, catalogVars
<1> QED BY <1>1, <1>2, <1>3, <1>4, <1>5, <1>6, <1>7, <1>8, <1>9 DEF CatalogNext

\* A marker in the topic has every item of the catalog with it, for catalogs, batches
\* and faults of any size.
THEOREM MarkerMeansWhole == CatalogSpec => []MarkerHasItsItems
<1>1. CatalogInit => TopicInv
  BY CatalogInitTypes, CatalogInitTopic DEF TopicInv
<1>2. TopicInv => MarkerHasItsItems
  BY DEF TopicInv
<1> QED BY <1>1, <1>2, CatalogNextTopic, PTL DEF CatalogSpec

-----------------------------------------------------------------------------
(* What a snapshot answers *)

\* A snapshot that is ready holds the whole catalog.
ReadyIsWhole == \A r \in Readers : snap[r].ready => snap[r].items = Items

LEMMA AppliedIsWhole ==
  ASSUME NEW s \in Snapshot, NEW x, x.key \in Keys, s.ready => s.items = Items
  PROVE  Applied(s, x).ready => Applied(s, x).items = Items
<1>1. s.items \in SUBSET Items /\ s.expected \in {NoCount, CatalogSize} /\ s.ready \in BOOLEAN
  BY DEF Snapshot
<1> DEFINE items == IF x.key = MarkerKey THEN s.items ELSE s.items \cup {x.key}
           expected == IF x.key = MarkerKey THEN CatalogSize ELSE s.expected
<1>2. items \in SUBSET Items
  BY <1>1 DEF Keys
<1>3. Applied(s, x).items = items
  BY DEF Applied, Snapshot
<1>4. Applied(s, x).ready = (s.ready \/ (expected # NoCount /\ Cardinality(items) >= expected))
  BY DEF Applied, Snapshot
<1>5. CASE s.ready
  BY <1>2, <1>3, <1>5
<1>6. CASE expected # NoCount /\ Cardinality(items) >= expected
  <2>1. expected = CatalogSize
    BY <1>1, <1>6
  <2> HIDE DEF items, expected
  <2> QED BY <1>2, <1>3, <1>6, <2>1, CountIsEnough
<1> QED BY <1>3, <1>4, <1>5, <1>6

LEMMA CatalogNextReady ==
  CatalogTypeOK /\ ReadyIsWhole /\ [CatalogNext]_catalogVars => ReadyIsWhole'
<1> SUFFICES ASSUME CatalogTypeOK, ReadyIsWhole, [CatalogNext]_catalogVars,
                    NEW q \in Readers, snap'[q].ready
             PROVE  snap'[q].items = Items
  BY DEF ReadyIsWhole
<1>1. snap[q] \in Snapshot /\ (snap[q].ready => snap[q].items = Items)
  BY DEF CatalogTypeOK, ReadyIsWhole
<1>2. CASE snap' = snap
  BY <1>1, <1>2
<1>3. ASSUME NEW r \in Readers, NEW upto \in 0..(end - 1), ReaderPolls(r, upto)
      PROVE  snap'[q].items = Items
  <2>1. snap'[q].ready = snap[q].ready /\ snap'[q].items = snap[q].items
    BY <1>1, <1>3 DEF ReaderPolls, CatalogTypeOK, Snapshot
  <2> QED BY <1>1, <2>1
<1>4. ASSUME NEW r \in Readers, ReaderApplies(r)
      PROVE  snap'[q].items = Items
  <2>1. PICK x \in snap[r].left : snap' = [snap EXCEPT ![r] = Applied(snap[r], x)]
    BY <1>4 DEF ReaderApplies
  <2>2. x.key \in Keys
    BY <2>1 DEF CatalogTypeOK, Snapshot
  <2>3. CASE q = r
    <3>1. snap'[q] = Applied(snap[q], x)
      BY <2>1, <2>3 DEF CatalogTypeOK
    <3> QED BY <1>1, <2>2, <3>1, AppliedIsWhole
  <2>4. CASE q # r
    BY <1>1, <2>1, <2>4 DEF CatalogTypeOK
  <2> QED BY <2>3, <2>4
<1>5. ASSUME NEW r \in Readers, ReaderRestarts(r)
      PROVE  snap'[q].items = Items
  BY <1>1, <1>5 DEF ReaderRestarts, Empty, CatalogTypeOK
<1>6. ~ (\E r \in Readers : Reading(r) \/ ReaderRestarts(r)) => snap' = snap
  BY DEF CatalogNext, CatalogStarts, PublishItem, PublishMarker, PublishFails, CatalogStops,
    LateArrives, Compacts, Stored, catalogVars
<1> QED BY <1>2, <1>3, <1>4, <1>5, <1>6 DEF Reading

\* No process ever says of an item of the catalog that it does not exist: it may not
\* know it yet, and then it says so.
THEOREM NoItemIsEverUnknown == CatalogSpec => []NoItemIsUnknown
<1>1. CatalogInit => CatalogTypeOK /\ ReadyIsWhole
  BY CatalogInitTypes DEF CatalogInit, ReadyIsWhole, Empty
<1>2. CatalogTypeOK /\ ReadyIsWhole /\ [CatalogNext]_catalogVars
        => (CatalogTypeOK /\ ReadyIsWhole)'
  BY CatalogNextTypes, CatalogNextReady
<1>3. ReadyIsWhole => NoItemIsUnknown
  BY DEF ReadyIsWhole, NoItemIsUnknown, Answer
<1> QED BY <1>1, <1>2, <1>3, PTL DEF CatalogSpec
=============================================================================
