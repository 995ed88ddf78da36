---------------------------- MODULE DeliveryProofs ----------------------------
(* Proofs about the way of an event: the transactional outbox, the consumer   *)
(* loop of one partition, and the two joined by a partition.                  *)
EXTENDS Delivery, FiniteSetTheorems, TLAPS

-----------------------------------------------------------------------------
(* The outbox *)

\* An acknowledged event is in the topic, and the topic only grows.
LEMMA PublishLemma ==
  ASSUME topic \in Seq(Events), NEW e \in Events, Publish(e)
  PROVE  /\ topic' \in Seq(Events)
         /\ InTopic(e)'
         /\ \A d \in Events : InTopic(d) => InTopic(d)'
         /\ \A d \in Events : InTopic(d)' => InTopic(d) \/ d = e
<1> USE MaxCopiesAssumption
<1>1. CASE Cardinality(Copies(e)) < MaxCopies
  <2>1. topic' = Append(topic, e)
    BY <1>1 DEF Publish
  <2>2. /\ topic' \in Seq(Events)
        /\ Len(topic') = Len(topic) + 1 /\ Len(topic) \in Nat
        /\ topic'[Len(topic) + 1] = e
        /\ \A i \in 1..Len(topic) : topic'[i] = topic[i]
    BY <2>1
  <2> QED BY <2>2 DEF InTopic, Offsets
<1>2. CASE ~ Cardinality(Copies(e)) < MaxCopies
  <2>1. topic' = topic
    BY <1>2 DEF Publish
  <2>2. Copies(e) # {}
    BY <1>2, FS_EmptySet
  <2>3. InTopic(e)
    BY <2>2 DEF Copies, InTopic, Offsets
  <2> QED BY <2>1, <2>3 DEF InTopic, Offsets
<1> QED BY <1>1, <1>2

\* Rows claimed by one sweep are few, and fewer when one of them has gone out.
LEMMA ClaimLemma ==
  ASSUME NEW rows \in SUBSET Events, Cardinality(rows) <= SweepLimit
  PROVE  /\ Cardinality({}) <= SweepLimit
         /\ \A e \in Events : Cardinality(rows \ {e}) <= SweepLimit
<1> USE MaxEventsAssumption, SweepLimitAssumption
<1>1. IsFiniteSet(Events)
  BY FS_Interval DEF Events
<1>2. IsFiniteSet(rows)
  BY <1>1, FS_Subset
<1>3. Cardinality(rows) \in Nat
  BY <1>2, FS_CardinalityType
<1>4. \A e \in Events : Cardinality(rows \ {e}) \in {Cardinality(rows), Cardinality(rows) - 1}
  BY <1>2, FS_RemoveElement
<1> QED BY <1>3, <1>4, FS_EmptySet

LEMMA OutboxInitInv == OutboxInit => OutboxInv
<1> SUFFICES ASSUME OutboxInit PROVE OutboxInv
  OBVIOUS
<1>1. OutboxTypeOK
  BY FS_EmptySet, SweepLimitAssumption DEF OutboxInit, OutboxTypeOK, RowState
<1>2. MarkedIsPublished
  BY DEF OutboxInit, MarkedIsPublished
<1>3. SweepsAreApart
  BY DEF OutboxInit, SweepsAreApart, InClaim, Locked
<1>4. AnnouncedIsWritten
  BY DEF OutboxInit, AnnouncedIsWritten, InTopic, Offsets
<1> QED BY <1>1, <1>2, <1>3, <1>4 DEF OutboxInit, OutboxInv

\* What a step that appends nothing owes.
LEMMA SameTopic ==
  ASSUME UNCHANGED topic
  PROVE  \A e \in Events : InTopic(e)' <=> InTopic(e)
BY DEF InTopic, Offsets

LEMMA OutboxStep == OutboxInv /\ [OutboxNext]_outboxVars => OutboxInv'
<1> SUFFICES ASSUME OutboxInv, [OutboxNext]_outboxVars PROVE OutboxInv'
  OBVIOUS
<1> USE DEF OutboxInv, OutboxTypeOK
<1>1. ASSUME NEW e \in Events, WriteEvent(e) PROVE OutboxInv'
  <2>1. UNCHANGED topic /\ ~ Locked(e)
    BY <1>1 DEF WriteEvent, SweepsAreApart
  <2>2. OutboxTypeOK'
    BY <1>1 DEF WriteEvent, RowState
  <2>3. MarkedIsPublished' /\ (\A d \in Events : writer'[d] = "mark" => InTopic(d)')
    BY <1>1, <2>1, SameTopic DEF WriteEvent, MarkedIsPublished, RowState
  <2>4. SweepsAreApart'
    BY <1>1, <2>1 DEF WriteEvent, SweepsAreApart, InClaim, Locked
  <2>9. AnnouncedIsWritten'
    BY <1>1, <2>1, SameTopic DEF WriteEvent, AnnouncedIsWritten
  <2> QED BY <2>9, <1>1, <2>1, <2>2, <2>3, <2>4, SameTopic DEF WriteEvent
<1>2. ASSUME NEW e \in Events, WriterPublishes(e) PROVE OutboxInv'
  <2>1. Publish(e)
    BY <1>2 DEF WriterPublishes
  <2>2. OutboxTypeOK'
    BY <1>2, <2>1, PublishLemma DEF WriterPublishes
  <2>3. MarkedIsPublished' /\ (\A d \in Events : writer'[d] = "mark" => InTopic(d)')
    BY <1>2, <2>1, PublishLemma DEF WriterPublishes, MarkedIsPublished
  <2>4. SweepsAreApart'
    BY <1>2 DEF WriterPublishes, SweepsAreApart, InClaim, Locked
  <2>9. AnnouncedIsWritten'
    BY <1>2, <2>1, PublishLemma DEF WriterPublishes, AnnouncedIsWritten
  <2> QED BY <2>9, <1>2, <2>1, <2>2, <2>3, <2>4, PublishLemma DEF WriterPublishes
<1>3. ASSUME NEW e \in Events, WriterMarks(e) PROVE OutboxInv'
  <2>1. UNCHANGED topic
    BY <1>3 DEF WriterMarks
  <2>2. OutboxTypeOK'
    BY <1>3 DEF WriterMarks, RowState
  <2>3. MarkedIsPublished' /\ (\A d \in Events : writer'[d] = "mark" => InTopic(d)')
    BY <1>3, <2>1, SameTopic DEF WriterMarks, MarkedIsPublished
  <2>4. SweepsAreApart'
    BY <1>3 DEF WriterMarks, SweepsAreApart, InClaim, Locked
  <2>9. AnnouncedIsWritten'
    BY <1>3, <2>1, SameTopic DEF WriterMarks, AnnouncedIsWritten
  <2> QED BY <2>9, <1>3, <2>1, <2>2, <2>3, <2>4, SameTopic DEF WriterMarks
<1>4. ASSUME NEW e \in Events, WriterStops(e) PROVE OutboxInv'
  <2>1. UNCHANGED topic
    BY <1>4 DEF WriterStops
  <2>2. OutboxTypeOK'
    BY <1>4 DEF WriterStops, GiveUp
  <2>3. MarkedIsPublished' /\ (\A d \in Events : writer'[d] = "mark" => InTopic(d)')
    BY <1>4, <2>1, SameTopic DEF WriterStops, MarkedIsPublished
  <2>4. SweepsAreApart'
    BY <1>4 DEF WriterStops, SweepsAreApart, InClaim, Locked
  <2>9. AnnouncedIsWritten'
    BY <1>4, <2>1, SameTopic DEF WriterStops, GiveUp, AnnouncedIsWritten
  <2> QED BY <2>9, <1>4, <2>1, <2>2, <2>3, <2>4, SameTopic DEF WriterStops
<1>5. ASSUME NEW e \in Events, Republish(e) \/ BufferArrives(e) PROVE OutboxInv'
  <2>1. Publish(e) /\ UNCHANGED <<row, writer, claim, marked>>
    BY <1>5 DEF Republish, BufferArrives
  <2>2. adrift' \subseteq adrift
    BY <1>5 DEF Republish, BufferArrives
  <2>3. MarkedIsPublished'
    BY <2>1, PublishLemma DEF MarkedIsPublished
  <2>4. SweepsAreApart'
    BY <2>1 DEF SweepsAreApart, InClaim, Locked
  <2>9. AnnouncedIsWritten'
    BY <1>5, <2>1, PublishLemma DEF Republish, BufferArrives, AnnouncedIsWritten
  <2> QED BY <2>9, <2>1, <2>2, <2>3, <2>4, PublishLemma
<1>6. ASSUME NEW e \in Events, RepublishFails(e) \/ BufferExpires(e) PROVE OutboxInv'
  <2>1. UNCHANGED <<row, writer, claim, marked, topic>> /\ adrift' \subseteq Events
    BY <1>6 DEF RepublishFails, BufferExpires, GiveUp
  <2>2. MarkedIsPublished' /\ SweepsAreApart'
    BY <2>1, SameTopic DEF MarkedIsPublished, SweepsAreApart, InClaim, Locked
  <2>9. AnnouncedIsWritten'
    BY <1>6, <2>1, SameTopic DEF RepublishFails, BufferExpires, GiveUp, AnnouncedIsWritten
  <2> QED BY <2>9, <2>1, <2>2, SameTopic
<1>7. ASSUME NEW w \in Sweepers, NEW rows \in SUBSET Events, SweepClaims(w, rows)
      PROVE  OutboxInv'
  <2>1. UNCHANGED <<row, writer, marked, adrift, topic>>
    BY <1>7 DEF SweepClaims
  <2>2. OutboxTypeOK'
    BY <1>7, <2>1 DEF SweepClaims
  <2>3. SweepsAreApart'
    BY <1>7 DEF SweepClaims, SweepsAreApart, InClaim, Locked
  <2>4. MarkedIsPublished'
    BY <2>1, SameTopic DEF MarkedIsPublished
  <2>9. AnnouncedIsWritten'
    BY <1>7, <2>1, SameTopic DEF SweepClaims, AnnouncedIsWritten
  <2> QED BY <2>9, <2>1, <2>2, <2>3, <2>4, SameTopic
<1>8. ASSUME NEW w \in Sweepers, NEW e \in Events, SweepPublishes(e, w) PROVE OutboxInv'
  <2>1. Publish(e) /\ UNCHANGED <<row, writer, adrift>>
    BY <1>8 DEF SweepPublishes
  <2>2. Cardinality(claim[w] \ {e}) <= SweepLimit
    BY ClaimLemma
  <2>3. OutboxTypeOK'
    BY <1>8, <2>1, <2>2, PublishLemma DEF SweepPublishes
  <2>4. SweepsAreApart'
    <3>1. \A d \in Events, v \in Sweepers : InClaim(d, v)' => InClaim(d, v)
      BY <1>8 DEF SweepPublishes, Turn, InClaim
    <3> QED BY <2>1, <3>1 DEF SweepsAreApart, Locked
  <2>5. MarkedIsPublished'
    BY <2>1, PublishLemma DEF MarkedIsPublished
  <2>6. \A v \in Sweepers : \A d \in marked'[v] : InTopic(d)'
    BY <1>8, <2>1, PublishLemma DEF SweepPublishes
  <2>9. AnnouncedIsWritten'
    BY <1>8, <2>1, PublishLemma DEF SweepPublishes, Turn, SweepsAreApart, InClaim, Locked, AnnouncedIsWritten
  <2> QED BY <2>9, <2>1, <2>3, <2>4, <2>5, <2>6, PublishLemma
<1>9. ASSUME NEW w \in Sweepers,
             (\E e \in Events : SweepFails(e, w)) \/ SweepDies(w)
      PROVE  OutboxInv'
  <2>1. /\ UNCHANGED <<row, writer, topic>>
        /\ claim' = [claim EXCEPT ![w] = {}]
        /\ marked' = marked \/ marked' = [marked EXCEPT ![w] = {}]
        /\ adrift' \subseteq Events
    BY <1>9 DEF SweepFails, SweepDies, GiveUp
  <2>2. OutboxTypeOK'
    BY <2>1, ClaimLemma
  <2>3. SweepsAreApart'
    <3>1. \A d \in Events, v \in Sweepers : InClaim(d, v)' => InClaim(d, v)
      BY <2>1 DEF InClaim
    <3> QED BY <2>1, <3>1 DEF SweepsAreApart, Locked
  <2>4. MarkedIsPublished'
    BY <2>1, SameTopic DEF MarkedIsPublished
  <2>5. \A v \in Sweepers : marked'[v] \subseteq marked[v]
    BY <2>1
  <2>9. AnnouncedIsWritten'
    BY <1>9, <2>1, SameTopic DEF SweepFails, SweepDies, GiveUp, Turn, SweepsAreApart, InClaim, Locked, AnnouncedIsWritten
  <2> QED BY <2>9, <2>1, <2>2, <2>3, <2>4, <2>5, SameTopic
<1>10. ASSUME NEW w \in Sweepers, SweepCommits(w) PROVE OutboxInv'
  <2>1. /\ UNCHANGED <<writer, claim, adrift, topic>>
        /\ marked' = [marked EXCEPT ![w] = {}]
        /\ row' = [e \in Events |-> IF e \in marked[w] THEN "published" ELSE row[e]]
    BY <1>10 DEF SweepCommits
  <2>2. OutboxTypeOK'
    BY <2>1 DEF RowState
  <2>3. SweepsAreApart'
    <3>1. \A d \in Events, v \in Sweepers : InClaim(d, v)' => InClaim(d, v)
      BY <2>1 DEF InClaim
    <3>2. \A d \in Events, v \in Sweepers : InClaim(d, v)' => d \notin marked[w]
      BY <1>10, <2>1 DEF SweepCommits, InClaim, SweepsAreApart
    <3> QED BY <2>1, <3>1, <3>2 DEF SweepsAreApart, Locked
  <2>4. MarkedIsPublished'
    BY <2>1, SameTopic DEF MarkedIsPublished
  <2>5. \A v \in Sweepers : marked'[v] \subseteq marked[v]
    BY <2>1
  <2>9. AnnouncedIsWritten'
    BY <1>10, <2>1, SameTopic DEF SweepCommits, AnnouncedIsWritten
  <2> QED BY <2>9, <2>1, <2>2, <2>3, <2>4, <2>5, SameTopic
<1>11. ASSUME NEW old \in SUBSET Events, Purge(old) PROVE OutboxInv'
  <2>1. UNCHANGED <<writer, claim, marked, adrift, topic>>
    BY <1>11 DEF Purge
  <2>2. OutboxTypeOK'
    BY <1>11, <2>1 DEF Purge, RowState
  <2>3. SweepsAreApart'
    BY <1>11 DEF Purge, SweepsAreApart, InClaim, Locked
  <2>4. MarkedIsPublished'
    BY <1>11, <2>1, SameTopic DEF Purge, MarkedIsPublished
  <2>9. AnnouncedIsWritten'
    BY <1>11, <2>1, SameTopic DEF Purge, AnnouncedIsWritten
  <2> QED BY <2>9, <2>1, <2>2, <2>3, <2>4, SameTopic
<1>12. CASE UNCHANGED outboxVars
  BY <1>12 DEF outboxVars, AnnouncedIsWritten, MarkedIsPublished, SweepsAreApart, InTopic, Offsets, InClaim, Locked
<1> QED
  BY <1>1, <1>2, <1>3, <1>4, <1>5, <1>6, <1>7, <1>8, <1>9, <1>10, <1>11, <1>12 DEF OutboxNext

\* Whatever fails between a COMMIT, its publish and its mark, a row that is
\* marked or purged has its event in the topic: no event is lost.
THEOREM NoEventIsLost == OutboxSpec => []MarkedIsPublished
<1>1. OutboxInv => MarkedIsPublished
  BY DEF OutboxInv
<1> QED BY <1>1, OutboxInitInv, OutboxStep, PTL DEF OutboxSpec

\* However many workers sweep, a row is in the hands of one, and neither its
\* writer nor the purge touches it meanwhile.
THEOREM SweepersNeverMeet == OutboxSpec => []SweepsAreApart
<1>1. OutboxInv => SweepsAreApart
  BY DEF OutboxInv
<1> QED BY <1>1, OutboxInitInv, OutboxStep, PTL DEF OutboxSpec

-----------------------------------------------------------------------------
(* The consumer loop *)

\* Records settle in the order of their key: everything before a record whose
\* turn it is, is settled.
LEMMA TurnComesInOrder ==
  ASSUME LoopInv, NEW c \in Consumers, NEW i \in Nat, MayHandle(c, i)
  PROVE  /\ i \in Offsets
         /\ \A j \in 1..(i - 1) : Key(j) = Key(i) => topic[j] \in Settled
<1>1. i \in batch[c] /\ i \notin done[c] /\ (\A j \in Left(c, Key(i)) : i <= j)
  BY DEF MayHandle
<1>2. i \in Offsets
  BY <1>1 DEF LoopInv, LoopTypeOK
<1>3. ASSUME NEW j \in 1..(i - 1), Key(j) = Key(i) PROVE topic[j] \in Settled
  <2>1. CASE j \in batch[c]
    <3>1. j \notin Left(c, Key(i))
      BY <1>1, <1>2 DEF Offsets
    <3>2. j \in done[c]
      BY <1>3, <2>1, <3>1 DEF Left
    <3> QED BY <3>2 DEF LoopInv, BatchesRestOnSettled
  <2>2. CASE j \notin batch[c]
    BY <1>1, <2>2 DEF LoopInv, BatchesRestOnSettled
  <2> QED BY <2>1, <2>2
<1> QED BY <1>2, <1>3

LEMMA LoopInitInv == Init => LoopInv
<1> SUFFICES ASSUME Init PROVE LoopInv
  OBVIOUS
<1> USE DEF Init, LoopInit
<1>1. LoopTypeOK
  BY FS_EmptySet, ConcurrencyAssumption DEF LoopTypeOK, Offsets
<1>2. NothingSkipped /\ KeysInOrder
  BY DEF NothingSkipped, KeysInOrder, Settled
<1>3. OwnerHasSettled /\ OwnerIsAhead /\ BatchesRestOnSettled
  BY DEF OwnerHasSettled, OwnerIsAhead, BatchesRestOnSettled
<1> QED BY <1>1, <1>2, <1>3 DEF LoopInv

\* The turn of a record keeps the keys in hand within their bound.
LEMMA RunningLemma ==
  ASSUME LoopTypeOK, NEW c \in Consumers, NEW i \in Nat, MayHandle(c, i),
         Done(c, i) \/ NotDone(c, i)
  PROVE  /\ done' \in [Consumers -> SUBSET Offsets]
         /\ running' \in [Consumers -> SUBSET {KeyOf[e] : e \in Events}]
         /\ \A d \in Consumers :
              /\ done'[d] \subseteq batch[d]
              /\ IsFiniteSet(running'[d]) /\ Cardinality(running'[d]) <= Concurrency
<1> USE ConcurrencyAssumption
<1> DEFINE k == Key(i)
<1>1. i \in batch[c] /\ k \in {KeyOf[e] : e \in Events}
  BY DEF MayHandle, Key, LoopTypeOK, Offsets
<1>2. IsFiniteSet(running[c]) /\ Cardinality(running[c]) <= Concurrency
  BY DEF LoopTypeOK
<1>3. Cardinality(running[c]) \in Nat
  BY <1>2, FS_CardinalityType
<1>4. IsFiniteSet(running[c] \union {k}) /\ Cardinality(running[c] \union {k}) <= Concurrency
  <2>1. k \in running[c] \/ Cardinality(running[c]) < Concurrency
    BY DEF MayHandle
  <2>2. /\ IsFiniteSet(running[c] \union {k})
        /\ Cardinality(running[c] \union {k}) =
             IF k \in running[c] THEN Cardinality(running[c]) ELSE Cardinality(running[c]) + 1
    BY <1>2, FS_AddElement
  <2> HIDE DEF k
  <2> QED BY <1>2, <1>3, <2>1, <2>2
<1>5. IsFiniteSet(running[c] \ {k}) /\ Cardinality(running[c] \ {k}) <= Concurrency
  <2>1. /\ IsFiniteSet(running[c] \ {k})
        /\ Cardinality(running[c] \ {k}) =
             IF k \in running[c] THEN Cardinality(running[c]) - 1 ELSE Cardinality(running[c])
    BY <1>2, FS_RemoveElement
  <2> HIDE DEF k
  <2> QED BY <1>2, <1>3, <2>1
<1>6. \/ running' = [running EXCEPT ![c] = running[c] \union {k}]
      \/ running' = [running EXCEPT ![c] = running[c] \ {k}]
  BY DEF Done, NotDone
<1>7. done' = done \/ done' = [done EXCEPT ![c] = done[c] \union {i}]
  BY DEF Done, NotDone
<1>8. done' \in [Consumers -> SUBSET Offsets] /\ (\A d \in Consumers : done'[d] \subseteq batch[d])
  <2>1. /\ done \in [Consumers -> SUBSET Offsets] /\ batch[c] \subseteq Offsets
        /\ \A d \in Consumers : done[d] \subseteq batch[d]
    BY DEF LoopTypeOK
  <2>2. done[c] \union {i} \in SUBSET Offsets
    BY <1>1, <2>1
  <2> QED BY <1>1, <1>7, <2>1, <2>2
<1> HIDE DEF k
<1>9. running' \in [Consumers -> SUBSET {KeyOf[e] : e \in Events}]
  <2>1. running \in [Consumers -> SUBSET {KeyOf[e] : e \in Events}]
    BY DEF LoopTypeOK
  <2> DEFINE Keys == {KeyOf[e] : e \in Events}
  <2>2. running[c] \union {k} \in SUBSET Keys /\ running[c] \ {k} \in SUBSET Keys
    BY <1>1, <2>1
  <2>3. running \in [Consumers -> SUBSET Keys]
    BY <2>1
  <2> HIDE DEF Keys
  <2>4. running' \in [Consumers -> SUBSET Keys]
    BY <1>6, <2>2, <2>3
  <2> QED BY <2>4 DEF Keys
<1>10. ASSUME NEW d \in Consumers
       PROVE  IsFiniteSet(running'[d]) /\ Cardinality(running'[d]) <= Concurrency
  <2>1. CASE d = c
    <3>1. running'[d] = running[c] \union {k} \/ running'[d] = running[c] \ {k}
      BY <1>6, <2>1 DEF LoopTypeOK
    <3> QED BY <1>4, <1>5, <3>1
  <2>2. CASE d # c
    <3>1. running'[d] = running[d]
      BY <1>6, <2>2 DEF LoopTypeOK
    <3> QED BY <3>1 DEF LoopTypeOK
  <2> QED BY <2>1, <2>2
<1> QED BY <1>8, <1>9, <1>10

\* The turn of record i: it may take effect, it may be done, its failures may
\* be counted.
LEMMA HandlingStep ==
  ASSUME LoopInv, NEW c \in Consumers, NEW i \in Nat,
         Handle(c, i) \/ HandleTransient(c, i) \/ HandleFails(c, i) \/ DeadLetter(c, i)
  PROVE  LoopInv'
<1> USE MaxAttemptsAssumption
<1>1. /\ MayHandle(c, i)
      /\ Done(c, i) \/ NotDone(c, i)
      /\ UNCHANGED <<topic, committed, owner, position, batch>>
  BY DEF Handle, HandleTransient, HandleFails, DeadLetter
<1>2. i \in Offsets /\ i \in batch[c]
      /\ (\A j \in 1..(i - 1) : Key(j) = Key(i) => topic[j] \in Settled)
  BY <1>1, TurnComesInOrder DEF MayHandle
<1>3. topic[i] \in Events /\ LoopTypeOK
  BY <1>2 DEF LoopInv, LoopTypeOK, Offsets
<1>4. /\ Settled \subseteq Settled' /\ Settled' \subseteq Settled \union {topic[i]}
      /\ applied' \subseteq Events /\ dead' \subseteq Events
  BY <1>3 DEF Handle, HandleTransient, HandleFails, DeadLetter, MaybeApplied, Settled, LoopTypeOK
<1>5. \A d \in Consumers : \A j \in done'[d] : topic[j] \in Settled' \/ j \in done[d]
  <2>1. done \in [Consumers -> SUBSET Offsets]
    BY <1>3 DEF LoopTypeOK
  <2>2. CASE done' = done
    BY <2>2
  <2>3. CASE done' = [done EXCEPT ![c] = @ \union {i}] /\ topic[i] \in Settled'
    BY <2>1, <2>3
  <2> QED BY <2>2, <2>3
    DEF Handle, HandleTransient, HandleFails, DeadLetter, Done, NotDone, Settled
<1>6. LoopTypeOK'
  <2>1. tries' = [d \in Consumers |-> tries'[d]]
        /\ (\A d \in Consumers : tries'[d] \in [batch[d] -> 0..MaxAttempts])
    <3>1. CASE tries' = tries
      BY <1>3, <3>1 DEF LoopTypeOK
    <3>2. CASE tries' = [tries EXCEPT ![c][i] = @ + 1] /\ ~ GivenUp(c, i)
      <4>1. tries[c] \in [batch[c] -> 0..MaxAttempts] /\ tries[c][i] # MaxAttempts
        BY <1>3, <3>2 DEF LoopTypeOK, GivenUp
      <4>2. [tries[c] EXCEPT ![i] = tries[c][i] + 1] \in [batch[c] -> 0..MaxAttempts]
        BY <1>2, <4>1
      <4>3. tries' = [tries EXCEPT ![c] = [tries[c] EXCEPT ![i] = tries[c][i] + 1]]
        BY <3>2
      <4> QED BY <1>3, <4>2, <4>3 DEF LoopTypeOK
    <3> QED BY <3>1, <3>2 DEF Handle, HandleTransient, HandleFails, DeadLetter
  <2> QED BY <1>1, <1>3, <1>4, <2>1, RunningLemma DEF LoopTypeOK, Offsets
<1>7. NothingSkipped'
  BY <1>1, <1>4 DEF LoopInv, NothingSkipped
<1>8. KeysInOrder'
  <2> SUFFICES ASSUME NEW e \in Settled'
               PROVE  \E n \in Offsets : /\ topic[n] = e
                        /\ \A j \in 1..(n - 1) : Key(j) = Key(n) => topic[j] \in Settled'
    BY <1>1 DEF KeysInOrder, Offsets, Key
  <2>1. CASE e \in Settled
    BY <1>4, <2>1 DEF LoopInv, KeysInOrder
  <2>2. CASE e = topic[i]
    BY <1>2, <1>4, <2>2
  <2> QED BY <1>4, <2>1, <2>2
<1>9. OwnerHasSettled'
  <2> SUFFICES ASSUME NEW d \in owner, NEW j \in 1..position[d]
               PROVE  topic[j] \in Settled' \/ j \in batch[d] \ done'[d]
    BY <1>1 DEF OwnerHasSettled
  <2>1. d \in Consumers
    BY <1>3 DEF LoopTypeOK
  <2>2. topic[j] \in Settled \/ j \in batch[d] \ done[d]
    BY DEF LoopInv, OwnerHasSettled
  <2>3. j \in done'[d] => topic[j] \in Settled'
    BY <1>4, <1>5, <2>1 DEF LoopInv, BatchesRestOnSettled
  <2> QED BY <1>4, <2>2, <2>3
<1>10. BatchesRestOnSettled'
  BY <1>1, <1>4, <1>5 DEF LoopInv, BatchesRestOnSettled
<1>11. OwnerIsAhead'
  BY <1>1 DEF LoopInv, OwnerIsAhead
<1> QED BY <1>6, <1>7, <1>8, <1>9, <1>10, <1>11 DEF LoopInv

\* A member takes a batch, or lets go of the one it has.
LEMMA TakeLemma ==
  ASSUME LoopTypeOK, NEW c \in Consumers, NEW S \in SUBSET Offsets, Take(c, S)
  PROVE  /\ batch' \in [Consumers -> SUBSET Offsets]
         /\ done' \in [Consumers -> SUBSET Offsets]
         /\ running' \in [Consumers -> SUBSET {KeyOf[e] : e \in Events}]
         /\ tries' = [d \in Consumers |-> tries'[d]]
         /\ \A d \in Consumers :
              /\ done'[d] \subseteq batch'[d]
              /\ IsFiniteSet(running'[d]) /\ Cardinality(running'[d]) <= Concurrency
              /\ tries'[d] \in [batch'[d] -> 0..MaxAttempts]
         /\ batch'[c] = S /\ done'[c] = {}
         /\ \A d \in Consumers \ {c} : batch'[d] = batch[d] /\ done'[d] = done[d]
<1> USE ConcurrencyAssumption, MaxAttemptsAssumption
<1>1. batch' = [batch EXCEPT ![c] = S] /\ batch \in [Consumers -> SUBSET Offsets]
  BY DEF Take, LoopTypeOK
<1>2. done' = [done EXCEPT ![c] = {}] /\ done \in [Consumers -> SUBSET Offsets]
  BY DEF Take, LoopTypeOK
<1>3. running' = [running EXCEPT ![c] = {}]
      /\ running \in [Consumers -> SUBSET {KeyOf[e] : e \in Events}]
  BY DEF Take, LoopTypeOK
<1>4. tries' = [tries EXCEPT ![c] = [i \in S |-> 0]]
      /\ tries = [d \in Consumers |-> tries[d]]
  BY DEF Take, LoopTypeOK
<1>5. [i \in S |-> 0] \in [S -> 0..MaxAttempts]
  OBVIOUS
<1>6. \A d \in Consumers :
        /\ running'[d] = IF d = c THEN {} ELSE running[d]
        /\ tries'[d] = IF d = c THEN [i \in S |-> 0] ELSE tries[d]
        /\ batch'[d] = IF d = c THEN S ELSE batch[d]
        /\ done'[d] = IF d = c THEN {} ELSE done[d]
  BY <1>1, <1>2, <1>3, <1>4
<1>7. tries' = [d \in Consumers |-> tries'[d]]
  BY <1>4
<1>8. ASSUME NEW d \in Consumers
      PROVE  /\ done'[d] \subseteq batch'[d]
             /\ IsFiniteSet(running'[d]) /\ Cardinality(running'[d]) <= Concurrency
             /\ tries'[d] \in [batch'[d] -> 0..MaxAttempts]
  <2>1. CASE d = c
    BY <1>5, <1>6, <2>1, FS_EmptySet
  <2>2. CASE d # c
    BY <1>6, <2>2 DEF LoopTypeOK
  <2> QED BY <2>1, <2>2
<1>9. running' \in [Consumers -> SUBSET {KeyOf[e] : e \in Events}]
  <2> DEFINE Keys == {KeyOf[e] : e \in Events}
  <2>1. running \in [Consumers -> SUBSET Keys]
    BY <1>3
  <2> HIDE DEF Keys
  <2>2. running' \in [Consumers -> SUBSET Keys]
    BY <1>3, <2>1
  <2> QED BY <2>2 DEF Keys
<1> QED BY <1>1, <1>2, <1>6, <1>7, <1>8, <1>9

LEMMA PollStep ==
  ASSUME LoopInv, NEW c \in Consumers, NEW n \in Nat, Poll(c, n)
  PROVE  LoopInv'
<1> DEFINE S == (position[c] + 1)..n
<1>1. /\ c \in owner /\ batch[c] = {} /\ Take(c, S) /\ n \in Offsets
      /\ position' = [position EXCEPT ![c] = n]
      /\ UNCHANGED <<topic, committed, owner, applied, dead>>
  BY DEF Poll
<1>2. LoopTypeOK /\ position[c] \in 0..Len(topic) /\ position[c] < n
  BY DEF LoopInv, LoopTypeOK, Poll
<1>3. S \in SUBSET Offsets
  BY <1>1, <1>2 DEF Offsets
<1>4. \A i \in 1..position[c] : topic[i] \in Settled
  BY <1>1 DEF LoopInv, OwnerHasSettled
<1>5. UNCHANGED Settled /\ UNCHANGED Offsets
  BY <1>1 DEF Settled, Offsets
<1>6. position' \in [Consumers -> 0..Len(topic)]
  BY <1>1, <1>2 DEF LoopTypeOK, Offsets
<1>7. LoopTypeOK'
  BY <1>1, <1>2, <1>3, <1>5, <1>6, TakeLemma DEF LoopTypeOK
<1>8. NothingSkipped' /\ KeysInOrder'
  BY <1>1, <1>5 DEF LoopInv, NothingSkipped, KeysInOrder, Key
<1>9. /\ batch'[c] = S /\ done'[c] = {}
      /\ \A d \in Consumers \ {c} : batch'[d] = batch[d] /\ done'[d] = done[d]
  BY <1>1, <1>2, <1>3, TakeLemma
<1>10. OwnerHasSettled'
  <2>1. owner = {c}
    BY <1>1, <1>2 DEF LoopTypeOK
  <2>2. position'[c] = n
    BY <1>1, <1>2 DEF LoopTypeOK
  <2>3. \A i \in 1..n : i \in 1..position[c] \/ i \in S
    BY <1>1, <1>2 DEF Offsets
  <2> QED BY <1>1, <1>4, <1>5, <1>9, <2>1, <2>2, <2>3 DEF OwnerHasSettled
<1>11. BatchesRestOnSettled'
  <2> SUFFICES ASSUME NEW d \in Consumers
               PROVE  /\ \A i \in done'[d] : topic[i] \in Settled
                      /\ \A i \in batch'[d] : \A j \in 1..(i - 1) :
                           topic[j] \in Settled \/ j \in batch'[d]
    BY <1>1, <1>5 DEF BatchesRestOnSettled
  <2>1. CASE d = c
    <3>1. \A i \in S : \A j \in 1..(i - 1) : j \in 1..position[c] \/ j \in S
      BY <1>1, <1>2 DEF Offsets
    <3> QED BY <1>4, <1>9, <2>1, <3>1
  <2>2. CASE d # c
    BY <1>9, <2>2 DEF LoopInv, BatchesRestOnSettled
  <2> QED BY <2>1, <2>2
<1>12. OwnerIsAhead'
  BY <1>1, <1>2 DEF LoopInv, LoopTypeOK, OwnerIsAhead, Offsets
<1> QED BY <1>7, <1>8, <1>10, <1>11, <1>12 DEF LoopInv

\* The batch is let go: committed, not committed, or lost with its process.
LEMMA LetGoStep ==
  ASSUME LoopInv, NEW c \in Consumers, Commit(c) \/ CommitFails(c) \/ Die(c)
  PROVE  LoopInv'
<1>1. Take(c, {}) /\ UNCHANGED <<topic, position, applied, dead>>
  BY DEF Commit, CommitFails, Die
<1>2. LoopTypeOK
  BY DEF LoopInv
<1>3. /\ batch'[c] = {} /\ done'[c] = {}
      /\ \A d \in Consumers \ {c} : batch'[d] = batch[d] /\ done'[d] = done[d]
  BY <1>1, <1>2, TakeLemma
<1>4. UNCHANGED Settled /\ UNCHANGED Offsets
  BY <1>1 DEF Settled, Offsets
<1>5. committed' \in 0..Len(topic) /\ NothingSkipped'
  <2>1. CASE Commit(c)
    <3>1. committed' = position[c] /\ c \in owner /\ batch[c] = done[c]
      BY <2>1 DEF Commit, Finished
    <3>2. \A i \in 1..position[c] : topic[i] \in Settled
      BY <3>1 DEF LoopInv, OwnerHasSettled
    <3> QED BY <1>1, <1>2, <1>4, <3>1, <3>2 DEF LoopTypeOK, NothingSkipped
  <2>2. CASE CommitFails(c) \/ Die(c)
    BY <1>1, <1>2, <1>4, <2>2 DEF CommitFails, Die, LoopInv, LoopTypeOK, NothingSkipped
  <2> QED BY <2>1, <2>2
<1>6. /\ owner' \subseteq owner
      /\ c \in owner' => batch[c] = done[c]
      /\ owner' = {} \/ \E d \in Consumers : owner' = {d}
  BY <1>2 DEF Commit, CommitFails, Die, Finished, LoopTypeOK
<1>7. LoopTypeOK'
  BY <1>1, <1>2, <1>4, <1>5, <1>6, TakeLemma DEF LoopTypeOK
<1>8. KeysInOrder'
  BY <1>1, <1>4 DEF LoopInv, KeysInOrder, Key
<1>9. OwnerHasSettled'
  <2> SUFFICES ASSUME NEW d \in owner', NEW i \in 1..position[d]
               PROVE  topic[i] \in Settled \/ i \in batch'[d] \ done'[d]
    BY <1>1, <1>4 DEF OwnerHasSettled
  <2>1. d \in Consumers /\ (topic[i] \in Settled \/ i \in batch[d] \ done[d])
    BY <1>2, <1>6 DEF LoopInv, OwnerHasSettled, LoopTypeOK
  <2> QED BY <1>3, <1>6, <2>1
<1>10. BatchesRestOnSettled'
  BY <1>1, <1>3, <1>4 DEF LoopInv, BatchesRestOnSettled
<1>11. OwnerIsAhead'
  <2>1. CASE Commit(c)
    <3>1. committed' = position[c] /\ c \in owner /\ owner' = owner
      BY <2>1 DEF Commit
    <3>2. owner = {c}
      BY <1>2, <3>1 DEF LoopTypeOK
    <3> QED BY <1>1, <1>2, <3>1, <3>2 DEF OwnerIsAhead, LoopTypeOK
  <2>2. CASE CommitFails(c) \/ Die(c)
    BY <1>1, <1>6, <2>2 DEF CommitFails, Die, LoopInv, OwnerIsAhead
  <2> QED BY <2>1, <2>2
<1> QED BY <1>5, <1>7, <1>8, <1>9, <1>10, <1>11 DEF LoopInv

LEMMA RebalanceStep ==
  ASSUME LoopInv, NEW c \in Consumers, Rebalance(c)
  PROVE  LoopInv'
<1>1. /\ owner' = {c} /\ position' = [position EXCEPT ![c] = committed]
      /\ UNCHANGED <<topic, committed, batch, done, running, tries, applied, dead>>
  BY DEF Rebalance
<1>2. LoopTypeOK /\ NothingSkipped
  BY DEF LoopInv
<1>3. position' \in [Consumers -> 0..Len(topic)] /\ position'[c] = committed
  BY <1>1, <1>2 DEF LoopTypeOK
<1>4. UNCHANGED Settled /\ UNCHANGED Offsets
  BY <1>1 DEF Settled, Offsets
<1>5. LoopTypeOK'
  BY <1>1, <1>2, <1>3, <1>4 DEF LoopTypeOK
<1>6. OwnerHasSettled' /\ OwnerIsAhead'
  BY <1>1, <1>2, <1>3, <1>4 DEF OwnerHasSettled, OwnerIsAhead, NothingSkipped, LoopTypeOK
<1>7. NothingSkipped' /\ KeysInOrder' /\ BatchesRestOnSettled'
  BY <1>1, <1>4 DEF LoopInv, NothingSkipped, KeysInOrder, BatchesRestOnSettled, Key
<1> QED BY <1>5, <1>6, <1>7 DEF LoopInv

\* A record at the end of the topic disturbs nobody.
LEMMA AppendStep ==
  ASSUME LoopInv, NEW e \in Events, topic' = Append(topic, e), UNCHANGED loopVars
  PROVE  LoopInv'
<1>1. LoopTypeOK /\ topic \in Seq(Events) /\ Len(topic) \in Nat
  BY DEF LoopInv, LoopTypeOK
<1>2. /\ topic' \in Seq(Events) /\ Len(topic') = Len(topic) + 1
      /\ \A i \in Offsets : topic'[i] = topic[i]
      /\ Offsets \subseteq Offsets'
  BY <1>1 DEF Offsets
<1>3. UNCHANGED Settled /\ UNCHANGED <<committed, owner, position, batch, done, running, tries, applied, dead>>
  BY DEF Settled, loopVars
<1>4. LoopTypeOK'
  <2>1. committed' \in 0..Len(topic') /\ position' \in [Consumers -> 0..Len(topic')]
    BY <1>1, <1>2, <1>3 DEF LoopTypeOK
  <2>2. /\ batch' \in [Consumers -> SUBSET Offsets']
        /\ done' \in [Consumers -> SUBSET Offsets']
    <3> DEFINE old == Offsets  new == Offsets'
    <3>1. batch \in [Consumers -> SUBSET old] /\ done \in [Consumers -> SUBSET old] /\ old \subseteq new
      BY <1>1, <1>2 DEF LoopTypeOK
    <3> HIDE DEF old, new
    <3>2. batch \in [Consumers -> SUBSET new] /\ done \in [Consumers -> SUBSET new]
      BY <3>1
    <3> QED BY <1>3, <3>2 DEF new
  <2> QED BY <1>1, <1>2, <1>3, <2>1, <2>2 DEF LoopTypeOK
<1>5. NothingSkipped'
  BY <1>1, <1>2, <1>3 DEF LoopInv, LoopTypeOK, NothingSkipped, Offsets
<1>6. KeysInOrder'
  <2> SUFFICES ASSUME NEW d \in Settled
               PROVE  \E i \in Offsets' : /\ topic'[i] = d
                        /\ \A j \in 1..(i - 1) : Key(j)' = Key(i)' => topic'[j] \in Settled
    BY <1>3 DEF KeysInOrder
  <2>1. PICK i \in Offsets : /\ topic[i] = d
                            /\ \A j \in 1..(i - 1) : Key(j) = Key(i) => topic[j] \in Settled
    BY DEF LoopInv, KeysInOrder
  <2>2. \A j \in 1..i : topic'[j] = topic[j]
    BY <1>1, <1>2 DEF Offsets
  <2>3. i \in 1..i
    BY <1>1 DEF Offsets
  <2> QED BY <1>2, <2>1, <2>2, <2>3 DEF Key, Offsets
<1>7. OwnerHasSettled'
  <2>1. \A c \in owner : 1..position[c] \subseteq Offsets
    BY <1>1 DEF LoopTypeOK, Offsets
  <2> QED BY <1>2, <1>3, <2>1 DEF LoopInv, OwnerHasSettled
<1>8. BatchesRestOnSettled'
  <2>1. \A c \in Consumers : /\ done[c] \subseteq Offsets
                             /\ \A i \in batch[c] : 1..(i - 1) \subseteq Offsets
    BY <1>1 DEF LoopTypeOK, Offsets
  <2> QED BY <1>2, <1>3, <2>1 DEF LoopInv, BatchesRestOnSettled
<1>9. OwnerIsAhead'
  BY <1>3 DEF LoopInv, OwnerIsAhead
<1> QED BY <1>4, <1>5, <1>6, <1>7, <1>8, <1>9 DEF LoopInv

LEMMA LoopStep == LoopInv /\ [Next]_vars => LoopInv'
<1> SUFFICES ASSUME LoopInv, [Next]_vars PROVE LoopInv'
  OBVIOUS
<1>1. ASSUME NEW c \in Consumers, Commit(c) \/ CommitFails(c) \/ Die(c) PROVE LoopInv'
  BY <1>1, LetGoStep
<1>2. ASSUME NEW c \in Consumers, Rebalance(c) PROVE LoopInv'
  BY <1>2, RebalanceStep
<1>3. ASSUME NEW c \in Consumers, NEW n \in Nat, Poll(c, n) PROVE LoopInv'
  BY <1>3, PollStep
<1>4. ASSUME NEW c \in Consumers, NEW i \in Nat,
             Handle(c, i) \/ HandleTransient(c, i) \/ HandleFails(c, i) \/ DeadLetter(c, i)
      PROVE  LoopInv'
  BY <1>4, HandlingStep
<1>5. ASSUME NEW e \in Events, Arrives(e) PROVE LoopInv'
  BY <1>5, AppendStep DEF Arrives
<1>6. CASE UNCHANGED vars
  BY <1>6 DEF vars, loopVars, LoopInv, LoopTypeOK, NothingSkipped, KeysInOrder,
    OwnerHasSettled, OwnerIsAhead, BatchesRestOnSettled, Settled, Offsets, Key
<1>7. 1..MaxRecords \subseteq Nat
  OBVIOUS
<1> QED BY <1>1, <1>2, <1>3, <1>4, <1>5, <1>6, <1>7 DEF Next, LoopNext

\* Whatever dies, is rebalanced or commits late, what the group has committed
\* was handled or is a dead letter.
THEOREM NoRecordIsSkipped == Spec => []NothingSkipped
<1>1. LoopInv => NothingSkipped
  BY DEF LoopInv
<1> QED BY <1>1, LoopInitInv, LoopStep, PTL DEF Spec

\* The events of a key take effect in the order of the topic, although members
\* that lost the partition go on handling what they had polled.
THEOREM EffectsKeepKeyOrder == Spec => []KeysInOrder
<1>1. LoopInv => KeysInOrder
  BY DEF LoopInv
<1> QED BY <1>1, LoopInitInv, LoopStep, PTL DEF Spec

\* The group's position is never moved back: only the owner's commit counts, and
\* its own position is at least what it found committed.
THEOREM PositionNeverMovesBack == Spec => CommittedAdvances
<1>1. LoopInv /\ [Next]_vars => [committed' >= committed]_vars
  <2> SUFFICES ASSUME LoopInv, Next PROVE committed' >= committed
    BY DEF vars, loopVars
  <2>1. committed \in Int
    BY DEF LoopInv, LoopTypeOK
  <2>2. ASSUME NEW c \in Consumers, Commit(c) PROVE committed' >= committed
    <3>1. committed' = position[c] /\ c \in owner
      BY <2>2 DEF Commit
    <3>2. position[c] \in Int
      BY DEF LoopInv, LoopTypeOK
    <3> QED BY <2>1, <3>1, <3>2 DEF LoopInv, OwnerIsAhead
  <2>3. CASE UNCHANGED committed
    BY <2>1, <2>3
  <2> QED BY <2>2, <2>3 DEF Next, LoopNext, CommitFails, Rebalance, Die, Poll, Handle,
        HandleTransient, HandleFails, DeadLetter, Arrives, loopVars
<1> QED BY <1>1, LoopInitInv, LoopStep, PTL DEF Spec, CommittedAdvances

-----------------------------------------------------------------------------
(* The path *)

PathInv == OutboxInv /\ LoopInv /\ Settled \subseteq Sent

LEMMA PathInitInv == PathInit => PathInv
<1> SUFFICES ASSUME PathInit PROVE PathInv
  OBVIOUS
<1>1. OutboxInv
  BY OutboxInitInv DEF PathInit
<1>2. LoopInv
  BY LoopInitInv DEF PathInit, OutboxInit, Init
<1>3. Settled \subseteq Sent
  BY DEF PathInit, LoopInit, Settled
<1> QED BY <1>1, <1>2, <1>3 DEF PathInv

\* A step of the outbox leaves the topic alone or appends an event to it, and
\* sends at most one.
LEMMA OutboxTopic ==
  ASSUME OutboxInv, OutboxNext
  PROVE  /\ topic' = topic \/ \E e \in Events : topic' = Append(topic, e)
         /\ Sent' = Sent \/ \E e \in Events \ Sent : Sent' = Sent \union {e}
<1>1. ASSUME NEW e \in Events, WriteEvent(e)
      PROVE  topic' = topic /\ e \notin Sent /\ Sent' = Sent \union {e}
  BY <1>1 DEF WriteEvent, Sent, OutboxInv, OutboxTypeOK
<1>2. ASSUME NEW e \in Events,
             \/ WriterPublishes(e) \/ Republish(e) \/ BufferArrives(e)
             \/ \E w \in Sweepers : SweepPublishes(e, w)
      PROVE  (topic' = topic \/ topic' = Append(topic, e)) /\ Sent' = Sent
  BY <1>2 DEF WriterPublishes, Republish, BufferArrives, SweepPublishes, Publish, Sent
<1>3. ASSUME NEW e \in Events,
             \/ WriterStops(e) \/ RepublishFails(e) \/ BufferExpires(e)
             \/ \E w \in Sweepers : SweepFails(e, w)
      PROVE  topic' = topic /\ Sent' = Sent
  BY <1>3 DEF WriterStops, RepublishFails, BufferExpires, SweepFails, Sent
<1>4. ASSUME NEW e \in Events, WriterMarks(e) PROVE topic' = topic /\ Sent' = Sent
  BY <1>4 DEF WriterMarks, Sent, OutboxInv, OutboxTypeOK
<1>5. ASSUME NEW w \in Sweepers, SweepDies(w) \/ \E rows \in SUBSET Events : SweepClaims(w, rows)
      PROVE  topic' = topic /\ Sent' = Sent
  BY <1>5 DEF SweepDies, SweepClaims, Sent
<1>6. ASSUME NEW w \in Sweepers, SweepCommits(w) PROVE topic' = topic /\ Sent' = Sent
  <2>1. \A e \in marked[w] : row[e] = "unpublished"
    BY <1>6 DEF OutboxInv, OutboxTypeOK, SweepsAreApart, InClaim, Locked
  <2> QED BY <1>6, <2>1 DEF SweepCommits, Sent
<1>7. ASSUME NEW old \in SUBSET Events, Purge(old) PROVE topic' = topic /\ Sent' = Sent
  BY <1>7 DEF Purge, Sent
<1> QED BY <1>1, <1>2, <1>3, <1>4, <1>5, <1>6, <1>7 DEF OutboxNext

\* A step of a consumer leaves the outbox and the topic alone, and settles at
\* most one event, one of the topic.
LEMMA LoopSettles ==
  ASSUME LoopInv, LoopNext
  PROVE  /\ UNCHANGED topic
         /\ \/ Settled' = Settled
            \/ \E e \in Events : InTopic(e) /\ e \notin Settled /\ Settled' = Settled \union {e}
<1>1. ASSUME NEW c \in Consumers, NEW i \in Nat,
             Handle(c, i) \/ HandleTransient(c, i) \/ HandleFails(c, i) \/ DeadLetter(c, i)
      PROVE  /\ UNCHANGED topic
             /\ \/ Settled' = Settled
                \/ \E e \in Events : InTopic(e) /\ e \notin Settled /\ Settled' = Settled \union {e}
  <2>1. MayHandle(c, i)
    BY <1>1 DEF Handle, HandleTransient, HandleFails, DeadLetter
  <2>2. i \in Offsets /\ topic[i] \in Events
    BY <2>1, TurnComesInOrder DEF LoopInv, LoopTypeOK, Offsets
  <2>3. UNCHANGED topic /\ (Settled' = Settled \/ Settled' = Settled \union {topic[i]})
    BY <1>1 DEF Handle, HandleTransient, HandleFails, DeadLetter, MaybeApplied, Settled
  <2>4. InTopic(topic[i])
    BY <2>2 DEF InTopic
  <2> QED BY <2>2, <2>3, <2>4
<1>2. ASSUME NEW c \in Consumers,
             \/ Commit(c) \/ CommitFails(c) \/ Rebalance(c) \/ Die(c)
             \/ \E n \in 1..MaxRecords : Poll(c, n)
      PROVE  UNCHANGED topic /\ Settled' = Settled
  BY <1>2 DEF Commit, CommitFails, Rebalance, Die, Poll, Settled
<1>3. 1..MaxRecords \subseteq Nat
  OBVIOUS
<1> QED BY <1>1, <1>2, <1>3 DEF LoopNext

LEMMA PathStep ==
  PathInv /\ [OutboxActs \/ LoopActs]_pathVars =>
    /\ PathInv'
    /\ [Chan!ChannelStep]_<<Sent, Settled>>
<1> SUFFICES ASSUME PathInv, [OutboxActs \/ LoopActs]_pathVars
             PROVE  PathInv' /\ [Chan!ChannelStep]_<<Sent, Settled>>
  OBVIOUS
<1>1. CASE OutboxActs
  <2>1. OutboxInv'
    BY <1>1, OutboxStep DEF OutboxActs, PathInv
  <2>2. UNCHANGED loopVars /\ Settled' = Settled
    BY <1>1 DEF OutboxActs, loopVars, Settled
  <2>3. /\ topic' = topic \/ \E e \in Events : topic' = Append(topic, e)
        /\ Sent' = Sent \/ \E e \in Events \ Sent : Sent' = Sent \union {e}
    BY <1>1, OutboxTopic DEF OutboxActs, PathInv
  <2>4. LoopInv'
    <3>1. CASE topic' = topic
      BY <2>2, <3>1, LoopStep DEF PathInv, vars
    <3>2. CASE \E e \in Events : topic' = Append(topic, e)
      BY <2>2, <3>2, AppendStep DEF PathInv
    <3> QED BY <2>3, <3>1, <3>2
  <2>5. PathInv'
    BY <2>1, <2>2, <2>3, <2>4 DEF PathInv
  <2>6. [Chan!ChannelStep]_<<Sent, Settled>>
    BY <2>2, <2>3 DEF Chan!ChannelStep, Chan!Send
  <2> QED BY <2>5, <2>6
<1>2. CASE LoopActs
  <2>1. LoopNext /\ UNCHANGED <<row, writer, claim, marked, adrift>>
    BY <1>2 DEF LoopActs
  <2>2. /\ UNCHANGED topic
        /\ \/ Settled' = Settled
           \/ \E e \in Events : InTopic(e) /\ e \notin Settled /\ Settled' = Settled \union {e}
    BY <2>1, LoopSettles DEF PathInv
  <2>3. OutboxInv' /\ Sent' = Sent
    <3>1. UNCHANGED outboxVars
      BY <2>1, <2>2 DEF outboxVars
    <3> QED BY <3>1, OutboxStep DEF PathInv, Sent, outboxVars
  <2>4. LoopInv'
    BY <2>1, LoopStep DEF PathInv, Next
  <2>5. \A e \in Events : InTopic(e) => e \in Sent
    BY DEF PathInv, OutboxInv, AnnouncedIsWritten, Sent
  <2>6. PathInv'
    BY <2>2, <2>3, <2>4, <2>5 DEF PathInv
  <2>7. [Chan!ChannelStep]_<<Sent, Settled>>
    BY <2>2, <2>3, <2>5 DEF Chan!ChannelStep, Chan!Get
  <2> QED BY <2>6, <2>7
<1>3. CASE UNCHANGED pathVars
  <2>1. UNCHANGED outboxVars /\ UNCHANGED vars /\ Sent' = Sent /\ Settled' = Settled
    BY <1>3 DEF pathVars, outboxVars, loopVars, vars, Sent, Settled
  <2> QED BY <2>1, OutboxStep, LoopStep DEF PathInv
<1> QED BY <1>1, <1>2, <1>3

\* An outbox row is purged only when its event is settled or still ahead of the
\* consumer group in the topic.
THEOREM PurgeForgetsNothing == PathSpec => []PurgedIsReachable
<1>1. PathInv => PurgedIsReachable
  <2> SUFFICES ASSUME PathInv, NEW e \in Events, row[e] = "purged", e \notin Settled
               PROVE  \E i \in (committed + 1)..Len(topic) : topic[i] = e
    BY DEF PurgedIsReachable
  <2>1. PICK i \in Offsets : topic[i] = e
    BY DEF PathInv, OutboxInv, MarkedIsPublished, InTopic
  <2>2. committed \in 0..Len(topic) /\ i \notin 1..committed
    BY <2>1 DEF PathInv, LoopInv, LoopTypeOK, NothingSkipped
  <2> QED BY <2>1, <2>2 DEF Offsets
<1> QED BY <1>1, PathInitInv, PathStep, PTL DEF PathSpec

\* The outbox, the topic and the consumer loop implement the safety half of the
\* abstract channel: only what a transaction wrote is settled, each event once,
\* and nothing written or settled is forgotten.
THEOREM PathIsAChannel == PathSpec => SafeChannel
<1>1. PathInit => Chan!ChannelInit
  BY DEF PathInit, OutboxInit, LoopInit, Chan!ChannelInit, Sent, Settled
<1> QED BY <1>1, PathInitInv, PathStep, PTL
      DEF PathSpec, SafeChannel, Chan!ChannelSafe, Chan!channelVars
=============================================================================
