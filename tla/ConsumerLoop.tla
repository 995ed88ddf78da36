----------------------------- MODULE ConsumerLoop -----------------------------
(***************************************************************************)
(* The loop of every event consumer, on one partition: poll a batch,       *)
(* handle its records one key after another's order, commit the position   *)
(* when the whole batch is done.  Failures are counted, dependencies that  *)
(* are down are waited for, and a record that keeps failing goes to the    *)
(* dead letters.                                                           *)
(*                                                                         *)
(* A consumer group gives the partition to one member at a time.  A member *)
(* that lost it finishes the batch it holds all the same.  The group       *)
(* protocol, the broker and the handlers' databases are external: an       *)
(* action may be what they do, as this code meets it.                      *)
(***************************************************************************)
EXTENDS Topic

CONSTANTS Consumers,
          Malformed,    \* events no handler can decode
          MaxPoll,      \* bound: records in one batch
          MaxAttempts,
          Concurrency   \* keys handled at the same time

ASSUME MaxPollAssumption == MaxPoll \in Nat \ {0}
ASSUME ConcurrencyAssumption == Concurrency \in Nat \ {0}
ASSUME MaxAttemptsAssumption == MaxAttempts \in Nat \ {0}

VARIABLES committed,  \* records the group has committed
          owner,      \* the members that hold the partition: one, or none
          position,   \* records a member has polled since it was given it
          batch,      \* offsets a member has polled and not finished with
          done,       \* those of them that are done
          running,    \* keys whose records are being handled
          tries,      \* failures of each, in this batch
          applied,    \* events whose handler has committed
          dead        \* events in the dead-letter topic

loopVars == <<committed, owner, position, batch, done, running, tries,
              applied, dead>>
vars == <<topic, loopVars>>

MaxRecords == MaxEvents * MaxCopies

LoopTypeOK ==
  /\ topic \in Seq(Events)
  /\ committed \in 0..Len(topic)
  /\ owner = {} \/ \E c \in Consumers : owner = {c}
  /\ position \in [Consumers -> 0..Len(topic)]
  /\ batch \in [Consumers -> SUBSET Offsets]
  /\ done \in [Consumers -> SUBSET Offsets]
  /\ running \in [Consumers -> SUBSET {KeyOf[e] : e \in Events}]
  /\ tries = [c \in Consumers |-> tries[c]]
  /\ \A c \in Consumers :
       /\ done[c] \subseteq batch[c]
       /\ IsFiniteSet(running[c]) /\ Cardinality(running[c]) <= Concurrency
       /\ tries[c] \in [batch[c] -> 0..MaxAttempts]
  /\ applied \subseteq Events /\ dead \subseteq Events

LoopInit ==
  /\ committed = 0
  /\ owner = {}
  /\ position = [c \in Consumers |-> 0]
  /\ batch = [c \in Consumers |-> {}]
  /\ done = [c \in Consumers |-> {}]
  /\ running = [c \in Consumers |-> {}]
  /\ tries = [c \in Consumers |-> <<>>]
  /\ applied = {}
  /\ dead = {}

-----------------------------------------------------------------------------

Take(c, offsets) ==
  /\ batch' = [batch EXCEPT ![c] = offsets]
  /\ done' = [done EXCEPT ![c] = {}]
  /\ running' = [running EXCEPT ![c] = {}]
  /\ tries' = [tries EXCEPT ![c] = [i \in offsets |-> 0]]

Poll(c, n) ==
  /\ c \in owner
  /\ batch[c] = {}
  /\ position[c] < n /\ n <= position[c] + MaxPoll /\ n \in Offsets
  /\ Take(c, (position[c] + 1)..n)
  /\ position' = [position EXCEPT ![c] = n]
  /\ UNCHANGED <<topic, committed, owner, applied, dead>>

(* Handling: key by key, in order *)

Left(c, k) == {i \in batch[c] \ done[c] : Key(i) = k}

\* Mutant: the records of a batch run side by side.
MayHandleAny(c, i) == i \in batch[c] \ done[c]

\* It is the turn of record i of c's batch.
MayHandle(c, i) ==
  /\ i \in batch[c] \ done[c]
  /\ \A j \in Left(c, Key(i)) : i <= j
  /\ Key(i) \in running[c] \/ Cardinality(running[c]) < Concurrency

\* The key's turn lasts until the last of its records is done.
Done(c, i) ==
  /\ done' = [done EXCEPT ![c] = @ \union {i}]
  /\ running' = [running EXCEPT ![c] =
       IF Left(c, Key(i)) = {i} THEN @ \ {Key(i)} ELSE @ \union {Key(i)}]

NotDone(c, i) ==
  /\ running' = [running EXCEPT ![c] = @ \union {Key(i)}]
  /\ UNCHANGED done

\* events.decode: JSON, the fields of an event, and a version this code can read.
Decodes(e) == e \notin Malformed

GivenUp(c, i) == ~ Decodes(topic[i]) \/ tries[c][i] = MaxAttempts

Handle(c, i) ==
  /\ MayHandle(c, i) /\ ~ GivenUp(c, i)
  /\ applied' = applied \union {topic[i]}
  /\ Done(c, i)
  /\ UNCHANGED <<topic, committed, owner, position, batch, tries, dead>>

\* The answer of a handler's COMMIT may be lost.
MaybeApplied(i) == applied' = applied \/ applied' = applied \union {topic[i]}

\* Mutant: a dependency that is down finishes the record.
HandleTransientDone(c, i) ==
  /\ MayHandle(c, i) /\ ~ GivenUp(c, i)
  /\ MaybeApplied(i)
  /\ Done(c, i)
  /\ UNCHANGED <<topic, committed, owner, position, batch, tries, dead>>

\* A dependency is down: waited for, not counted.
HandleTransient(c, i) ==
  /\ MayHandle(c, i) /\ ~ GivenUp(c, i)
  /\ MaybeApplied(i)
  /\ NotDone(c, i)
  /\ UNCHANGED <<topic, committed, owner, position, batch, tries, dead>>

HandleFails(c, i) ==
  /\ MayHandle(c, i) /\ ~ GivenUp(c, i)
  /\ MaybeApplied(i)
  /\ tries' = [tries EXCEPT ![c][i] = @ + 1]
  /\ NotDone(c, i)
  /\ UNCHANGED <<topic, committed, owner, position, batch, dead>>

\* Mutant: a dead letter that cannot be published is dropped.
DeadLetterDropped(c, i) ==
  /\ MayHandle(c, i) /\ GivenUp(c, i)
  /\ Done(c, i)
  /\ UNCHANGED <<topic, committed, owner, position, batch, tries, applied, dead>>

\* Published until the broker acknowledges it.
DeadLetter(c, i) ==
  /\ MayHandle(c, i) /\ GivenUp(c, i)
  /\ dead' = dead \union {topic[i]}
  /\ Done(c, i)
  /\ UNCHANGED <<topic, committed, owner, position, batch, tries, applied>>

(* Offsets and the group *)

Finished(c) == batch[c] # {} /\ batch[c] = done[c]

\* Mutant: the broker does not fence the members that lost the partition.
CommitUnfenced(c) ==
  /\ Finished(c)
  /\ committed' = position[c]
  /\ Take(c, {})
  /\ UNCHANGED <<topic, owner, position, applied, dead>>

Commit(c) ==
  /\ Finished(c)
  /\ c \in owner
  /\ committed' = position[c]
  /\ Take(c, {})
  /\ UNCHANGED <<topic, owner, position, applied, dead>>

\* Logged and passed over; the loop polls on from where it was.
CommitFails(c) ==
  /\ Finished(c)
  /\ Take(c, {})
  /\ UNCHANGED <<topic, committed, owner, position, applied, dead>>

\* The group gives the partition to c, perhaps again.
Rebalance(c) ==
  /\ owner' = {c}
  /\ position' = [position EXCEPT ![c] = committed]
  /\ UNCHANGED <<topic, committed, batch, done, running, tries,
                 applied, dead>>

\* The process dies, or its task is cancelled.
Die(c) ==
  /\ owner' = owner \ {c}
  /\ Take(c, {})
  /\ UNCHANGED <<topic, committed, position, applied, dead>>

Arrives(e) ==
  /\ Cardinality(Copies(e)) < MaxCopies
  /\ topic' = Append(topic, e)
  /\ UNCHANGED loopVars

LoopNext ==
  \E c \in Consumers :
    \/ Commit(c) \/ CommitFails(c) \/ Rebalance(c) \/ Die(c)
    \/ \E n \in 1..MaxRecords : Poll(c, n)
    \/ \E i \in 1..MaxRecords :
         \/ Handle(c, i) \/ HandleTransient(c, i) \/ HandleFails(c, i)
         \/ DeadLetter(c, i)

\* The loop on a topic that anyone may write to.
Init == topic = <<>> /\ LoopInit
Next == LoopNext \/ \E e \in Events : Arrives(e)
Spec == Init /\ [][Next]_vars

(* Fairness *)

LoopFault ==
  \E c \in Consumers :
    \/ Die(c)
    \/ owner # {} /\ Rebalance(c)
    \/ \E i \in Offsets : HandleTransient(c, i)

LoopGoesOn(c) ==
  \/ \E n \in 1..MaxRecords : Poll(c, n)
  \/ \E i \in Offsets : Handle(c, i) \/ HandleFails(c, i) \/ DeadLetter(c, i)
  \/ Commit(c) \/ CommitFails(c)

GroupAssigns == owner = {} /\ \E c \in Consumers : Rebalance(c)

\* Every member runs for ever, the group gives the partition to one, and in the
\* end nobody dies and no dependency is down.
FairLoop ==
  /\ Spec
  /\ \A c \in Consumers : WF_vars(LoopGoesOn(c))
  /\ WF_vars(GroupAssigns)
  /\ <>[][~ LoopFault]_vars

-----------------------------------------------------------------------------
(* Properties *)

Settled == applied \union dead

\* A committed record was handled or is a dead letter: no death, rebalance,
\* late commit of a former owner or failed commit skips one.
NothingSkipped == \A i \in 1..committed : topic[i] \in Settled

\* No event takes effect while an earlier record of its key is outstanding,
\* whoever holds either (test_same_key_is_sequential_and_different_keys_overlap).
KeysInOrder ==
  \A e \in Settled : \E i \in Offsets :
    /\ topic[i] = e
    /\ \A j \in 1..(i - 1) : Key(j) = Key(i) => topic[j] \in Settled

\* "a poison event never blocks a partition" (consumer_loop.py): what is in the
\* topic is settled in the end.
EveryRecordSettles ==
  \A e \in Events : InTopic(e) ~> (e \in Settled)

\* The group's position is never moved back.
CommittedAdvances == [][committed' >= committed]_vars

(* NothingSkipped and KeysInOrder made inductive *)

\* What the owner has polled it has settled, but for what it is still handling.
OwnerHasSettled ==
  \A c \in owner : \A i \in 1..position[c] :
    topic[i] \in Settled \/ i \in batch[c] \ done[c]

OwnerIsAhead == \A c \in owner : committed <= position[c]

\* Below a batch, and of it what is done, everything is settled, whoever holds it.
BatchesRestOnSettled ==
  \A c \in Consumers :
    /\ \A i \in done[c] : topic[i] \in Settled
    /\ \A i \in batch[c] : \A j \in 1..(i - 1) :
         topic[j] \in Settled \/ j \in batch[c]

LoopInv ==
  /\ LoopTypeOK
  /\ NothingSkipped
  /\ KeysInOrder
  /\ OwnerHasSettled
  /\ OwnerIsAhead
  /\ BatchesRestOnSettled
=============================================================================
