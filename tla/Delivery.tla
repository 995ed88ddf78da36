------------------------------- MODULE Delivery -------------------------------
(***************************************************************************)
(* An outbox and a consumer group joined by a partition: the path of a     *)
(* stock request from Checkout's COMMIT to Inventory's, and of an answer   *)
(* back.                                                                   *)
(***************************************************************************)
EXTENDS Outbox, ConsumerLoop

pathVars == <<outboxVars, loopVars>>

PathInit == OutboxInit /\ LoopInit

OutboxActs == OutboxNext /\ UNCHANGED loopVars

LoopActs == LoopNext /\ UNCHANGED <<row, writer, claim, marked, adrift>>

PathSpec == PathInit /\ [][OutboxActs \/ LoopActs]_pathVars

(* Fairness *)

\* A step in which something fails.
Fault ==
  \/ \E e \in Events : WriterStops(e) \/ RepublishFails(e)
  \/ \E w \in Sweepers : SweepDies(w) \/ \E e \in Events : SweepFails(e, w)
  \/ LoopFault

SweeperGoesOn(w) ==
  /\ \/ \E rows \in SUBSET Events : SweepClaims(w, rows)
     \/ \E e \in Events : SweepPublishes(e, w)
     \/ SweepCommits(w)
  /\ UNCHANGED loopVars

\* Every worker runs a sweeper and a consumer for ever; their failures are
\* assumed to end (the loops themselves retry without limit).
WorkersRun ==
  /\ \A w \in Sweepers : WF_pathVars(SweeperGoesOn(w))
  /\ \A c \in Consumers : WF_pathVars(LoopGoesOn(c) /\ UNCHANGED outboxVars)
  /\ WF_pathVars(GroupAssigns /\ UNCHANGED outboxVars)

FaultsEnd == <>[][~ Fault]_pathVars

FairPath == PathSpec /\ WorkersRun /\ FaultsEnd

-----------------------------------------------------------------------------
(* Properties *)

Sent == {e \in Events : row[e] # "none"}

Chan == INSTANCE Channel WITH
  Event <- Events,
  sent <- Sent,
  got <- Settled

\* Only what a transaction wrote takes effect at the consumer, and nothing
\* written or settled is forgotten (architecture.md: "none announced without its
\* state change").
SafeChannel == Chan!ChannelSafe

\* The path implements a reliable channel: what is written is settled in the end
\* (architecture.md: "No event lost").
ImplementsChannel == Chan!ChannelSpec

\* A row is forgotten only when its consumer can still find its event: what the
\* outbox purges is in the topic and, once the group's position is past every
\* copy, settled.
PurgedIsReachable ==
  \A e \in Events : row[e] = "purged" =>
    e \in Settled \/ \E i \in (committed + 1)..Len(topic) : topic[i] = e
=============================================================================
