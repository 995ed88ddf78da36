----------------------------- MODULE StockLedger -----------------------------
(***************************************************************************)
(* Inventory: the stock of every SKU and the record of every reservation,  *)
(* keyed by transaction and attempt (epoch).  Inventory handles two        *)
(* requests, each in one local transaction that also queues the reply:     *)
(*   reserve   take every line of a basket or none, once per key;          *)
(*   release   give back what the key took, once, and leave a record even  *)
(*             when nothing was taken, so that a late reserve is refused.  *)
(*                                                                         *)
(* Requests and replies travel through a transactional outbox and a topic. *)
(* Both are a set that only grows: a message in it was committed by its    *)
(* sender, and may be handled late, again, and in any order.               *)
(* This module leaves the sender open (Ask): any request, in any order.    *)
(***************************************************************************)
EXTENDS Integers, FiniteSetsExt

CONSTANTS Tx,         \* transactions
          Skus,       \* stock-keeping units
          MaxEpoch,   \* bound: attempts to complete one transaction
          Opening,    \* units of each SKU on the shelf at the start
          Threshold,  \* low-stock threshold
          Baskets     \* bound: the baskets that are asked for

Epochs == 1..MaxEpoch
Lines  == [Skus -> Nat]
Nothing == [s \in Skus |-> 0]

ASSUME TxAssumption        == IsFiniteSet(Tx)
ASSUME MaxEpochAssumption  == MaxEpoch \in Nat \ {0}
ASSUME OpeningAssumption   == Opening \in Lines
ASSUME ThresholdAssumption == Threshold \in Nat
ASSUME BasketsAssumption   == Baskets \subseteq Lines

VARIABLES stock,      \* inventory_stock.current_stock
          record,     \* stock_adjustment, by transaction and epoch
          alerts,     \* number of low_stock_alert rows of each SKU
          requests,   \* checkout.completions.v1
          replies     \* inventory.stock.v1

ledger == <<stock, record, alerts>>
ledgerVars == <<stock, record, alerts, requests, replies>>

ReserveRequest == [type : {"reserve"}, tx : Tx, epoch : Epochs, lines : Lines]
ReleaseRequest == [type : {"release"}, tx : Tx, epoch : Epochs]
Reply == [type : {"reserved", "rejected", "refused", "released"},
          tx : Tx, epoch : Epochs]

Reservation(t, e, lines) ==
  [type |-> "reserve", tx |-> t, epoch |-> e, lines |-> lines]
Release(t, e) == [type |-> "release", tx |-> t, epoch |-> e]
ReplyTo(m, type) == [type |-> type, tx |-> m.tx, epoch |-> m.epoch]

RecordState == {"NONE", "APPLIED", "RELEASED", "REJECTED"}
StateOf(t, e) == record[t][e].state

LedgerTypeOK ==
  /\ stock \in Lines
  /\ record \in [Tx -> [Epochs -> [state : RecordState, lines : Lines]]]
  /\ alerts \in [Skus -> Nat]
  /\ requests \subseteq (ReserveRequest \union ReleaseRequest)
  /\ replies \subseteq Reply

LedgerInit ==
  /\ stock = Opening
  /\ record = [t \in Tx |-> [e \in Epochs |-> [state |-> "NONE", lines |-> Nothing]]]
  /\ alerts = [s \in Skus |-> 0]
  /\ requests = {}
  /\ replies = {}

-----------------------------------------------------------------------------
(* reserve *)

Covered(lines) == \A s \in Skus : lines[s] <= stock[s]

\* Mutant: the alert also wants the threshold itself to have been exceeded.
TakeAlertingLate(lines) ==
  /\ stock' = [s \in Skus |-> stock[s] - lines[s]]
  /\ alerts' = [s \in Skus |->
                  IF stock[s] - lines[s] < Threshold /\ Threshold < stock[s]
                  THEN alerts[s] + 1 ELSE alerts[s]]

\* The units leave the shelf; a SKU that drops through the threshold alerts.
Take(lines) ==
  /\ stock' = [s \in Skus |-> stock[s] - lines[s]]
  /\ alerts' = [s \in Skus |->
                  IF stock[s] - lines[s] < Threshold /\ Threshold <= stock[s]
                  THEN alerts[s] + 1 ELSE alerts[s]]

SetRecord(m, state, lines) ==
  record' = [record EXCEPT ![m.tx][m.epoch] = [state |-> state, lines |-> lines]]

\* Mutant: whatever is not APPLIED reads as a refusal for lack of stock.
RecordedAnswerCoarse(state) == IF state = "APPLIED" THEN "reserved" ELSE "rejected"

\* What a reserve is told when its key already has a record.
RecordedAnswer(state) ==
  IF state = "APPLIED" THEN "reserved" ELSE IF state = "REJECTED" THEN "rejected" ELSE "refused"

\* Mutants: stock is taken without looking; a refused attempt is tried again.
ReserveUncovered(m) ==
  /\ StateOf(m.tx, m.epoch) = "NONE"
  /\ Take(m.lines)
  /\ SetRecord(m, "APPLIED", m.lines)
  /\ replies' = replies \union {ReplyTo(m, "reserved")}

ReserveRetried(m) ==
  /\ StateOf(m.tx, m.epoch) \in {"NONE", "REJECTED"}
  /\ Covered(m.lines)
  /\ Take(m.lines)
  /\ SetRecord(m, "APPLIED", m.lines)
  /\ replies' = replies \union {ReplyTo(m, "reserved")}

ReserveApplied(m) ==
  /\ StateOf(m.tx, m.epoch) = "NONE"
  /\ Covered(m.lines)
  /\ Take(m.lines)
  /\ SetRecord(m, "APPLIED", m.lines)
  /\ replies' = replies \union {ReplyTo(m, "reserved")}

ReserveShort(m) ==
  /\ StateOf(m.tx, m.epoch) = "NONE"
  /\ ~ Covered(m.lines)
  /\ SetRecord(m, "REJECTED", Nothing)
  /\ replies' = replies \union {ReplyTo(m, "rejected")}
  /\ UNCHANGED <<stock, alerts>>

ReserveReplayed(m) ==
  /\ StateOf(m.tx, m.epoch) # "NONE"
  /\ replies' = replies \union {ReplyTo(m, RecordedAnswer(StateOf(m.tx, m.epoch)))}
  /\ UNCHANGED ledger

HandleReservation(m) ==
  /\ m.type = "reserve"
  /\ ReserveApplied(m) \/ ReserveShort(m) \/ ReserveReplayed(m)
  /\ UNCHANGED requests

-----------------------------------------------------------------------------
(* release *)

ReleaseApplied(m) ==
  /\ StateOf(m.tx, m.epoch) = "APPLIED"
  /\ stock' = [s \in Skus |-> stock[s] + record[m.tx][m.epoch].lines[s]]
  /\ SetRecord(m, "RELEASED", record[m.tx][m.epoch].lines)

\* Mutant: a release that finds nothing to undo leaves no tombstone.
ReleaseUnrecorded(m) ==
  /\ StateOf(m.tx, m.epoch) \in {"NONE", "REJECTED"}
  /\ UNCHANGED <<stock, record>>

\* Nothing was taken: leave a tombstone, or turn the refusal into one.
ReleaseNothing(m) ==
  /\ StateOf(m.tx, m.epoch) \in {"NONE", "REJECTED"}
  /\ SetRecord(m, "RELEASED", Nothing)
  /\ UNCHANGED stock

\* Mutant: a repeated release gives the units back again.
ReleaseTwice(m) ==
  /\ StateOf(m.tx, m.epoch) = "RELEASED"
  /\ stock' = [s \in Skus |-> stock[s] + record[m.tx][m.epoch].lines[s]]
  /\ UNCHANGED record

ReleaseAgain(m) ==
  /\ StateOf(m.tx, m.epoch) = "RELEASED"
  /\ UNCHANGED <<stock, record>>

HandleRelease(m) ==
  /\ m.type = "release"
  /\ ReleaseApplied(m) \/ ReleaseNothing(m) \/ ReleaseAgain(m)
  /\ replies' = replies \union {ReplyTo(m, "released")}
  /\ UNCHANGED <<alerts, requests>>

\* The consumer: any request in the topic, the first time or again.
LedgerNext == \E m \in requests : HandleReservation(m) \/ HandleRelease(m)

-----------------------------------------------------------------------------
(* The ledger alone, under any sender that repeats a request unchanged.    *)

SameAsk(m) ==
  \A n \in requests :
    (n.type = m.type /\ n.tx = m.tx /\ n.epoch = m.epoch) => n = m

Ask ==
  \E t \in Tx, e \in Epochs :
    /\ \/ \E lines \in Baskets :
            /\ SameAsk(Reservation(t, e, lines))
            /\ requests' = requests \union {Reservation(t, e, lines)}
       \/ requests' = requests \union {Release(t, e)}
    /\ UNCHANGED <<ledger, replies>>

LedgerSpec == LedgerInit /\ [][LedgerNext \/ Ask]_ledgerVars

-----------------------------------------------------------------------------
(* Properties *)

\* Units of s that the reservation of (t, e) holds now.
Holds(t, e, s) == IF StateOf(t, e) = "APPLIED" THEN record[t][e].lines[s] ELSE 0

HeldUnits(s) == SumFunction([k \in Tx \X Epochs |-> Holds(k[1], k[2], s)])

\* Every unit is on the shelf or held by exactly one applied reservation,
\* however often and in whatever order requests are handled (reserve.py: "a
\* repeated reserve returns the recorded result without a second decrement",
\* release reverses an attempt once).
StockConserved == \A s \in Skus : stock[s] + HeldUnits(s) = Opening[s]

\* All requests of one attempt to reserve get the same verdict: never told
\* "reserved" by one copy and "rejected" by another.
OneVerdict ==
  \A p, q \in replies :
    (p.tx = q.tx /\ p.epoch = q.epoch)
      => ~ (p.type = "reserved" /\ q.type = "rejected")

\* An attempt once released takes no stock any more, even if its reserve
\* arrives after the release; an attempt once refused never gets the stock.
RecordsOnlyAdvance ==
  [][\A t \in Tx, e \in Epochs :
       /\ StateOf(t, e) = "RELEASED" => StateOf(t, e)' = "RELEASED"
       /\ StateOf(t, e) = "REJECTED" => StateOf(t, e)' \in {"REJECTED", "RELEASED"}
       /\ StateOf(t, e) = "APPLIED"  => StateOf(t, e)' \in {"APPLIED", "RELEASED"}
    ]_ledgerVars

\* A reply never runs ahead of the record it reports: "reserved" means units
\* were taken (and are held or were given back), "released" means no reserve
\* of that attempt can take any.
RepliesReportRecords ==
  \A p \in replies :
    /\ p.type = "reserved" => StateOf(p.tx, p.epoch) \in {"APPLIED", "RELEASED"}
    /\ p.type = "rejected" => StateOf(p.tx, p.epoch) \in {"REJECTED", "RELEASED"}
    /\ p.type \in {"refused", "released"} => StateOf(p.tx, p.epoch) = "RELEASED"

\* The low-stock report lists these SKUs, each at the time of its last alert.
LowStock == {s \in Skus : stock[s] < Threshold}

\* A SKU that started at or above the threshold and is below it now has been
\* announced, whichever reservation took it through the threshold and
\* whatever was given back in between.
LowStockAnnounced ==
  \A s \in LowStock : Threshold <= Opening[s] => alerts[s] > 0
=============================================================================
