--------------------------- MODULE LedgerStatements ---------------------------
(***************************************************************************)
(* Inventory as PostgreSQL runs it, READ COMMITTED: each request is a      *)
(* transaction of several statements, which read what was committed when   *)
(* they started, take row locks on the way and write at COMMIT.  Sessions  *)
(* of several workers run side by side.  Requests of one transaction come  *)
(* in turn, unless a rebalance gives a partition away while a batch of it  *)
(* is being handled; then even copies of one request race.                 *)
(***************************************************************************)
EXTENDS StockLedger

CONSTANTS Sessions,
          SkuOrder     \* the order of the SKUs' names

ASSUME SessionsAssumption == IsFiniteSet(Sessions)
ASSUME SkuOrderAssumption ==
  /\ SkuOrder \in [Skus -> Nat]
  /\ \A r, s \in Skus : SkuOrder[r] = SkuOrder[s] => r = s

VARIABLE session

statementVars == <<ledgerVars, session>>

\* writes is what COMMIT will do, answer the reply in the same transaction.
Write == {"nothing", "apply", "reject", "tombstone", "restore"}

NoSession ==
  [at |-> "idle", req |-> {}, prior |-> "NONE", stock |-> {}, row |-> FALSE,
   writes |-> "nothing", answer |-> "none", raced |-> FALSE]

Busy == {w \in Sessions : session[w].at # "idle"}
Asked(w) == CHOOSE m \in session[w].req : TRUE
State(w) == StateOf(Asked(w).tx, Asked(w).epoch)

SameKey(v, w) == Asked(v).tx = Asked(w).tx /\ Asked(v).epoch = Asked(w).epoch

-----------------------------------------------------------------------------
(* Locks *)

\* The stock rows a session locks: those of the basket, or of the record.
Wanted(w) ==
  {s \in Skus : 0 < IF Asked(w).type = "reserve" THEN Asked(w).lines[s]
                    ELSE record[Asked(w).tx][Asked(w).epoch].lines[s]}

\* Mutant: a release locks its rows the other way round.
NextInTheirOrder(w, s) ==
  /\ s \in Wanted(w) \ session[w].stock
  /\ \A r \in Wanted(w) \ session[w].stock :
       IF Asked(w).type = "reserve" THEN SkuOrder[s] <= SkuOrder[r]
       ELSE SkuOrder[r] <= SkuOrder[s]

\* `locked`: ORDER BY sku FOR UPDATE.
NextInOrder(w, s) ==
  /\ s \in Wanted(w) \ session[w].stock
  /\ \A r \in Wanted(w) \ session[w].stock : SkuOrder[s] <= SkuOrder[r]

\* A row that v has inserted and not committed stops another insert of its key.
Inserts(v) == session[v].writes \in {"apply", "reject", "tombstone"}

InsertWaits(w, v) == Inserts(v) /\ SameKey(v, w)

WaitsFor(w, v) ==
  /\ {v, w} \subseteq Busy /\ v # w
  /\ \/ session[w].at = "lock" /\ \E s \in session[v].stock : NextInOrder(w, s)
     \/ /\ session[w].at = "lock" /\ Wanted(w) \subseteq session[w].stock
        /\ session[w].prior = "NONE" /\ InsertWaits(w, v)
     \/ session[w].at = "row" /\ session[v].row /\ SameKey(v, w)
     \/ session[w].at = "tombstone" /\ InsertWaits(w, v)

Waits(w) == \E v \in Sessions : WaitsFor(w, v)

-----------------------------------------------------------------------------
(* reserve *)

Moves(w, s) == session' = [session EXCEPT ![w] = s] /\ UNCHANGED ledgerVars

\* A request is taken up; a reserve reads `prior` as its statement starts.
Begin(w, m) ==
  LET twins == {v \in Busy : Asked(v).tx = m.tx}
      begun == [NoSession EXCEPT
                  !.at = IF m.type = "reserve" THEN "lock" ELSE "tombstone",
                  !.req = {m}, !.prior = StateOf(m.tx, m.epoch), !.raced = twins # {}]
  IN /\ w \notin Busy
     /\ session' = [v \in Sessions |->
          IF v = w THEN begun
          ELSE IF v \in twins THEN [session[v] EXCEPT !.raced = TRUE] ELSE session[v]]
     /\ UNCHANGED ledgerVars

\* Mutant: the stock is read without FOR UPDATE.
LockStockUnlocked(w, s) ==
  /\ session[w].at = "lock" /\ NextInOrder(w, s)
  /\ Moves(w, [session[w] EXCEPT !.stock = @ \union {s}])

LockStock(w, s) ==
  /\ session[w].at = "lock" /\ NextInOrder(w, s) /\ ~ Waits(w)
  /\ Moves(w, [session[w] EXCEPT !.stock = @ \union {s}])

Finishes(w, writes, answer) ==
  Moves(w, [session[w] EXCEPT !.at = "commit", !.writes = writes, !.answer = answer])

\* All rows are locked, and what they say is what is committed now.
Decides(w) ==
  /\ session[w].at = "lock" /\ Asked(w).type = "reserve"
  /\ Wanted(w) \subseteq session[w].stock

\* A refusal is read again for its lines.
ReservePrior(w) ==
  /\ Decides(w) /\ session[w].prior # "NONE"
  /\ Finishes(w, "nothing",
       RecordedAnswer(IF session[w].prior = "REJECTED" THEN State(w) ELSE session[w].prior))

ReserveOk(w) ==
  /\ Decides(w) /\ session[w].prior = "NONE" /\ Covered(Asked(w).lines)
  /\ ~ Waits(w) /\ State(w) = "NONE"
  /\ Finishes(w, "apply", "reserved")

\* The key is taken: IntegrityError, and the whole of it again.
ReserveConflict(w) ==
  /\ Decides(w) /\ session[w].prior = "NONE" /\ Covered(Asked(w).lines)
  /\ ~ Waits(w) /\ State(w) # "NONE"
  /\ Moves(w, [session[w] EXCEPT !.prior = State(w), !.stock = {}])

\* ON CONFLICT DO NOTHING: the answer is "rejected" with or without the record.
ReserveLacks(w) ==
  /\ Decides(w) /\ session[w].prior = "NONE" /\ ~ Covered(Asked(w).lines)
  /\ ~ Waits(w)
  /\ Finishes(w, IF State(w) = "NONE" THEN "reject" ELSE "nothing", "rejected")

-----------------------------------------------------------------------------
(* release *)

\* Inserted, or there is a record already.
Tombstone(w) ==
  /\ session[w].at = "tombstone" /\ ~ Waits(w)
  /\ IF State(w) = "NONE" THEN Finishes(w, "tombstone", "released")
     ELSE Moves(w, [session[w] EXCEPT !.at = "row"])

\* Mutant: the record is read without FOR UPDATE.
LockRecordUnlocked(w) ==
  /\ session[w].at = "row"
  /\ IF State(w) = "APPLIED" THEN Moves(w, [session[w] EXCEPT !.at = "lock"])
     ELSE Finishes(w, IF State(w) = "REJECTED" THEN "tombstone" ELSE "nothing", "released")

\* FOR UPDATE: what is read stays until COMMIT.
LockRecord(w) ==
  /\ session[w].at = "row" /\ ~ Waits(w)
  /\ CASE State(w) = "RELEASED" -> Finishes(w, "nothing", "released")
       [] State(w) = "REJECTED" ->
            Moves(w, [session[w] EXCEPT !.at = "commit", !.row = TRUE,
                                        !.writes = "tombstone", !.answer = "released"])
       [] OTHER -> Moves(w, [session[w] EXCEPT !.at = "lock", !.row = TRUE])

Restore(w) ==
  /\ session[w].at = "lock" /\ Asked(w).type = "release"
  /\ Wanted(w) \subseteq session[w].stock
  /\ Finishes(w, "restore", "released")

-----------------------------------------------------------------------------
(* COMMIT, with the reply in the outbox *)

Written(w) ==
  LET m == Asked(w)
  IN CASE session[w].writes = "apply" -> Take(m.lines) /\ SetRecord(m, "APPLIED", m.lines)
       [] session[w].writes = "reject" -> SetRecord(m, "REJECTED", Nothing) /\ UNCHANGED <<stock, alerts>>
       [] session[w].writes = "tombstone" -> SetRecord(m, "RELEASED", Nothing) /\ UNCHANGED <<stock, alerts>>
       [] session[w].writes = "restore" ->
            /\ stock' = [s \in Skus |-> stock[s] + record[m.tx][m.epoch].lines[s]]
            /\ SetRecord(m, "RELEASED", record[m.tx][m.epoch].lines)
            /\ UNCHANGED alerts
       [] OTHER -> UNCHANGED ledger

Commits(w) ==
  /\ session[w].at = "commit"
  /\ Written(w)
  /\ replies' = replies \union {ReplyTo(Asked(w), session[w].answer)}
  /\ session' = [session EXCEPT ![w] = NoSession]
  /\ UNCHANGED requests

\* The worker dies or the database goes away: nothing was written.
Aborts(w) ==
  /\ w \in Busy
  /\ Moves(w, NoSession)

-----------------------------------------------------------------------------
StatementsInit == LedgerInit /\ session = [w \in Sessions |-> NoSession]

Step(w) ==
  \/ \E s \in Skus : LockStock(w, s)
  \/ ReservePrior(w) \/ ReserveOk(w) \/ ReserveConflict(w) \/ ReserveLacks(w)
  \/ Tombstone(w) \/ LockRecord(w) \/ Restore(w)
  \/ Commits(w)

StatementsNext ==
  \/ \E w \in Sessions :
       \/ \E m \in requests : Begin(w, m)
       \/ Step(w) \/ Aborts(w)
  \/ Ask /\ UNCHANGED session

StatementsSpec == StatementsInit /\ [][StatementsNext]_statementVars

-----------------------------------------------------------------------------
(* Properties *)

\* "which makes deadlock structurally impossible" (reserve.py): in no set of sessions
\* does everyone wait for another of them, over stock rows, records and inserts.
NoDeadlock ==
  \A S \in SUBSET Busy : S # {} => \E w \in S : \A v \in S : ~ WaitsFor(w, v)

\* Statement by statement, Inventory is the ledger that takes each request in one
\* step, as long as requests of one transaction do not overlap: what StockLedger and
\* the saga promise holds for it.
ImplementsLedger ==
  /\ LedgerInit
  /\ [][ \/ LedgerNext \/ Ask
         \/ \E w \in Sessions : session[w].raced /\ Commits(w) ]_ledgerVars

\* However copies, releases and other baskets overlap, a unit that leaves the shelf
\* is held by one record, and no COMMIT meets the backstop (models.py: "If this fires,
\* a concurrency bug exists").
NoUnitLost == stock \in Lines /\ StockConserved
=============================================================================
