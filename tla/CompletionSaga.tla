---------------------------- MODULE CompletionSaga ----------------------------
(***************************************************************************)
(* Checkout's completion saga, together with the stock ledger it drives.   *)
(*                                                                         *)
(* Completing a transaction takes three local transactions: mark it        *)
(* COMPLETING and ask Inventory for the basket; note that the stock is     *)
(* reserved; mark it COMPLETED.  If no verdict arrives, or the last step   *)
(* fails, the reservation is released and the transaction reopened.        *)
(*                                                                         *)
(* A saga is driven by a request handler (POST /complete) or by a recovery *)
(* loop.  Either may stop at any point; what it leaves is the transaction  *)
(* row, the completion row and the messages in the topic.                  *)
(***************************************************************************)
EXTENDS StockLedger

CONSTANTS Handlers,   \* request handlers (POST /transactions/{id}/complete)
          Loops,      \* recovery loops, one per Checkout worker
          ClaimLimit, \* rows one recovery pass claims
          NoTx        \* the transaction of a driver that has none

(* What the environment is assumed to do.  Each is a switch, so that a     *)
(* model can say what follows with it and what goes wrong without it.      *)
CONSTANTS
  LeaseCoversDriver,  \* a lease does not run out under a live driver
  LoneCompensator,    \* a COMPENSATING saga is taken up by one driver at a time
  TakeoverAlone,      \* no recovery pass claims a saga while a call takes it over
  CommitAckKept       \* a COMMIT of step 3 that succeeded is seen to succeed

Drivers == Handlers \union Loops

ASSUME DriversAssumption == Handlers \intersect Loops = {}
ASSUME NoTxAssumption    == NoTx \notin Tx
ASSUME ClaimAssumption   == ClaimLimit \in Nat \ {0}
ASSUME SwitchAssumption  ==
  /\ LeaseCoversDriver \in BOOLEAN
  /\ LoneCompensator \in BOOLEAN
  /\ TakeoverAlone \in BOOLEAN
  /\ CommitAckKept \in BOOLEAN

VARIABLES status,   \* transaction.status
          basket,   \* transaction_item, as units per SKU
          charged,  \* transaction.total_amount_cents, as the basket it prices
          saga,     \* the completion row
          driver,   \* what each driver is doing
          claimed   \* rows a recovery loop has claimed and not yet driven

checkoutVars == <<status, basket, charged, saga, driver, claimed>>
vars == <<ledgerVars, status, basket, charged, saga, driver, claimed>>

SagaState == {"NONE", "RESERVING", "RESERVED", "COMPENSATING", "COMPLETED", "ABORTED"}
Closed == {"NONE", "COMPLETED", "ABORTED"}

Saga == [state : SagaState, epoch : 0..MaxEpoch, total : Lines, fresh : BOOLEAN]
Row  == [tx : Tx, epoch : Epochs, state : SagaState, total : Lines]
PC   == {"idle", "begin", "takeover", "reserve", "reserved", "finalize", "mark",
         "release", "reopen"}
\* `seen` is the saga's state as a takeover has read it.
Job  == [pc : PC, tx : Tx \union {NoTx}, epoch : 0..MaxEpoch, total : Lines,
         again : BOOLEAN, seen : SagaState]

NoJob == [pc |-> "idle", tx |-> NoTx, epoch |-> 0, total |-> Nothing, again |-> FALSE,
          seen |-> "NONE"]

JobAt(pc, t, epoch, total) ==
  [pc |-> pc, tx |-> t, epoch |-> epoch, total |-> total, again |-> FALSE, seen |-> "NONE"]

TypeOK ==
  /\ LedgerTypeOK
  /\ status \in [Tx -> {"ABSENT", "OPEN", "COMPLETING", "COMPLETED", "CANCELLED"}]
  /\ basket \in [Tx -> Lines]
  /\ charged \in [Tx -> Lines]
  /\ saga \in [Tx -> Saga]
  /\ driver \in [Drivers -> Job]
  /\ claimed \in [Loops -> SUBSET Row]

Init ==
  /\ LedgerInit
  /\ status = [t \in Tx |-> "ABSENT"]
  /\ basket = [t \in Tx |-> Nothing]
  /\ charged = [t \in Tx |-> Nothing]
  /\ saga = [t \in Tx |-> [state |-> "NONE", epoch |-> 0, total |-> Nothing, fresh |-> TRUE]]
  /\ driver = [d \in Drivers |-> NoJob]
  /\ claimed = [d \in Loops |-> {}]

-----------------------------------------------------------------------------
(* The transaction before completion *)

StartTransaction(t) ==
  /\ status[t] = "ABSENT"
  /\ status' = [status EXCEPT ![t] = "OPEN"]
  /\ UNCHANGED <<ledgerVars, basket, charged, saga, driver, claimed>>

\* Mutant: a basket that is being completed may still be scanned into.
ScanWhileCompleting(t, s) ==
  /\ status[t] \in {"OPEN", "COMPLETING"}
  /\ basket' = [basket EXCEPT ![t][s] = @ + 1]
  /\ basket'[t] \in Baskets
  /\ UNCHANGED <<ledgerVars, status, charged, saga, driver, claimed>>

\* A scan adds one unit; only baskets in Baskets are explored.
Scan(t, s) ==
  /\ status[t] = "OPEN"
  /\ basket' = [basket EXCEPT ![t][s] = @ + 1]
  /\ basket'[t] \in Baskets
  /\ UNCHANGED <<ledgerVars, status, charged, saga, driver, claimed>>

\* Which OPEN transactions are old enough is left open.
SweepAbandoned(old) ==
  /\ old # {} /\ \A t \in old : status[t] = "OPEN"
  /\ status' = [t \in Tx |-> IF t \in old THEN "CANCELLED" ELSE status[t]]
  /\ UNCHANGED <<ledgerVars, basket, charged, saga, driver, claimed>>

-----------------------------------------------------------------------------
(* Who is at work on a saga *)

Live == {"reserve", "reserved", "finalize", "mark", "release", "reopen"}

Drives(d, t) == driver[d].tx = t /\ driver[d].pc \in Live
HasClaim(d, t) == d \in Loops /\ \E row \in claimed[d] : row.tx = t
Attended(t) == \E d \in Drivers : Drives(d, t) \/ HasClaim(d, t)

\* A takeover holds the row of the transaction FOR UPDATE until it commits; the
\* other steps that write that row take no time here.
TxLocked(t) == \E d \in Handlers : driver[d].pc = "takeover" /\ driver[d].tx = t

\* `updated_at` falls behind now() - lease.  It is read only while the saga is open.
LeaseExpires(t) ==
  /\ saga[t].fresh /\ saga[t].state \notin Closed
  /\ LeaseCoversDriver => ~ Attended(t)
  /\ saga' = [saga EXCEPT ![t].fresh = FALSE]
  /\ UNCHANGED <<ledgerVars, status, basket, charged, driver, claimed>>

-----------------------------------------------------------------------------
(* Steps of the completion row and of a driver *)

\* repo.set_completion_state: a closed row is left alone, an open one is touched.
SetState(t, state) ==
  saga' = IF saga[t].state \in Closed THEN saga
          ELSE [saga EXCEPT ![t].state = state, ![t].fresh = TRUE]

Goto(d, pc) == driver' = [driver EXCEPT ![d].pc = pc]
Finished(d) == driver' = [driver EXCEPT ![d] = NoJob]

\* A handler may begin on t: a new call, or the second try of the call that
\* first had to finish an old rollback.  It needs the lock on the transaction.
MayBegin(d, t) ==
  /\ ~ TxLocked(t)
  /\ \/ driver[d].pc = "idle"
     \/ driver[d].pc = "begin" /\ driver[d].tx = t

\* Mutant: every attempt is numbered 1.
BeginSameEpoch(d, t) ==
  /\ MayBegin(d, t)
  /\ status[t] = "OPEN" /\ basket[t] # Nothing
  /\ status' = [status EXCEPT ![t] = "COMPLETING"]
  /\ saga' = [saga EXCEPT ![t] = [state |-> "RESERVING", epoch |-> 1,
                                  total |-> basket[t], fresh |-> TRUE]]
  /\ requests' = requests \union {Reservation(t, 1, basket[t])}
  /\ driver' = [driver EXCEPT ![d] = JobAt("reserve", t, 1, basket[t])]
  /\ UNCHANGED <<ledger, replies, basket, charged, claimed>>

\* Step 1 on an OPEN transaction.  The request goes to the outbox with the
\* state change; the next epoch is the completion row's, plus one.
BeginAttempt(d, t) ==
  LET e == saga[t].epoch + 1 IN
  /\ MayBegin(d, t)
  /\ status[t] = "OPEN" /\ basket[t] # Nothing
  /\ saga[t].epoch < MaxEpoch
  /\ status' = [status EXCEPT ![t] = "COMPLETING"]
  /\ saga' = [saga EXCEPT ![t] = [state |-> "RESERVING", epoch |-> e,
                                  total |-> basket[t], fresh |-> TRUE]]
  /\ requests' = requests \union {Reservation(t, e, basket[t])}
  /\ driver' = [driver EXCEPT ![d] = JobAt("reserve", t, e, basket[t])]
  /\ UNCHANGED <<ledger, replies, basket, charged, claimed>>

\* Step 1 on a COMPLETING transaction whose lease has run out.  The completion
\* row is read and, in a later statement, written: nobody holds a lock on it in
\* between, only on the transaction row.
ReadForTakeover(d, t) ==
  /\ MayBegin(d, t)
  /\ status[t] = "COMPLETING" /\ saga[t].state # "COMPENSATING" /\ ~ saga[t].fresh
  /\ driver' = [driver EXCEPT ![d] =
       [JobAt("takeover", t, saga[t].epoch, saga[t].total) EXCEPT !.seen = saga[t].state]]
  /\ UNCHANGED <<ledgerVars, status, basket, charged, saga, claimed>>

\* The write puts back the state that was read, and commits.  A takeover builds
\* a fresh request from the basket.
TakeOver(d, t) ==
  /\ driver[d].pc = "takeover" /\ driver[d].tx = t
  /\ SetState(t, driver[d].seen)
  /\ requests' = requests \union {Reservation(t, driver[d].epoch, basket[t])}
  /\ driver' = [driver EXCEPT ![d].pc = "reserve", ![d].seen = "NONE"]
  /\ UNCHANGED <<ledger, replies, status, basket, charged, claimed>>

\* Step 1 on a COMPENSATING saga: finish its rollback first, then begin again.
\* The lease is not consulted.
ResumeRollback(d, t) ==
  /\ driver[d].pc = "idle" /\ ~ TxLocked(t)
  /\ status[t] = "COMPLETING" /\ saga[t].state = "COMPENSATING"
  /\ LoneCompensator => ~ Attended(t)
  /\ driver' = [driver EXCEPT ![d] =
       [JobAt("mark", t, saga[t].epoch, saga[t].total) EXCEPT !.again = TRUE]]
  /\ UNCHANGED <<ledgerVars, status, basket, charged, saga, claimed>>

\* The second try of a call is refused: 409, or 503 if the saga is
\* COMPENSATING again.  (A first try that is refused changes nothing.)
RefuseAgain(d) ==
  LET t == driver[d].tx IN
  /\ driver[d].pc = "begin" /\ ~ TxLocked(t)
  /\ \/ status[t] \in {"COMPLETED", "CANCELLED"}
     \/ status[t] = "COMPLETING" /\ (saga[t].state = "COMPENSATING" \/ saga[t].fresh)
  /\ Finished(d)
  /\ UNCHANGED <<ledgerVars, status, basket, charged, saga, claimed>>

\* Mutant: the waiter is keyed by the transaction alone.
AnsweredAnyEpoch(d, type) == \E p \in replies : p.type = type /\ p.tx = driver[d].tx

\* Step 2: the waiter of (tx, epoch) is resolved by a reply to a reserve.
Answered(d, type) ==
  \E p \in replies : p.type = type /\ p.tx = driver[d].tx /\ p.epoch = driver[d].epoch

GotReserved(d) ==
  /\ driver[d].pc = "reserve" /\ Answered(d, "reserved")
  /\ Goto(d, "reserved")
  /\ UNCHANGED <<ledgerVars, status, basket, charged, saga, claimed>>

GotRefusal(d) ==
  /\ driver[d].pc = "reserve"
  /\ Answered(d, "rejected") \/ Answered(d, "refused")
  /\ Goto(d, "reopen")
  /\ UNCHANGED <<ledgerVars, status, basket, charged, saga, claimed>>

ReserveTimesOut(d) ==
  /\ driver[d].pc = "reserve"
  /\ Goto(d, "mark")
  /\ UNCHANGED <<ledgerVars, status, basket, charged, saga, claimed>>

RecordReserved(d) ==
  /\ driver[d].pc = "reserved"
  /\ SetState(driver[d].tx, "RESERVED")
  /\ Goto(d, "finalize")
  /\ UNCHANGED <<ledgerVars, status, basket, charged, claimed>>

\* Mutant: completed whatever became of the transaction meanwhile.
CompleteAlways(t, total) ==
  /\ status' = [status EXCEPT ![t] = "COMPLETED"]
  /\ charged' = [charged EXCEPT ![t] = total]
  /\ saga' = [saga EXCEPT ![t].state = "COMPLETED", ![t].fresh = TRUE]

\* Step 3, in the database: guarded by the transaction's status only.
Complete(t, total) ==
  IF status[t] = "COMPLETING"
  THEN /\ status' = [status EXCEPT ![t] = "COMPLETED"]
       /\ charged' = [charged EXCEPT ![t] = total]
       /\ saga' = [saga EXCEPT ![t].state = "COMPLETED", ![t].fresh = TRUE]
  ELSE UNCHANGED <<status, charged, saga>>

Finalize(d) ==
  /\ driver[d].pc = "finalize" /\ ~ TxLocked(driver[d].tx)
  /\ Complete(driver[d].tx, driver[d].total)
  /\ Finished(d)
  /\ UNCHANGED <<ledgerVars, basket, claimed>>

\* A handler whose step 3 raises rolls back; a recovery loop goes on.
AfterFailure(d) == IF d \in Handlers THEN Goto(d, "mark") ELSE Finished(d)

FinalizeFails(d) ==
  /\ driver[d].pc = "finalize"
  /\ AfterFailure(d)
  /\ UNCHANGED <<ledgerVars, status, basket, charged, saga, claimed>>

\* The COMMIT takes effect but the connection is lost before its answer.
FinalizeAckLost(d) ==
  /\ ~ CommitAckKept
  /\ driver[d].pc = "finalize" /\ ~ TxLocked(driver[d].tx)
  /\ Complete(driver[d].tx, driver[d].total)
  /\ AfterFailure(d)
  /\ UNCHANGED <<ledgerVars, basket, claimed>>

\* Mutants: the release is announced without the state; the state is written
\* without the release.
MarkAnnouncesOnly(d) ==
  /\ driver[d].pc = "mark"
  /\ requests' = requests \union {Release(driver[d].tx, driver[d].epoch)}
  /\ Goto(d, "release")
  /\ UNCHANGED <<ledger, replies, status, basket, charged, saga, claimed>>

MarkSilently(d) ==
  /\ driver[d].pc = "mark"
  /\ SetState(driver[d].tx, "COMPENSATING")
  /\ Goto(d, "release")
  /\ UNCHANGED <<ledgerVars, status, basket, charged, claimed>>

\* Rollback: COMPENSATING and the release request in one local transaction.
MarkCompensating(d) ==
  /\ driver[d].pc = "mark"
  /\ SetState(driver[d].tx, "COMPENSATING")
  /\ requests' = requests \union {Release(driver[d].tx, driver[d].epoch)}
  /\ Goto(d, "release")
  /\ UNCHANGED <<ledger, replies, status, basket, charged, claimed>>

GotReleased(d) ==
  /\ driver[d].pc = "release" /\ Answered(d, "released")
  /\ Goto(d, "reopen")
  /\ UNCHANGED <<ledgerVars, status, basket, charged, saga, claimed>>

\* The release is not confirmed in time: the saga stays COMPENSATING.
ReleaseTimesOut(d) ==
  /\ driver[d].pc = "release"
  /\ Finished(d)
  /\ UNCHANGED <<ledgerVars, status, basket, charged, saga, claimed>>

\* Mutant: reopened whatever became of the transaction meanwhile.
ReopenAlways(d) ==
  LET t == driver[d].tx IN
  /\ driver[d].pc = "reopen" /\ ~ TxLocked(t)
  /\ status' = [status EXCEPT ![t] = "OPEN"]
  /\ saga' = IF saga[t].state \in Closed THEN saga
             ELSE [saga EXCEPT ![t].state = "ABORTED", ![t].fresh = TRUE]
  /\ IF driver[d].again THEN Goto(d, "begin") ELSE Finished(d)
  /\ UNCHANGED <<ledgerVars, basket, charged, claimed>>

Reopen(d) ==
  LET t == driver[d].tx IN
  /\ driver[d].pc = "reopen" /\ ~ TxLocked(t)
  /\ IF status[t] = "COMPLETING"
     THEN /\ status' = [status EXCEPT ![t] = "OPEN"]
          /\ saga' = IF saga[t].state \in Closed THEN saga
                     ELSE [saga EXCEPT ![t].state = "ABORTED", ![t].fresh = TRUE]
     ELSE UNCHANGED <<status, saga>>
  /\ IF driver[d].again THEN Goto(d, "begin") ELSE Finished(d)
  /\ UNCHANGED <<ledgerVars, basket, charged, claimed>>

\* A crash of the worker, a cancelled request, or an error outside a handler
\* of errors: the driver is gone, and with it the rest of its batch.
DriverDies(d) ==
  /\ driver[d].pc # "idle" \/ (d \in Loops /\ claimed[d] # {})
  /\ Finished(d)
  /\ claimed' = [l \in Loops |-> IF l = d THEN {} ELSE claimed[l]]
  /\ UNCHANGED <<ledgerVars, status, basket, charged, saga>>

-----------------------------------------------------------------------------
(* Recovery loop *)

\* Mutant: a rollback that was started is taken for finished.
StuckForward(t) == saga[t].state \in {"RESERVING", "RESERVED"} /\ ~ saga[t].fresh

Stuck(t) == saga[t].state \notin Closed /\ ~ saga[t].fresh

RowOf(t) == [tx |-> t, epoch |-> saga[t].epoch, state |-> saga[t].state,
             total |-> saga[t].total]

\* Claim up to ClaimLimit stuck rows; rows locked by another pass are skipped.
ClaimStuck(d, stuck) ==
  /\ driver[d].pc = "idle" /\ claimed[d] = {}
  /\ stuck # {} /\ Cardinality(stuck) <= ClaimLimit
  /\ \A t \in stuck :
       /\ Stuck(t)
       /\ (LoneCompensator /\ saga[t].state = "COMPENSATING") => ~ Attended(t)
       /\ TakeoverAlone => ~ TxLocked(t)
  /\ claimed' = [claimed EXCEPT ![d] = {RowOf(t) : t \in stuck}]
  /\ saga' = [t \in Tx |-> IF t \in stuck THEN [saga[t] EXCEPT !.fresh = TRUE] ELSE saga[t]]
  /\ UNCHANGED <<ledgerVars, status, basket, charged, driver>>

\* Mutant: rolled forward whenever it is not known to be rolling back.
NextRowForward(d, row) ==
  /\ driver[d].pc = "idle"
  /\ claimed' = [claimed EXCEPT ![d] = @ \ {row}]
  /\ driver' = [driver EXCEPT ![d] =
       JobAt(IF row.state = "COMPENSATING" THEN "mark" ELSE "finalize",
             row.tx, row.epoch, row.total)]
  /\ UNCHANGED <<ledgerVars, status, basket, charged, saga>>

\* Drive the next claimed row, from the state it had when it was claimed.
NextRow(d, row) ==
  /\ driver[d].pc = "idle"
  /\ claimed' = [claimed EXCEPT ![d] = @ \ {row}]
  /\ driver' = [driver EXCEPT ![d] =
       JobAt(IF row.state = "RESERVED" THEN "finalize" ELSE "mark",
             row.tx, row.epoch, row.total)]
  /\ UNCHANGED <<ledgerVars, status, basket, charged, saga>>

-----------------------------------------------------------------------------

Shopping ==
  \/ \E t \in Tx : StartTransaction(t) \/ LeaseExpires(t) \/ \E s \in Skus : Scan(t, s)
  \/ \E old \in SUBSET Tx : SweepAbandoned(old)

Beginning ==
  \E d \in Handlers :
    \/ RefuseAgain(d)
    \/ \E t \in Tx :
         \/ BeginAttempt(d, t) \/ ResumeRollback(d, t)
         \/ ReadForTakeover(d, t) \/ TakeOver(d, t)

Driving ==
  \E d \in Drivers :
    \/ GotReserved(d) \/ GotRefusal(d) \/ ReserveTimesOut(d) \/ RecordReserved(d)
    \/ Finalize(d) \/ FinalizeFails(d) \/ FinalizeAckLost(d)
    \/ MarkCompensating(d) \/ GotReleased(d) \/ ReleaseTimesOut(d) \/ Reopen(d)
    \/ DriverDies(d)

Recovering ==
  \E d \in Loops :
    \/ \E stuck \in SUBSET Tx : ClaimStuck(d, stuck)
    \/ \E row \in claimed[d] : NextRow(d, row)

Inventory == LedgerNext /\ UNCHANGED checkoutVars

Next == Shopping \/ Beginning \/ Driving \/ Recovering \/ Inventory

Spec == Init /\ [][Next]_vars

(* Fairness.  A driver that is alive moves on, and time passes (leases).    *)
(* Requests are delivered: the sender's outbox holds them until the broker  *)
(* has them, and the consumer repeats until it commits.  This presumes that *)
(* not all copies of a request fail so often that they become dead letters  *)
(* (see ConsumerLoop): that would leave it unhandled.  Strong fairness      *)
(* says that crashes, timeouts and failed finalizes, which may happen any   *)
(* number of times, do not hit the same step of recovery on the same saga   *)
(* for ever.  Nothing is asked of shoppers: a handler need never be called, *)
(* and may fail each time it is.                                            *)

Step(d) ==
  \/ GotReserved(d) \/ GotRefusal(d) \/ ReserveTimesOut(d) \/ RecordReserved(d)
  \/ Finalize(d) \/ FinalizeFails(d) \/ MarkCompensating(d)
  \/ GotReleased(d) \/ ReleaseTimesOut(d) \/ Reopen(d)
  \/ \E t \in Tx : TakeOver(d, t)

Handled(type, t, e) ==
  /\ \E m \in requests :
       /\ m.type = type /\ m.tx = t /\ m.epoch = e
       /\ HandleReservation(m) \/ HandleRelease(m)
  /\ UNCHANGED checkoutVars

On(t, d) == driver[d].tx = t

\* Strong fairness of the two steps that need the transaction row: to wait for
\* its lock, which a takeover holds for one local transaction, is a chance too.
GetsThrough(t, d) ==
  /\ []<>(On(t, d) /\ driver[d].pc = "finalize") => []<><<On(t, d) /\ Finalize(d)>>_vars
  /\ []<>(On(t, d) /\ driver[d].pc = "reopen") => []<><<On(t, d) /\ Reopen(d)>>_vars

Fairness ==
  /\ \A t \in Tx : SF_vars(LeaseExpires(t))
  /\ \A t \in Tx, e \in Epochs :
       WF_vars(Handled("reserve", t, e)) /\ WF_vars(Handled("release", t, e))
  /\ \A d \in Drivers : WF_vars(Step(d))
  /\ \A d \in Loops, t \in Tx :
       /\ GetsThrough(t, d)
       /\ SF_vars(On(t, d) /\ MarkCompensating(d))
       /\ SF_vars(On(t, d) /\ GotReleased(d))
       /\ SF_vars(\E stuck \in SUBSET Tx : t \in stuck /\ ClaimStuck(d, stuck))
       /\ SF_vars(\E row \in claimed[d] : row.tx = t /\ NextRow(d, row))

FairSpec == Spec /\ Fairness

-----------------------------------------------------------------------------
(* Properties that need no assumption about leases or lost answers *)

\* The transaction row and the completion row never disagree: a transaction is
\* COMPLETING exactly while its saga is open, and COMPLETED exactly when its
\* saga is.  Eight places write one row or both (repo.py), and most of them
\* check only one.
RowsAgree ==
  \A t \in Tx :
    /\ status[t] = "COMPLETING" <=> saga[t].state \notin Closed
    /\ status[t] = "COMPLETED" <=> saga[t].state = "COMPLETED"

\* Nothing is ever asked, recorded or driven for an attempt that has not begun:
\* a stale release can leave a tombstone, but never one that blocks a later
\* attempt (the reason for epochs, completion-flow.md "a later epoch is not
\* blocked").
OnlyBegunAttempts ==
  \A t \in Tx :
    /\ \A m \in requests : m.tx = t => m.epoch <= saga[t].epoch
    /\ \A e \in Epochs : StateOf(t, e) # "NONE" => e <= saga[t].epoch
    /\ \A d \in Drivers : driver[d].tx = t => driver[d].epoch <= saga[t].epoch

\* Two reserve requests of one attempt ask for the same lines, although a
\* takeover builds its own from the basket: so Inventory may answer from its
\* record without comparing lines.
RepeatsAskTheSame ==
  \A m, n \in requests :
    (m.type = "reserve" /\ n.type = "reserve" /\ m.tx = n.tx /\ m.epoch = n.epoch)
      => m.lines = n.lines

\* Nobody is charged without stock having been taken for some attempt.
SoldWasReserved ==
  \A t \in Tx : status[t] = "COMPLETED" =>
    \E p \in replies : p.tx = t /\ p.type = "reserved"

\* Whatever drivers race: a sale or a cancellation stands, an attempt number
\* is never reused, and what is being completed is not scanned into.
OutcomesStand ==
  [][\A t \in Tx :
       /\ status[t] \in {"COMPLETED", "CANCELLED"} =>
            UNCHANGED <<status[t], basket[t], charged[t], saga[t].epoch>>
       /\ saga'[t].epoch # saga[t].epoch =>
            /\ saga'[t].epoch = saga[t].epoch + 1
            /\ status[t] = "OPEN"
       /\ basket'[t] # basket[t] => status[t] = "OPEN" /\ status'[t] = "OPEN"
    ]_vars

-----------------------------------------------------------------------------
(* Properties of a saga with one driver at a time *)

\* Stock is held only by the attempt in progress or by the sale itself: nothing
\* is orphaned by a crash, a timeout or a late reserve, no transaction holds
\* stock twice, and an OPEN or CANCELLED one holds none (verify_invariant.py:
\* every APPLIED reservation belongs to a COMPLETED transaction, once nothing
\* is COMPLETING).
NothingOrphaned ==
  \A t \in Tx, e \in Epochs :
    StateOf(t, e) = "APPLIED" =>
      e = saga[t].epoch /\ status[t] \in {"COMPLETING", "COMPLETED"}

\* A sold transaction holds, in its last attempt, exactly the basket it is
\* charged for (verify_invariant.py: "and vice versa").
SoldHoldsItsBasket ==
  \A t \in Tx : status[t] = "COMPLETED" =>
    /\ StateOf(t, saga[t].epoch) = "APPLIED"
    /\ record[t][saga[t].epoch].lines = basket[t]
    /\ charged[t] = basket[t]

\* Nothing is in flight: no saga open, no driver at work, every request handled.
Settled ==
  /\ \A t \in Tx : status[t] # "COMPLETING" /\ saga[t].state \in Closed
  /\ \A d \in Drivers : driver[d].pc = "idle"
  /\ \A d \in Loops : claimed[d] = {}
  /\ \A m \in requests :
       IF m.type = "reserve" THEN StateOf(m.tx, m.epoch) # "NONE"
                             ELSE StateOf(m.tx, m.epoch) = "RELEASED"

\* A release request is written only together with COMPENSATING, for the attempt
\* that is being rolled back (saga.py: "never announced without the state").
ReleaseHasItsState ==
  [][\A t \in Tx, e \in Epochs :
       (Release(t, e) \in requests' /\ Release(t, e) \notin requests) =>
          saga'[t].state = "COMPENSATING" /\ saga'[t].epoch = e
    ]_vars

\* A transaction is finalized only on a reservation that stands (repo.py: "a
\* completion that was rolled back elsewhere is not finalized behind its back").
FinalizedOnReservation ==
  [][\A t \in Tx :
       (status[t] = "COMPLETING" /\ status'[t] = "COMPLETED") =>
          StateOf(t, saga[t].epoch) = "APPLIED" /\ saga[t].state = "RESERVED"
    ]_vars

\* Every completion that is begun ends, in a sale or with the transaction open
\* again, whatever crashes and timeouts it meets ("recovery makes sure every
\* stuck completion reaches an end state", completion-flow.md).
EveryCompletionEnds ==
  \A t \in Tx : status[t] = "COMPLETING" ~> status[t] # "COMPLETING"

\* Stock taken off the shelf is sold or comes back.
HeldStockSettles ==
  \A t \in Tx, e \in Epochs :
    StateOf(t, e) = "APPLIED" ~> (StateOf(t, e) = "RELEASED" \/ status[t] = "COMPLETED")
=============================================================================
