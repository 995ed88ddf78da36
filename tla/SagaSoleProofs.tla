---------------------------- MODULE SagaSoleProofs ----------------------------
(* What holds of the saga when it has one driver at a time: SoleInv is        *)
(* inductive under SoleDriver.  First, how a step may change the rows, the    *)
(* record and the attendants of one transaction; then the invariant, one      *)
(* conjunct at a time, from those.  Last, what a shopper and an operator see: *)
(* the reports of the two services agree once nothing is in flight, and every *)
(* step is a step of a purchase.                                              *)
EXTENDS SagaProofs, StoreReports, SagaRefinesPurchase

-----------------------------------------------------------------------------
(* One step, seen from one transaction *)

Attends(d, t) == Drives(d, t) \/ HasClaim(d, t)

\* The steps by which a driver gets hold of a saga.
Gains(d, t) ==
  \/ d \in Handlers /\ (BeginAttempt(d, t) \/ TakeOver(d, t) \/ ResumeRollback(d, t))
  \/ d \in Loops /\ \E stuck \in SUBSET Tx : t \in stuck /\ ClaimStuck(d, stuck)

\* The rows of t stay, but perhaps for the lease.
RowKept(t) ==
  /\ status'[t] = status[t] /\ charged'[t] = charged[t]
  /\ saga'[t].state = saga[t].state /\ saga'[t].epoch = saga[t].epoch
  /\ saga'[t].total = saga[t].total

\* The rows of t move on within the attempt, by a step of its driver d.
RowDriven(d, t) ==
  /\ Drives(d, t) /\ saga'[t].fresh
  /\ saga'[t].epoch = saga[t].epoch /\ saga'[t].total = saga[t].total
  /\ \/ /\ RecordReserved(d) /\ saga'[t].state = "RESERVED"
        /\ status'[t] = status[t] /\ charged'[t] = charged[t]
     \/ /\ MarkCompensating(d) /\ saga'[t].state = "COMPENSATING"
        /\ status'[t] = status[t] /\ charged'[t] = charged[t]
     \/ /\ Finalize(d) /\ saga'[t].state = "COMPLETED"
        /\ status'[t] = "COMPLETED" /\ charged'[t] = driver[d].total
     \/ /\ Reopen(d) /\ saga'[t].state = "ABORTED"
        /\ status'[t] = "OPEN" /\ charged'[t] = charged[t]

\* What a takeover has read is what it writes back, to a saga nobody attends to.
LEMMA TakerIsCurrent ==
  ASSUME SoleInv, NEW d \in Drivers, NEW t \in Tx, TakeOver(d, t)
  PROVE  /\ d \in Handlers /\ status[t] = "COMPLETING"
         /\ saga[t].state \in {"RESERVING", "RESERVED"}
         /\ driver[d].epoch = saga[t].epoch /\ driver[d].total = saga[t].total
         /\ SetState(t, saga[t].state)
         /\ ~ saga[t].fresh /\ ~ Attended(t)
BY DEF SoleInv, RaceInv, CoreInv, Numbered, TakeoverHoldsTx, TakeoverIsCurrent, TakeOver

\* A saga is got hold of only when nobody attends to it.
LEMMA GainsUnattended ==
  ASSUME SoleDriver, SoleInv, NEW d \in Drivers, NEW t \in Tx, Gains(d, t)
  PROVE  ~ Attended(t)
<1> USE DEF SoleDriver, SoleInv, RaceInv, CoreInv
<1>1. ASSUME BeginAttempt(d, t) PROVE ~ Attended(t)
  BY <1>1 DEF BeginAttempt, Attended, Drives, HasClaim, DriverIsCurrent, ClaimIsCurrent
<1>2. ASSUME TakeOver(d, t) PROVE ~ Attended(t)
  BY <1>2, TakerIsCurrent
<1>3. ASSUME ResumeRollback(d, t) PROVE ~ Attended(t)
  BY <1>3 DEF ResumeRollback
<1>4. ASSUME NEW stuck \in SUBSET Tx, t \in stuck, ClaimStuck(d, stuck) PROVE ~ Attended(t)
  <2>1. saga[t].state \in {"RESERVING", "RESERVED", "COMPENSATING"} /\ ~ saga[t].fresh
    BY <1>4 DEF ClaimStuck, Stuck, TypeOK, Saga, SagaState, Closed
  <2> QED BY <1>4, <2>1 DEF ClaimStuck, AttendedIsFresh
<1> QED BY <1>1, <1>2, <1>3, <1>4 DEF Gains

\* It disturbs no other driver.
LEMMA GainsDisturbNobody ==
  ASSUME CoreInv, NEW c \in Drivers, NEW t \in Tx, Gains(c, t), NEW d \in Drivers, d # c
  PROVE  driver'[d] = driver[d] /\ (d \in Loops => claimed'[d] = claimed[d])
<1> USE DEF CoreInv, TypeOK
<1>1. CASE TakeOver(c, t)
  BY <1>1, TakeOverContinues DEF TakeOver
<1>2. CASE BeginAttempt(c, t) \/ ResumeRollback(c, t)
  BY <1>2 DEF BeginAttempt, ResumeRollback
<1>3. ASSUME NEW stuck \in SUBSET Tx, ClaimStuck(c, stuck), c \in Loops
      PROVE  driver'[d] = driver[d] /\ (d \in Loops => claimed'[d] = claimed[d])
  BY <1>3 DEF ClaimStuck
<1> QED BY <1>1, <1>2, <1>3 DEF Gains

\* A saga that is being taken over is got hold of only by the call that does so.
LEMMA OnlyTakerGains ==
  ASSUME SoleDriver, SoleInv, NEW c \in Drivers, driver[c].pc = "takeover",
         NEW d \in Drivers, Gains(d, driver[c].tx)
  PROVE  d = c /\ TakeOver(c, driver[c].tx)
<1> DEFINE t == driver[c].tx
<1> USE DEF SoleDriver, SoleInv, RaceInv
<1>1. TxLocked(t)
  BY DEF TxLocked, TakeoverHoldsTx
<1>2. ~ BeginAttempt(d, t) /\ ~ ResumeRollback(d, t)
  BY <1>1 DEF BeginAttempt, MayBegin, ResumeRollback
<1>3. \A stuck \in SUBSET Tx : t \in stuck => ~ ClaimStuck(d, stuck)
  BY <1>1 DEF ClaimStuck
<1>4. TakeOver(d, t)
  BY <1>2, <1>3 DEF Gains
<1> QED BY <1>4 DEF TakeOver, TakeoverHoldsTx

\* Who attends to t after a step did so before it, or has just got hold of it.
LEMMA AttendStep ==
  ASSUME SoleInv, Next, NEW c \in Drivers, NEW t \in Tx, Attends(c, t)'
  PROVE  Attends(c, t) \/ Gains(c, t)
<1> USE DEF SoleInv, RaceInv
<1>1. CASE Drives(c, t)'
  <2>1. driver'[c].tx = t /\ driver'[c].pc \in Live
    BY <1>1 DEF Drives
  <2>2. CASE driver'[c] = driver[c]
    BY <2>1, <2>2 DEF Attends, Drives
  <2>3. CASE driver'[c] = NoJob
    BY <2>1, <2>3 DEF NoJob, Live
  <2>4. CASE Continues(c) /\ DriverMoves(c)
    <3>1. driver[c].tx = t
      BY <2>1, <2>4 DEF Continues
    <3>2. driver[c].pc \in Live \/ Finished(c)
      BY <2>4 DEF DriverMoves, Waits, GotReserved, GotRefusal, ReserveTimesOut, RecordReserved,
                  Finalize, FinalizeFails, FinalizeAckLost, MarkCompensating, GotReleased,
                  ReleaseTimesOut, Reopen, DriverDies, Live
    <3>3. ~ Finished(c)
      BY <2>1, FinishedType DEF CoreInv, NoJob, Live
    <3> QED BY <3>1, <3>2, <3>3 DEF Attends, Drives
  <2>5. ASSUME c \in Handlers,
               NEW u \in Tx, \/ BeginAttempt(c, u) \/ TakeOver(c, u)
                            \/ ReadForTakeover(c, u) \/ ResumeRollback(c, u)
        PROVE  Gains(c, t)
    <3>1. TakeOver(c, u) => u = t
      BY <2>1, TakeOverContinues DEF TakeOver, Continues, CoreInv
    <3>2. BeginAttempt(c, u) \/ ResumeRollback(c, u) => u = t
      BY <2>1 DEF BeginAttempt, ResumeRollback, JobAt, CoreInv, TypeOK
    <3>3. ~ ReadForTakeover(c, u)
      BY <2>1 DEF ReadForTakeover, JobAt, Live, CoreInv, TypeOK
    <3> QED BY <2>5, <3>1, <3>2, <3>3 DEF Gains
  <2>6. ASSUME c \in Loops, NEW row \in claimed[c], NextRow(c, row) PROVE Attends(c, t)
    <3>1. row.tx = t
      BY <2>1, <2>6 DEF NextRow, JobAt, CoreInv, TypeOK
    <3> QED BY <2>6, <3>1 DEF Attends, HasClaim
  <2> QED BY <2>2, <2>3, <2>4, <2>5, <2>6, JobStep
<1>2. CASE HasClaim(c, t)'
  <2>1. PICK row \in claimed'[c] : row.tx = t /\ c \in Loops
    BY <1>2 DEF HasClaim
  <2>2. CASE claimed'[c] \subseteq claimed[c]
    BY <2>1, <2>2 DEF Attends, HasClaim
  <2>3. ASSUME NEW stuck \in SUBSET Tx, ClaimStuck(c, stuck),
               claimed'[c] = {RowOf(u) : u \in stuck}
        PROVE  Gains(c, t)
    <3>1. t \in stuck
      BY <2>1, <2>3 DEF RowOf
    <3> QED BY <2>1, <2>3, <3>1 DEF Gains
  <2> QED BY <2>1, <2>2, <2>3, ClaimStep
<1> QED BY <1>1, <1>2 DEF Attends

\* What a step may do to the rows of t.
LEMMA RowCases ==
  ASSUME SoleDriver, SoleInv, Next, NEW t \in Tx
  PROVE  \/ /\ saga'[t] = saga[t] /\ charged'[t] = charged[t]
            /\ \/ status'[t] = status[t]
               \/ status[t] \in {"ABSENT", "OPEN"} /\ status'[t] \in {"OPEN", "CANCELLED"}
         \/ RowKept(t) /\ ~ Attended(t) /\ UNCHANGED <<driver, claimed>> /\ ~ saga'[t].fresh
         \/ RowKept(t) /\ ~ Attended(t) /\ saga'[t].fresh /\ \E d \in Drivers : Gains(d, t)
         \/ \E d \in Handlers : BeginAttempt(d, t)
         \/ \E d \in Drivers : RowDriven(d, t)
<1> USE DEF SoleDriver, SoleInv, RaceInv, CoreInv, TypeOK
<1> DEFINE Same == saga'[t] = saga[t] /\ charged'[t] = charged[t] /\ status'[t] = status[t]
<1>0. \A d \in Handlers \union Loops : d \in Drivers
  BY DEF Drivers
<1>1. CASE Shopping
  <2>1. ASSUME NEW u \in Tx, LeaseExpires(u)
        PROVE  Same \/ (RowKept(t) /\ ~ Attended(t) /\ UNCHANGED <<driver, claimed>>
                         /\ ~ saga'[t].fresh)
    <3>1. CASE u = t
      <4>1. saga[t] \in Saga /\ saga'[t] = [saga[t] EXCEPT !.fresh = FALSE]
        BY <2>1, <3>1 DEF LeaseExpires
      <4> QED BY <2>1, <3>1, <4>1 DEF LeaseExpires, RowKept, Saga
    <3>2. CASE u # t
      BY <2>1, <3>2 DEF LeaseExpires
    <3> QED BY <3>1, <3>2
  <2>2. ASSUME NEW u \in Tx, NEW s \in Skus, Scan(u, s) PROVE Same
    BY <2>2 DEF Scan
  <2>3. ASSUME NEW u \in Tx, StartTransaction(u)
        PROVE  Same \/ (saga'[t] = saga[t] /\ charged'[t] = charged[t]
                         /\ status[t] = "ABSENT" /\ status'[t] = "OPEN")
    BY <2>3 DEF StartTransaction
  <2>4. ASSUME NEW old \in SUBSET Tx, SweepAbandoned(old)
        PROVE  Same \/ (saga'[t] = saga[t] /\ charged'[t] = charged[t]
                         /\ status[t] = "OPEN" /\ status'[t] = "CANCELLED")
    BY <2>4 DEF SweepAbandoned
  <2> QED BY <1>1, <2>1, <2>2, <2>3, <2>4 DEF Shopping
<1>2. CASE Inventory
  BY <1>2 DEF Inventory, checkoutVars
<1>3. ASSUME NEW d \in Handlers, RefuseAgain(d) PROVE Same
  BY <1>3 DEF RefuseAgain
<1>4. ASSUME NEW d \in Handlers, NEW u \in Tx, ResumeRollback(d, u) \/ ReadForTakeover(d, u)
      PROVE  Same
  BY <1>4 DEF ResumeRollback, ReadForTakeover
<1>5. ASSUME NEW d \in Handlers, NEW u \in Tx, TakeOver(d, u)
      PROVE  \/ Same
             \/ RowKept(t) /\ ~ Attended(t) /\ saga'[t].fresh /\ \E a \in Drivers : Gains(a, t)
  <2>1. saga[u].state \in SagaState /\ SetState(u, saga[u].state) /\ saga[u].state \notin Closed
    BY <1>0, <1>5, TakerIsCurrent DEF Closed, SagaState
  <2>2. status' = status /\ charged' = charged
    BY <1>5 DEF TakeOver
  <2>3. u # t => saga'[t] = saga[t]
    BY <2>1, SetStateEffect
  <2>4. u = t => RowKept(t) /\ saga'[t].fresh
    BY <2>1, <2>2, SetStateEffect DEF RowKept
  <2>5. u = t => ~ Attended(t) /\ Gains(d, t)
    BY <1>0, <1>5, GainsUnattended DEF Gains
  <2> QED BY <1>0, <2>2, <2>3, <2>4, <2>5
<1>6. ASSUME NEW d \in Handlers, NEW u \in Tx, BeginAttempt(d, u)
      PROVE  Same \/ BeginAttempt(d, t)
  BY <1>6 DEF BeginAttempt
<1>7. ASSUME NEW d \in Drivers, DriverMoves(d) PROVE Same \/ RowDriven(d, t)
  <2> DEFINE u == driver[d].tx
  <2>1. CASE Waits(d)
    BY <2>1 DEF Waits, GotReserved, GotRefusal, ReserveTimesOut, FinalizeFails, GotReleased,
                ReleaseTimesOut, DriverDies
  <2>2. CASE RecordReserved(d) \/ MarkCompensating(d)
    <3>1. /\ u \in Tx /\ saga[u].state \notin Closed /\ Drives(d, u)
          /\ status' = status /\ charged' = charged
      BY <2>2 DEF RecordReserved, MarkCompensating, DriverIsCurrent, Live, RowsAgree, Drives
    <3>2. \/ RecordReserved(d) /\ SetState(u, "RESERVED")
          \/ MarkCompensating(d) /\ SetState(u, "COMPENSATING")
      BY <2>2 DEF RecordReserved, MarkCompensating
    <3>3. "RESERVED" \in SagaState /\ "COMPENSATING" \in SagaState
      BY DEF SagaState
    <3> HIDE DEF u
    <3>4. u # t => saga'[t] = saga[t]
      BY <3>1, <3>2, <3>3, SetStateEffect
    <3>5. u = t => RowDriven(d, t)
      BY <3>1, <3>2, <3>3, SetStateEffect DEF RowDriven
    <3> QED BY <3>1, <3>4, <3>5
  <2>3. CASE Finalize(d)
    <3>1. /\ u \in Tx /\ driver[d].total \in Lines /\ status[u] = "COMPLETING" /\ Drives(d, u)
          /\ Complete(u, driver[d].total)
      BY <2>3 DEF Finalize, DriverIsCurrent, Live, Drives, Job
    <3> HIDE DEF u
    <3>2. saga' = [saga EXCEPT ![u].state = "COMPLETED", ![u].fresh = TRUE]
      BY <3>1 DEF Complete
    <3>3. saga[u] \in Saga /\ saga'[u] = [[saga[u] EXCEPT !.state = "COMPLETED"] EXCEPT !.fresh = TRUE]
      BY <3>1, <3>2
    <3>4. saga'[u].fresh = TRUE
      BY <3>3 DEF Saga
    <3>5. u = t => RowDriven(d, t)
      BY <2>3, <3>1, <3>4, CompleteEffect DEF RowDriven
    <3> QED BY <3>1, <3>5, CompleteEffect
  <2>4. CASE FinalizeAckLost(d)
    BY <2>4 DEF FinalizeAckLost
  <2>5. CASE Reopen(d)
    <3>1. u \in Tx /\ status[u] = "COMPLETING" /\ Drives(d, u) /\ saga[u].state \notin Closed
      BY <2>5 DEF Reopen, DriverIsCurrent, Live, Drives, RowsAgree
    <3>2. RowMoves(u, "ABORTED") /\ charged' = charged /\ "ABORTED" \in SagaState
      BY <2>5, <3>1 DEF Reopen, RowMoves, SagaState
    <3>3. status' = [status EXCEPT ![u] = "OPEN"]
      BY <2>5, <3>1 DEF Reopen
    <3> HIDE DEF u
    <3>4. u = t => RowDriven(d, t)
      BY <2>5, <3>1, <3>2, <3>3, RowMovesEffect DEF RowDriven
    <3> QED BY <3>1, <3>2, <3>3, <3>4, RowMovesEffect
  <2> QED BY <1>7, <2>1, <2>2, <2>3, <2>4, <2>5 DEF DriverMoves
<1>8. ASSUME NEW d \in Loops, NEW stuck \in SUBSET Tx, ClaimStuck(d, stuck)
      PROVE  \/ Same
             \/ RowKept(t) /\ ~ Attended(t) /\ saga'[t].fresh /\ \E a \in Drivers : Gains(a, t)
  <2>1. status' = status /\ charged' = charged
    BY <1>8 DEF ClaimStuck
  <2>2. CASE t \in stuck
    <3>1. saga[t] \in Saga /\ saga'[t] = [saga[t] EXCEPT !.fresh = TRUE]
      BY <1>8, <2>2 DEF ClaimStuck
    <3>2. Gains(d, t) /\ d \in Drivers
      BY <1>0, <1>8, <2>2 DEF Gains
    <3>3. ~ Attended(t)
      BY <3>2, GainsUnattended
    <3> QED BY <2>1, <3>1, <3>2, <3>3 DEF RowKept, Saga
  <2>3. CASE t \notin stuck
    BY <1>8, <2>1, <2>3 DEF ClaimStuck
  <2> QED BY <2>2, <2>3
<1>9. ASSUME NEW d \in Loops, NEW row \in claimed[d], NextRow(d, row) PROVE Same
  BY <1>9 DEF NextRow
<1> QED BY NextCases, <1>1, <1>2, <1>3, <1>4, <1>5, <1>6, <1>7, <1>8, <1>9

\* What a step may do to the record of an attempt: nothing, or what Inventory
\* does with a request of that attempt.
LEMMA RecordCases ==
  ASSUME CoreInv, Next, NEW t \in Tx, NEW e \in Epochs
  PROVE  \/ record'[t][e] = record[t][e]
         \/ /\ UNCHANGED checkoutVars
            /\ \E m \in requests :
                 /\ m.tx = t /\ m.epoch = e
                 /\ \/ /\ m.type = "reserve" /\ StateOf(t, e) = "NONE"
                       /\ \/ StateOf(t, e)' = "APPLIED" /\ record'[t][e].lines = m.lines
                          \/ StateOf(t, e)' = "REJECTED"
                    \/ m.type = "release" /\ StateOf(t, e)' = "RELEASED"
<1>1. CASE record' = record
  BY <1>1
<1>2. CASE Inventory
  <2>1. PICK m \in requests : HandleReservation(m) \/ HandleRelease(m)
    BY <1>2 DEF Inventory, LedgerNext
  <2> QED BY <1>2, <2>1, LedgerStep DEF Inventory, CoreInv, TypeOK
<1> QED BY <1>1, <1>2, RecordStep

\* Beginning an attempt, on the rows of its transaction.
LEMMA BeginEffect ==
  ASSUME CoreInv, NEW d \in Handlers, NEW t \in Tx, BeginAttempt(d, t)
  PROVE  /\ status[t] = "OPEN" /\ saga[t].state \in {"NONE", "ABORTED"}
         /\ status'[t] = "COMPLETING" /\ charged'[t] = charged[t] /\ basket'[t] = basket[t]
         /\ saga'[t].state = "RESERVING" /\ saga'[t].epoch = saga[t].epoch + 1
         /\ saga'[t].total = basket[t] /\ saga'[t].fresh
         /\ driver'[d].pc = "reserve" /\ driver'[d].tx = t
         /\ driver'[d].epoch = saga[t].epoch + 1 /\ driver'[d].total = basket[t]
         /\ record' = record
<1>1. status[t] = "OPEN" /\ saga[t].state \in {"NONE", "ABORTED"}
  BY DEF BeginAttempt, CoreInv, TypeOK, RowsAgree, Closed, Saga, SagaState
<1>2. status'[t] = "COMPLETING" /\ charged' = charged /\ basket' = basket /\ record' = record
  BY DEF BeginAttempt, CoreInv, TypeOK, ledger
<1>3. saga'[t] = [state |-> "RESERVING", epoch |-> saga[t].epoch + 1,
                  total |-> basket[t], fresh |-> TRUE]
  BY DEF BeginAttempt, CoreInv, TypeOK
<1>4. driver'[d] = [pc |-> "reserve", tx |-> t, epoch |-> saga[t].epoch + 1,
                    total |-> basket[t], again |-> FALSE, seen |-> "NONE"]
  BY DEF BeginAttempt, JobAt, CoreInv, TypeOK, Drivers
<1> QED BY <1>1, <1>2, <1>3, <1>4

-----------------------------------------------------------------------------
(* The ledger's side of SoleInv, one conjunct at a time *)

\* A record that is over stays over; one that holds the stock of an attempt that
\* is not being rolled back keeps it.
LEMMA OverStays ==
  ASSUME CoreInv, Next, NEW t \in Tx, NEW e \in Epochs, Over(t, e)
  PROVE  Over(t, e)'
BY RecordCases DEF Over, StateOf

LEMMA AppliedStays ==
  ASSUME SoleInv, Next, NEW t \in Tx, NEW e \in Epochs,
         StateOf(t, e) = "APPLIED", e = saga[t].epoch,
         saga[t].state \in {"RESERVING", "RESERVED", "COMPLETED"}
  PROVE  record'[t][e] = record[t][e]
<1> USE DEF SoleInv, RaceInv
<1>1. ASSUME NEW m \in requests, m.tx = t, m.epoch = e, m.type = "release" PROVE FALSE
  BY <1>1 DEF ReleaseMeansRollback
<1> QED BY <1>1, RecordCases

LEMMA EndedStep ==
  ASSUME SoleDriver, SoleInv, Next
  PROVE  EndedAttemptsOver'
<1> USE DEF SoleInv, RaceInv
<1> SUFFICES ASSUME NEW t \in Tx, NEW e \in Epochs,
                    e < saga'[t].epoch \/ (e = saga'[t].epoch /\ saga'[t].state = "ABORTED")
             PROVE  Over(t, e)'
  BY DEF EndedAttemptsOver
<1>1. saga[t].epoch \in Nat /\ e \in Nat
  BY EpochsAreNumbers DEF Epochs
<1>2. CASE saga'[t].epoch = saga[t].epoch /\ saga'[t].state = saga[t].state
  BY <1>2, OverStays DEF EndedAttemptsOver
<1>3. ASSUME NEW d \in Handlers, BeginAttempt(d, t) PROVE Over(t, e)
  <2>1. saga'[t].epoch = saga[t].epoch + 1 /\ saga'[t].state = "RESERVING"
    BY <1>3, BeginEffect
  <2>2. saga[t].state = "ABORTED" \/ (saga[t].state = "NONE" /\ saga[t].epoch = 0)
    BY <1>3, BeginEffect DEF CoreInv, Numbered
  <2>3. e < saga[t].epoch \/ e = saga[t].epoch
    BY <1>1, <2>1
  <2>4. e # 0
    BY DEF Epochs
  <2> QED BY <1>1, <2>2, <2>3, <2>4 DEF EndedAttemptsOver
<1>4. ASSUME NEW d \in Drivers, RowDriven(d, t) PROVE Over(t, e)
  <2>1. saga'[t].epoch = saga[t].epoch
    BY <1>4 DEF RowDriven
  <2>2. CASE Reopen(d)
    <3>1. driver[d].pc = "reopen" /\ driver[d].tx = t /\ driver[d].pc \in Live
      BY <1>4, <2>2 DEF Reopen, RowDriven, Drives
    <3>2. Over(t, saga[t].epoch)
      BY <3>1 DEF DriverIsCurrent
    <3> QED BY <2>1, <3>2 DEF EndedAttemptsOver
  <2>3. CASE ~ Reopen(d)
    BY <1>4, <2>1, <2>3 DEF RowDriven, EndedAttemptsOver
  <2> QED BY <2>2, <2>3
<1> QED BY <1>2, <1>3, <1>4, OverStays, RowCases DEF RowKept

LEMMA RollbackStep ==
  ASSUME SoleDriver, SoleInv, Next
  PROVE  ReleaseMeansRollback'
<1> USE DEF SoleInv, RaceInv
<1>0. CoreInv'
  BY CoreStep
<1>1. ASSUME NEW m \in requests', m.type = "release", m.epoch = saga'[m.tx].epoch
      PROVE  saga'[m.tx].state \in {"COMPENSATING", "ABORTED"}
  <2> DEFINE t == m.tx
  <2>1. t \in Tx /\ m.epoch \in Nat /\ saga[t].epoch \in Nat
    BY <1>0, EpochsAreNumbers
       DEF CoreInv, TypeOK, LedgerTypeOK, ReserveRequest, ReleaseRequest, Epochs
  <2> HIDE DEF t
  <2>2. CASE m \in requests
    <3>1. m.epoch <= saga[t].epoch
      BY <2>1, <2>2 DEF Begun, OnlyBegunAttempts, t
    <3>2. ASSUME saga'[t].epoch = saga[t].epoch
          PROVE  saga[t].state \in {"COMPENSATING", "ABORTED"}
      BY <1>1, <2>2, <3>2 DEF ReleaseMeansRollback, t
    <3>3. ASSUME NEW d \in Handlers, BeginAttempt(d, t) PROVE FALSE
      BY <1>1, <2>1, <3>1, <3>3, BeginEffect DEF t
    <3>4. ASSUME NEW d \in Drivers, RowDriven(d, t)
          PROVE  saga'[t].state \in {"COMPENSATING", "ABORTED"}
      <4>1. driver[d].tx = t /\ driver[d].pc \in Live
        BY <3>4 DEF RowDriven, Drives
      <4>2. saga[t].state \in {"COMPENSATING", "ABORTED"}
        BY <3>2, <3>4 DEF RowDriven
      <4>3. driver[d].pc \notin {"reserved", "finalize"}
        BY <4>1, <4>2 DEF DriverIsCurrent
      <4> QED BY <3>4, <4>3 DEF RowDriven, RecordReserved, Finalize
    <3> QED BY <2>1, <3>2, <3>3, <3>4, RowCases DEF RowKept, t
  <2>3. CASE m \notin requests
    <3>1. PICK d \in Drivers : MarkCompensating(d) /\ m = Release(driver[d].tx, driver[d].epoch)
      BY <1>1, <2>3, RequestStep DEF Reservation
    <3>2. driver[d].tx = t /\ driver[d].pc \in Live
      BY <3>1 DEF Release, MarkCompensating, Live, t
    <3>3. saga[t].state \notin Closed /\ SetState(t, "COMPENSATING")
      BY <2>1, <3>1, <3>2 DEF MarkCompensating, DriverIsCurrent, CoreInv, RowsAgree
    <3> QED BY <2>1, <3>3, SetStateEffect DEF CoreInv, SagaState, t
  <2> QED BY <2>2, <2>3
<1>2. ASSUME NEW t \in Tx, NEW e \in Epochs, StateOf(t, e)' = "RELEASED"
      PROVE  Release(t, e) \in requests'
  <2>1. requests \subseteq requests'
    BY RequestStep
  <2>2. CASE StateOf(t, e) = "RELEASED"
    BY <2>1, <2>2 DEF ReleaseMeansRollback
  <2>3. CASE StateOf(t, e) # "RELEASED"
    <3>1. PICK m \in requests : m.tx = t /\ m.epoch = e /\ m.type = "release"
      BY <1>2, <2>3, RecordCases DEF StateOf
    <3>2. m = Release(t, e)
      BY <3>1 DEF Release, CoreInv, TypeOK, LedgerTypeOK, ReserveRequest, ReleaseRequest
    <3> QED BY <2>1, <3>1, <3>2
  <2> QED BY <2>2, <2>3
<1> QED BY <1>1, <1>2 DEF ReleaseMeansRollback, StateOf

LEMMA ReservedHoldsStep ==
  ASSUME SoleDriver, SoleInv, Next
  PROVE  ReservedHolds'
<1> USE DEF SoleInv, RaceInv
<1> SUFFICES ASSUME NEW t \in Tx, saga'[t].state \in {"RESERVED", "COMPLETED"}
             PROVE  saga'[t].epoch \in Epochs /\ record'[t][saga'[t].epoch].state = "APPLIED"
  BY DEF ReservedHolds, StateOf
<1>1. saga'[t].epoch = saga[t].epoch /\ saga[t].epoch \in Epochs
      /\ StateOf(t, saga[t].epoch) = "APPLIED"
      /\ saga[t].state \in {"RESERVING", "RESERVED", "COMPLETED"}
  <2>1. CASE saga'[t].epoch = saga[t].epoch /\ saga'[t].state = saga[t].state
    BY <2>1 DEF ReservedHolds
  <2>2. ASSUME NEW d \in Handlers, BeginAttempt(d, t) PROVE FALSE
    BY <2>2, BeginEffect
  <2>3. ASSUME NEW d \in Drivers, RowDriven(d, t)
        PROVE  /\ saga'[t].epoch = saga[t].epoch /\ saga[t].epoch \in Epochs
               /\ StateOf(t, saga[t].epoch) = "APPLIED"
               /\ saga[t].state \in {"RESERVING", "RESERVED", "COMPLETED"}
    <3>1. driver[d].pc \in {"reserved", "finalize"} /\ driver[d].tx = t /\ driver[d].pc \in Live
      BY <2>3 DEF RowDriven, Drives, RecordReserved, Finalize
    <3>2. saga[t].state \in {"RESERVING", "RESERVED"} /\ StateOf(t, saga[t].epoch) = "APPLIED"
      BY <3>1 DEF DriverIsCurrent, ReservedHolds
    <3> QED BY <2>3, <3>2 DEF RowDriven, CoreInv, Numbered
  <2> QED BY <2>1, <2>2, <2>3, RowCases DEF RowKept
<1> QED BY <1>1, AppliedStays DEF StateOf

LEMMA OrphanedStep ==
  ASSUME SoleDriver, SoleInv, Next
  PROVE  NothingOrphaned'
<1> USE DEF SoleInv, RaceInv
<1> SUFFICES ASSUME NEW t \in Tx, NEW e \in Epochs, StateOf(t, e)' = "APPLIED"
             PROVE  e = saga'[t].epoch /\ status'[t] \in {"COMPLETING", "COMPLETED"}
  BY DEF NothingOrphaned, StateOf
<1>1. CASE StateOf(t, e) = "APPLIED"
  <2>1. e = saga[t].epoch /\ status[t] \in {"COMPLETING", "COMPLETED"}
    BY <1>1 DEF NothingOrphaned
  <2>2. ASSUME NEW d \in Handlers, BeginAttempt(d, t) PROVE FALSE
    BY <2>1, <2>2, BeginEffect
  <2>3. ASSUME NEW d \in Drivers, RowDriven(d, t), Reopen(d) PROVE FALSE
    <3>1. driver[d].pc = "reopen" /\ driver[d].tx = t /\ driver[d].pc \in Live
      BY <2>3 DEF Reopen, RowDriven, Drives
    <3>2. Over(t, saga[t].epoch)
      BY <3>1 DEF DriverIsCurrent
    <3> QED BY <1>1, <2>1, <3>2 DEF Over
  <2> QED BY <2>1, <2>2, <2>3, RowCases DEF RowKept, RowDriven
<1>2. CASE StateOf(t, e) # "APPLIED"
  <2>1. PICK m \in requests : m.tx = t /\ m.epoch = e /\ StateOf(t, e) = "NONE"
    BY <1>2, RecordCases DEF StateOf
  <2>2. saga' = saga /\ status' = status
    BY <1>2, RecordCases DEF StateOf, checkoutVars
  <2>3. e = saga[t].epoch
    <3>1. e <= saga[t].epoch /\ e \in Nat /\ saga[t].epoch \in Nat
      BY <2>1, EpochsAreNumbers DEF Begun, OnlyBegunAttempts, Epochs
    <3>2. ~ (e < saga[t].epoch)
      BY <2>1 DEF EndedAttemptsOver, Over
    <3> QED BY <3>1, <3>2
  <2>4. saga[t].state \notin {"ABORTED", "NONE", "COMPLETED"}
    <3>1. saga[t].state # "ABORTED"
      BY <2>1, <2>3 DEF EndedAttemptsOver, Over
    <3>2. saga[t].state # "NONE"
      BY <2>3 DEF CoreInv, Numbered, Epochs
    <3>3. saga[t].state # "COMPLETED"
      BY <2>1, <2>3 DEF ReservedHolds
    <3> QED BY <3>1, <3>2, <3>3
  <2> QED BY <2>2, <2>3, <2>4 DEF CoreInv, RowsAgree, Closed
<1> QED BY <1>1, <1>2

LEMMA PricedStep ==
  ASSUME SoleDriver, SoleInv, Next
  PROVE  PricedAsTaken'
<1> USE DEF SoleInv, RaceInv
<1>1. ASSUME NEW t \in Tx, status'[t] = "COMPLETING"
      PROVE  saga'[t].epoch \in Epochs /\ saga'[t].total = basket'[t]
  <2>1. basket'[t] = basket[t]
    BY <1>1, StatusStep
  <2>2. ASSUME NEW d \in Handlers, BeginAttempt(d, t)
        PROVE  saga'[t].epoch \in Epochs /\ saga'[t].total = basket'[t]
    BY <2>2, BeginEffect, CoreStep DEF CoreInv, Numbered
  <2>3. ASSUME NEW d \in Drivers, RowDriven(d, t)
        PROVE  saga'[t].epoch \in Epochs /\ saga'[t].total = basket'[t]
    BY <1>1, <2>1, <2>3 DEF RowDriven, PricedAsTaken
  <2> QED BY <1>1, <2>1, <2>2, <2>3, RowCases DEF RowKept, PricedAsTaken
<1>2. ASSUME NEW t \in Tx, status'[t] = "COMPLETED"
      PROVE  charged'[t] = basket'[t]
  <2>1. basket'[t] = basket[t]
    BY <1>2, StatusStep
  <2>2. ASSUME NEW d \in Handlers, BeginAttempt(d, t) PROVE FALSE
    BY <1>2, <2>2, BeginEffect
  <2>3. ASSUME NEW d \in Drivers, RowDriven(d, t) PROVE charged'[t] = basket'[t]
    <3>1. driver[d].tx = t /\ driver[d].pc \in Live
      BY <2>3 DEF RowDriven, Drives
    <3>2. status[t] = "COMPLETING" /\ driver[d].total = basket[t]
      BY <3>1 DEF DriverIsCurrent, PricedAsTaken
    <3> QED BY <1>2, <2>1, <2>3, <3>2 DEF RowDriven
  <2> QED BY <1>2, <2>1, <2>2, <2>3, RowCases DEF RowKept, PricedAsTaken
<1>3. ASSUME NEW t \in Tx, NEW e \in Epochs, StateOf(t, e)' = "APPLIED"
      PROVE  record'[t][e].lines = basket'[t]
  <2>1. CASE record'[t][e] = record[t][e]
    <3>1. StateOf(t, e) = "APPLIED"
      BY <1>3, <2>1 DEF StateOf
    <3>2. status[t] \in {"COMPLETING", "COMPLETED"}
      BY <3>1 DEF NothingOrphaned
    <3>3. basket'[t] = basket[t]
      BY <3>2, StatusStep
    <3> QED BY <2>1, <3>1, <3>3 DEF PricedAsTaken
  <2>2. CASE record'[t][e] # record[t][e]
    <3>1. PICK m \in requests : /\ m.tx = t /\ m.epoch = e /\ m.type = "reserve"
                                /\ StateOf(t, e) = "NONE" /\ record'[t][e].lines = m.lines
      BY <1>3, <2>2, RecordCases DEF StateOf
    <3>2. UNCHANGED checkoutVars
      BY <2>2, RecordCases
    <3>3. e = saga[t].epoch /\ status[t] \in {"COMPLETING", "COMPLETED"}
      BY <1>3, <3>2, OrphanedStep DEF NothingOrphaned, StateOf, checkoutVars
    <3>4. status[t] # "COMPLETED"
      BY <3>1, <3>3 DEF CoreInv, RowsAgree, ReservedHolds
    <3> QED BY <3>1, <3>2, <3>3, <3>4 DEF AsksForBasket, checkoutVars
  <2> QED BY <2>1, <2>2
<1> QED BY <1>1, <1>2, <1>3 DEF PricedAsTaken, StateOf

-----------------------------------------------------------------------------
(* The drivers' side of SoleInv, one conjunct at a time *)

\* What DriverIsCurrent says of one driver.
Current(d) ==
  LET t == driver[d].tx IN
  /\ t \in Tx
  /\ status[t] = "COMPLETING"
  /\ driver[d].epoch = saga[t].epoch
  /\ driver[d].total = saga[t].total
  /\ driver[d].pc \in {"reserve", "reserved"} => saga[t].state \in {"RESERVING", "RESERVED"}
  /\ driver[d].pc = "reserved" => StateOf(t, saga[t].epoch) = "APPLIED"
  /\ driver[d].pc = "finalize" => saga[t].state = "RESERVED"
  /\ driver[d].pc = "release" => saga[t].state = "COMPENSATING"
  /\ driver[d].pc = "reopen" => Over(t, saga[t].epoch)

\* A driver that is not disturbed stays current: only it moves its rows on.
LEMMA UndisturbedIsCurrent ==
  ASSUME SoleDriver, SoleInv, Next, NEW c \in Drivers,
         driver[c].pc \in Live, driver'[c] = driver[c]
  PROVE  Current(c)'
<1> DEFINE t == driver[c].tx
<1> USE DEF SoleInv, RaceInv
<1>1. Current(c) /\ t \in Tx /\ Drives(c, t) /\ saga[t].epoch \in Epochs
  BY DEF DriverIsCurrent, Current, Drives, PricedAsTaken
<1>2. Attended(t)
  BY <1>1 DEF Attended
<1>3. ~ \E d \in Handlers : BeginAttempt(d, t)
  BY <1>1, BeginEffect DEF Current
<1>4. ~ \E d \in Drivers : RowDriven(d, t)
  <2> SUFFICES ASSUME NEW d \in Drivers, RowDriven(d, t) PROVE FALSE
    OBVIOUS
  <2>1. d = c
    BY <1>1 DEF OneAttendant, RowDriven
  <2>2. /\ driver[c].pc = "reserved" => ~ Goto(c, "finalize")
        /\ driver[c].pc = "mark" => ~ Goto(c, "release")
        /\ driver[c].pc = "reopen" => ~ Goto(c, "begin")
    BY GotoType DEF PC, CoreInv
  <2>3. ~ Finished(c)
    BY FinishedType DEF NoJob, Live, CoreInv
  <2> QED BY <2>1, <2>2, <2>3 DEF RowDriven, RecordReserved, MarkCompensating, Finalize, Reopen
<1>5. saga'[t].state = saga[t].state /\ saga'[t].epoch = saga[t].epoch
      /\ saga'[t].total = saga[t].total /\ status'[t] = status[t]
  BY <1>1, <1>2, <1>3, <1>4, RowCases DEF RowKept, Current
<1>6. driver[c].pc = "reserved" => StateOf(t, saga[t].epoch)' = "APPLIED"
  <2> SUFFICES ASSUME driver[c].pc = "reserved"
               PROVE  record'[t][saga[t].epoch].state = "APPLIED"
    BY <1>5 DEF StateOf
  <2>1. StateOf(t, saga[t].epoch) = "APPLIED" /\ saga[t].state \in {"RESERVING", "RESERVED"}
    BY <1>1 DEF Current
  <2>2. record'[t][saga[t].epoch] = record[t][saga[t].epoch]
    BY <1>1, <2>1, AppliedStays
  <2> QED BY <2>1, <2>2 DEF StateOf
<1>7. driver[c].pc = "reopen" => Over(t, saga[t].epoch)'
  <2> SUFFICES ASSUME driver[c].pc = "reopen"
               PROVE  record'[t][saga[t].epoch].state \in {"REJECTED", "RELEASED"}
    BY <1>5 DEF Over, StateOf
  <2> DEFINE e == saga[t].epoch
  <2>1. Over(t, e)
    BY <1>1 DEF Current
  <2> HIDE DEF e
  <2>2. e \in Epochs /\ Over(t, e)
    BY <1>1, <2>1 DEF e
  <2>3. \/ record'[t][e] = record[t][e] \/ record'[t][e].state \in {"REJECTED", "RELEASED"}
    BY <1>1, <2>2, RecordCases DEF StateOf, Over
  <2> QED BY <2>2, <2>3 DEF Over, StateOf, e
<1> QED BY <1>1, <1>5, <1>6, <1>7 DEF Current

\* A driver that begins on a saga is current.
LEMMA NewDriverIsCurrent ==
  ASSUME SoleDriver, SoleInv, Next, NEW c \in Drivers, driver'[c].pc \in Live,
         \/ c \in Handlers /\ \E t \in Tx :
              \/ BeginAttempt(c, t) \/ TakeOver(c, t)
              \/ ReadForTakeover(c, t) \/ ResumeRollback(c, t)
         \/ c \in Loops /\ \E row \in claimed[c] : NextRow(c, row)
  PROVE  Current(c)'
<1> USE DEF SoleInv, RaceInv, CoreInv, TypeOK
<1>1. ASSUME c \in Handlers, NEW t \in Tx, BeginAttempt(c, t) PROVE Current(c)'
  BY <1>1, BeginEffect DEF Current
<1>2. ASSUME c \in Handlers, NEW t \in Tx, TakeOver(c, t) PROVE Current(c)'
  <2>1. /\ status[t] = "COMPLETING" /\ saga[t].state \in {"RESERVING", "RESERVED"}
        /\ driver[c].epoch = saga[t].epoch /\ driver[c].total = saga[t].total
        /\ SetState(t, saga[t].state)
    BY <1>2, TakerIsCurrent
  <2>2. /\ driver'[c].pc = "reserve" /\ driver'[c].tx = t
        /\ driver'[c].epoch = saga[t].epoch /\ driver'[c].total = saga[t].total
        /\ status'[t] = "COMPLETING"
    BY <1>2, <2>1, TakeOverContinues DEF TakeOver, Continues
  <2>3. saga[t].state \in SagaState /\ saga[t].state \notin Closed
    BY <2>1 DEF SagaState, Closed
  <2>4. /\ saga'[t].state = saga[t].state
        /\ saga'[t].epoch = saga[t].epoch /\ saga'[t].total = saga[t].total
    BY <2>1, <2>3, SetStateEffect
  <2> QED BY <2>1, <2>2, <2>4 DEF Current
<1>3. ASSUME c \in Handlers, NEW t \in Tx, ResumeRollback(c, t) PROVE Current(c)'
  BY <1>3 DEF ResumeRollback, JobAt, Current
<1>4. ASSUME c \in Loops, NEW row \in claimed[c], NextRow(c, row) PROVE Current(c)'
  <2>1. /\ driver'[c].tx = row.tx /\ driver'[c].epoch = row.epoch
        /\ driver'[c].total = row.total
        /\ driver'[c].pc = IF row.state = "RESERVED" THEN "finalize" ELSE "mark"
        /\ status' = status /\ saga' = saga
    BY <1>4 DEF NextRow, JobAt
  <2>2. row.tx \in Tx
    BY <1>4 DEF Row
  <2> QED BY <1>4, <2>1, <2>2 DEF ClaimIsCurrent, Current
<1>5. \A t \in Tx : ~ ReadForTakeover(c, t)
  BY DEF ReadForTakeover, JobAt, Live
<1> QED BY <1>1, <1>2, <1>3, <1>4, <1>5

\* A reply that a driver waits for says how its attempt stands.
LEMMA AnswersAreCurrent ==
  ASSUME SoleInv, NEW c \in Drivers, driver[c].pc \in Live
  PROVE  LET t == driver[c].tx IN
         /\ (Answered(c, "reserved") /\ saga[t].state \in {"RESERVING", "RESERVED"})
               => StateOf(t, saga[t].epoch) = "APPLIED"
         /\ (Answered(c, "rejected") \/ Answered(c, "refused") \/ Answered(c, "released"))
               => Over(t, saga[t].epoch)
<1> DEFINE t == driver[c].tx
           e == saga[t].epoch
<1> USE DEF SoleInv, RaceInv
<1>1. t \in Tx /\ driver[c].epoch = e /\ e \in Epochs
  BY DEF DriverIsCurrent, PricedAsTaken
<1> HIDE DEF t, e
<1>2. ASSUME Answered(c, "reserved"), saga[t].state \in {"RESERVING", "RESERVED"}
      PROVE  StateOf(t, e) = "APPLIED"
  <2>1. StateOf(t, e) \in {"APPLIED", "RELEASED"}
    BY <1>1, <1>2 DEF Answered, RepliesReportRecords, t
  <2>2. CASE StateOf(t, e) = "RELEASED"
    <3>1. Release(t, e) \in requests
      BY <1>1, <2>2 DEF ReleaseMeansRollback
    <3>2. Release(t, e).type = "release" /\ Release(t, e).tx = t /\ Release(t, e).epoch = e
      BY DEF Release
    <3> QED BY <1>2, <3>1, <3>2 DEF ReleaseMeansRollback, e
  <2> QED BY <2>1, <2>2
<1>3. ASSUME Answered(c, "rejected") \/ Answered(c, "refused") \/ Answered(c, "released")
      PROVE  Over(t, e)
  BY <1>1, <1>3 DEF Answered, RepliesReportRecords, Over, t
<1> QED BY <1>2, <1>3 DEF t, e

\* A driver that moves on within its attempt stays current.
LEMMA MovedIsCurrent ==
  ASSUME SoleDriver, SoleInv, Next, NEW c \in Drivers, driver'[c].pc \in Live,
         DriverMoves(c)
  PROVE  Current(c)'
<1> DEFINE t == driver[c].tx
           e == saga[t].epoch
<1> USE DEF SoleInv, RaceInv
<1>0. ~ Finished(c)
  BY FinishedType DEF NoJob, Live, CoreInv
<1>1. driver[c].pc \in Live
  BY <1>0 DEF DriverMoves, Waits, GotReserved, GotRefusal, ReserveTimesOut, RecordReserved,
              Finalize, FinalizeFails, FinalizeAckLost, MarkCompensating, GotReleased,
              ReleaseTimesOut, Reopen, DriverDies, Live
<1>2. Current(c) /\ t \in Tx /\ e \in Epochs
  BY <1>1 DEF DriverIsCurrent, Current, PricedAsTaken
<1>3. ASSUME NEW pc \in PC, Goto(c, pc)
      PROVE  /\ driver'[c].pc = pc /\ driver'[c].tx = t
             /\ driver'[c].epoch = driver[c].epoch /\ driver'[c].total = driver[c].total
  BY <1>3, GotoType DEF CoreInv
<1>4. ASSUME UNCHANGED <<ledgerVars, status, basket, charged, saga>>,
             \/ Goto(c, "mark")
             \/ Goto(c, "reserved") /\ driver[c].pc = "reserve" /\ Answered(c, "reserved")
             \/ /\ Goto(c, "reopen")
                /\ Answered(c, "rejected") \/ Answered(c, "refused") \/ Answered(c, "released")
      PROVE  Current(c)'
  <2>1. status' = status /\ saga' = saga /\ record' = record
    BY <1>4 DEF ledgerVars
  <2>2. CASE Goto(c, "mark")
    BY <1>2, <1>3, <2>1, <2>2 DEF Current, PC
  <2>3. CASE Goto(c, "reserved") /\ driver[c].pc = "reserve" /\ Answered(c, "reserved")
    <3>1. saga[t].state \in {"RESERVING", "RESERVED"}
      BY <1>2, <2>3 DEF Current
    <3>2. StateOf(t, e) = "APPLIED"
      BY <1>1, <2>3, <3>1, AnswersAreCurrent
    <3> QED BY <1>2, <1>3, <2>1, <2>3, <3>1, <3>2 DEF Current, PC, StateOf
  <2>4. CASE /\ Goto(c, "reopen")
             /\ Answered(c, "rejected") \/ Answered(c, "refused") \/ Answered(c, "released")
    <3>1. Over(t, e)
      BY <1>1, <2>4, AnswersAreCurrent
    <3> QED BY <1>2, <1>3, <2>1, <2>4, <3>1 DEF Current, PC, Over, StateOf
  <2> QED BY <1>4, <2>2, <2>3, <2>4
<1>5. CASE Waits(c)
  BY <1>0, <1>4, <1>5 DEF Waits, GotReserved, GotRefusal, ReserveTimesOut, FinalizeFails,
                    GotReleased, ReleaseTimesOut, DriverDies, AfterFailure
<1>6. CASE RecordReserved(c) \/ MarkCompensating(c)
  <2>1. status' = status /\ saga[t].state \notin Closed
    BY <1>2, <1>6 DEF RecordReserved, MarkCompensating, Current, CoreInv, RowsAgree
  <2>2. \/ SetState(t, "RESERVED") /\ Goto(c, "finalize")
        \/ SetState(t, "COMPENSATING") /\ Goto(c, "release")
    BY <1>6 DEF RecordReserved, MarkCompensating
  <2> HIDE DEF t, e
  <2>3. /\ saga'[t].epoch = saga[t].epoch /\ saga'[t].total = saga[t].total
        /\ \/ saga'[t].state = "RESERVED" /\ Goto(c, "finalize")
           \/ saga'[t].state = "COMPENSATING" /\ Goto(c, "release")
    BY <1>2, <2>1, <2>2, SetStateEffect DEF CoreInv, SagaState
  <2>4. /\ \/ driver'[c].pc = "finalize" /\ saga'[t].state = "RESERVED"
           \/ driver'[c].pc = "release" /\ saga'[t].state = "COMPENSATING"
        /\ driver'[c].tx = t
        /\ driver'[c].epoch = driver[c].epoch /\ driver'[c].total = driver[c].total
    BY <1>3, <2>3 DEF PC
  <2> QED BY <1>2, <2>1, <2>3, <2>4 DEF Current, t
<1>7. ~ (Finalize(c) \/ FinalizeAckLost(c))
  BY <1>0 DEF Finalize, FinalizeAckLost, SoleDriver
<1>8. ~ Reopen(c)
  BY <1>0, <1>3 DEF Reopen, PC, Live
<1> QED BY <1>5, <1>6, <1>7, <1>8 DEF DriverMoves

LEMMA CurrentStep ==
  ASSUME SoleDriver, SoleInv, Next
  PROVE  DriverIsCurrent'
<1> SUFFICES ASSUME NEW c \in Drivers, driver'[c].pc \in Live PROVE Current(c)'
  BY DEF DriverIsCurrent, Current, Over, StateOf
<1>1. driver'[c] # NoJob
  BY DEF NoJob, Live
<1>2. driver'[c] = driver[c] => Current(c)'
  BY UndisturbedIsCurrent
<1> QED BY <1>1, <1>2, JobStep, NewDriverIsCurrent, MovedIsCurrent DEF SoleInv, RaceInv

LEMMA ClaimCurrentStep ==
  ASSUME SoleDriver, SoleInv, Next
  PROVE  ClaimIsCurrent'
<1> USE DEF SoleInv, RaceInv
<1> SUFFICES ASSUME NEW c \in Loops, NEW row \in claimed'[c]
             PROVE  /\ status'[row.tx] = "COMPLETING"
                    /\ row.epoch = saga'[row.tx].epoch
                    /\ row.total = saga'[row.tx].total
                    /\ row.state = saga'[row.tx].state
  BY DEF ClaimIsCurrent
<1>1. ASSUME row \in claimed[c]
      PROVE  /\ status'[row.tx] = "COMPLETING"
             /\ row.epoch = saga'[row.tx].epoch
             /\ row.total = saga'[row.tx].total
             /\ row.state = saga'[row.tx].state
  <2> DEFINE t == row.tx
  <2>1. /\ t \in Tx /\ c \in Drivers /\ HasClaim(c, t)
        /\ status[t] = "COMPLETING" /\ row.epoch = saga[t].epoch
        /\ row.total = saga[t].total /\ row.state = saga[t].state
    BY <1>1, EpochsAreNumbers DEF Drivers, HasClaim, ClaimIsCurrent
  <2>2. Attended(t)
    BY <2>1 DEF Attended
  <2>3. ~ \E d \in Handlers : BeginAttempt(d, t)
    BY <2>1, BeginEffect
  <2>4. ASSUME NEW d \in Drivers, RowDriven(d, t) PROVE FALSE
    <3>1. Drives(d, t)
      BY <2>4 DEF RowDriven
    <3>2. d = c
      BY <2>1, <3>1 DEF OneAttendant
    <3> QED BY <1>1, <3>1, <3>2 DEF OneAttendant
  <2> HIDE DEF t
  <2>5. saga'[t].state = saga[t].state /\ saga'[t].epoch = saga[t].epoch
        /\ saga'[t].total = saga[t].total /\ status'[t] = status[t]
    <3>1. ~ \E d \in Drivers : RowDriven(d, t)
      BY <2>4
    <3> QED BY <2>1, <2>2, <2>3, <3>1, RowCases DEF RowKept
  <2> QED BY <2>1, <2>5 DEF t
<1>2. ASSUME NEW stuck \in SUBSET Tx, ClaimStuck(c, stuck), NEW t \in stuck, row = RowOf(t)
      PROVE  /\ status'[row.tx] = "COMPLETING"
             /\ row.epoch = saga'[row.tx].epoch
             /\ row.total = saga'[row.tx].total
             /\ row.state = saga'[row.tx].state
  <2>1. row.tx = t /\ row.epoch = saga[t].epoch /\ row.total = saga[t].total
        /\ row.state = saga[t].state
    BY <1>2 DEF RowOf
  <2>2. status'[t] = "COMPLETING"
    BY <1>2 DEF ClaimStuck, Stuck, CoreInv, RowsAgree
  <2>3. saga[t] \in Saga /\ saga'[t] = [saga[t] EXCEPT !.fresh = TRUE]
    BY <1>2 DEF ClaimStuck, CoreInv, TypeOK
  <2>4. saga'[t].state = saga[t].state /\ saga'[t].epoch = saga[t].epoch
        /\ saga'[t].total = saga[t].total
    BY <2>3 DEF Saga
  <2> QED BY <2>1, <2>2, <2>4
<1> QED BY <1>1, <1>2, ClaimStep

LEMMA OneAttendantStep ==
  ASSUME SoleDriver, SoleInv, Next
  PROVE  OneAttendant'
<1> USE DEF SoleInv, RaceInv
<1>0. CoreInv'
  BY CoreStep
<1>1. ASSUME NEW c \in Drivers, NEW d \in Drivers, NEW t \in Tx,
             Attends(c, t)', Attends(d, t)'
      PROVE  c = d
  <2>1. \/ Attends(c, t) /\ Attends(d, t)
        \/ Gains(c, t) \/ Gains(d, t)
    BY <1>1, AttendStep
  <2>2. CASE Attends(c, t) /\ Attends(d, t)
    BY <2>2 DEF Attends, OneAttendant
  <2>3. ASSUME NEW a \in Drivers, NEW b \in Drivers, a # b, Gains(a, t), Attends(b, t)'
        PROVE  FALSE
    <3>1. Attends(b, t)
      BY <2>3, GainsDisturbNobody DEF Attends, Drives, HasClaim
    <3> QED BY <2>3, <3>1, GainsUnattended DEF Attends, Attended
  <2> QED BY <1>1, <2>1, <2>2, <2>3
<1>2. ASSUME NEW d \in Loops, NEW row \in claimed'[d], Drives(d, row.tx)' PROVE FALSE
  <2>0. d \in Drivers /\ d \notin Handlers
    BY DriversAssumption DEF Drivers
  <2>1. driver'[d].tx = row.tx /\ driver'[d].pc \in Live
    BY <1>2 DEF Drives
  <2>2. CASE row \in claimed[d]
    <3>1. ~ Drives(d, row.tx)
      BY <2>2 DEF OneAttendant
    <3>2. row.tx \in Tx
      BY <2>2, EpochsAreNumbers
    <3>3. PICK mine \in claimed[d] : NextRow(d, mine)
      <4>1. driver'[d] # driver[d] /\ driver'[d] # NoJob
        BY <2>1, <3>1 DEF Drives, NoJob, Live
      <4>2. ~ (Continues(d) /\ DriverMoves(d))
        <5> SUFFICES ASSUME Continues(d), DriverMoves(d) PROVE FALSE
          OBVIOUS
        <5>1. driver[d].tx = row.tx
          BY <2>1 DEF Continues
        <5>2. ~ Finished(d)
          BY <2>0, <2>1, FinishedType DEF NoJob, Live, CoreInv
        <5>3. driver[d].pc \in Live
          BY <5>2 DEF DriverMoves, Waits, GotReserved, GotRefusal, ReserveTimesOut,
                      RecordReserved, Finalize, FinalizeFails, FinalizeAckLost,
                      MarkCompensating, GotReleased, ReleaseTimesOut, Reopen, DriverDies, Live
        <5> QED BY <3>1, <5>1, <5>3 DEF Drives
      <4> QED BY <2>0, <4>1, <4>2, JobStep
    <3>4. driver'[d].tx = mine.tx /\ claimed'[d] = claimed[d] \ {mine}
      BY <2>0, <3>3 DEF NextRow, JobAt, CoreInv, TypeOK
    <3>5. mine = row
      BY <2>1, <2>2, <3>3, <3>4 DEF OneAttendant
    <3> QED BY <1>2, <3>4, <3>5
  <2>3. CASE row \notin claimed[d]
    <3>1. PICK stuck \in SUBSET Tx : ClaimStuck(d, stuck)
      BY <1>2, <2>3, ClaimStep
    <3>2. driver' = driver /\ driver[d].pc = "idle"
      BY <3>1 DEF ClaimStuck
    <3> QED BY <2>1, <3>2 DEF Live
  <2> QED BY <2>2, <2>3
<1>3. ASSUME NEW d \in Loops, NEW row \in claimed'[d], NEW other \in claimed'[d],
             other.tx = row.tx
      PROVE  other = row
  <2>1. CASE claimed'[d] \subseteq claimed[d]
    BY <1>3, <2>1 DEF OneAttendant
  <2>2. ASSUME NEW stuck \in SUBSET Tx, claimed'[d] = {RowOf(u) : u \in stuck}
        PROVE  other = row
    <3>1. PICK u \in stuck : row = RowOf(u)
      BY <2>2
    <3>2. PICK v \in stuck : other = RowOf(v)
      BY <2>2
    <3>3. u = v
      BY <1>3, <3>1, <3>2 DEF RowOf
    <3> QED BY <3>1, <3>2, <3>3
  <2> QED BY <2>1, <2>2, ClaimStep
<1> QED BY <1>1, <1>2, <1>3 DEF OneAttendant, Attends, Drives, HasClaim

\* Until a takeover writes, its saga keeps the state it has read, and nobody else
\* gets hold of it.
LEMMA TakeoverCurrentStep ==
  ASSUME SoleDriver, SoleInv, Next
  PROVE  TakeoverIsCurrent'
<1> USE DEF SoleInv, RaceInv
<1> SUFFICES ASSUME NEW c \in Drivers, NEW t, t = driver'[c].tx, driver'[c].pc = "takeover"
             PROVE  /\ driver'[c].total = saga'[t].total
                    /\ driver'[c].seen = saga'[t].state
                    /\ ~ saga'[t].fresh
                    /\ \A d \in Drivers : ~ Attends(d, t)'
  BY DEF TakeoverIsCurrent, Attended, Attends, Drives, HasClaim
<1>1. ASSUME driver'[c] = driver[c]
      PROVE  /\ driver'[c].total = saga'[t].total
             /\ driver'[c].seen = saga'[t].state
             /\ ~ saga'[t].fresh
             /\ \A d \in Drivers : ~ Attends(d, t)'
  <2>1. /\ t \in Tx /\ t = driver[c].tx /\ driver[c].pc = "takeover"
        /\ driver[c].total = saga[t].total /\ driver[c].seen = saga[t].state
        /\ ~ saga[t].fresh /\ ~ Attended(t)
    BY <1>1 DEF TakeoverIsCurrent, CoreInv, Numbered
  <2>2. \A d \in Drivers : ~ Gains(d, t)
    <3>1. ~ TakeOver(c, t)
      BY <1>1, <2>1, TakeOverContinues DEF CoreInv
    <3> QED BY <2>1, <3>1, OnlyTakerGains
  <2>3. \A d \in Drivers : ~ Attends(d, t) /\ ~ RowDriven(d, t)
    BY <2>1 DEF Attended, Attends, RowDriven
  <2>4. \A d \in Handlers : ~ BeginAttempt(d, t)
    BY <2>2 DEF Gains, Drivers
  <2>5. \A d \in Drivers : ~ Attends(d, t)'
    BY <2>1, <2>2, <2>3, AttendStep
  <2>6. saga'[t].total = saga[t].total /\ saga'[t].state = saga[t].state /\ ~ saga'[t].fresh
    BY <2>1, <2>2, <2>3, <2>4, RowCases DEF RowKept
  <2> QED BY <1>1, <2>1, <2>5, <2>6
<1>2. ASSUME NEW u \in Tx, ReadForTakeover(c, u), c \in Handlers
      PROVE  /\ driver'[c].total = saga'[t].total
             /\ driver'[c].seen = saga'[t].state
             /\ ~ saga'[t].fresh
             /\ \A d \in Drivers : ~ Attends(d, t)'
  <2>1. /\ t = u /\ driver'[c].total = saga[t].total
        /\ driver'[c].seen = saga[t].state /\ saga' = saga /\ claimed' = claimed
        /\ \A d \in Drivers : d # c => driver'[d] = driver[d]
    BY <1>2 DEF ReadForTakeover, JobAt, CoreInv, TypeOK
  <2>2. t \in Tx /\ saga[t].state \in {"RESERVING", "RESERVED"} /\ ~ saga[t].fresh
    BY <1>2, <2>1 DEF ReadForTakeover, CoreInv, TypeOK, RowsAgree, Closed, Saga, SagaState
  <2>3. ~ Attended(t)
    BY <2>2 DEF AttendedIsFresh
  <2>4. \A d \in Drivers : ~ Attends(d, t)'
    BY <2>1, <2>3 DEF Attended, Attends, Drives, HasClaim, Live
  <2> QED BY <2>1, <2>2, <2>4
<1>3. driver'[c] = driver[c] \/ (c \in Handlers /\ \E u \in Tx : ReadForTakeover(c, u))
  <2>1. driver'[c] # NoJob
    BY DEF NoJob
  <2>2. \A u \in Tx : ~ TakeOver(c, u)
    BY TakeOverContinues DEF CoreInv
  <2>3. \A u \in Tx : ~ BeginAttempt(c, u) /\ ~ ResumeRollback(c, u)
    BY DEF BeginAttempt, ResumeRollback, JobAt, CoreInv, TypeOK
  <2>4. \A row \in claimed[c] : c \in Loops => ~ NextRow(c, row)
    BY DEF NextRow, JobAt, CoreInv, TypeOK
  <2> QED BY <2>1, <2>2, <2>3, <2>4, JobStep
<1> QED BY <1>1, <1>2, <1>3

LEMMA FreshStep ==
  ASSUME SoleDriver, SoleInv, Next
  PROVE  AttendedIsFresh'
<1> USE DEF SoleInv, RaceInv
<1> SUFFICES ASSUME NEW t \in Tx, NEW c \in Drivers, Attends(c, t)',
                    saga'[t].state \in {"RESERVING", "RESERVED"}
             PROVE  saga'[t].fresh
  BY DEF AttendedIsFresh, Attended, Attends, Drives, HasClaim
<1>1. CASE saga'[t] = saga[t]
  <2>1. CASE Attends(c, t)
    BY <1>1, <2>1 DEF Attends, Attended, AttendedIsFresh
  <2>2. CASE c \in Handlers /\ (BeginAttempt(c, t) \/ TakeOver(c, t))
    <3>1. BeginAttempt(c, t) => saga'[t].fresh
      BY <2>2, BeginEffect
    <3>2. ASSUME TakeOver(c, t) PROVE saga'[t].fresh
      <4>1. saga[t].state \in SagaState /\ saga[t].state \notin Closed
            /\ SetState(t, saga[t].state)
        BY <3>2, TakerIsCurrent DEF SagaState, Closed
      <4> QED BY <4>1, SetStateEffect DEF CoreInv
    <3> QED BY <2>2, <3>1, <3>2
  <2>3. CASE c \in Handlers /\ ResumeRollback(c, t)
    BY <1>1, <2>3 DEF ResumeRollback
  <2>4. ASSUME NEW stuck \in SUBSET Tx, t \in stuck, ClaimStuck(c, stuck)
        PROVE  saga'[t].fresh
    <3>1. saga[t] \in Saga /\ saga'[t] = [saga[t] EXCEPT !.fresh = TRUE]
      BY <2>4 DEF ClaimStuck, CoreInv, TypeOK
    <3> QED BY <3>1 DEF Saga
  <2> QED BY <2>1, <2>2, <2>3, <2>4, AttendStep DEF Gains
<1>2. CASE ~ Attended(t) /\ UNCHANGED <<driver, claimed>>
  BY <1>2 DEF Attended, Attends, Drives, HasClaim
<1>3. ASSUME NEW d \in Handlers, BeginAttempt(d, t) PROVE saga'[t].fresh
  BY <1>3, BeginEffect
<1> QED BY <1>1, <1>2, <1>3, RowCases DEF RowDriven

LEMMA ReportsStep ==
  ASSUME CoreInv, RepliesReportRecords, Next
  PROVE  RepliesReportRecords'
<1>1. CASE Inventory
  BY <1>1, RepliesStep DEF Inventory, LedgerNext, CoreInv, TypeOK
<1>2. CASE record' = record /\ replies' = replies
  BY <1>2 DEF RepliesReportRecords, StateOf
<1> QED BY <1>1, <1>2, RecordStep

-----------------------------------------------------------------------------
(* SoleInv *)

LEMMA InitSole == Init => SoleInv
<1> SUFFICES ASSUME Init PROVE SoleInv
  OBVIOUS
<1> USE DEF Init, LedgerInit, StateOf
<1>1. RaceInv
  BY InitRace
<1>2. RepliesReportRecords /\ NothingOrphaned /\ ReleaseMeansRollback /\ ReservedHolds
  BY DEF RepliesReportRecords, NothingOrphaned, ReleaseMeansRollback, ReservedHolds
<1>3. EndedAttemptsOver
  BY DEF EndedAttemptsOver, Epochs
<1>4. PricedAsTaken
  BY DEF PricedAsTaken
<1>5. DriverIsCurrent /\ TakeoverIsCurrent
  BY DEF DriverIsCurrent, TakeoverIsCurrent, NoJob, Live
<1>6. ClaimIsCurrent /\ OneAttendant /\ AttendedIsFresh
  BY DEF ClaimIsCurrent, OneAttendant, AttendedIsFresh, Attended, Drives, HasClaim, NoJob, Live
<1> QED BY <1>1, <1>2, <1>3, <1>4, <1>5, <1>6 DEF SoleInv

LEMMA SoleStep ==
  ASSUME SoleDriver
  PROVE  SoleInv /\ [Next]_vars => SoleInv'
<1> SUFFICES ASSUME SoleInv, [Next]_vars PROVE SoleInv'
  OBVIOUS
<1>1. RaceInv'
  BY RaceStep DEF SoleInv
<1>2. CASE Next
  BY <1>1, <1>2, ReportsStep, OrphanedStep, EndedStep, RollbackStep, ReservedHoldsStep,
     PricedStep, CurrentStep, ClaimCurrentStep, OneAttendantStep, TakeoverCurrentStep, FreshStep
     DEF SoleInv, RaceInv
<1>3. CASE UNCHANGED vars
  BY <1>1, <1>3
     DEF vars, ledgerVars, SoleInv, RepliesReportRecords, NothingOrphaned, EndedAttemptsOver,
         ReleaseMeansRollback, ReservedHolds, PricedAsTaken, DriverIsCurrent, ClaimIsCurrent,
         OneAttendant, TakeoverIsCurrent, AttendedIsFresh, Attended, Drives, HasClaim, Over,
         StateOf
<1> QED BY <1>2, <1>3

-----------------------------------------------------------------------------
(* What follows, when a saga has one driver at a time *)

\* Stock is held only by the attempt in progress or by the sale: no crash,
\* timeout or late reserve orphans it.
THEOREM NoStockOrphaned ==
  ASSUME SoleDriver
  PROVE  Spec => []NothingOrphaned
<1>1. Init => SoleInv
  BY InitSole
<1>2. SoleInv /\ [Next]_vars => SoleInv'
  BY SoleStep
<1>3. SoleInv => NothingOrphaned
  BY DEF SoleInv
<1> QED BY <1>1, <1>2, <1>3, PTL DEF Spec

\* What is sold is reserved, in the attempt that sold it, and charged for: the
\* record, the basket and the price are one and the same.
THEOREM SalesHoldTheirBaskets ==
  ASSUME SoleDriver
  PROVE  Spec => []SoldHoldsItsBasket
<1>1. Init => SoleInv
  BY InitSole
<1>2. SoleInv /\ [Next]_vars => SoleInv'
  BY SoleStep
<1>3. SoleInv => SoldHoldsItsBasket
  BY DEF SoleInv, RaceInv, CoreInv, RowsAgree, ReservedHolds, PricedAsTaken, SoldHoldsItsBasket
<1> QED BY <1>1, <1>2, <1>3, PTL DEF Spec

\* A release is asked for only by the step that marks its attempt COMPENSATING.
THEOREM ReleasesHaveTheirState ==
  ASSUME SoleDriver
  PROVE  Spec => ReleaseHasItsState
<1> DEFINE WithState ==
      \A t \in Tx, e \in Epochs :
        (Release(t, e) \in requests' /\ Release(t, e) \notin requests) =>
          saga'[t].state = "COMPENSATING" /\ saga'[t].epoch = e
<1>1. Init => SoleInv
  BY InitSole
<1>2. SoleInv /\ [Next]_vars => SoleInv'
  BY SoleStep
<1>3. SoleInv /\ [Next]_vars => [WithState]_vars
  <2> SUFFICES ASSUME SoleInv, Next, NEW t \in Tx, NEW e \in Epochs,
                      Release(t, e) \in requests', Release(t, e) \notin requests
               PROVE  saga'[t].state = "COMPENSATING" /\ saga'[t].epoch = e
    OBVIOUS
  <2> USE DEF SoleInv, RaceInv
  <2>1. PICK d \in Drivers : MarkCompensating(d) /\ Release(t, e) = Release(driver[d].tx, driver[d].epoch)
    BY RequestStep DEF Release, Reservation
  <2>2. driver[d].tx = t /\ driver[d].epoch = e
    BY <2>1 DEF Release
  <2>3. driver[d].pc \in Live
    BY <2>1 DEF MarkCompensating, Live
  <2>4. saga[t].epoch = e /\ saga[t].state \notin Closed
    BY <2>2, <2>3 DEF DriverIsCurrent, CoreInv, RowsAgree
  <2>5. SetState(t, "COMPENSATING") /\ "COMPENSATING" \in SagaState
    BY <2>1, <2>2 DEF MarkCompensating, SagaState
  <2> QED BY <2>4, <2>5, SetStateEffect DEF CoreInv
<1> HIDE DEF WithState
<1>4. Spec => [][WithState]_vars
  BY <1>1, <1>2, <1>3, PTL DEF Spec
<1> QED BY <1>4 DEF ReleaseHasItsState, WithState

\* A transaction is finalized only on a reservation that stands.
THEOREM SalesAreReserved ==
  ASSUME SoleDriver
  PROVE  Spec => FinalizedOnReservation
<1> DEFINE OnReservation ==
      \A t \in Tx :
        (status[t] = "COMPLETING" /\ status'[t] = "COMPLETED") =>
          StateOf(t, saga[t].epoch) = "APPLIED" /\ saga[t].state = "RESERVED"
<1>1. Init => SoleInv
  BY InitSole
<1>2. SoleInv /\ [Next]_vars => SoleInv'
  BY SoleStep
<1>3. SoleInv /\ [Next]_vars => [OnReservation]_vars
  <2> SUFFICES ASSUME SoleInv, Next, NEW t \in Tx,
                      status[t] = "COMPLETING", status'[t] = "COMPLETED"
               PROVE  StateOf(t, saga[t].epoch) = "APPLIED" /\ saga[t].state = "RESERVED"
    OBVIOUS
  <2> USE DEF SoleInv, RaceInv
  <2>1. ~ \E d \in Handlers : BeginAttempt(d, t)
    BY BeginEffect
  <2>2. PICK d \in Drivers : RowDriven(d, t)
    BY <2>1, RowCases DEF RowKept
  <2>3. driver[d].tx = t /\ driver[d].pc = "finalize" /\ driver[d].pc \in Live
    BY <2>2 DEF RowDriven, Drives, Finalize
  <2> QED BY <2>3 DEF DriverIsCurrent, ReservedHolds
<1> HIDE DEF OnReservation
<1>4. Spec => [][OnReservation]_vars
  BY <1>1, <1>2, <1>3, PTL DEF Spec
<1> QED BY <1>4 DEF FinalizedOnReservation, OnReservation

-----------------------------------------------------------------------------
(* The reports *)

\* The table f has in row x the entry h[x], in column sel[x], and is 0 elsewhere.
OneEach(f, h, sel, S, E) ==
  /\ \A x \in S : h[x] \in Int /\ (sel[x] \in E \/ h[x] = 0)
  /\ \A x \in S, y \in E : f[<<x, y>>] = IF y = sel[x] THEN h[x] ELSE 0

\* Such a table sums to its entries.
LEMMA SumOfSelected ==
  ASSUME NEW S, IsFiniteSet(S), NEW E, IsFiniteSet(E), NEW f, NEW h, NEW sel,
         OneEach(f, h, sel, S, E)
  PROVE  SumFunctionOnSet(f, S \X E) = SumFunctionOnSet(h, S)
<1> DEFINE K == S \X E
           Up(s) == [k \in K |-> IF k[1] \in s THEN f[k] ELSE 0]
           Fits == {s \in SUBSET S : SumFunctionOnSet(Up(s), K) = SumFunctionOnSet(h, s)}
<1>0. IsFiniteSet(K)
  BY FS_Product
<1>1. \A k \in K : k[1] \in S /\ k[2] \in E /\ k = <<k[1], k[2]>>
  OBVIOUS
<1>2. \A s : \A k \in K : Up(s)[k] = IF k[1] \in s /\ k[2] = sel[k[1]] THEN h[k[1]] ELSE 0
  BY <1>1 DEF OneEach
<1>3. {} \in Fits
  <2>1. SumFunctionOnSet(Up({}), K) = 0
    <3>1. \A k \in K : Up({})[k] = 0
      BY <1>2
    <3> HIDE DEF K, Up
    <3> QED BY <1>0, <3>1, SumOfZeros
  <2> QED BY <2>1, SumEmpty
<1>4. ASSUME NEW s \in SUBSET S, NEW x \in S \ s, s \in Fits PROVE s \union {x} \in Fits
  <2> DEFINE u == s \union {x}
  <2>1. SumFunctionOnSet(h, u) = h[x] + SumFunctionOnSet(h, s)
        /\ SumFunctionOnSet(h, s) \in Int
    <3>1. IsFiniteSet(s) /\ (\A y \in s \union {x} : h[y] \in Int) /\ (\A y \in s : h[y] \in Int)
      BY FS_Subset DEF OneEach
    <3> QED BY <3>1, SumPlus, SumType
  <2>2. SumFunctionOnSet(Up(s), K) = SumFunctionOnSet(h, s)
    BY <1>4
  <2>3. \A k \in K : Up(s)[k] \in Int /\ Up(u)[k] \in Int
    BY <1>1, <1>2 DEF OneEach
  <2>4. CASE sel[x] \in E
    <3> DEFINE i == <<x, sel[x]>>
               before == Up(s)
               after  == Up(u)
    <3>1. i \in K /\ before[i] = 0 /\ after[i] = h[x]
      BY <1>2, <1>4, <2>4
    <3>2. \A k \in K : k # i => after[k] = before[k]
      BY <1>1, <1>2
    <3>3. \A k \in K : before[k] \in Int /\ after[k] \in Int
      BY <2>3
    <3>4. SumFunctionOnSet(before, K) = SumFunctionOnSet(h, s)
      BY <2>2
    <3> HIDE DEF K, Up, i, before, after, u, Fits
    <3>5. \E rest \in Int : /\ SumFunctionOnSet(before, K) = before[i] + rest
                            /\ SumFunctionOnSet(after, K) = after[i] + rest
      <4>1. i \in K /\ \A k \in K : /\ before[k] \in Int /\ after[k] \in Int
                                    /\ (k # i => after[k] = before[k])
        BY <3>1, <3>2, <3>3
      <4> QED BY <1>0, <4>1, SumChange
    <3>6. h[x] \in Int /\ u \in SUBSET S
      BY DEF OneEach, u
    <3>7. SumFunctionOnSet(after, K) = SumFunctionOnSet(h, u)
      BY <2>1, <3>1, <3>4, <3>5, <3>6
    <3> QED BY <3>6, <3>7 DEF after, u, Fits
  <2>5. CASE sel[x] \notin E
    <3>1. h[x] = 0
      BY <2>5 DEF OneEach
    <3>2. \A k \in K : Up(s)[k] \in Int /\ Up(u)[k] = Up(s)[k]
      BY <1>1, <1>2, <2>3, <2>5
    <3> HIDE DEF K, Up, u
    <3>3. SumFunctionOnSet(Up(u), K) = SumFunctionOnSet(Up(s), K)
      BY <1>0, <3>2, SumSame
    <3>4. u \in SUBSET S
      BY DEF u
    <3> QED BY <2>1, <2>2, <3>1, <3>3, <3>4 DEF u
  <2> QED BY <2>4, <2>5
<1>5. S \in Fits
  <2> HIDE DEF Fits
  <2> QED BY <1>3, <1>4, GrowsUp
<1>6. \A k \in K : f[k] \in Int /\ Up(S)[k] = f[k]
  BY <1>1 DEF OneEach
<1> HIDE DEF K, Up
<1>7. SumFunctionOnSet(Up(S), K) = SumFunctionOnSet(f, K)
  BY <1>0, <1>6, SumSame
<1> QED BY <1>5, <1>7 DEF K

\* Inventory keeps its books under this sender as under any other.
LEMMA SagaConserves == CoreInv /\ StockConserved /\ [Next]_vars => StockConserved'
<1> SUFFICES ASSUME CoreInv, StockConserved, [Next]_vars PROVE StockConserved'
  OBVIOUS
<1>1. CASE Inventory
  BY <1>1, ConservedStep DEF Inventory, LedgerNext, CoreInv, TypeOK
<1>2. CASE stock' = stock /\ record' = record
  BY <1>2, SameRecordSameUnits DEF StockConserved
<1> QED BY <1>1, <1>2, RecordStep DEF vars, ledgerVars

\* When nothing is in flight, what reservations hold is what was sold.
LEMMA HeldIsSold ==
  ASSUME SoleInv, Settled, NEW s \in Skus
  PROVE  HeldUnits(s) = SoldUnits(s)
<1> DEFINE f == [k \in Tx \X Epochs |-> Holds(k[1], k[2], s)]
           h == [t \in Tx |-> IF status[t] = "COMPLETED" THEN basket[t][s] ELSE 0]
           sel == [t \in Tx |-> saga[t].epoch]
<1> USE DEF SoleInv, RaceInv, CoreInv
<1>1. ASSUME NEW t \in Tx PROVE h[t] \in Int /\ (sel[t] \in Epochs \/ h[t] = 0)
  BY <1>1 DEF TypeOK, Lines, RowsAgree, ReservedHolds
<1>2. ASSUME NEW t \in Tx, NEW e \in Epochs
      PROVE  f[<<t, e>>] = IF e = sel[t] THEN h[t] ELSE 0
  <2>1. f[<<t, e>>] = Holds(t, e, s)
    OBVIOUS
  <2>2. CASE StateOf(t, e) = "APPLIED"
    <3>1. e = saga[t].epoch /\ status[t] = "COMPLETED"
      BY <2>2 DEF NothingOrphaned, Settled
    <3>2. record[t][e].lines = basket[t]
      BY <2>2 DEF PricedAsTaken
    <3> QED BY <2>1, <2>2, <3>1, <3>2 DEF Holds
  <2>3. CASE StateOf(t, e) # "APPLIED"
    <3>1. e = saga[t].epoch => status[t] # "COMPLETED"
      BY <2>3 DEF RowsAgree, ReservedHolds
    <3> QED BY <2>1, <2>3, <3>1 DEF Holds
  <2> QED BY <2>2, <2>3
<1>3. OneEach(f, h, sel, Tx, Epochs)
  <2> HIDE DEF f, h, sel
  <2> QED BY <1>1, <1>2 DEF OneEach
<1>4. HeldUnits(s) = SumFunctionOnSet(f, Tx \X Epochs) /\ SoldUnits(s) = SumFunctionOnSet(h, Tx)
  BY DEF HeldUnits, SoldUnits, SumFunction
<1> HIDE DEF f, h, sel
<1> QED BY <1>3, <1>4, TxAssumption, AttemptsFinite, SumOfSelected

\* Units and sales, as Inventory and Checkout report them, agree whenever
\* nothing is in flight: the operator's tool passes.
THEOREM StoresAlwaysAgree ==
  ASSUME SoleDriver
  PROVE  Spec => []StoresAgree
<1>1. Init => SoleInv /\ StockConserved
  BY InitSole, InitConserved DEF Init
<1>2. SoleInv /\ StockConserved /\ [Next]_vars => SoleInv' /\ StockConserved'
  BY SoleStep, SagaConserves DEF SoleInv, RaceInv
<1>3. SoleInv /\ StockConserved => StoresAgree
  <2> SUFFICES ASSUME SoleInv, StockConserved, Settled PROVE Check(SoldReport, StockReport)
    BY DEF StoresAgree
  <2> USE DEF SoleInv, RaceInv, CoreInv
  <2>1. ASSUME NEW s \in Skus
        PROVE  Opening[s] - stock[s] = SoldUnits(s) /\ stock[s] >= 0
    <3>1. stock[s] \in Nat /\ Opening[s] \in Nat
      BY OpeningAssumption DEF TypeOK, LedgerTypeOK, Lines
    <3>2. stock[s] + HeldUnits(s) = Opening[s] /\ HeldUnits(s) = SoldUnits(s)
      BY HeldIsSold DEF StockConserved
    <3>3. HeldUnits(s) \in Int
      BY HeldUnitsType DEF TypeOK
    <3> QED BY <3>1, <3>2, <3>3
  <2>2. ASSUME NEW t \in Tx
        PROVE  status[t] = "COMPLETED" <=> \E e \in Epochs : StateOf(t, e) = "APPLIED"
    BY DEF NothingOrphaned, Settled, RowsAgree, ReservedHolds
  <2>3. \A t \in Tx : status[t] # "COMPLETING" /\ saga[t].state \in Closed
    BY DEF Settled
  <2> QED BY <2>1, <2>2, <2>3 DEF Check, SoldReport, StockReport
<1> QED BY <1>1, <1>2, <1>3, PTL DEF Spec

-----------------------------------------------------------------------------
(* The purchase *)

\* An attempt that keeps its number and its record holds what it held.
LEMMA SameHeld ==
  ASSUME NEW t \in Tx, saga'[t].epoch = saga[t].epoch, record'[t] = record[t]
  PROVE  Held(t)' = Held(t)
BY DEF Held, StateOf

\* An open transaction that is not being completed holds nothing.
LEMMA OpenHoldsNothing ==
  ASSUME NothingOrphaned, NEW t \in Tx, status[t] \notin {"COMPLETING", "COMPLETED"}
  PROVE  Held(t) = Nothing
BY DEF NothingOrphaned, Held

\* What nobody outside can tell from no step at all.
Unseen ==
  /\ \A t \in Tx : PhaseOf(status'[t]) = PhaseOf(status[t]) /\ Held(t)' = Held(t)
  /\ UNCHANGED <<basket, charged, stock>>

LEMMA UnseenStutters == Unseen => UNCHANGED P!purchaseVars
BY DEF Unseen, P!purchaseVars

\* Beginning an attempt and every move of a driver but its last, of a claim or
\* of a lease.
LEMMA QuietStep ==
  ASSUME SoleInv, Next, UNCHANGED <<ledger, basket, charged>>,
         \A t \in Tx : PhaseOf(status'[t]) = PhaseOf(status[t])
  PROVE  Unseen
<1> USE DEF SoleInv, RaceInv
<1>1. stock' = stock /\ record' = record
  BY DEF ledger
<1>2. ASSUME NEW t \in Tx PROVE Held(t)' = Held(t)
  <2>1. CASE saga'[t].epoch = saga[t].epoch
    BY <1>1, <2>1, SameHeld
  <2>2. ASSUME NEW d \in Handlers, BeginAttempt(d, t) PROVE Held(t)' = Held(t)
    <3>1. status[t] = "OPEN" /\ saga'[t].epoch = saga[t].epoch + 1
      BY <2>2, BeginEffect
    <3>2. \A e \in Epochs : StateOf(t, e) # "APPLIED"
      BY <3>1 DEF NothingOrphaned
    <3> QED BY <1>1, <3>2 DEF Held, StateOf
  <2> QED BY <2>1, <2>2, EpochStep
<1> QED BY <1>1, <1>2 DEF Unseen

LEMMA ShoppingMaps ==
  ASSUME SoleDriver, SoleInv, Shopping
  PROVE  P!Next \/ UNCHANGED P!purchaseVars
<1> USE DEF SoleInv, RaceInv, CoreInv, TypeOK
<1>0. Next
  BY DEF Next
<1>1. ASSUME NEW t \in Tx, StartTransaction(t) PROVE P!Arrive(t)
  <2>1. record' = record /\ saga' = saga /\ stock' = stock
    BY <1>1 DEF StartTransaction, ledgerVars
  <2>2. \A u \in Tx : Held(u)' = Held(u)
    BY <2>1, SameHeld
  <2> QED BY <1>1, <2>1, <2>2 DEF StartTransaction, P!Arrive, PhaseOf
<1>2. ASSUME NEW t \in Tx, NEW s \in Skus, Scan(t, s) PROVE P!Pick(t, s)
  <2>1. record' = record /\ saga' = saga /\ stock' = stock /\ status[t] = "OPEN"
    BY <1>2 DEF Scan, ledgerVars
  <2>2. \A u \in Tx : Held(u)' = Held(u)
    BY <2>1, SameHeld
  <2>3. Held(t) = Nothing
    BY <2>1, OpenHoldsNothing
  <2> QED BY <1>2, <2>1, <2>2, <2>3 DEF Scan, P!Pick, P!Nothing, PhaseOf, Nothing
<1>3. ASSUME NEW old \in SUBSET Tx, SweepAbandoned(old) PROVE P!Leave(old)
  <2>1. record' = record /\ saga' = saga /\ stock' = stock
    BY <1>3 DEF SweepAbandoned, ledgerVars
  <2>2. \A u \in Tx : Held(u)' = Held(u)
    BY <2>1, SameHeld
  <2>3. \A t \in old : status[t] = "OPEN" /\ Held(t) = Nothing
    BY <1>3, OpenHoldsNothing DEF SweepAbandoned
  <2> QED BY <1>3, <2>1, <2>2, <2>3 DEF SweepAbandoned, P!Leave, P!Nothing, PhaseOf, Nothing
<1>4. ASSUME NEW t \in Tx, LeaseExpires(t) PROVE Unseen
  BY <1>0, <1>4, QuietStep DEF LeaseExpires, ledgerVars, ledger
<1> QED BY <1>1, <1>2, <1>3, <1>4, UnseenStutters DEF Shopping, P!Next

\* A sale sells what the purchase holds, for what it costs.
LEMMA FinalizeMaps ==
  ASSUME SoleDriver, SoleInv, NEW d \in Drivers, Finalize(d)
  PROVE  P!Sell(driver[d].tx)
<1> DEFINE t == driver[d].tx
           e == saga[t].epoch
<1> USE DEF SoleInv, RaceInv, CoreInv, TypeOK
<1>1. /\ t \in Tx /\ status[t] = "COMPLETING" /\ saga[t].state = "RESERVED"
      /\ driver[d].total = basket[t] /\ driver[d].total \in Lines
  BY DEF Finalize, DriverIsCurrent, Live, PricedAsTaken, Job
<1>2. e \in Epochs /\ StateOf(t, e) = "APPLIED" /\ record[t][e].lines = basket[t]
  BY <1>1 DEF ReservedHolds, PricedAsTaken
<1>3. Held(t) = basket[t]
  BY <1>2 DEF Held
<1>4. Complete(t, basket[t]) /\ UNCHANGED <<stock, record, basket>>
  BY <1>1 DEF Finalize, ledgerVars
<1>5. status' = [status EXCEPT ![t] = "COMPLETED"] /\ charged' = [charged EXCEPT ![t] = basket[t]]
  BY <1>1, <1>4 DEF Complete
<1>6. \A u \in Tx : saga'[u].epoch = saga[u].epoch
  BY <1>1, <1>4 DEF Complete, Saga
<1> HIDE DEF t, e
<1>7. \A u \in Tx : Held(u)' = Held(u)
  BY <1>4, <1>6, SameHeld
<1>8. \A u \in Tx : PhaseOf(status'[u]) = IF u = t THEN "sold" ELSE PhaseOf(status[u])
  BY <1>1, <1>5 DEF PhaseOf
<1>9. PhaseOf(status[t]) = "open"
  BY <1>1 DEF PhaseOf
<1>10. P!Sell(t)
  BY <1>1, <1>3, <1>4, <1>5, <1>7, <1>8, <1>9 DEF P!Sell
<1> QED BY <1>10 DEF t

LEMMA CheckoutMaps ==
  ASSUME SoleDriver, SoleInv, Beginning \/ Driving \/ Recovering
  PROVE  P!Next \/ UNCHANGED P!purchaseVars
<1> USE DEF SoleInv, RaceInv, CoreInv, TypeOK
<1>0. Next
  BY DEF Next
<1>1. ASSUME NEW d \in Handlers, NEW t \in Tx, BeginAttempt(d, t) PROVE Unseen
  BY <1>0, <1>1, QuietStep DEF BeginAttempt, PhaseOf
<1>2. ASSUME NEW d \in Handlers, NEW t \in Tx, TakeOver(d, t) PROVE Unseen
  BY <1>0, <1>2, QuietStep DEF TakeOver
<1>3. ASSUME NEW d \in Handlers,
             RefuseAgain(d) \/ \E t \in Tx : ReadForTakeover(d, t) \/ ResumeRollback(d, t)
      PROVE  Unseen
  BY <1>0, <1>3, QuietStep DEF RefuseAgain, ReadForTakeover, ResumeRollback, ledgerVars, ledger
<1>4. ASSUME NEW d \in Drivers, Waits(d) \/ RecordReserved(d) \/ MarkCompensating(d)
      PROVE  Unseen
  <2>1. status' = status /\ UNCHANGED <<ledger, basket, charged>>
    BY <1>4 DEF Waits, GotReserved, GotRefusal, ReserveTimesOut, FinalizeFails, GotReleased,
                ReleaseTimesOut, DriverDies, RecordReserved, MarkCompensating, ledgerVars, ledger
  <2> QED BY <1>0, <2>1, QuietStep
<1>5. ASSUME NEW d \in Drivers, Reopen(d) PROVE Unseen
  <2>1. UNCHANGED <<ledger, basket, charged>>
    BY <1>5 DEF Reopen, ledgerVars, ledger
  <2>2. \A t \in Tx : PhaseOf(status'[t]) = PhaseOf(status[t])
    BY <1>5 DEF Reopen, PhaseOf
  <2> QED BY <1>0, <2>1, <2>2, QuietStep
<1>6. ASSUME NEW d \in Drivers, Finalize(d) PROVE P!Next
  <2>1. P!Sell(driver[d].tx) /\ driver[d].tx \in Tx
    BY <1>6, FinalizeMaps DEF Finalize, DriverIsCurrent, Live
  <2> QED BY <2>1 DEF P!Next
<1>7. \A d \in Drivers : ~ FinalizeAckLost(d)
  BY DEF FinalizeAckLost, SoleDriver
<1>8. ASSUME NEW d \in Loops,
             \/ \E stuck \in SUBSET Tx : ClaimStuck(d, stuck)
             \/ \E row \in claimed[d] : NextRow(d, row)
      PROVE  Unseen
  BY <1>0, <1>8, QuietStep DEF ClaimStuck, NextRow, ledgerVars, ledger
<1> QED BY <1>1, <1>2, <1>3, <1>4, <1>5, <1>6, <1>7, <1>8, UnseenStutters
        DEF Beginning, Driving, Recovering, Waits

\* A request that is handled moves one purchase, and only if it is for the
\* attempt in progress.
LEMMA InventoryMaps ==
  ASSUME SoleDriver, SoleInv, Inventory
  PROVE  P!Next \/ UNCHANGED P!purchaseVars
<1> USE DEF SoleInv, RaceInv, CoreInv, TypeOK
<1>0. Next
  BY DEF Next
<1>1. PICK m \in requests : HandleReservation(m) \/ HandleRelease(m)
  BY DEF Inventory, LedgerNext
<1>2. UNCHANGED <<status, basket, charged, saga>>
  BY DEF Inventory, checkoutVars
<1> DEFINE t == m.tx
           e == m.epoch
<1>3. t \in Tx /\ e \in Epochs
  BY DEF LedgerTypeOK, ReserveRequest, ReleaseRequest
<1>4. \A u \in Tx, i \in Epochs : <<u, i>> # <<t, e>> => record'[u][i] = record[u][i]
  BY <1>1, LedgerStep
<1>5. \A u \in Tx : u # t => Held(u)' = Held(u)
  BY <1>2, <1>4 DEF Held, StateOf
<1>6. ASSUME ReserveApplied(m), HandleReservation(m) PROVE P!Hold(t)
  <2>1. StateOf(t, e)' = "APPLIED" /\ record'[t][e].lines = m.lines /\ StateOf(t, e) = "NONE"
    BY <1>3, <1>6 DEF ReserveApplied, SetRecord, StateOf, LedgerTypeOK
  <2>2. e = saga[t].epoch /\ status[t] \in {"COMPLETING", "COMPLETED"}
    BY <1>0, <1>2, <1>3, <2>1, OrphanedStep DEF NothingOrphaned, StateOf
  <2>3. status[t] = "COMPLETING"
    BY <1>3, <2>1, <2>2 DEF RowsAgree, ReservedHolds
  <2>4. m.lines = basket[t]
    BY <1>6, <2>2, <2>3 DEF AsksForBasket, HandleReservation
  <2>5. Held(t) = Nothing /\ Held(t)' = basket[t]
    BY <1>2, <1>3, <2>1, <2>2, <2>4 DEF Held, StateOf
  <2>6. PhaseOf(status[t]) = "open"
    BY <2>3 DEF PhaseOf
  <2>7. Covered(basket[t]) /\ stock' = [s \in Skus |-> stock[s] - basket[t][s]]
    BY <1>6, <2>4 DEF ReserveApplied, Take
  <2> HIDE DEF t, e
  <2> QED BY <1>2, <1>3, <1>5, <2>5, <2>6, <2>7 DEF P!Hold, P!Nothing, Nothing, Covered
<1>7. ASSUME ReleaseApplied(m), HandleRelease(m) PROVE P!PutBack(t)
  <2>1. StateOf(t, e) = "APPLIED" /\ StateOf(t, e)' = "RELEASED"
    BY <1>3, <1>7 DEF ReleaseApplied, SetRecord, StateOf, LedgerTypeOK
  <2>2. e = saga[t].epoch /\ status[t] \in {"COMPLETING", "COMPLETED"}
    BY <1>3, <2>1 DEF NothingOrphaned
  <2>3. status[t] = "COMPLETING"
    BY <1>3, <1>7, <2>2 DEF HandleRelease, ReleaseMeansRollback, RowsAgree
  <2>4. Held(t) = record[t][e].lines /\ Held(t)' = Nothing
    BY <1>2, <1>3, <2>1, <2>2 DEF Held, StateOf
  <2>5. PhaseOf(status[t]) = "open"
    BY <2>3 DEF PhaseOf
  <2>6. stock' = [s \in Skus |-> stock[s] + Held(t)[s]]
    BY <1>7, <2>4 DEF ReleaseApplied
  <2> HIDE DEF t, e
  <2> QED BY <1>2, <1>3, <1>5, <2>4, <2>5, <2>6 DEF P!PutBack, P!Nothing, Nothing
<1>8. ASSUME \/ HandleReservation(m) /\ (ReserveShort(m) \/ ReserveReplayed(m))
             \/ HandleRelease(m) /\ (ReleaseNothing(m) \/ ReleaseAgain(m))
      PROVE  Unseen
  <2>1. stock' = stock
    BY <1>8 DEF ReserveShort, ReserveReplayed, ReleaseNothing, ReleaseAgain, ledger
  <2>2. \/ record' = record
        \/ StateOf(t, e) \in {"NONE", "REJECTED"} /\ StateOf(t, e)' # "APPLIED"
    BY <1>3, <1>8 DEF ReserveShort, ReserveReplayed, ReleaseNothing, ReleaseAgain, ledger,
                      SetRecord, StateOf, LedgerTypeOK
  <2>3. \A i \in Epochs : i # e => record'[t][i] = record[t][i]
    BY <1>3, <1>4
  <2>4. Held(t)' = Held(t)
    <3> HIDE DEF t, e
    <3> QED BY <1>2, <2>2, <2>3 DEF Held, StateOf
  <2> QED BY <1>2, <1>5, <2>1, <2>4 DEF Unseen
<1> QED BY <1>1, <1>3, <1>6, <1>7, <1>8, UnseenStutters
        DEF HandleReservation, HandleRelease, P!Next

LEMMA InitMaps == Init => P!Init
BY DEF Init, LedgerInit, P!Init, P!Nothing, Nothing, PhaseOf, Held, StateOf

\* With one driver at a time, the two services make purchases: what a shopper
\* and the shelf see of messages, attempts, crashes and recovery is a purchase
\* as one system would make it.
THEOREM SagaMakesPurchases ==
  ASSUME SoleDriver
  PROVE  Spec => ImplementsPurchase
<1>1. Init => SoleInv /\ P!Init
  BY InitSole, InitMaps
<1>2. SoleInv /\ [Next]_vars => SoleInv'
  BY SoleStep
<1>3. SoleInv /\ [Next]_vars => [P!Next]_(P!purchaseVars)
  <2>1. ASSUME SoleInv, Next PROVE P!Next \/ UNCHANGED P!purchaseVars
    BY <2>1, ShoppingMaps, CheckoutMaps, InventoryMaps DEF Next
  <2>2. ASSUME UNCHANGED vars PROVE UNCHANGED P!purchaseVars
    BY <2>2 DEF vars, ledgerVars, P!purchaseVars, Held, StateOf
  <2> QED BY <2>1, <2>2
<1> QED BY <1>1, <1>2, <1>3, PTL DEF Spec, ImplementsPurchase, P!Spec
=============================================================================
