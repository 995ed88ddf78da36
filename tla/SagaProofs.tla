------------------------------ MODULE SagaProofs ------------------------------
(* What holds of the saga whatever drivers race and whatever is lost.  First  *)
(* CoreInv of SagaInvariants is inductive: types, attempt numbers, and the    *)
(* agreement of the two rows.  Then, for each variable, which steps can       *)
(* change it; and RaceInv, one conjunct at a time, from those.                *)
EXTENDS SagaInvariants, LedgerProofs

USE MaxEpochAssumption, OpeningAssumption, NoTxAssumption

LEMMA NothingIsLines == Nothing \in Lines
BY DEF Nothing, Lines

LEMMA NoJobIsJob == NoJob \in Job
BY NothingIsLines DEF NoJob, Job, PC, SagaState

\* Requests that Checkout writes are requests.
LEMMA RequestTypes ==
  ASSUME NEW t \in Tx, NEW e \in Epochs, NEW lines \in Lines
  PROVE  Reservation(t, e, lines) \in ReserveRequest /\ Release(t, e) \in ReleaseRequest
BY DEF Reservation, ReserveRequest, Release, ReleaseRequest

LEMMA JobAtIsJob ==
  ASSUME NEW pc \in PC, NEW t \in Tx, NEW e \in Epochs, NEW total \in Lines
  PROVE  JobAt(pc, t, e, total) \in Job
BY DEF JobAt, Job, SagaState, Epochs

\* Where a driver's own moves take it: never to a takeover, which a call begins with.
Onward == PC \ {"takeover"}

\* What a driver's moves change: its own pc, or all of its job.
LEMMA GotoType ==
  ASSUME TypeOK, NEW d \in Drivers, NEW pc \in PC, Goto(d, pc)
  PROVE  /\ driver' \in [Drivers -> Job]
         /\ driver'[d].pc = pc
         /\ driver'[d].tx = driver[d].tx /\ driver'[d].epoch = driver[d].epoch
         /\ driver'[d].total = driver[d].total /\ driver'[d].again = driver[d].again
         /\ \A c \in Drivers : c # d => driver'[c] = driver[c]
<1>1. driver[d] \in Job /\ d \in DOMAIN driver
  BY DEF TypeOK
<1>2. driver'[d] = [driver[d] EXCEPT !.pc = pc]
  BY <1>1 DEF Goto
<1>3. driver'[d] \in Job
  BY <1>1, <1>2 DEF Job
<1> QED BY <1>1, <1>2, <1>3 DEF TypeOK, Goto, Job

LEMMA FinishedType ==
  ASSUME TypeOK, NEW d \in Drivers, Finished(d)
  PROVE  /\ driver' \in [Drivers -> Job]
         /\ driver'[d] = NoJob
         /\ \A c \in Drivers : c # d => driver'[c] = driver[c]
BY NoJobIsJob DEF TypeOK, Finished

\* A driver at work after such a move was at work before it, on the same attempt.
LEMMA MoveKeepsJob ==
  ASSUME TypeOK, NEW d \in Drivers,
         (driver[d].pc # "idle" /\ \E pc \in Onward : Goto(d, pc)) \/ Finished(d),
         NEW c \in Drivers, driver'[c].pc # "idle"
  PROVE  /\ driver[c].pc # "idle"
         /\ driver'[c].tx = driver[c].tx
         /\ driver'[c].epoch = driver[c].epoch
         /\ driver'[c].total = driver[c].total
         /\ driver'[c].pc = "takeover" => driver'[c] = driver[c]
<1>1. CASE Finished(d)
  BY <1>1, FinishedType DEF NoJob
<1>2. CASE driver[d].pc # "idle" /\ \E pc \in Onward : Goto(d, pc)
  <2>1. PICK pc \in Onward : Goto(d, pc)
    BY <1>2
  <2>0. pc \in PC /\ pc # "takeover"
    BY DEF Onward
  <2>2. CASE c = d
    BY <1>2, <2>0, <2>1, <2>2, GotoType
  <2>3. CASE c # d
    BY <2>0, <2>1, <2>3, GotoType
  <2> QED BY <2>2, <2>3
<1> QED BY <1>1, <1>2

\* What every move of a driver does to all jobs: one ends, or goes on with the
\* same attempt, and nobody else is disturbed.
Continues(c) ==
  /\ driver'[c].tx = driver[c].tx /\ driver'[c].epoch = driver[c].epoch
  /\ driver'[c].total = driver[c].total /\ driver'[c].again = driver[c].again

LEMMA MovesOneDriver ==
  ASSUME TypeOK, NEW d \in Drivers, (\E pc \in Onward : Goto(d, pc)) \/ Finished(d)
  PROVE  /\ driver'[d] = NoJob \/ (Continues(d) /\ driver'[d].pc # "takeover")
         /\ \A c \in Drivers : c # d => driver'[c] = driver[c]
BY GotoType, FinishedType DEF Continues, Onward

\* A completion row that moves to another state, and no other row.
RowMoves(t, state) == saga' = [saga EXCEPT ![t].state = state, ![t].fresh = TRUE]

LEMMA RowMovesEffect ==
  ASSUME TypeOK, NEW t \in Tx, NEW state \in SagaState, RowMoves(t, state)
  PROVE  /\ saga' \in [Tx -> Saga]
         /\ \A u \in Tx : u # t => saga'[u] = saga[u]
         /\ saga'[t].state = state /\ saga'[t].fresh = TRUE
         /\ saga'[t].epoch = saga[t].epoch /\ saga'[t].total = saga[t].total
<1>1. saga[t] \in Saga /\ DOMAIN saga = Tx
  BY DEF TypeOK
<1>2. saga'[t] = [[saga[t] EXCEPT !.state = state] EXCEPT !.fresh = TRUE]
  BY <1>1 DEF RowMoves
<1>3. /\ saga'[t].state = state /\ saga'[t].fresh = TRUE
      /\ saga'[t].epoch = saga[t].epoch /\ saga'[t].total = saga[t].total
      /\ saga'[t] \in Saga
  BY <1>1, <1>2 DEF Saga
<1>4. \A u \in Tx : u # t => saga'[u] = saga[u]
  BY <1>1 DEF RowMoves
<1>5. saga' = [u \in Tx |-> saga'[u]]
  BY <1>1 DEF RowMoves
<1>6. \A u \in Tx : saga'[u] \in Saga
  BY <1>3, <1>4 DEF TypeOK
<1> QED BY <1>3, <1>4, <1>5, <1>6

\* What repo.set_completion_state, finalize and reopen change.
LEMMA SetStateEffect ==
  ASSUME TypeOK, NEW t \in Tx, NEW state \in SagaState, SetState(t, state)
  PROVE  /\ saga' \in [Tx -> Saga]
         /\ \A u \in Tx : u # t \/ saga[u].state \in Closed => saga'[u] = saga[u]
         /\ saga[t].state \notin Closed =>
              /\ saga'[t].state = state /\ saga'[t].fresh = TRUE
              /\ saga'[t].epoch = saga[t].epoch /\ saga'[t].total = saga[t].total
<1>1. CASE saga[t].state \in Closed
  BY <1>1 DEF TypeOK, SetState
<1>2. CASE saga[t].state \notin Closed
  BY <1>2, RowMovesEffect DEF SetState, RowMoves
<1> QED BY <1>1, <1>2

LEMMA SetStateCases ==
  ASSUME TypeOK, NEW t \in Tx, NEW state \in SagaState, SetState(t, state)
  PROVE  \A u \in Tx :
           \/ saga'[u] = saga[u]
           \/ /\ u = t /\ saga[u].state \notin Closed
              /\ saga'[u].state = state
              /\ saga'[u].epoch = saga[u].epoch /\ saga'[u].total = saga[u].total
BY SetStateEffect

LEMMA CompleteEffect ==
  ASSUME TypeOK, NEW t \in Tx, NEW total \in Lines, Complete(t, total)
  PROVE  /\ saga' \in [Tx -> Saga]
         /\ \A u \in Tx : u # t \/ status[u] # "COMPLETING" =>
              saga'[u] = saga[u] /\ status'[u] = status[u] /\ charged'[u] = charged[u]
         /\ status[t] = "COMPLETING" =>
              /\ saga'[t].state = "COMPLETED" /\ status'[t] = "COMPLETED"
              /\ saga'[t].epoch = saga[t].epoch /\ saga'[t].total = saga[t].total
              /\ charged'[t] = total
         /\ charged' \in [Tx -> Lines]
         /\ status' \in [Tx -> {"ABSENT", "OPEN", "COMPLETING", "COMPLETED", "CANCELLED"}]
<1>1. CASE status[t] = "COMPLETING"
  <2>1. RowMoves(t, "COMPLETED") /\ "COMPLETED" \in SagaState
    BY <1>1 DEF Complete, RowMoves, SagaState
  <2>2. /\ status' = [status EXCEPT ![t] = "COMPLETED"]
        /\ charged' = [charged EXCEPT ![t] = total]
    BY <1>1 DEF Complete
  <2> QED BY <1>1, <2>1, <2>2, RowMovesEffect DEF TypeOK
<1>2. CASE status[t] # "COMPLETING"
  BY <1>2 DEF TypeOK, Complete
<1> QED BY <1>1, <1>2

LEMMA ReopenEffect ==
  ASSUME CoreInv, NEW d \in Drivers, Reopen(d)
  PROVE  LET t == driver[d].tx IN
         /\ t \in Tx
         /\ saga' \in [Tx -> Saga]
         /\ \A u \in Tx : u # t \/ status[u] # "COMPLETING" =>
              saga'[u] = saga[u] /\ status'[u] = status[u]
         /\ status[t] = "COMPLETING" =>
              /\ saga'[t].state = "ABORTED" /\ status'[t] = "OPEN"
              /\ saga'[t].epoch = saga[t].epoch /\ saga'[t].total = saga[t].total
         /\ status' \in [Tx -> {"ABSENT", "OPEN", "COMPLETING", "COMPLETED", "CANCELLED"}]
         /\ (driver[d].pc # "idle" /\ \E pc \in Onward : Goto(d, pc)) \/ Finished(d)
<1> DEFINE t == driver[d].tx
<1>1. t \in Tx
  BY DEF Reopen, CoreInv, Numbered
<1>2. (driver[d].pc # "idle" /\ \E pc \in Onward : Goto(d, pc)) \/ Finished(d)
  BY DEF Reopen, PC, Onward
<1>3. CASE status[t] = "COMPLETING"
  <2>1. saga[t].state \notin Closed
    BY <1>1, <1>3 DEF CoreInv, RowsAgree
  <2>2. /\ status' = [status EXCEPT ![t] = "OPEN"]
        /\ saga' = [saga EXCEPT ![t].state = "ABORTED", ![t].fresh = TRUE]
    BY <1>3, <2>1 DEF Reopen
  <2> HIDE DEF t
  <2>3. saga' \in [Tx -> Saga]
    BY <1>1, <2>2 DEF CoreInv, TypeOK, Saga, SagaState
  <2>4. \A u \in Tx : u # t => saga'[u] = saga[u] /\ status'[u] = status[u]
    BY <1>1, <2>2 DEF CoreInv, TypeOK
  <2>5. /\ saga'[t].state = "ABORTED" /\ status'[t] = "OPEN"
        /\ saga'[t].epoch = saga[t].epoch /\ saga'[t].total = saga[t].total
    BY <1>1, <2>2 DEF CoreInv, TypeOK, Saga
  <2>6. status' \in [Tx -> {"ABSENT", "OPEN", "COMPLETING", "COMPLETED", "CANCELLED"}]
    BY <1>1, <2>2 DEF CoreInv, TypeOK
  <2> QED BY <1>1, <1>2, <1>3, <2>3, <2>4, <2>5, <2>6 DEF t
<1>4. CASE status[t] # "COMPLETING"
  BY <1>1, <1>2, <1>4 DEF Reopen, CoreInv, TypeOK
<1> QED BY <1>3, <1>4

-----------------------------------------------------------------------------
(* CoreInv: types, the two rows agree, attempts are numbered *)

LEMMA InitCore == Init => CoreInv
<1> SUFFICES ASSUME Init PROVE CoreInv
  OBVIOUS
<1>1. LedgerTypeOK
  BY LedgerInitInv DEF Init, LedgerInv
<1>2. saga \in [Tx -> Saga]
  BY NothingIsLines DEF Init, Saga, SagaState
<1>3. driver \in [Drivers -> Job]
  BY NoJobIsJob DEF Init
<1>4. TypeOK
  BY <1>1, <1>2, <1>3, NothingIsLines DEF Init, TypeOK
<1>5. RowsAgree /\ Numbered
  BY DEF Init, RowsAgree, Numbered, Closed, NoJob
<1> QED BY <1>4, <1>5 DEF CoreInv

LEMMA ShoppingCore == CoreInv /\ Shopping => CoreInv'
<1> SUFFICES ASSUME CoreInv, Shopping PROVE CoreInv'
  OBVIOUS
<1> USE DEF CoreInv, TypeOK, RowsAgree, Numbered, Closed
<1>1. ASSUME NEW t \in Tx, StartTransaction(t) PROVE CoreInv'
  BY <1>1 DEF StartTransaction, ledgerVars, LedgerTypeOK
<1>2. ASSUME NEW t \in Tx, LeaseExpires(t) PROVE CoreInv'
  <2>1. saga' \in [Tx -> Saga]
    BY <1>2 DEF LeaseExpires, Saga
  <2> QED BY <1>2, <2>1 DEF LeaseExpires, ledgerVars, LedgerTypeOK
<1>3. ASSUME NEW t \in Tx, NEW s \in Skus, Scan(t, s) PROVE CoreInv'
  BY <1>3 DEF Scan, ledgerVars, LedgerTypeOK, Lines
<1>4. ASSUME NEW old \in SUBSET Tx, SweepAbandoned(old) PROVE CoreInv'
  BY <1>4 DEF SweepAbandoned, ledgerVars, LedgerTypeOK
<1> QED BY <1>1, <1>2, <1>3, <1>4 DEF Shopping

LEMMA BeginningCore == CoreInv /\ Beginning => CoreInv'
<1> SUFFICES ASSUME CoreInv, NEW d \in Handlers,
                    RefuseAgain(d) \/ \E t \in Tx :
                      \/ BeginAttempt(d, t) \/ TakeOver(d, t)
                      \/ ReadForTakeover(d, t) \/ ResumeRollback(d, t)
             PROVE  CoreInv'
  BY DEF Beginning
<1>0. d \in Drivers
  BY DEF Drivers
<1> USE <1>0 DEF CoreInv, TypeOK, RowsAgree, Numbered, Closed
<1>1. CASE RefuseAgain(d)
  BY <1>1, FinishedType DEF RefuseAgain, NoJob, ledgerVars, LedgerTypeOK
<1>2. ASSUME NEW t \in Tx, BeginAttempt(d, t) PROVE CoreInv'
  <2>1. saga[t].epoch + 1 \in Epochs /\ basket[t] \in Lines
    BY <1>2 DEF BeginAttempt, Saga, Epochs
  <2>2. saga' \in [Tx -> Saga]
    BY <1>2, <2>1 DEF BeginAttempt, Saga, SagaState, Epochs
  <2>3. driver' \in [Drivers -> Job]
    BY <1>2, <2>1, JobAtIsJob DEF BeginAttempt, PC
  <2>4. requests' \subseteq (ReserveRequest \union ReleaseRequest)
    BY <1>2, <2>1, RequestTypes DEF BeginAttempt, LedgerTypeOK
  <2>5. RowsAgree' /\ Numbered'
    BY <1>2, <2>1 DEF BeginAttempt, JobAt
  <2> QED BY <1>2, <2>2, <2>3, <2>4, <2>5 DEF BeginAttempt, ledger, LedgerTypeOK
<1>3. ASSUME NEW t \in Tx, TakeOver(d, t) PROVE CoreInv'
  <2>1. /\ driver[d].epoch \in Epochs /\ basket[t] \in Lines
        /\ driver[d].seen \in {"RESERVING", "RESERVED"} /\ driver[d].seen \in SagaState
    BY <1>3 DEF TakeOver, SagaState
  <2>2. saga' \in [Tx -> Saga]
    BY <1>3, <2>1, SetStateEffect DEF TakeOver
  <2>3. /\ driver' \in [Drivers -> Job]
        /\ driver'[d].pc = "reserve"
        /\ driver'[d].tx = driver[d].tx /\ driver'[d].epoch = driver[d].epoch
        /\ \A c \in Drivers : c # d => driver'[c] = driver[c]
    <3>1. driver[d] \in Job /\ d \in DOMAIN driver
      OBVIOUS
    <3>2. driver'[d] = [[driver[d] EXCEPT !.pc = "reserve"] EXCEPT !.seen = "NONE"]
      BY <1>3, <3>1 DEF TakeOver
    <3>3. driver'[d] \in Job
      BY <3>1, <3>2 DEF Job, PC, SagaState
    <3> QED BY <1>3, <3>1, <3>2, <3>3 DEF TakeOver, Job
  <2>4. requests' \subseteq (ReserveRequest \union ReleaseRequest)
    BY <1>3, <2>1, RequestTypes DEF TakeOver, LedgerTypeOK
  <2>5. \A u \in Tx : \/ saga'[u] = saga[u]
                     \/ /\ saga[u].state \notin Closed /\ saga'[u].state \notin Closed
                        /\ saga'[u].epoch = saga[u].epoch
    <3>1. SetState(t, driver[d].seen) /\ driver[d].seen \notin Closed
      BY <1>3, <2>1 DEF TakeOver
    <3> QED BY <2>1, <3>1, SetStateCases
  <2>6. RowsAgree'
    BY <1>3, <2>5 DEF TakeOver
  <2>7. Numbered'
    <3>1. \A u \in Tx : IF saga'[u].state = "NONE" THEN saga'[u].epoch = 0
                                                   ELSE saga'[u].epoch \in Epochs
      BY <2>5
    <3>2. driver[d].tx \in Tx /\ driver[d].epoch \in Epochs
      BY <1>3 DEF TakeOver
    <3>3. ASSUME NEW c \in Drivers
          PROVE  /\ driver'[c].pc # "idle" =>
                      driver'[c].tx \in Tx /\ driver'[c].epoch \in Epochs
                 /\ driver'[c].pc = "takeover" => driver'[c].seen \in {"RESERVING", "RESERVED"}
      BY <2>3, <3>2
    <3> QED BY <3>1, <3>3
  <2> QED BY <1>3, <2>2, <2>3, <2>4, <2>6, <2>7 DEF TakeOver, ledger, LedgerTypeOK
<1>4. ASSUME NEW t \in Tx, ResumeRollback(d, t) PROVE CoreInv'
  <2>1. saga[t].epoch \in Epochs /\ saga[t].total \in Lines
    BY <1>4 DEF ResumeRollback, Saga
  <2>2. driver' \in [Drivers -> Job]
    <3> DEFINE job == JobAt("mark", t, saga[t].epoch, saga[t].total)
    <3>1. job \in Job
      BY <2>1, JobAtIsJob DEF PC
    <3>2. driver' = [driver EXCEPT ![d] = [job EXCEPT !.again = TRUE]]
      BY <1>4 DEF ResumeRollback
    <3> HIDE DEF job
    <3>3. [job EXCEPT !.again = TRUE] \in Job
      BY <3>1 DEF Job
    <3> QED BY <3>2, <3>3
  <2> QED BY <1>4, <2>1, <2>2 DEF ResumeRollback, JobAt, ledgerVars, LedgerTypeOK
<1>5. ASSUME NEW t \in Tx, ReadForTakeover(d, t) PROVE CoreInv'
  <2>1. /\ saga[t].epoch \in Epochs /\ saga[t].total \in Lines
        /\ saga[t].state \in {"RESERVING", "RESERVED"}
    BY <1>5 DEF ReadForTakeover, Saga, SagaState
  <2>2. driver' \in [Drivers -> Job]
    <3> DEFINE job == JobAt("takeover", t, saga[t].epoch, saga[t].total)
    <3>1. job \in Job
      BY <2>1, JobAtIsJob DEF PC
    <3>2. driver' = [driver EXCEPT ![d] = [job EXCEPT !.seen = saga[t].state]]
      BY <1>5 DEF ReadForTakeover
    <3> HIDE DEF job
    <3>3. [job EXCEPT !.seen = saga[t].state] \in Job
      BY <2>1, <3>1 DEF Job, SagaState
    <3> QED BY <3>2, <3>3
  <2> QED BY <1>5, <2>1, <2>2 DEF ReadForTakeover, JobAt, ledgerVars, LedgerTypeOK
<1> QED BY <1>1, <1>2, <1>3, <1>4, <1>5

\* A driver's steps that leave both databases and the topics alone.
Waits(d) ==
  \/ GotReserved(d) \/ GotRefusal(d) \/ ReserveTimesOut(d) \/ FinalizeFails(d)
  \/ GotReleased(d) \/ ReleaseTimesOut(d) \/ DriverDies(d)

LEMMA WaitsCore ==
  ASSUME CoreInv, NEW d \in Drivers, Waits(d)
  PROVE  CoreInv'
<1> USE DEF CoreInv
<1>1. UNCHANGED <<ledgerVars, status, basket, charged, saga>>
  BY DEF Waits, GotReserved, GotRefusal, ReserveTimesOut, FinalizeFails, GotReleased,
         ReleaseTimesOut, DriverDies
<1>2. (driver[d].pc # "idle" /\ \E pc \in Onward : Goto(d, pc)) \/ Finished(d)
  BY DEF Waits, GotReserved, GotRefusal, ReserveTimesOut, FinalizeFails, GotReleased,
         ReleaseTimesOut, DriverDies, AfterFailure, PC, Onward
<1>3. driver' \in [Drivers -> Job]
  BY <1>2, GotoType, FinishedType DEF Onward
<1>4. claimed' \in [Loops -> SUBSET Row]
  BY DEF Waits, GotReserved, GotRefusal, ReserveTimesOut, FinalizeFails, GotReleased,
         ReleaseTimesOut, DriverDies, TypeOK
<1>5. Numbered'
  BY <1>1, <1>2, MoveKeepsJob DEF Numbered
<1> QED BY <1>1, <1>3, <1>4, <1>5 DEF TypeOK, RowsAgree, ledgerVars, LedgerTypeOK

\* A driver's move with at most an open row's state keeps the attempts numbered.
LEMMA RowsStayNumbered ==
  ASSUME CoreInv, NEW d \in Drivers,
         (driver[d].pc # "idle" /\ \E pc \in Onward : Goto(d, pc)) \/ Finished(d),
         \A u \in Tx : \/ saga'[u] = saga[u]
                      \/ /\ saga[u].state # "NONE" /\ saga'[u].state # "NONE"
                         /\ saga'[u].epoch = saga[u].epoch
  PROVE  Numbered'
<1>1. \A u \in Tx : IF saga'[u].state = "NONE" THEN saga'[u].epoch = 0
                                               ELSE saga'[u].epoch \in Epochs
  BY DEF CoreInv, Numbered
<1>2. ASSUME NEW c \in Drivers, driver'[c].pc # "idle"
      PROVE  /\ driver'[c].tx \in Tx /\ driver'[c].epoch \in Epochs
             /\ driver'[c].pc = "takeover" => driver'[c].seen \in {"RESERVING", "RESERVED"}
  BY <1>2, MoveKeepsJob DEF CoreInv, Numbered
<1> QED BY <1>1, <1>2 DEF Numbered

LEMMA DrivingCore == CoreInv /\ Driving => CoreInv'
<1> SUFFICES ASSUME CoreInv, NEW d \in Drivers,
                    \/ Waits(d) \/ RecordReserved(d) \/ Finalize(d) \/ FinalizeAckLost(d)
                    \/ MarkCompensating(d) \/ Reopen(d)
             PROVE  CoreInv'
  BY DEF Driving, Waits
<1> USE DEF CoreInv, TypeOK, RowsAgree, Numbered, Closed
<1>1. CASE Waits(d)
  BY <1>1, WaitsCore
<1>2. CASE RecordReserved(d)
  <2>1. driver[d].tx \in Tx /\ "RESERVED" \in SagaState
    BY <1>2 DEF RecordReserved, SagaState
  <2>2. SetState(driver[d].tx, "RESERVED") /\ driver[d].pc # "idle" /\ \E pc \in Onward : Goto(d, pc)
    BY <1>2 DEF RecordReserved, PC, Onward
  <2>3. driver' \in [Drivers -> Job]
    BY <2>2, GotoType DEF Onward
  <2>4. Numbered'
    <3>1. \A u \in Tx : \/ saga'[u] = saga[u]
                       \/ /\ saga[u].state # "NONE" /\ saga'[u].state # "NONE"
                          /\ saga'[u].epoch = saga[u].epoch
      BY <2>1, <2>2, SetStateCases
    <3> QED BY <2>2, <3>1, RowsStayNumbered
  <2>5. RowsAgree'
    <3>1. status' = status /\ "RESERVED" \notin Closed
      BY <1>2 DEF RecordReserved
    <3>2. \A u \in Tx : u # driver[d].tx \/ saga[u].state \in Closed => saga'[u] = saga[u]
      BY <2>1, <2>2, SetStateEffect
    <3>3. saga[driver[d].tx].state \notin Closed => saga'[driver[d].tx].state = "RESERVED"
      BY <2>1, <2>2, SetStateEffect
    <3> QED BY <2>1, <3>1, <3>2, <3>3
  <2> QED BY <1>2, <2>1, <2>2, <2>3, <2>4, <2>5, SetStateEffect
          DEF RecordReserved, ledgerVars, LedgerTypeOK
<1>3. ASSUME Complete(driver[d].tx, driver[d].total), driver[d].pc = "finalize",
             UNCHANGED <<ledgerVars, basket, claimed>>, Finished(d) \/ Goto(d, "mark")
      PROVE  CoreInv'
  <2>1. driver[d].tx \in Tx /\ driver[d].total \in Lines
    BY <1>3 DEF Job
  <2>2. (driver[d].pc # "idle" /\ \E pc \in Onward : Goto(d, pc)) \/ Finished(d)
    BY <1>3 DEF PC, Onward
  <2>3. driver' \in [Drivers -> Job]
    BY <2>2, GotoType, FinishedType DEF Onward
  <2>4. Numbered'
    BY <1>3, <2>1, <2>2, CompleteEffect, RowsStayNumbered
  <2>5. RowsAgree'
    BY <1>3, <2>1, CompleteEffect
  <2> QED BY <1>3, <2>1, <2>3, <2>4, <2>5, CompleteEffect DEF ledgerVars, LedgerTypeOK
<1>4. CASE MarkCompensating(d)
  <2>1. driver[d].tx \in Tx /\ driver[d].epoch \in Epochs /\ "COMPENSATING" \in SagaState
    BY <1>4 DEF MarkCompensating, SagaState
  <2>2. SetState(driver[d].tx, "COMPENSATING") /\ driver[d].pc # "idle" /\ \E pc \in Onward : Goto(d, pc)
    BY <1>4 DEF MarkCompensating, PC, Onward
  <2>3. driver' \in [Drivers -> Job]
    BY <2>2, GotoType DEF Onward
  <2>4. Numbered'
    <3>1. \A u \in Tx : \/ saga'[u] = saga[u]
                       \/ /\ saga[u].state # "NONE" /\ saga'[u].state # "NONE"
                          /\ saga'[u].epoch = saga[u].epoch
      BY <2>1, <2>2, SetStateCases
    <3> QED BY <2>2, <3>1, RowsStayNumbered
  <2>5. RowsAgree'
    <3>1. status' = status /\ "COMPENSATING" \notin Closed
      BY <1>4 DEF MarkCompensating
    <3>2. \A u \in Tx : u # driver[d].tx \/ saga[u].state \in Closed => saga'[u] = saga[u]
      BY <2>1, <2>2, SetStateEffect
    <3>3. saga[driver[d].tx].state \notin Closed => saga'[driver[d].tx].state = "COMPENSATING"
      BY <2>1, <2>2, SetStateEffect
    <3> QED BY <2>1, <3>1, <3>2, <3>3
  <2>6. requests' \subseteq (ReserveRequest \union ReleaseRequest)
    BY <1>4, <2>1 DEF MarkCompensating, LedgerTypeOK, Release, ReleaseRequest
  <2> QED BY <1>4, <2>1, <2>2, <2>3, <2>4, <2>5, <2>6, SetStateEffect
          DEF MarkCompensating, ledger, LedgerTypeOK
<1>5. CASE Reopen(d)
  <2>1. driver' \in [Drivers -> Job]
    BY <1>5, ReopenEffect, GotoType, FinishedType DEF Onward
  <2>2. Numbered'
    BY <1>5, ReopenEffect, RowsStayNumbered
  <2>3. RowsAgree'
    BY <1>5, ReopenEffect
  <2> QED BY <1>5, <2>1, <2>2, <2>3, ReopenEffect DEF Reopen, ledgerVars, LedgerTypeOK
<1> QED BY <1>1, <1>2, <1>3, <1>4, <1>5 DEF Finalize, FinalizeAckLost, AfterFailure

LEMMA RecoveringCore == CoreInv /\ Recovering => CoreInv'
<1> SUFFICES ASSUME CoreInv, NEW d \in Loops,
                    \/ \E stuck \in SUBSET Tx : ClaimStuck(d, stuck)
                    \/ \E row \in claimed[d] : NextRow(d, row)
             PROVE  CoreInv'
  BY DEF Recovering
<1>0. d \in Drivers
  BY DEF Drivers
<1> USE <1>0 DEF CoreInv, TypeOK, RowsAgree, Numbered, Closed
<1>1. ASSUME NEW stuck \in SUBSET Tx, ClaimStuck(d, stuck) PROVE CoreInv'
  <2>1. \A t \in stuck : RowOf(t) \in Row
    BY <1>1 DEF ClaimStuck, Stuck, RowOf, Row, Saga
  <2>2. claimed' \in [Loops -> SUBSET Row]
    BY <1>1, <2>1 DEF ClaimStuck
  <2>3. /\ saga' \in [Tx -> Saga]
        /\ \A t \in Tx : saga'[t].state = saga[t].state /\ saga'[t].epoch = saga[t].epoch
    <3>1. \A t \in Tx : saga'[t] = saga[t] \/ saga'[t] = [saga[t] EXCEPT !.fresh = TRUE]
      BY <1>1 DEF ClaimStuck
    <3>2. saga' = [t \in Tx |-> saga'[t]]
      BY <1>1 DEF ClaimStuck
    <3>3. \A t \in Tx : saga'[t] \in Saga /\ saga'[t].state = saga[t].state
                                        /\ saga'[t].epoch = saga[t].epoch
      <4> SUFFICES ASSUME NEW t \in Tx
                   PROVE  saga'[t] \in Saga /\ saga'[t].state = saga[t].state
                                             /\ saga'[t].epoch = saga[t].epoch
        OBVIOUS
      <4>1. saga[t] \in Saga
        OBVIOUS
      <4> QED BY <3>1, <4>1 DEF Saga
    <3> QED BY <3>2, <3>3
  <2>4. RowsAgree' /\ Numbered'
    BY <1>1, <2>3 DEF ClaimStuck
  <2> QED BY <1>1, <2>2, <2>3, <2>4 DEF ClaimStuck, ledgerVars, LedgerTypeOK
<1>2. ASSUME NEW row \in claimed[d], NextRow(d, row) PROVE CoreInv'
  <2>1. row \in Row
    OBVIOUS
  <2>2. driver' \in [Drivers -> Job] /\ claimed' \in [Loops -> SUBSET Row]
    BY <1>2, <2>1, JobAtIsJob DEF NextRow, Row, PC
  <2> QED BY <1>2, <2>1, <2>2 DEF NextRow, JobAt, ledgerVars, LedgerTypeOK, Row
<1> QED BY <1>1, <1>2

LEMMA CoreStep == CoreInv /\ [Next]_vars => CoreInv'
<1> SUFFICES ASSUME CoreInv, [Next]_vars PROVE CoreInv'
  OBVIOUS
<1>1. CASE Inventory
  BY <1>1, LedgerTypeStep
     DEF Inventory, LedgerNext, checkoutVars, CoreInv, TypeOK, RowsAgree, Numbered
<1>2. CASE UNCHANGED vars
  BY <1>2 DEF vars, ledgerVars, CoreInv, TypeOK, LedgerTypeOK, RowsAgree, Numbered
<1> QED BY <1>1, <1>2, ShoppingCore, BeginningCore, DrivingCore, RecoveringCore DEF Next

\* Types: in particular every epoch stays within its bound, every claimed row and
\* every driver is of a real transaction, and no SKU's stock is negative.
THEOREM TypeCorrect == Spec => []TypeOK
<1>1. CoreInv => TypeOK
  BY DEF CoreInv
<1> QED BY <1>1, InitCore, CoreStep, PTL DEF Spec

\* The transaction row and the completion row never disagree, whatever drivers
\* race, die or lose answers.
THEOREM RowsAlwaysAgree == Spec => []RowsAgree
<1>1. CoreInv => RowsAgree
  BY DEF CoreInv
<1> QED BY <1>1, InitCore, CoreStep, PTL DEF Spec

-----------------------------------------------------------------------------
(* Steps, by what they change *)

DriverMoves(d) ==
  \/ Waits(d) \/ RecordReserved(d) \/ Finalize(d) \/ FinalizeAckLost(d)
  \/ MarkCompensating(d) \/ Reopen(d)

\* A driver's own steps only move it on within its attempt.
LEMMA MovesOn ==
  ASSUME NEW d \in Drivers, DriverMoves(d)
  PROVE  (driver[d].pc # "idle" /\ \E pc \in Onward : Goto(d, pc)) \/ Finished(d)
BY DEF DriverMoves, Waits, GotReserved, GotRefusal, ReserveTimesOut, RecordReserved, Finalize,
       FinalizeFails, FinalizeAckLost, MarkCompensating, GotReleased, ReleaseTimesOut, Reopen,
       DriverDies, AfterFailure, PC, Onward

\* Next, with each driver's steps together.
LEMMA NextCases ==
  ASSUME Next
  PROVE  \/ Shopping \/ Inventory
         \/ \E d \in Handlers :
              \/ RefuseAgain(d)
              \/ \E t \in Tx :
                   \/ BeginAttempt(d, t) \/ TakeOver(d, t)
                   \/ ReadForTakeover(d, t) \/ ResumeRollback(d, t)
         \/ \E d \in Drivers : DriverMoves(d)
         \/ \E d \in Loops, stuck \in SUBSET Tx : ClaimStuck(d, stuck)
         \/ \E d \in Loops : \E row \in claimed[d] : NextRow(d, row)
BY DEF Next, Beginning, Driving, Recovering, DriverMoves, Waits

-----------------------------------------------------------------------------
(* Which steps change what *)

\* Only beginning an attempt changes an epoch, and only to the next one.
LEMMA EpochStep ==
  ASSUME CoreInv, Next, NEW t \in Tx
  PROVE  \/ saga'[t].epoch = saga[t].epoch
         \/ \E d \in Handlers : BeginAttempt(d, t) /\ saga'[t].epoch = saga[t].epoch + 1
<1> USE DEF CoreInv, TypeOK
<1>1. CASE Shopping
  BY <1>1 DEF Shopping, StartTransaction, LeaseExpires, Scan, SweepAbandoned, Saga
<1>2. CASE Inventory
  BY <1>2 DEF Inventory, checkoutVars
<1>3. ASSUME NEW d \in Handlers,
             RefuseAgain(d) \/ \E u \in Tx :
               TakeOver(d, u) \/ ReadForTakeover(d, u) \/ ResumeRollback(d, u)
      PROVE  saga'[t].epoch = saga[t].epoch
  <2>1. ASSUME NEW u \in Tx, TakeOver(d, u) PROVE saga'[t].epoch = saga[t].epoch
    <3>1. driver[d].seen \in SagaState /\ SetState(u, driver[d].seen)
      BY <2>1 DEF TakeOver, Job, Drivers
    <3> QED BY <3>1, SetStateEffect
  <2> QED BY <1>3, <2>1 DEF RefuseAgain, ReadForTakeover, ResumeRollback
<1>4. ASSUME NEW d \in Handlers, NEW u \in Tx, BeginAttempt(d, u)
      PROVE  \/ saga'[t].epoch = saga[t].epoch
             \/ BeginAttempt(d, t) /\ saga'[t].epoch = saga[t].epoch + 1
  BY <1>4 DEF BeginAttempt
<1>5. ASSUME NEW d \in Drivers, DriverMoves(d) PROVE saga'[t].epoch = saga[t].epoch
  <2>1. CASE Waits(d)
    BY <2>1 DEF Waits, GotReserved, GotRefusal, ReserveTimesOut, FinalizeFails, GotReleased,
                ReleaseTimesOut, DriverDies
  <2>2. CASE RecordReserved(d) \/ MarkCompensating(d)
    <3>1. driver[d].tx \in Tx
      BY <2>2 DEF RecordReserved, MarkCompensating, Numbered
    <3>2. \E state \in SagaState : SetState(driver[d].tx, state)
      BY <2>2 DEF RecordReserved, MarkCompensating, SagaState
    <3> QED BY <3>1, <3>2, SetStateEffect
  <2>3. CASE Finalize(d) \/ FinalizeAckLost(d)
    <3>1. /\ driver[d].tx \in Tx /\ driver[d].total \in Lines
          /\ Complete(driver[d].tx, driver[d].total)
      BY <2>3 DEF Finalize, FinalizeAckLost, Numbered, Job
    <3> QED BY <3>1, CompleteEffect
  <2>4. CASE Reopen(d)
    BY <2>4, ReopenEffect
  <2> QED BY <1>5, <2>1, <2>2, <2>3, <2>4 DEF DriverMoves
<1>6. ASSUME NEW d \in Loops, NEW stuck \in SUBSET Tx, ClaimStuck(d, stuck)
      PROVE  saga'[t].epoch = saga[t].epoch
  <2>1. saga[t] \in Saga
    OBVIOUS
  <2> QED BY <1>6, <2>1 DEF ClaimStuck, Saga
<1>7. ASSUME NEW d \in Loops, NEW row \in claimed[d], NextRow(d, row)
      PROVE  saga'[t].epoch = saga[t].epoch
  BY <1>7 DEF NextRow
<1> QED BY NextCases, <1>1, <1>2, <1>3, <1>4, <1>5, <1>6, <1>7

LEMMA EpochGrows ==
  ASSUME CoreInv, Next, NEW t \in Tx
  PROVE  saga[t].epoch <= saga'[t].epoch
BY EpochStep DEF CoreInv, TypeOK, Saga

\* Only step 1 and a rollback write requests.
LEMMA RequestStep ==
  ASSUME Next
  PROVE  \/ requests' = requests
         \/ \E d \in Handlers, t \in Tx :
              /\ BeginAttempt(d, t)
              /\ requests' = requests \union {Reservation(t, saga[t].epoch + 1, basket[t])}
         \/ \E d \in Handlers, t \in Tx :
              /\ TakeOver(d, t)
              /\ requests' = requests \union {Reservation(t, driver[d].epoch, basket[t])}
         \/ \E d \in Drivers :
              /\ MarkCompensating(d)
              /\ requests' = requests \union {Release(driver[d].tx, driver[d].epoch)}
<1>1. CASE Shopping \/ Inventory
  BY <1>1 DEF Shopping, StartTransaction, LeaseExpires, Scan, SweepAbandoned,
              Inventory, LedgerNext, HandleReservation, HandleRelease, ledgerVars
<1>2. ASSUME NEW d \in Handlers, NEW t \in Tx, BeginAttempt(d, t)
      PROVE  requests' = requests \union {Reservation(t, saga[t].epoch + 1, basket[t])}
  BY <1>2 DEF BeginAttempt
<1>3. ASSUME NEW d \in Handlers, NEW t \in Tx, TakeOver(d, t)
      PROVE  requests' = requests \union {Reservation(t, driver[d].epoch, basket[t])}
  BY <1>3 DEF TakeOver
<1>4. ASSUME NEW d \in Drivers, MarkCompensating(d)
      PROVE  requests' = requests \union {Release(driver[d].tx, driver[d].epoch)}
  BY <1>4 DEF MarkCompensating
<1>5. ASSUME NEW d \in Handlers,
             RefuseAgain(d) \/ \E t \in Tx : ReadForTakeover(d, t) \/ ResumeRollback(d, t)
      PROVE  requests' = requests
  BY <1>5 DEF RefuseAgain, ReadForTakeover, ResumeRollback, ledgerVars
<1>6. ASSUME NEW d \in Drivers, DriverMoves(d), ~ MarkCompensating(d)
      PROVE  requests' = requests
  BY <1>6 DEF DriverMoves, Waits, GotReserved, GotRefusal, ReserveTimesOut, RecordReserved,
              Finalize, FinalizeFails, FinalizeAckLost, GotReleased, ReleaseTimesOut,
              Reopen, DriverDies, ledgerVars
<1>7. ASSUME NEW d \in Loops, NEW stuck \in SUBSET Tx, ClaimStuck(d, stuck)
      PROVE  requests' = requests
  BY <1>7 DEF ClaimStuck, ledgerVars
<1>8. ASSUME NEW d \in Loops, NEW row \in claimed[d], NextRow(d, row)
      PROVE  requests' = requests
  BY <1>8 DEF NextRow, ledgerVars
<1> QED BY NextCases, <1>1, <1>2, <1>3, <1>4, <1>5, <1>6, <1>7, <1>8

\* Only Inventory writes stock, records and replies.
LEMMA RecordStep ==
  ASSUME Next
  PROVE  Inventory \/ (stock' = stock /\ record' = record /\ replies' = replies)
<1> DEFINE Kept == stock' = stock /\ record' = record /\ replies' = replies
<1>1. CASE Shopping
  BY <1>1 DEF Shopping, StartTransaction, LeaseExpires, Scan, SweepAbandoned, ledgerVars
<1>2. ASSUME NEW d \in Handlers, RefuseAgain(d) PROVE Kept
  BY <1>2 DEF RefuseAgain, ledgerVars
<1>3. ASSUME NEW d \in Handlers, NEW t \in Tx,
             \/ BeginAttempt(d, t) \/ TakeOver(d, t)
             \/ ReadForTakeover(d, t) \/ ResumeRollback(d, t)
      PROVE  Kept
  BY <1>3 DEF BeginAttempt, ReadForTakeover, TakeOver, ResumeRollback, ledgerVars, ledger
<1>4. ASSUME NEW d \in Drivers, DriverMoves(d) PROVE Kept
  BY <1>4 DEF DriverMoves, Waits, GotReserved, GotRefusal, ReserveTimesOut, RecordReserved,
              Finalize, FinalizeFails, FinalizeAckLost, MarkCompensating, GotReleased,
              ReleaseTimesOut, Reopen, DriverDies, ledgerVars, ledger
<1>5. ASSUME NEW d \in Loops, NEW stuck \in SUBSET Tx, ClaimStuck(d, stuck) PROVE Kept
  BY <1>5 DEF ClaimStuck, ledgerVars
<1>6. ASSUME NEW d \in Loops, NEW row \in claimed[d], NextRow(d, row) PROVE Kept
  BY <1>6 DEF NextRow, ledgerVars
<1> QED BY NextCases, <1>1, <1>2, <1>3, <1>4, <1>5, <1>6

LEMMA RepliesGrow ==
  ASSUME CoreInv, Next
  PROVE  replies \subseteq replies'
BY RecordStep, LedgerReply DEF Inventory, LedgerNext, CoreInv, TypeOK

\* A takeover's write goes on with the attempt that was read.
LEMMA TakeOverContinues ==
  ASSUME TypeOK, NEW d \in Drivers, NEW t \in Tx, TakeOver(d, t)
  PROVE  /\ Continues(d) /\ driver'[d].pc = "reserve"
         /\ \A c \in Drivers : c # d => driver'[c] = driver[c]
<1>1. driver[d] \in Job /\ d \in DOMAIN driver
  BY DEF TypeOK
<1>2. driver'[d] = [[driver[d] EXCEPT !.pc = "reserve"] EXCEPT !.seen = "NONE"]
  BY <1>1 DEF TakeOver
<1>3. /\ driver'[d].pc = "reserve" /\ driver'[d].tx = driver[d].tx
      /\ driver'[d].epoch = driver[d].epoch /\ driver'[d].total = driver[d].total
      /\ driver'[d].again = driver[d].again
  BY <1>1, <1>2 DEF Job
<1>4. \A c \in Drivers : c # d => driver'[c] = driver[c]
  BY DEF TakeOver, TypeOK
<1> QED BY <1>3, <1>4 DEF Continues

\* Where a driver's job comes from.
LEMMA JobStep ==
  ASSUME CoreInv, Next, NEW c \in Drivers
  PROVE  \/ driver'[c] = driver[c] \/ driver'[c] = NoJob
         \/ Continues(c) /\ DriverMoves(c) /\ driver'[c].pc # "takeover"
         \/ c \in Handlers /\ \E t \in Tx :
              \/ BeginAttempt(c, t) \/ TakeOver(c, t)
              \/ ReadForTakeover(c, t) \/ ResumeRollback(c, t)
         \/ c \in Loops /\ \E row \in claimed[c] : NextRow(c, row)
<1> USE DEF CoreInv, TypeOK
<1>0. \A d \in Handlers \union Loops : d \in Drivers
  BY DEF Drivers
<1>1. CASE Shopping \/ Inventory
  BY <1>1 DEF Shopping, StartTransaction, LeaseExpires, Scan, SweepAbandoned, Inventory, checkoutVars
<1>2. ASSUME NEW d \in Handlers, RefuseAgain(d)
      PROVE  driver'[c] = driver[c] \/ driver'[c] = NoJob
  BY <1>0, <1>2, FinishedType DEF RefuseAgain
<1>3. ASSUME NEW d \in Handlers, NEW t \in Tx,
             \/ BeginAttempt(d, t) \/ TakeOver(d, t)
             \/ ReadForTakeover(d, t) \/ ResumeRollback(d, t)
      PROVE  driver'[c] = driver[c] \/ c = d
  BY <1>3 DEF BeginAttempt, ReadForTakeover, TakeOver, ResumeRollback
<1>4. ASSUME NEW d \in Drivers, DriverMoves(d)
      PROVE  \/ driver'[c] = driver[c] \/ driver'[c] = NoJob
             \/ Continues(c) /\ DriverMoves(c) /\ driver'[c].pc # "takeover"
  <2>1. (\E pc \in Onward : Goto(d, pc)) \/ Finished(d)
    BY <1>4, MovesOn
  <2>2. driver'[d] = NoJob \/ (Continues(d) /\ driver'[d].pc # "takeover")
    BY <2>1, MovesOneDriver
  <2>3. c # d => driver'[c] = driver[c]
    BY <2>1, MovesOneDriver
  <2> QED BY <1>4, <2>2, <2>3
<1>5. ASSUME NEW d \in Loops, NEW stuck \in SUBSET Tx, ClaimStuck(d, stuck)
      PROVE  driver'[c] = driver[c]
  BY <1>5 DEF ClaimStuck
<1>6. ASSUME NEW d \in Loops, NEW row \in claimed[d], NextRow(d, row)
      PROVE  driver'[c] = driver[c] \/ c = d
  BY <1>6 DEF NextRow
<1> QED BY NextCases, <1>1, <1>2, <1>3, <1>4, <1>5, <1>6

\* Where a claimed row comes from.
LEMMA ClaimStep ==
  ASSUME CoreInv, Next, NEW c \in Loops
  PROVE  \/ claimed'[c] \subseteq claimed[c]
         \/ \E stuck \in SUBSET Tx :
              ClaimStuck(c, stuck) /\ claimed'[c] = {RowOf(t) : t \in stuck}
<1> USE DEF CoreInv, TypeOK
<1>1. ASSUME NEW d \in Loops, NEW stuck \in SUBSET Tx, ClaimStuck(d, stuck)
      PROVE  claimed'[c] = claimed[c] \/ (c = d /\ claimed'[c] = {RowOf(t) : t \in stuck})
  BY <1>1 DEF ClaimStuck
<1>2. ASSUME NEW d \in Loops, NEW row \in claimed[d], NextRow(d, row)
      PROVE  claimed'[c] \subseteq claimed[c]
  BY <1>2 DEF NextRow
<1>3. ASSUME NEW d \in Drivers, DriverMoves(d) PROVE claimed'[c] \subseteq claimed[c]
  BY <1>3 DEF DriverMoves, Waits, GotReserved, GotRefusal, ReserveTimesOut, RecordReserved,
       Finalize, FinalizeFails, FinalizeAckLost, MarkCompensating, GotReleased,
       ReleaseTimesOut, Reopen, DriverDies
<1> QED BY NextCases, <1>1, <1>2, <1>3
       DEF Shopping, StartTransaction, LeaseExpires, Scan, SweepAbandoned, Inventory,
           checkoutVars, RefuseAgain, BeginAttempt, ReadForTakeover, TakeOver,
           ResumeRollback

\* A transaction becomes COMPLETING only by step 1; once it is COMPLETED or
\* CANCELLED it stays so, at its price; a basket changes only while it is OPEN;
\* and while its row is locked it stays COMPLETING.
LEMMA StatusStep ==
  ASSUME CoreInv, Next, NEW t \in Tx
  PROVE  /\ status'[t] = "COMPLETING" =>
              status[t] = "COMPLETING" \/ \E d \in Handlers : BeginAttempt(d, t)
         /\ status[t] \in {"COMPLETED", "CANCELLED"} =>
              status'[t] = status[t] /\ charged'[t] = charged[t]
         /\ basket'[t] # basket[t] => status[t] = "OPEN" /\ status'[t] = "OPEN"
         /\ status[t] = "COMPLETING" /\ TxLocked(t) => status'[t] = "COMPLETING"
<1> USE DEF CoreInv, TypeOK
<1>1. CASE Shopping
  <2>1. ASSUME NEW u \in Tx, NEW s \in Skus, Scan(u, s)
        PROVE  /\ status' = status /\ charged' = charged
               /\ basket'[t] # basket[t] => status[t] = "OPEN"
    BY <2>1 DEF Scan
  <2> QED BY <1>1, <2>1 DEF Shopping, StartTransaction, LeaseExpires, SweepAbandoned
<1>2. CASE Inventory
  BY <1>2 DEF Inventory, checkoutVars
<1>3. ASSUME NEW d \in Handlers,
             RefuseAgain(d) \/ \E u \in Tx :
               TakeOver(d, u) \/ ReadForTakeover(d, u) \/ ResumeRollback(d, u)
      PROVE  UNCHANGED <<status, charged, basket>>
  BY <1>3 DEF RefuseAgain, ReadForTakeover, TakeOver, ResumeRollback
<1>4. ASSUME NEW d \in Handlers, NEW u \in Tx, BeginAttempt(d, u)
      PROVE  /\ UNCHANGED <<charged, basket>>
             /\ u # t => status'[t] = status[t]
             /\ u = t => status[t] = "OPEN"
  BY <1>4 DEF BeginAttempt
<1>5. ASSUME NEW d \in Drivers, DriverMoves(d)
      PROVE  /\ basket' = basket
             /\ status[t] # "COMPLETING" => status'[t] = status[t] /\ charged'[t] = charged[t]
             /\ TxLocked(t) => status'[t] = status[t]
  <2>1. CASE Waits(d) \/ RecordReserved(d) \/ MarkCompensating(d)
    BY <2>1 DEF Waits, GotReserved, GotRefusal, ReserveTimesOut, FinalizeFails, GotReleased,
                ReleaseTimesOut, DriverDies, RecordReserved, MarkCompensating
  <2>2. CASE Finalize(d) \/ FinalizeAckLost(d)
    <3>1. /\ driver[d].tx \in Tx /\ driver[d].total \in Lines /\ basket' = basket
          /\ Complete(driver[d].tx, driver[d].total) /\ ~ TxLocked(driver[d].tx)
      BY <2>2 DEF Finalize, FinalizeAckLost, Numbered, Job
    <3> QED BY <3>1, CompleteEffect
  <2>3. CASE Reopen(d)
    BY <2>3, ReopenEffect DEF Reopen
  <2> QED BY <1>5, <2>1, <2>2, <2>3 DEF DriverMoves
<1>6. ASSUME NEW d \in Loops, NEW stuck \in SUBSET Tx, ClaimStuck(d, stuck)
      PROVE  UNCHANGED <<status, charged, basket>>
  BY <1>6 DEF ClaimStuck
<1>7. ASSUME NEW d \in Loops, NEW row \in claimed[d], NextRow(d, row)
      PROVE  UNCHANGED <<status, charged, basket>>
  BY <1>7 DEF NextRow
<1> QED BY NextCases, <1>1, <1>2, <1>3, <1>4, <1>5, <1>6, <1>7

\* A completion row becomes RESERVED or COMPLETED only by a driver that has been
\* told that the stock is reserved, or has read RESERVED.
LEMMA RowStep ==
  ASSUME CoreInv, Next, NEW t \in Tx, saga'[t].state \in {"RESERVED", "COMPLETED"}
  PROVE  \/ saga'[t].state = saga[t].state
         \/ \E d \in Drivers : driver[d].tx = t /\ SawReserved(d)
<1> USE DEF CoreInv, TypeOK
<1>1. CASE Shopping
  BY <1>1 DEF Shopping, StartTransaction, LeaseExpires, Scan, SweepAbandoned, Saga
<1>2. CASE Inventory
  BY <1>2 DEF Inventory, checkoutVars
<1>3. ASSUME NEW d \in Handlers,
             RefuseAgain(d) \/ \E u \in Tx :
               TakeOver(d, u) \/ ReadForTakeover(d, u) \/ ResumeRollback(d, u)
      PROVE  saga'[t].state = saga[t].state \/ (driver[d].tx = t /\ SawReserved(d))
  <2>1. ASSUME NEW u \in Tx, TakeOver(d, u)
        PROVE  saga'[t].state = saga[t].state \/ (driver[d].tx = t /\ SawReserved(d))
    <3>1. /\ driver[d].tx = u /\ driver[d].pc = "takeover" /\ SetState(u, driver[d].seen)
          /\ driver[d].seen \in {"RESERVING", "RESERVED"} /\ driver[d].seen \in SagaState
      BY <2>1 DEF TakeOver, Numbered, Drivers, SagaState
    <3>2. saga'[t].state = saga[t].state \/ (t = u /\ saga'[t].state = driver[d].seen)
      BY <3>1, SetStateCases
    <3> QED BY <3>1, <3>2 DEF SawReserved
  <2> QED BY <1>3, <2>1 DEF RefuseAgain, ReadForTakeover, ResumeRollback
<1>4. ASSUME NEW d \in Handlers, NEW u \in Tx, BeginAttempt(d, u)
      PROVE  saga'[t].state = saga[t].state \/ saga'[t].state = "RESERVING"
  BY <1>4 DEF BeginAttempt
<1>5. ASSUME NEW d \in Drivers, DriverMoves(d)
      PROVE  \/ saga'[t].state = saga[t].state
             \/ driver[d].tx = t /\ SawReserved(d)
  <2>1. CASE Waits(d)
    BY <2>1 DEF Waits, GotReserved, GotRefusal, ReserveTimesOut, FinalizeFails, GotReleased,
                ReleaseTimesOut, DriverDies
  <2>2. CASE RecordReserved(d)
    <3>1. /\ driver[d].tx \in Tx /\ "RESERVED" \in SagaState /\ driver[d].pc = "reserved"
          /\ SetState(driver[d].tx, "RESERVED")
      BY <2>2 DEF RecordReserved, Numbered, SagaState
    <3> QED BY <3>1, SetStateEffect DEF SawReserved
  <2>3. CASE MarkCompensating(d)
    <3>1. /\ driver[d].tx \in Tx /\ "COMPENSATING" \in SagaState
          /\ SetState(driver[d].tx, "COMPENSATING")
      BY <2>3 DEF MarkCompensating, Numbered, SagaState
    <3> QED BY <3>1, SetStateEffect
  <2>4. CASE Finalize(d) \/ FinalizeAckLost(d)
    <3>1. /\ driver[d].tx \in Tx /\ driver[d].total \in Lines /\ driver[d].pc = "finalize"
          /\ Complete(driver[d].tx, driver[d].total)
      BY <2>4 DEF Finalize, FinalizeAckLost, Numbered, Job
    <3> QED BY <3>1, CompleteEffect DEF SawReserved
  <2>5. CASE Reopen(d)
    BY <2>5, ReopenEffect
  <2> QED BY <1>5, <2>1, <2>2, <2>3, <2>4, <2>5 DEF DriverMoves
<1>6. ASSUME NEW d \in Loops, NEW stuck \in SUBSET Tx, ClaimStuck(d, stuck)
      PROVE  saga'[t].state = saga[t].state
  <2>1. saga[t] \in Saga
    OBVIOUS
  <2> QED BY <1>6, <2>1 DEF ClaimStuck, Saga
<1>7. ASSUME NEW d \in Loops, NEW row \in claimed[d], NextRow(d, row)
      PROVE  saga' = saga
  BY <1>7 DEF NextRow
<1>8. \A d \in Handlers : d \in Drivers
  BY DEF Drivers
<1> QED BY NextCases, <1>1, <1>2, <1>3, <1>4, <1>5, <1>6, <1>7, <1>8

-----------------------------------------------------------------------------
(* RaceInv, one conjunct at a time *)

LEMMA InitRace == Init => RaceInv
<1> SUFFICES ASSUME Init PROVE RaceInv
  OBVIOUS
<1> USE DEF Init, LedgerInit
<1>1. CoreInv
  BY InitCore
<1>2. Begun
  BY DEF Begun, OnlyBegunAttempts, StateOf, NoJob
<1>3. AsksForBasket /\ RepeatsAskTheSame
  BY DEF AsksForBasket, RepeatsAskTheSame
<1>4. ReservedBeforeFinalize /\ TakeoverHoldsTx
  BY DEF ReservedBeforeFinalize, SawReserved, TakeoverHoldsTx, NoJob
<1> QED BY <1>1, <1>2, <1>3, <1>4 DEF RaceInv

LEMMA EpochsAreNumbers ==
  ASSUME CoreInv
  PROVE  /\ \A t \in Tx : saga[t].epoch \in Nat
         /\ \A m \in requests : m.tx \in Tx /\ m.epoch \in Nat
         /\ \A d \in Drivers : driver[d].epoch \in Nat
         /\ \A d \in Loops : \A row \in claimed[d] : row.tx \in Tx /\ row.epoch \in Nat
<1> USE DEF CoreInv, TypeOK, Epochs
<1>1. \A t \in Tx : saga[t].epoch \in Nat
  BY DEF Saga
<1>2. \A m \in requests : m.tx \in Tx /\ m.epoch \in Nat
  BY DEF LedgerTypeOK, ReserveRequest, ReleaseRequest
<1>3. \A d \in Drivers : driver[d].epoch \in Nat
  BY DEF Job
<1>4. \A d \in Loops : \A row \in claimed[d] : row.tx \in Tx /\ row.epoch \in Nat
  BY DEF Row
<1> QED BY <1>1, <1>2, <1>3, <1>4

\* The lock keeps every other driver from ending the attempt that is taken over,
\* from beginning another one, and from a takeover of its own.
LEMMA TakeoverStep ==
  ASSUME CoreInv, TakeoverHoldsTx, Next
  PROVE  TakeoverHoldsTx'
<1> USE DEF CoreInv, TypeOK
<1>1. ASSUME NEW c \in Drivers, driver'[c].pc = "takeover"
      PROVE  \/ driver'[c] = driver[c]
             \/ c \in Handlers /\ \E t \in Tx : ReadForTakeover(c, t)
  <2>1. driver'[c] # NoJob
    BY <1>1 DEF NoJob
  <2>2. \A t \in Tx : ~ TakeOver(c, t)
    BY <1>1, TakeOverContinues
  <2>3. \A t \in Tx : ~ BeginAttempt(c, t) /\ ~ ResumeRollback(c, t)
    BY <1>1 DEF BeginAttempt, ResumeRollback, JobAt
  <2>4. \A row \in claimed[c] : c \in Loops => ~ NextRow(c, row)
    BY <1>1 DEF NextRow, JobAt
  <2> QED BY <1>1, <2>1, <2>2, <2>3, <2>4, JobStep
<1>2. ASSUME NEW c \in Drivers, driver[c].pc = "takeover", driver'[c] = driver[c]
      PROVE  /\ c \in Handlers
             /\ status'[driver[c].tx] = "COMPLETING"
             /\ driver[c].epoch = saga'[driver[c].tx].epoch
  <2>1. /\ c \in Handlers /\ driver[c].tx \in Tx
        /\ status[driver[c].tx] = "COMPLETING" /\ TxLocked(driver[c].tx)
        /\ driver[c].epoch = saga[driver[c].tx].epoch
    BY <1>2 DEF TakeoverHoldsTx, Numbered, TxLocked
  <2>2. \A d \in Handlers : ~ BeginAttempt(d, driver[c].tx)
    BY <2>1 DEF BeginAttempt
  <2> QED BY <2>1, <2>2, StatusStep, EpochStep
<1>3. ASSUME NEW c \in Handlers, NEW t \in Tx, ReadForTakeover(c, t)
      PROVE  /\ driver'[c].tx = t /\ driver'[c].epoch = saga'[t].epoch
             /\ status'[t] = "COMPLETING" /\ ~ TxLocked(t)
             /\ \A d \in Drivers : d # c => driver'[d] = driver[d]
  BY <1>3 DEF ReadForTakeover, MayBegin, JobAt, Drivers
<1>4. ASSUME NEW c \in Drivers, driver'[c].pc = "takeover"
      PROVE  /\ c \in Handlers
             /\ status'[driver'[c].tx] = "COMPLETING"
             /\ driver'[c].epoch = saga'[driver'[c].tx].epoch
  BY <1>1, <1>2, <1>3, <1>4
<1>5. ASSUME NEW c \in Drivers, NEW d \in Drivers, driver'[c].tx = driver'[d].tx,
             driver'[c].pc = "takeover", driver'[d].pc = "takeover"
      PROVE  c = d
  <2>1. CASE driver'[c] = driver[c] /\ driver'[d] = driver[d]
    BY <1>5, <2>1 DEF TakeoverHoldsTx
  <2>2. ASSUME NEW a \in Handlers, NEW t \in Tx, ReadForTakeover(a, t),
               NEW b \in Drivers, b # a, driver'[b].pc = "takeover"
        PROVE  driver'[b].tx # t
    <3>1. driver'[b] = driver[b] /\ ~ TxLocked(t)
      BY <1>3, <2>2
    <3>2. b \in Handlers
      BY <2>2, <3>1 DEF TakeoverHoldsTx
    <3> QED BY <2>2, <3>1, <3>2 DEF TxLocked
  <2> QED BY <1>1, <1>3, <1>5, <2>1, <2>2
<1> QED BY <1>4, <1>5 DEF TakeoverHoldsTx

LEMMA BegunStep ==
  ASSUME CoreInv, Begun, Next
  PROVE  Begun'
<1>0. CoreInv'
  BY CoreStep
<1>1. /\ \A t \in Tx : saga[t].epoch \in Nat /\ saga'[t].epoch \in Nat
      /\ \A t \in Tx : saga[t].epoch <= saga'[t].epoch
  BY <1>0, EpochsAreNumbers, EpochGrows DEF CoreInv, TypeOK, Saga
<1>2. ASSUME NEW t \in Tx, NEW m \in requests', m.tx = t
      PROVE  m.epoch <= saga'[t].epoch
  <2>1. CASE m \in requests
    <3>1. m.epoch <= saga[t].epoch /\ m.epoch \in Nat
      BY <1>2, <2>1, EpochsAreNumbers DEF Begun, OnlyBegunAttempts
    <3> QED BY <1>1, <3>1
  <2>2. CASE m \notin requests
    <3>1. ASSUME NEW d \in Handlers, NEW u \in Tx, BeginAttempt(d, u),
                 m = Reservation(u, saga[u].epoch + 1, basket[u])
          PROVE  m.epoch <= saga'[t].epoch
      <4>1. u = t /\ m.epoch = saga[t].epoch + 1
        BY <1>2, <3>1 DEF Reservation
      <4>2. saga'[t].epoch = saga[t].epoch + 1
        BY <3>1, <4>1 DEF BeginAttempt, CoreInv, TypeOK
      <4> QED BY <1>1, <4>1, <4>2
    <3>2. ASSUME NEW d \in Handlers, NEW u \in Tx, TakeOver(d, u),
                 m = Reservation(u, driver[d].epoch, basket[u])
          PROVE  m.epoch <= saga'[t].epoch
      <4>1. d \in Drivers /\ driver[d].tx = t /\ m.epoch = driver[d].epoch
        BY <1>2, <3>2 DEF Reservation, TakeOver, Drivers
      <4>2. driver[d].epoch <= saga[t].epoch /\ driver[d].epoch \in Nat
        BY <4>1, EpochsAreNumbers DEF Begun, OnlyBegunAttempts
      <4> QED BY <1>1, <4>1, <4>2
    <3>3. ASSUME NEW d \in Drivers, MarkCompensating(d),
                 m = Release(driver[d].tx, driver[d].epoch)
          PROVE  m.epoch <= saga'[t].epoch
      <4>1. driver[d].tx = t /\ m.epoch = driver[d].epoch
        BY <1>2, <3>3 DEF Release
      <4>2. driver[d].epoch <= saga[t].epoch /\ driver[d].epoch \in Nat
        BY <4>1, EpochsAreNumbers DEF Begun, OnlyBegunAttempts
      <4> QED BY <1>1, <4>1, <4>2
    <3> QED BY <1>2, <2>2, <3>1, <3>2, <3>3, RequestStep
  <2> QED BY <2>1, <2>2
<1>3. ASSUME NEW t \in Tx, NEW e \in Epochs, StateOf(t, e)' # "NONE"
      PROVE  e <= saga'[t].epoch
  <2>1. e \in Nat
    BY DEF Epochs
  <2>2. CASE StateOf(t, e) # "NONE"
    BY <1>1, <2>1, <2>2 DEF Begun, OnlyBegunAttempts
  <2>3. CASE StateOf(t, e) = "NONE"
    <3>1. PICK m \in requests : HandleReservation(m) \/ HandleRelease(m)
      BY <1>3, <2>3, RecordStep DEF StateOf, Inventory, LedgerNext
    <3>2. m.tx = t /\ m.epoch = e
      BY <1>3, <2>3, <3>1, LedgerStep DEF CoreInv, TypeOK, StateOf
    <3> QED BY <1>1, <2>1, <3>2 DEF Begun, OnlyBegunAttempts
  <2> QED BY <2>2, <2>3
<1>4. ASSUME NEW t \in Tx, NEW c \in Drivers, driver'[c].tx = t
      PROVE  driver'[c].epoch <= saga'[t].epoch
  <2>1. CASE driver'[c] = driver[c] \/ Continues(c)
    <3>1. driver[c].tx = t /\ driver'[c].epoch = driver[c].epoch
      BY <1>4, <2>1 DEF Continues
    <3>2. driver[c].epoch <= saga[t].epoch /\ driver[c].epoch \in Nat
      BY <3>1, EpochsAreNumbers DEF Begun, OnlyBegunAttempts
    <3> QED BY <1>1, <3>1, <3>2
  <2>2. CASE driver'[c] = NoJob
    BY <1>4, <2>2, NoTxAssumption DEF NoJob
  <2>3. ASSUME NEW u \in Tx, BeginAttempt(c, u) PROVE driver'[c].epoch <= saga'[t].epoch
    <3>1. driver'[c].tx = u /\ driver'[c].epoch = saga[u].epoch + 1
      BY <2>3 DEF BeginAttempt, JobAt, CoreInv, TypeOK
    <3>2. saga'[u].epoch = saga[u].epoch + 1
      BY <2>3 DEF BeginAttempt, CoreInv, TypeOK
    <3> QED BY <1>1, <1>4, <3>1, <3>2
  <2>4. ASSUME NEW u \in Tx, ReadForTakeover(c, u) \/ ResumeRollback(c, u)
        PROVE  driver'[c].epoch <= saga'[t].epoch
    <3>1. driver'[c].tx = u /\ driver'[c].epoch = saga[u].epoch
      BY <2>4 DEF ReadForTakeover, ResumeRollback, JobAt, CoreInv, TypeOK
    <3> QED BY <1>1, <1>4, <3>1
  <2>6. ASSUME NEW u \in Tx, TakeOver(c, u)
        PROVE  driver'[c].epoch <= saga'[t].epoch
    <3>1. Continues(c)
      BY <2>6, TakeOverContinues DEF CoreInv
    <3>2. driver[c].tx = t /\ driver'[c].epoch = driver[c].epoch
      BY <1>4, <3>1 DEF Continues
    <3>3. driver[c].epoch <= saga[t].epoch /\ driver[c].epoch \in Nat
      BY <3>2, EpochsAreNumbers DEF Begun, OnlyBegunAttempts
    <3> QED BY <1>1, <3>2, <3>3
  <2>5. ASSUME c \in Loops, NEW row \in claimed[c], NextRow(c, row)
        PROVE  driver'[c].epoch <= saga'[t].epoch
    <3>1. driver'[c].tx = row.tx /\ driver'[c].epoch = row.epoch
      BY <2>5 DEF NextRow, JobAt, CoreInv, TypeOK
    <3>2. row.epoch <= saga[t].epoch /\ row.epoch \in Nat
      BY <1>4, <2>5, <3>1, EpochsAreNumbers DEF Begun
    <3> QED BY <1>1, <3>1, <3>2
  <2> QED BY <2>1, <2>2, <2>3, <2>4, <2>5, <2>6, JobStep
<1>5. ASSUME NEW c \in Loops, NEW row \in claimed'[c]
      PROVE  row.epoch <= saga'[row.tx].epoch
  <2>1. CASE row \in claimed[c]
    <3>1. row.tx \in Tx /\ row.epoch \in Nat /\ row.epoch <= saga[row.tx].epoch
      BY <2>1, EpochsAreNumbers DEF Begun
    <3> QED BY <1>1, <3>1
  <2>2. CASE row \notin claimed[c]
    <3>1. PICK t \in Tx : row = RowOf(t)
      BY <1>5, <2>2, ClaimStep
    <3> QED BY <1>1, <3>1 DEF RowOf
  <2> QED BY <2>1, <2>2
<1>6. OnlyBegunAttempts'
  BY <1>2, <1>3, <1>4 DEF OnlyBegunAttempts, StateOf
<1> QED BY <1>5, <1>6 DEF Begun

LEMMA AsksStep ==
  ASSUME CoreInv, Begun, AsksForBasket, Next
  PROVE  AsksForBasket'
<1>1. SUFFICES ASSUME NEW m \in requests', m.type = "reserve",
                      m.epoch = saga'[m.tx].epoch, status'[m.tx] = "COMPLETING"
               PROVE  m.lines = basket'[m.tx]
  BY DEF AsksForBasket
<1> DEFINE t == m.tx
<1>2. t \in Tx /\ m.epoch \in Nat
  BY CoreStep, EpochsAreNumbers DEF CoreInv, TypeOK, LedgerTypeOK, ReserveRequest, ReleaseRequest, Epochs
<1> HIDE DEF t
<1>3. basket'[t] = basket[t]
  BY <1>1, <1>2, StatusStep DEF t
<1>4. CASE m \in requests
  <2>1. m.epoch <= saga[t].epoch /\ saga[t].epoch \in Nat
    BY <1>2, <1>4, EpochsAreNumbers DEF Begun, OnlyBegunAttempts, t
  <2>2. saga'[t].epoch = saga[t].epoch
    BY <1>1, <1>2, <2>1, EpochStep DEF t
  <2>3. status[t] = "COMPLETING"
    <3>1. ASSUME NEW d \in Handlers, BeginAttempt(d, t) PROVE FALSE
      <4>1. saga'[t].epoch = saga[t].epoch + 1
        BY <1>2, <3>1 DEF BeginAttempt, CoreInv, TypeOK
      <4> QED BY <2>1, <2>2, <4>1
    <3> QED BY <1>1, <1>2, <3>1, StatusStep DEF t
  <2> QED BY <1>1, <1>3, <1>4, <2>2, <2>3 DEF AsksForBasket, t
<1>5. CASE m \notin requests
  <2>1. \E e \in Nat : m = Reservation(t, e, basket[t])
    BY <1>1, <1>5, RequestStep, EpochsAreNumbers DEF Reservation, Release, Drivers, t
  <2> QED BY <1>3, <2>1 DEF Reservation, t
<1> QED BY <1>4, <1>5

\* A new reserve request asks what every older one of its attempt asks.
LEMMA NewAsksTheSame ==
  ASSUME CoreInv, TakeoverHoldsTx, Begun, AsksForBasket, Next,
         NEW m \in requests, NEW n \in requests', n \notin requests,
         m.type = "reserve", n.type = "reserve", m.tx = n.tx, m.epoch = n.epoch
  PROVE  m.lines = n.lines
<1>1. m.tx \in Tx /\ m.epoch \in Nat /\ saga[m.tx].epoch \in Nat
  BY EpochsAreNumbers
<1>2. ASSUME NEW t \in Tx, n = Reservation(t, saga[t].epoch + 1, basket[t])
      PROVE  FALSE
  <2>1. m.tx = t /\ m.epoch = saga[t].epoch + 1
    BY <1>2 DEF Reservation
  <2>2. m.epoch <= saga[t].epoch
    BY <2>1 DEF Begun, OnlyBegunAttempts
  <2> QED BY <1>1, <2>1, <2>2
<1>3. ASSUME NEW d \in Handlers, NEW t \in Tx, TakeOver(d, t),
             n = Reservation(t, driver[d].epoch, basket[t])
      PROVE  m.lines = n.lines
  <2>1. driver[d].epoch = saga[t].epoch /\ status[t] = "COMPLETING"
    BY <1>3 DEF TakeOver, TakeoverHoldsTx, Drivers
  <2>2. m.tx = t /\ m.epoch = saga[t].epoch /\ n.lines = basket[t]
    BY <1>3, <2>1 DEF Reservation
  <2> QED BY <2>1, <2>2 DEF AsksForBasket
<1>4. \A t \in Tx, e \in Epochs : n # Release(t, e)
  BY DEF Release
<1>5. ASSUME NEW d \in Drivers, n = Release(driver[d].tx, driver[d].epoch)
      PROVE  FALSE
  BY <1>5 DEF Release
<1> QED BY <1>2, <1>3, <1>5, RequestStep

LEMMA RepeatsStep ==
  ASSUME CoreInv, TakeoverHoldsTx, Begun, AsksForBasket, RepeatsAskTheSame, Next
  PROVE  RepeatsAskTheSame'
<1>1. SUFFICES ASSUME NEW m \in requests', NEW n \in requests',
                      m.type = "reserve", n.type = "reserve", m.tx = n.tx, m.epoch = n.epoch
               PROVE  m.lines = n.lines
  BY DEF RepeatsAskTheSame
<1>2. CASE m \in requests /\ n \in requests
  BY <1>1, <1>2 DEF RepeatsAskTheSame
<1>3. CASE m \in requests /\ n \notin requests
  BY <1>1, <1>3, NewAsksTheSame
<1>4. CASE m \notin requests /\ n \in requests
  BY <1>1, <1>4, NewAsksTheSame
<1>5. CASE m \notin requests /\ n \notin requests
  BY <1>5, RequestStep
<1> QED BY <1>2, <1>3, <1>4, <1>5

LEMMA ReservedStep ==
  ASSUME CoreInv, ReservedBeforeFinalize, Next
  PROVE  ReservedBeforeFinalize'
<1> USE DEF CoreInv, TypeOK
<1>1. ASSUME NEW t, WasReserved(t)
      PROVE  \E p \in replies' : p.tx = t /\ p.type = "reserved"
  BY <1>1, RepliesGrow DEF WasReserved
<1>2. ASSUME NEW t \in Tx, saga'[t].state \in {"RESERVED", "COMPLETED"}
      PROVE  \E p \in replies' : p.tx = t /\ p.type = "reserved"
  <2>1. WasReserved(t)
    <3>1. CASE saga'[t].state = saga[t].state
      BY <1>2, <3>1 DEF ReservedBeforeFinalize
    <3>2. ASSUME NEW d \in Drivers, driver[d].tx = t, SawReserved(d)
          PROVE  WasReserved(t)
      BY <3>2 DEF ReservedBeforeFinalize
    <3> QED BY <1>2, <3>1, <3>2, RowStep
  <2> QED BY <1>1, <2>1
<1>3. ASSUME NEW c \in Drivers, SawReserved(c)'
      PROVE  \E p \in replies' : p.tx = driver'[c].tx /\ p.type = "reserved"
  <2>1. WasReserved(driver'[c].tx)
    <3>1. CASE driver'[c] = driver[c]
      BY <1>3, <3>1 DEF ReservedBeforeFinalize, SawReserved
    <3>2. CASE driver'[c] = NoJob
      BY <1>3, <3>2 DEF NoJob, SawReserved
    <3>3. CASE Continues(c) /\ DriverMoves(c) /\ driver'[c].pc # "takeover"
      <4>1. driver'[c].tx = driver[c].tx
        BY <3>3 DEF Continues
      <4>2. CASE GotReserved(c)
        BY <4>1, <4>2 DEF GotReserved, Answered, WasReserved
      <4>3. CASE RecordReserved(c)
        BY <4>1, <4>3 DEF RecordReserved, ReservedBeforeFinalize, SawReserved
      <4>4. CASE ~ GotReserved(c) /\ ~ RecordReserved(c)
        <5>1. Finished(c) \/ \E pc \in {"mark", "reopen", "release", "begin"} : Goto(c, pc)
          BY <3>3, <4>4
             DEF DriverMoves, Waits, GotRefusal, ReserveTimesOut, Finalize, FinalizeFails,
                 FinalizeAckLost, MarkCompensating, GotReleased, ReleaseTimesOut, Reopen,
                 DriverDies, AfterFailure
        <5>2. driver'[c].pc \in {"idle", "mark", "reopen", "release", "begin"}
          BY <5>1, GotoType, FinishedType DEF NoJob, PC
        <5> QED BY <1>3, <3>3, <5>2 DEF SawReserved
      <4> QED BY <4>2, <4>3, <4>4
    <3>4. ASSUME NEW t \in Tx, BeginAttempt(c, t) \/ TakeOver(c, t) \/ ResumeRollback(c, t)
          PROVE  FALSE
      BY <1>3, <3>4, TakeOverContinues DEF BeginAttempt, ResumeRollback, JobAt, SawReserved
    <3>5. ASSUME c \in Loops, NEW row \in claimed[c], NextRow(c, row)
          PROVE  WasReserved(driver'[c].tx)
      BY <1>3, <3>5 DEF NextRow, JobAt, ReservedBeforeFinalize, SawReserved
    <3>6. ASSUME NEW t \in Tx, ReadForTakeover(c, t)
          PROVE  WasReserved(driver'[c].tx)
      <4>1. driver'[c].tx = t /\ driver'[c].seen = saga[t].state /\ driver'[c].pc = "takeover"
        BY <3>6 DEF ReadForTakeover, JobAt
      <4> QED BY <1>3, <3>6, <4>1 DEF ReservedBeforeFinalize, SawReserved
    <3> QED BY <3>1, <3>2, <3>3, <3>4, <3>5, <3>6, JobStep
  <2> QED BY <1>1, <2>1
<1>4. ASSUME NEW c \in Loops, NEW row \in claimed'[c], row.state = "RESERVED"
      PROVE  \E p \in replies' : p.tx = row.tx /\ p.type = "reserved"
  <2>1. WasReserved(row.tx)
    BY <1>4, ClaimStep DEF ReservedBeforeFinalize, RowOf
  <2> QED BY <1>1, <2>1
<1> QED BY <1>2, <1>3, <1>4 DEF ReservedBeforeFinalize, WasReserved

LEMMA RaceStep == RaceInv /\ [Next]_vars => RaceInv'
<1> SUFFICES ASSUME RaceInv, [Next]_vars PROVE RaceInv'
  OBVIOUS
<1>1. CASE Next
  BY <1>1, CoreStep, TakeoverStep, BegunStep, AsksStep, RepeatsStep, ReservedStep
     DEF RaceInv
<1>2. CASE UNCHANGED vars
  <2>1. CoreInv'
    BY <1>2, CoreStep DEF RaceInv
  <2> QED BY <1>2, <2>1
          DEF RaceInv, vars, ledgerVars, TakeoverHoldsTx, Begun, OnlyBegunAttempts, StateOf,
              AsksForBasket, RepeatsAskTheSame, ReservedBeforeFinalize, SawReserved, WasReserved
<1> QED BY <1>1, <1>2

\* No request, record or driver is ever of an attempt that has not begun: a
\* stale release never blocks a later attempt.
THEOREM AttemptsBegun == Spec => []OnlyBegunAttempts
<1>1. RaceInv => OnlyBegunAttempts
  BY DEF RaceInv, Begun
<1> QED BY <1>1, InitRace, RaceStep, PTL DEF Spec

\* All reserve requests of one attempt ask for the same lines.
THEOREM RepeatsAgree == Spec => []RepeatsAskTheSame
<1>1. RaceInv => RepeatsAskTheSame
  BY DEF RaceInv
<1> QED BY <1>1, InitRace, RaceStep, PTL DEF Spec

\* Nobody is charged unless Inventory once reserved stock for the transaction.
THEOREM NoSaleWithoutStock == Spec => []SoldWasReserved
<1>1. RaceInv => SoldWasReserved
  BY DEF RaceInv, CoreInv, RowsAgree, ReservedBeforeFinalize, SoldWasReserved, WasReserved
<1> QED BY <1>1, InitRace, RaceStep, PTL DEF Spec

\* Whatever drivers race, a sale or a cancellation stands, attempt numbers go
\* up by one and only from OPEN, and only an OPEN basket is scanned into.
THEOREM OutcomesAreFinal == Spec => OutcomesStand
<1> DEFINE Stand ==
      \A t \in Tx :
       /\ status[t] \in {"COMPLETED", "CANCELLED"} =>
            UNCHANGED <<status[t], basket[t], charged[t], saga[t].epoch>>
       /\ saga'[t].epoch # saga[t].epoch =>
            /\ saga'[t].epoch = saga[t].epoch + 1
            /\ status[t] = "OPEN"
       /\ basket'[t] # basket[t] => status[t] = "OPEN" /\ status'[t] = "OPEN"
<1>1. CoreInv /\ [Next]_vars => [Stand]_vars
  <2> SUFFICES ASSUME CoreInv, Next PROVE Stand
    OBVIOUS
  <2> SUFFICES ASSUME NEW t \in Tx
               PROVE  /\ status[t] \in {"COMPLETED", "CANCELLED"} =>
                           UNCHANGED <<status[t], basket[t], charged[t], saga[t].epoch>>
                      /\ saga'[t].epoch # saga[t].epoch =>
                           /\ saga'[t].epoch = saga[t].epoch + 1
                           /\ status[t] = "OPEN"
                      /\ basket'[t] # basket[t] => status[t] = "OPEN" /\ status'[t] = "OPEN"
    OBVIOUS
  <2>1. saga'[t].epoch # saga[t].epoch =>
          saga'[t].epoch = saga[t].epoch + 1 /\ status[t] = "OPEN"
    BY EpochStep DEF BeginAttempt
  <2> QED BY <2>1, StatusStep
<1> HIDE DEF Stand
<1>2. Spec => [][Stand]_vars
  BY <1>1, InitCore, CoreStep, PTL DEF Spec
<1> QED BY <1>2 DEF OutcomesStand, Stand
=============================================================================
