---------------------------- MODULE SagaInvariants ----------------------------
(***************************************************************************)
(* Why the saga is right, as inductive invariants.  RaceInv holds whatever *)
(* drivers race and whatever answers are lost.  SoleInv holds when a saga  *)
(* has one driver at a time, as SoleDriver assumes.                        *)
(***************************************************************************)
EXTENDS CompletionSaga

\* The four switches together: they leave a saga one driver at a time.
SoleDriver == LeaseCoversDriver /\ LoneCompensator /\ TakeoverAlone /\ CommitAckKept

-----------------------------------------------------------------------------
(* RaceInv *)

\* Attempts are numbered from 1, and a driver at work has one.  A takeover has
\* read an open state that is not being rolled back.
Numbered ==
  /\ \A t \in Tx : IF saga[t].state = "NONE" THEN saga[t].epoch = 0
                                              ELSE saga[t].epoch \in Epochs
  /\ \A d \in Drivers :
       /\ driver[d].pc # "idle" => driver[d].tx \in Tx /\ driver[d].epoch \in Epochs
       /\ driver[d].pc = "takeover" => driver[d].seen \in {"RESERVING", "RESERVED"}

\* The rows agree and attempts are numbered, whatever races.  Inductive.
CoreInv == TypeOK /\ RowsAgree /\ Numbered

\* A call that takes a saga over holds the transaction alone: it stays
\* COMPLETING in the same attempt until the call has written.  (The state it has
\* read may be old by then.)
TakeoverHoldsTx ==
  /\ \A d \in Drivers : driver[d].pc = "takeover" =>
       /\ d \in Handlers
       /\ status[driver[d].tx] = "COMPLETING"
       /\ driver[d].epoch = saga[driver[d].tx].epoch
  /\ \A c, d \in Drivers :
       (driver[c].pc = "takeover" /\ driver[d].pc = "takeover" /\ driver[c].tx = driver[d].tx)
         => c = d

\* Requests, records, drivers and claimed rows are of attempts that have begun.
Begun ==
  /\ OnlyBegunAttempts
  /\ \A d \in Loops : \A row \in claimed[d] : row.epoch <= saga[row.tx].epoch

\* While an attempt is in progress its requests ask for the basket; the basket
\* changes only after it, and then the next attempt has another number.
AsksForBasket ==
  \A m \in requests :
    (m.type = "reserve" /\ m.epoch = saga[m.tx].epoch /\ status[m.tx] = "COMPLETING")
      => m.lines = basket[m.tx]

WasReserved(t) == \E p \in replies : p.tx = t /\ p.type = "reserved"

\* Who goes on to finalize, or writes RESERVED.
SawReserved(d) ==
  \/ driver[d].pc \in {"reserved", "finalize"}
  \/ driver[d].pc = "takeover" /\ driver[d].seen = "RESERVED"

\* Whoever may finalize has seen the stock reserved, at some time.
ReservedBeforeFinalize ==
  /\ \A t \in Tx : saga[t].state \in {"RESERVED", "COMPLETED"} => WasReserved(t)
  /\ \A d \in Drivers : SawReserved(d) => WasReserved(driver[d].tx)
  /\ \A d \in Loops : \A row \in claimed[d] : row.state = "RESERVED" => WasReserved(row.tx)

\* However many drivers race, and whatever answers are lost: the rows agree,
\* attempts are numbered, a takeover holds its transaction, a request asks for
\* the basket of its attempt, and who may finalize has seen stock reserved.
\* Inductive.
RaceInv == CoreInv /\ TakeoverHoldsTx /\ Begun /\ AsksForBasket /\ RepeatsAskTheSame
           /\ ReservedBeforeFinalize

-----------------------------------------------------------------------------
(* SoleInv *)

Over(t, e) == StateOf(t, e) \in {"REJECTED", "RELEASED"}

\* An attempt ends only after its record says that it holds nothing and can
\* take nothing.
EndedAttemptsOver ==
  \A t \in Tx, e \in Epochs :
    (e < saga[t].epoch \/ (e = saga[t].epoch /\ saga[t].state = "ABORTED"))
      => Over(t, e)

\* The release of an attempt is asked for only by rolling it back.
ReleaseMeansRollback ==
  /\ \A m \in requests :
       (m.type = "release" /\ m.epoch = saga[m.tx].epoch)
         => saga[m.tx].state \in {"COMPENSATING", "ABORTED"}
  /\ \A t \in Tx, e \in Epochs :
       StateOf(t, e) = "RELEASED" => Release(t, e) \in requests

\* Once RESERVED, an attempt holds its stock until it is rolled back.
ReservedHolds ==
  \A t \in Tx : saga[t].state \in {"RESERVED", "COMPLETED"} =>
    saga[t].epoch \in Epochs /\ StateOf(t, saga[t].epoch) = "APPLIED"

\* The basket is what the attempt priced, what its record took and, in the
\* end, what the shopper was charged for.
PricedAsTaken ==
  \A t \in Tx :
    /\ status[t] = "COMPLETING" => saga[t].epoch \in Epochs /\ saga[t].total = basket[t]
    /\ status[t] = "COMPLETED" => charged[t] = basket[t]
    /\ \A e \in Epochs : StateOf(t, e) = "APPLIED" => record[t][e].lines = basket[t]

\* A driver that is alive drives the current attempt of a COMPLETING transaction.
DriverIsCurrent ==
  \A d \in Drivers : driver[d].pc \in Live =>
    LET t == driver[d].tx IN
    /\ t \in Tx
    /\ status[t] = "COMPLETING"
    /\ driver[d].epoch = saga[t].epoch
    /\ driver[d].total = saga[t].total
    /\ driver[d].pc \in {"reserve", "reserved"} => saga[t].state \in {"RESERVING", "RESERVED"}
    /\ driver[d].pc = "reserved" => StateOf(t, saga[t].epoch) = "APPLIED"
    /\ driver[d].pc = "finalize" => saga[t].state = "RESERVED"
    /\ driver[d].pc = "release" => saga[t].state = "COMPENSATING"
    /\ driver[d].pc = "reopen" => Over(t, saga[t].epoch)

\* A claimed row is still what the completion row says.
ClaimIsCurrent ==
  \A d \in Loops : \A row \in claimed[d] :
    /\ status[row.tx] = "COMPLETING"
    /\ row.epoch = saga[row.tx].epoch
    /\ row.total = saga[row.tx].total
    /\ row.state = saga[row.tx].state

\* One driver, or one claim, per transaction.
OneAttendant ==
  /\ \A c, d \in Drivers, t \in Tx :
       (Drives(c, t) \/ HasClaim(c, t)) /\ (Drives(d, t) \/ HasClaim(d, t)) => c = d
  /\ \A d \in Loops : \A row \in claimed[d] :
       /\ ~ Drives(d, row.tx)
       /\ \A other \in claimed[d] : other.tx = row.tx => other = row

\* What a takeover has read is still so when it writes.
TakeoverIsCurrent ==
  \A d \in Drivers : driver[d].pc = "takeover" =>
    LET t == driver[d].tx IN
    /\ driver[d].total = saga[t].total
    /\ driver[d].seen = saga[t].state
    /\ ~ saga[t].fresh /\ ~ Attended(t)

\* The lease of an attended saga that is not being rolled back has not run out.
AttendedIsFresh ==
  \A t \in Tx :
    (Attended(t) /\ saga[t].state \in {"RESERVING", "RESERVED"}) => saga[t].fresh

\* With one driver per saga: its driver, its claim, its row and its record tell
\* one story at every step, and nothing is held or released outside it.
SoleInv ==
  /\ RaceInv /\ RepliesReportRecords
  /\ NothingOrphaned /\ EndedAttemptsOver /\ ReleaseMeansRollback /\ ReservedHolds
  /\ PricedAsTaken /\ DriverIsCurrent /\ ClaimIsCurrent /\ OneAttendant
  /\ TakeoverIsCurrent /\ AttendedIsFresh
=============================================================================
