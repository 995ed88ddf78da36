--------------------------- MODULE StatementsProofs ---------------------------
(* Inventory statement by statement: its locks keep sessions apart, so that   *)
(* no unit is lost, nobody waits in a circle, and each COMMIT is one request  *)
(* handled by the ledger.                                                     *)
EXTENDS LedgerStatements, LedgerProofs

-----------------------------------------------------------------------------
(* The invariant *)

Session ==
  [at : {"idle", "lock", "row", "tombstone", "commit"},
   req : SUBSET (ReserveRequest \union ReleaseRequest),
   prior : RecordState, stock : SUBSET Skus, row : BOOLEAN, writes : Write,
   answer : {"none", "reserved", "rejected", "refused", "released"}, raced : BOOLEAN]

SessionsTypeOK ==
  /\ LedgerTypeOK
  /\ session \in [Sessions -> Session]
  /\ \A w \in Sessions :
       IF session[w].at = "idle" THEN session[w] = NoSession
       ELSE \E m \in requests : session[w].req = {m}

Reserves(w) == Asked(w).type = "reserve"
HasAll(w) == Wanted(w) \subseteq session[w].stock

\* What a session is going to commit is still right: its locks keep it so.
\* Only a session that was not overtaken can say so of an answer it read.
Decided(w) ==
  CASE session[w].writes = "apply" ->
         /\ Reserves(w) /\ State(w) = "NONE" /\ HasAll(w) /\ Covered(Asked(w).lines)
         /\ session[w].answer = "reserved"
    [] session[w].writes = "reject" ->
         /\ Reserves(w) /\ State(w) = "NONE" /\ HasAll(w) /\ ~ Covered(Asked(w).lines)
         /\ session[w].answer = "rejected"
    [] session[w].writes = "tombstone" ->
         /\ ~ Reserves(w) /\ State(w) = IF session[w].row THEN "REJECTED" ELSE "NONE"
         /\ session[w].answer = "released"
    [] session[w].writes = "restore" ->
         /\ ~ Reserves(w) /\ State(w) = "APPLIED" /\ session[w].row /\ HasAll(w)
         /\ session[w].answer = "released"
    [] OTHER ->
         /\ session[w].answer # "none"
         /\ ~ session[w].raced =>
              IF Reserves(w)
              THEN State(w) # "NONE" /\ session[w].answer = RecordedAnswer(State(w))
              ELSE State(w) = "RELEASED" /\ session[w].answer = "released"

\* Rows are locked in order, and a release has its record locked by then.
Locking(w) ==
  /\ \A s \in session[w].stock, r \in Wanted(w) \ session[w].stock : SkuOrder[s] < SkuOrder[r]
  /\ ~ Reserves(w) => session[w].row /\ State(w) = "APPLIED"

\* What a session has at each of its statements.
Sound(w) ==
  /\ IF session[w].at = "commit" THEN Decided(w) ELSE session[w].writes = "nothing"
  /\ session[w].at = "lock" => Locking(w)
  /\ session[w].at \in {"row", "tombstone"} =>
       ~ Reserves(w) /\ ~ session[w].row /\ session[w].stock = {}
  /\ session[w].at = "row" => State(w) # "NONE"
  /\ Reserves(w) => ~ session[w].row
  /\ (Reserves(w) /\ ~ session[w].raced) => session[w].prior = State(w)

\* What two sessions may not have both.
Apart(v, w) ==
  /\ session[v].stock \intersect session[w].stock = {}
  /\ SameKey(v, w) => ~ (session[v].row /\ session[w].row) /\ ~ (Inserts(v) /\ Inserts(w))
  /\ Asked(v).tx = Asked(w).tx => session[v].raced /\ session[w].raced

StatementsInv ==
  /\ SessionsTypeOK
  /\ \A w \in Busy : Sound(w)
  /\ \A v, w \in Busy : v # w => Apart(v, w)
  /\ StockConserved

-----------------------------------------------------------------------------
(* Sessions that do not move *)

LEMMA AskedType ==
  ASSUME SessionsTypeOK, NEW w \in Busy
  PROVE  /\ w \in Sessions /\ session[w].at # "idle" /\ session[w] \in Session
         /\ Asked(w) \in requests /\ session[w].req = {Asked(w)}
         /\ Asked(w).tx \in Tx /\ Asked(w).epoch \in Epochs
         /\ Asked(w).type \in {"reserve", "release"}
         /\ Reserves(w) => Asked(w).lines \in Lines
<1>1. w \in Sessions /\ session[w].at # "idle" /\ session[w] \in Session
  BY DEF Busy, SessionsTypeOK
<1>2. PICK m \in requests : session[w].req = {m}
  BY <1>1 DEF SessionsTypeOK
<1>3. Asked(w) = m
  BY <1>2 DEF Asked
<1> QED BY <1>1, <1>2, <1>3
        DEF Reserves, SessionsTypeOK, LedgerTypeOK, ReserveRequest, ReleaseRequest

\* The record of v may change under it: nothing it does depends on that.
Loose(v) ==
  /\ session[v].raced /\ session[v].writes = "nothing"
  /\ session[v].at = "lock" => Reserves(v)

\* v stands as it did, but may have been overtaken.
Stands(v) ==
  /\ session'[v].at = session[v].at /\ session'[v].req = session[v].req
  /\ session'[v].prior = session[v].prior /\ session'[v].stock = session[v].stock
  /\ session'[v].row = session[v].row /\ session'[v].writes = session[v].writes
  /\ session'[v].answer = session[v].answer
  /\ session'[v].raced = session[v].raced \/ session'[v].raced = TRUE

\* The rows that v has locked are as it found them, and no record goes away.
Undisturbed(v) ==
  /\ State(v) # "NONE" => record'[Asked(v).tx][Asked(v).epoch].state # "NONE"
  /\ record'[Asked(v).tx][Asked(v).epoch] = record[Asked(v).tx][Asked(v).epoch] \/ Loose(v)
  /\ HasAll(v) => \A s \in Wanted(v) : stock'[s] = stock[s]

LEMMA SoundKept ==
  ASSUME SessionsTypeOK, stock' \in Lines,
         NEW v \in Busy, Sound(v), Stands(v), Undisturbed(v)
  PROVE  Sound(v)' /\ Asked(v)' = Asked(v) /\ session'[v].at # "idle"
<1>0. v \in Sessions /\ session[v].at # "idle"
  BY AskedType
<1>1. Asked(v)' = Asked(v)
  BY DEF Asked, Stands
<1>2. Reserves(v)' <=> Reserves(v)
  BY <1>1 DEF Reserves
<1>3. CASE record'[Asked(v).tx][Asked(v).epoch] = record[Asked(v).tx][Asked(v).epoch]
  <2>1. State(v)' = State(v) /\ Wanted(v)' = Wanted(v)
    BY <1>1, <1>3 DEF State, StateOf, Wanted
  <2>2. HasAll(v)' <=> HasAll(v)
    BY <2>1 DEF HasAll, Stands
  <2>3. (HasAll(v) /\ Reserves(v)) => (Covered(Asked(v).lines)' <=> Covered(Asked(v).lines))
    <3> SUFFICES ASSUME HasAll(v), Reserves(v), NEW s \in Skus
                 PROVE  Asked(v).lines[s] <= stock'[s] <=> Asked(v).lines[s] <= stock[s]
      BY <1>1 DEF Covered
    <3>1. stock[s] \in Nat /\ stock'[s] \in Nat /\ Asked(v).lines[s] \in Nat
      BY AskedType DEF SessionsTypeOK, LedgerTypeOK, Lines
    <3>2. Asked(v).lines[s] = 0 \/ stock'[s] = stock[s]
      BY <3>1 DEF Undisturbed, Wanted, Reserves
    <3> QED BY <3>1, <3>2
  <2>4. Decided(v) => Decided(v)'
    <3> HIDE DEF Reserves, State, HasAll
    <3> QED BY <1>1, <1>2, <2>1, <2>2, <2>3 DEF Decided, Stands
  <2>5. Locking(v) => Locking(v)'
    BY <1>2, <2>1 DEF Locking, Stands
  <2> QED BY <1>0, <1>1, <1>2, <2>1, <2>4, <2>5 DEF Sound, Stands
<1>4. CASE Loose(v)
  <2>1. Reserves(v) => Wanted(v)' = Wanted(v)
    BY <1>1 DEF Wanted, Reserves
  <2>2. session'[v].raced = TRUE
    BY <1>0, <1>4 DEF Loose, Stands, SessionsTypeOK, Session
  <2>3. session[v].at = "commit" => Decided(v)'
    BY <1>4, <2>2 DEF Sound, Decided, Loose, Stands
  <2>4. session[v].at = "lock" => Locking(v)'
    BY <1>2, <1>4, <2>1 DEF Sound, Locking, Loose, Stands
  <2>5. State(v) # "NONE" => State(v)' # "NONE"
    BY <1>1 DEF Undisturbed, State, StateOf
  <2> QED BY <1>0, <1>1, <1>2, <1>4, <2>2, <2>3, <2>4, <2>5 DEF Sound, Stands, Loose
<1> QED BY <1>3, <1>4 DEF Undisturbed

LEMMA ApartKept ==
  ASSUME NEW v, NEW w, Apart(v, w), Stands(v), Stands(w)
  PROVE  Apart(v, w)'
<1>1. Asked(v)' = Asked(v) /\ Asked(w)' = Asked(w)
  BY DEF Asked, Stands
<1> QED BY <1>1 DEF Apart, SameKey, Inserts, Stands

-----------------------------------------------------------------------------
(* A session that moves to its next statement *)

LEMMA MoveSees ==
  ASSUME SessionsTypeOK, NEW w \in Busy, NEW next \in Session, Moves(w, next),
         next.req = session[w].req
  PROVE  /\ session'[w] = next
         /\ \A v \in Sessions : v # w => session'[v] = session[v]
         /\ \A v \in Sessions : /\ Asked(v)' = Asked(v) /\ State(v)' = State(v)
                                /\ Wanted(v)' = Wanted(v) /\ (Reserves(v)' <=> Reserves(v))
         /\ UNCHANGED ledgerVars
<1>1. session'[w] = next /\ \A v \in Sessions : v # w => session'[v] = session[v]
  BY AskedType DEF Moves, SessionsTypeOK
<1>2. UNCHANGED <<stock, record, alerts, requests, replies>>
  BY DEF Moves, ledgerVars
<1>3. \A v \in Sessions : Asked(v)' = Asked(v)
  BY <1>1 DEF Asked
<1> QED BY <1>1, <1>2, <1>3 DEF State, StateOf, Wanted, Reserves, ledgerVars

LEMMA MoveInv ==
  ASSUME StatementsInv, NEW w \in Busy, NEW next \in Session, Moves(w, next),
         next.req = session[w].req, next.at # "idle",
         Sound(w)', \A v \in Busy \ {w} : Apart(w, v)'
  PROVE  StatementsInv'
<1> USE DEF StatementsInv
<1>1. /\ session'[w] = next /\ UNCHANGED <<stock, record, alerts, requests, replies>>
      /\ \A v \in Sessions : v # w => session'[v] = session[v]
  BY MoveSees DEF ledgerVars
<1>2. SessionsTypeOK'
  <2>1. session' \in [Sessions -> Session]
    BY DEF SessionsTypeOK, Moves
  <2>2. \E m \in requests : next.req = {m}
    BY AskedType
  <2>3. LedgerTypeOK'
    BY <1>1 DEF SessionsTypeOK, LedgerTypeOK
  <2> QED BY <1>1, <2>1, <2>2, <2>3 DEF SessionsTypeOK
<1>3. ASSUME NEW v \in Sessions, session'[v].at # "idle", v # w
      PROVE  v \in Busy /\ Stands(v) /\ Sound(v)'
  <2>1. v \in Busy /\ Stands(v) /\ Undisturbed(v)
    BY <1>1, <1>3 DEF Busy, Stands, Undisturbed, State, StateOf
  <2>2. stock' \in Lines
    BY <1>2 DEF SessionsTypeOK, LedgerTypeOK
  <2> QED BY <2>1, <2>2, SoundKept
<1>4. ASSUME NEW u \in Sessions, NEW v \in Sessions, session'[u].at # "idle",
             session'[v].at # "idle", u # v
      PROVE  Apart(u, v)'
  <2>1. CASE u = w
    BY <1>3, <1>4, <2>1
  <2>2. CASE v = w
    <3>1. Apart(w, u)'
      BY <1>3, <1>4, <2>2
    <3> QED BY <2>2, <3>1 DEF Apart, SameKey
  <2>3. CASE u # w /\ v # w
    <3>1. u \in Busy /\ v \in Busy /\ Stands(u) /\ Stands(v)
      BY <1>3, <1>4, <2>3
    <3> QED BY <1>4, <3>1, ApartKept
  <2> QED BY <2>1, <2>2, <2>3
<1>5. StockConserved'
  BY <1>1, SameRecordSameUnits DEF StockConserved
<1> QED BY <1>2, <1>3, <1>4, <1>5 DEF Busy

\* Nobody that w would have to wait for is in its way.
LEMMA NobodyInTheWay ==
  ASSUME NEW w \in Busy, ~ Waits(w), NEW v \in Busy, v # w
  PROVE  /\ session[w].at = "lock" =>
              \A s \in session[v].stock : ~ NextInOrder(w, s)
         /\ (session[w].at = "lock" /\ HasAll(w) /\ session[w].prior = "NONE") =>
              ~ (Inserts(v) /\ SameKey(v, w))
         /\ session[w].at = "row" => ~ (session[v].row /\ SameKey(v, w))
         /\ session[w].at = "tombstone" => ~ (Inserts(v) /\ SameKey(v, w))
<1>1. ~ WaitsFor(w, v) /\ {v, w} \subseteq Busy
  BY DEF Waits, Busy
<1> QED BY <1>1 DEF WaitsFor, InsertWaits, HasAll

\* The next row is above those that w has locked, and nobody else has it.
LEMMA LockStockInv ==
  ASSUME StatementsInv, NEW w \in Sessions, NEW s \in Skus, LockStock(w, s)
  PROVE  StatementsInv'
<1> DEFINE next == [session[w] EXCEPT !.stock = @ \union {s}]
<1> USE DEF StatementsInv
<1>1. w \in Busy /\ session[w].at = "lock" /\ NextInOrder(w, s) /\ ~ Waits(w) /\ Moves(w, next)
  BY DEF LockStock, Busy
<1>2. /\ session[w] \in Session /\ next \in Session
      /\ next.stock = session[w].stock \union {s}
      /\ next.at = session[w].at /\ next.req = session[w].req /\ next.prior = session[w].prior
      /\ next.row = session[w].row /\ next.writes = session[w].writes
      /\ next.answer = session[w].answer /\ next.raced = session[w].raced
  BY <1>1, AskedType DEF Session
<1> HIDE DEF next
<1>3. /\ session'[w] = next /\ Asked(w)' = Asked(w) /\ State(w)' = State(w)
      /\ Wanted(w)' = Wanted(w) /\ (Reserves(w)' <=> Reserves(w))
      /\ \A v \in Sessions : v # w => session'[v] = session[v]
      /\ \A v \in Sessions : Asked(v)' = Asked(v)
  BY <1>1, <1>2, MoveSees
<1>4. Sound(w)'
  <2>1. Sound(w) /\ Locking(w)
    BY <1>1 DEF Sound
  <2>2. ASSUME NEW q \in next.stock, NEW r \in Wanted(w) \ next.stock
        PROVE  SkuOrder[q] < SkuOrder[r]
    <3>1. r \in Wanted(w) \ session[w].stock /\ r # s
      BY <1>2, <2>2
    <3>2. SkuOrder[s] <= SkuOrder[r] /\ SkuOrder[s] # SkuOrder[r]
      BY <1>1, <3>1, SkuOrderAssumption DEF NextInOrder, Wanted
    <3>3. CASE q = s
      BY <3>1, <3>2, <3>3, SkuOrderAssumption DEF Wanted
    <3>4. CASE q \in session[w].stock
      BY <2>1, <3>1, <3>4 DEF Locking
    <3> QED BY <1>2, <2>2, <3>3, <3>4
  <2>3. Locking(w)'
    BY <1>2, <1>3, <2>1, <2>2 DEF Locking
  <2> QED BY <1>1, <1>2, <1>3, <2>1, <2>3 DEF Sound
<1>5. ASSUME NEW v \in Busy \ {w} PROVE Apart(w, v)'
  <2>1. v \in Sessions /\ Apart(w, v) /\ session'[v] = session[v] /\ Asked(v)' = Asked(v)
    BY <1>1, <1>3, <1>5 DEF Busy
  <2>2. s \notin session[v].stock
    BY <1>1, <1>5, NobodyInTheWay
  <2> QED BY <1>2, <1>3, <2>1, <2>2 DEF Apart, SameKey, Inserts
<1> QED BY <1>1, <1>2, <1>4, <1>5, MoveInv

\* A move keeps w apart from v if it takes no stock row, and no record that v has.
LEMMA MoveApart ==
  ASSUME StatementsInv, NEW w \in Busy, NEW v \in Busy \ {w}, NEW next \in Session,
         Moves(w, next), next.req = session[w].req, next.raced = session[w].raced,
         next.stock \subseteq session[w].stock,
         next.row => session[w].row \/ ~ (session[v].row /\ SameKey(v, w)),
         next.writes \in {"apply", "reject", "tombstone"} => ~ (Inserts(v) /\ SameKey(v, w))
  PROVE  Apart(w, v)'
<1>1. v \in Sessions /\ w \in Sessions /\ Apart(w, v)
  BY DEF StatementsInv, Busy
<1>2. /\ session'[w] = next /\ session'[v] = session[v]
      /\ Asked(w)' = Asked(w) /\ Asked(v)' = Asked(v)
  BY <1>1, MoveSees DEF StatementsInv
<1> QED BY <1>1, <1>2 DEF Apart, SameKey, Inserts

\* Coming to COMMIT.
LEMMA FinishesInv ==
  ASSUME StatementsInv, NEW w \in Busy, session[w].at # "commit", NEW writes \in Write,
         NEW answer \in {"reserved", "rejected", "refused", "released"},
         Finishes(w, writes, answer), Decided(w)',
         \A v \in Busy \ {w} :
           writes \in {"apply", "reject", "tombstone"} => ~ (Inserts(v) /\ SameKey(v, w))
  PROVE  StatementsInv'
<1> DEFINE next == [session[w] EXCEPT !.at = "commit", !.writes = writes, !.answer = answer]
<1> USE DEF StatementsInv
<1>1. /\ Moves(w, next) /\ session[w] \in Session /\ next \in Session
      /\ next.at = "commit" /\ next.writes = writes /\ next.answer = answer
      /\ next.stock = session[w].stock /\ next.req = session[w].req
      /\ next.prior = session[w].prior /\ next.row = session[w].row
      /\ next.raced = session[w].raced
  BY AskedType DEF Finishes, Session
<1> HIDE DEF next
<1>2. /\ session'[w] = next /\ Asked(w)' = Asked(w) /\ State(w)' = State(w)
      /\ (Reserves(w)' <=> Reserves(w))
  BY <1>1, AskedType, MoveSees
<1>3. Sound(w)'
  BY <1>1, <1>2 DEF Sound
<1>4. \A v \in Busy \ {w} : Apart(w, v)'
  BY <1>1, MoveApart
<1> QED BY <1>1, <1>3, <1>4, MoveInv

\* What a session that finishes has, in terms of what it had.
LEMMA FinishesSees ==
  ASSUME StatementsInv, NEW w \in Busy, NEW writes \in Write,
         NEW answer \in {"reserved", "rejected", "refused", "released"},
         Finishes(w, writes, answer)
  PROVE  /\ Asked(w)' = Asked(w) /\ State(w)' = State(w) /\ (Reserves(w)' <=> Reserves(w))
         /\ (HasAll(w)' <=> HasAll(w))
         /\ \A lines : Covered(lines)' <=> Covered(lines)
         /\ session'[w].writes = writes /\ session'[w].answer = answer
         /\ session'[w].row = session[w].row /\ session'[w].raced = session[w].raced
<1> DEFINE next == [session[w] EXCEPT !.at = "commit", !.writes = writes, !.answer = answer]
<1> USE DEF StatementsInv
<1>1. /\ Moves(w, next) /\ session[w] \in Session /\ next \in Session
      /\ next.at = "commit" /\ next.writes = writes /\ next.answer = answer
      /\ next.stock = session[w].stock /\ next.req = session[w].req
      /\ next.prior = session[w].prior /\ next.row = session[w].row
      /\ next.raced = session[w].raced
  BY AskedType DEF Finishes, Session
<1> HIDE DEF next
<1>2. /\ session'[w] = next /\ Asked(w)' = Asked(w) /\ State(w)' = State(w)
      /\ (Reserves(w)' <=> Reserves(w)) /\ Wanted(w)' = Wanted(w) /\ stock' = stock
  BY <1>1, AskedType, MoveSees DEF ledgerVars
<1> QED BY <1>1, <1>2 DEF HasAll, Covered

\* A session about to decide has all its rows, and has not been overtaken unless
\* it is marked.
LEMMA ReserveDecides ==
  ASSUME StatementsInv, NEW w \in Sessions,
         ReservePrior(w) \/ ReserveOk(w) \/ ReserveLacks(w)
  PROVE  StatementsInv'
<1> USE DEF StatementsInv
<1>1. w \in Busy /\ session[w].at = "lock" /\ Reserves(w) /\ HasAll(w) /\ ~ session[w].row
  BY DEF ReservePrior, ReserveOk, ReserveLacks, Decides, Busy, Reserves, HasAll, Sound
<1>2. ~ session[w].raced => session[w].prior = State(w)
  BY <1>1 DEF Sound
<1>3. session[w].prior \in RecordState /\ State(w) \in RecordState
  BY <1>1, AskedType DEF Session, State, StateOf, SessionsTypeOK, LedgerTypeOK
<1>4. CASE ReservePrior(w)
  <2> DEFINE answer == RecordedAnswer(IF session[w].prior = "REJECTED" THEN State(w) ELSE session[w].prior)
  <2>1. answer \in {"reserved", "rejected", "refused"} /\ Finishes(w, "nothing", answer)
    BY <1>4 DEF ReservePrior, RecordedAnswer
  <2>2. ~ session[w].raced => State(w) # "NONE" /\ answer = RecordedAnswer(State(w))
    BY <1>2, <1>4 DEF ReservePrior
  <2> HIDE DEF answer
  <2>3. Decided(w)'
    BY <1>1, <2>1, <2>2, FinishesSees DEF Decided, Write
  <2> QED BY <1>1, <2>1, <2>3, FinishesInv DEF Write
<1>5. ASSUME session[w].prior = "NONE", ~ Waits(w), NEW v \in Busy \ {w}
      PROVE  ~ (Inserts(v) /\ SameKey(v, w))
  BY <1>1, <1>5, NobodyInTheWay
<1>6. CASE ReserveOk(w)
  <2>1. /\ Finishes(w, "apply", "reserved") /\ Covered(Asked(w).lines) /\ State(w) = "NONE"
        /\ session[w].prior = "NONE" /\ ~ Waits(w)
    BY <1>6 DEF ReserveOk
  <2>2. Decided(w)'
    BY <1>1, <2>1, FinishesSees DEF Decided, Write
  <2> QED BY <1>1, <1>5, <2>1, <2>2, FinishesInv DEF Write
<1>7. CASE ReserveLacks(w)
  <2>1. /\ ~ Covered(Asked(w).lines) /\ session[w].prior = "NONE" /\ ~ Waits(w)
    BY <1>7 DEF ReserveLacks
  <2>2. CASE State(w) = "NONE"
    <3>1. Finishes(w, "reject", "rejected")
      BY <1>7, <2>2 DEF ReserveLacks
    <3>2. Decided(w)'
      BY <1>1, <2>1, <2>2, <3>1, FinishesSees DEF Decided, Write
    <3> QED BY <1>1, <1>5, <2>1, <3>1, <3>2, FinishesInv DEF Write
  <2>3. CASE State(w) # "NONE"
    <3>1. Finishes(w, "nothing", "rejected") /\ session[w].raced
      BY <1>2, <1>7, <2>1, <2>3 DEF ReserveLacks
    <3>2. Decided(w)'
      BY <1>1, <3>1, FinishesSees DEF Decided, Write
    <3> QED BY <1>1, <3>1, <3>2, FinishesInv DEF Write
  <2> QED BY <2>2, <2>3
<1> QED BY <1>4, <1>6, <1>7

\* Starting over, with what was committed now for prior and no locks.
LEMMA ConflictInv ==
  ASSUME StatementsInv, NEW w \in Sessions, ReserveConflict(w)
  PROVE  StatementsInv'
<1> DEFINE next == [session[w] EXCEPT !.prior = State(w), !.stock = {}]
<1> USE DEF StatementsInv
<1>1. w \in Busy /\ session[w].at = "lock" /\ Reserves(w) /\ ~ session[w].row /\ Sound(w)
  BY DEF ReserveConflict, Decides, Busy, Reserves, Sound
<1>2. State(w) \in RecordState
  BY <1>1, AskedType DEF State, StateOf, SessionsTypeOK, LedgerTypeOK
<1>3. /\ Moves(w, next) /\ session[w] \in Session /\ next \in Session
      /\ next.at = "lock" /\ next.req = session[w].req /\ next.prior = State(w)
      /\ next.stock = {} /\ next.row = session[w].row /\ next.writes = session[w].writes
      /\ next.raced = session[w].raced
  BY <1>1, <1>2, AskedType DEF ReserveConflict, Session
<1> HIDE DEF next
<1>4. /\ session'[w] = next /\ Asked(w)' = Asked(w) /\ State(w)' = State(w)
      /\ (Reserves(w)' <=> Reserves(w))
  BY <1>1, <1>3, AskedType, MoveSees
<1>5. Sound(w)'
  BY <1>1, <1>3, <1>4 DEF Sound, Locking
<1>6. \A v \in Busy \ {w} : Apart(w, v)'
  BY <1>1, <1>3, MoveApart DEF Sound
<1> QED BY <1>1, <1>3, <1>5, <1>6, MoveInv

LEMMA TombstoneInv ==
  ASSUME StatementsInv, NEW w \in Sessions, Tombstone(w)
  PROVE  StatementsInv'
<1> USE DEF StatementsInv
<1>1. /\ w \in Busy /\ session[w].at = "tombstone" /\ ~ Reserves(w) /\ ~ session[w].row
      /\ session[w].stock = {} /\ Sound(w) /\ session[w].writes = "nothing"
  BY DEF Tombstone, Busy, Sound
<1>2. CASE State(w) = "NONE"
  <2>1. Finishes(w, "tombstone", "released")
    BY <1>2 DEF Tombstone
  <2>2. Decided(w)'
    BY <1>1, <1>2, <2>1, FinishesSees DEF Decided, Write
  <2>3. \A v \in Busy \ {w} : ~ (Inserts(v) /\ SameKey(v, w))
    BY <1>1, NobodyInTheWay DEF Tombstone
  <2> QED BY <1>1, <2>1, <2>2, <2>3, FinishesInv DEF Write
<1>3. CASE State(w) # "NONE"
  <2> DEFINE next == [session[w] EXCEPT !.at = "row"]
  <2>1. /\ Moves(w, next) /\ session[w] \in Session /\ next \in Session
        /\ next.at = "row" /\ next.req = session[w].req
        /\ next.stock = session[w].stock /\ next.row = session[w].row
        /\ next.writes = session[w].writes /\ next.raced = session[w].raced
    BY <1>1, <1>3, AskedType DEF Tombstone, Session
  <2> HIDE DEF next
  <2>2. /\ session'[w] = next /\ Asked(w)' = Asked(w) /\ (Reserves(w)' <=> Reserves(w))
        /\ State(w)' = State(w)
    BY <1>1, <2>1, AskedType, MoveSees
  <2>3. Sound(w)'
    BY <1>1, <1>3, <2>1, <2>2 DEF Sound
  <2>4. \A v \in Busy \ {w} : Apart(w, v)'
    BY <1>1, <2>1, MoveApart
  <2> QED BY <1>1, <2>1, <2>3, <2>4, MoveInv
<1> QED BY <1>2, <1>3

\* With its record locked, a release knows that the record stays.
LEMMA LockRecordInv ==
  ASSUME StatementsInv, NEW w \in Sessions, LockRecord(w)
  PROVE  StatementsInv'
<1> USE DEF StatementsInv
<1>1. /\ w \in Busy /\ session[w].at = "row" /\ ~ Reserves(w) /\ ~ session[w].row
      /\ session[w].stock = {} /\ Sound(w) /\ session[w].writes = "nothing"
  BY DEF LockRecord, Busy, Sound
<1>2. \A v \in Busy \ {w} : ~ (session[v].row /\ SameKey(v, w))
  BY <1>1, NobodyInTheWay DEF LockRecord
<1>3. State(w) \in RecordState
  BY <1>1, AskedType DEF State, StateOf, SessionsTypeOK, LedgerTypeOK
<1>4. CASE State(w) = "RELEASED"
  <2>1. Finishes(w, "nothing", "released")
    BY <1>4 DEF LockRecord
  <2>2. Decided(w)'
    BY <1>1, <1>4, <2>1, FinishesSees DEF Decided, Write
  <2> QED BY <1>1, <2>1, <2>2, FinishesInv DEF Write
<1>5. CASE State(w) = "REJECTED"
  <2> DEFINE next == [session[w] EXCEPT !.at = "commit", !.row = TRUE,
                                        !.writes = "tombstone", !.answer = "released"]
  <2>1. /\ Moves(w, next) /\ session[w] \in Session /\ next \in Session
        /\ next.at = "commit" /\ next.req = session[w].req /\ next.writes = "tombstone"
        /\ next.stock = session[w].stock /\ next.row /\ next.answer = "released"
        /\ next.raced = session[w].raced
    BY <1>1, <1>5, AskedType DEF LockRecord, Session, Write
  <2> HIDE DEF next
  <2>2. /\ session'[w] = next /\ Asked(w)' = Asked(w) /\ (Reserves(w)' <=> Reserves(w))
        /\ State(w)' = State(w)
    BY <1>1, <2>1, AskedType, MoveSees
  <2>3. Sound(w)'
    BY <1>1, <1>5, <2>1, <2>2 DEF Sound, Decided
  <2>4. ASSUME NEW v \in Busy \ {w}, Inserts(v), SameKey(v, w) PROVE FALSE
    <3>1. Sound(v) /\ State(v) = "REJECTED"
      BY <1>5, <2>4 DEF SameKey, State
    <3>2. session[v].row
      BY <2>4, <3>1 DEF Sound, Decided, Inserts
    <3> QED BY <1>2, <2>4, <3>2
  <2>5. \A v \in Busy \ {w} : Apart(w, v)'
    BY <1>1, <1>2, <2>1, <2>4, MoveApart
  <2> QED BY <1>1, <2>1, <2>3, <2>5, MoveInv
<1>6. CASE State(w) \notin {"RELEASED", "REJECTED"}
  <2> DEFINE next == [session[w] EXCEPT !.at = "lock", !.row = TRUE]
  <2>0. State(w) = "APPLIED"
    BY <1>1, <1>3, <1>6 DEF Sound, RecordState
  <2>1. /\ Moves(w, next) /\ session[w] \in Session /\ next \in Session
        /\ next.at = "lock" /\ next.req = session[w].req /\ next.writes = "nothing"
        /\ next.stock = session[w].stock /\ next.row
        /\ next.raced = session[w].raced
    BY <1>1, <1>6, AskedType DEF LockRecord, Session
  <2> HIDE DEF next
  <2>2. /\ session'[w] = next /\ Asked(w)' = Asked(w) /\ (Reserves(w)' <=> Reserves(w))
        /\ State(w)' = State(w)
    BY <1>1, <2>1, AskedType, MoveSees
  <2>3. Sound(w)'
    BY <1>1, <2>0, <2>1, <2>2 DEF Sound, Locking
  <2>4. \A v \in Busy \ {w} : Apart(w, v)'
    BY <1>1, <1>2, <2>1, MoveApart
  <2> QED BY <1>1, <2>1, <2>3, <2>4, MoveInv
<1> QED BY <1>4, <1>5, <1>6

LEMMA RestoreInv ==
  ASSUME StatementsInv, NEW w \in Sessions, Restore(w)
  PROVE  StatementsInv'
<1> USE DEF StatementsInv
<1>1. /\ w \in Busy /\ session[w].at = "lock" /\ Sound(w) /\ Finishes(w, "restore", "released")
      /\ HasAll(w) /\ ~ Reserves(w)
  BY DEF Restore, Busy, HasAll, Reserves
<1>2. session[w].row /\ State(w) = "APPLIED"
  BY <1>1 DEF Sound, Locking
<1>3. Decided(w)'
  BY <1>1, <1>2, FinishesSees DEF Decided, Write
<1> QED BY <1>1, <1>3, FinishesInv DEF Write

-----------------------------------------------------------------------------
(* A session that begins, and one that ends *)

LEMMA BeginInv ==
  ASSUME StatementsInv, NEW w \in Sessions, NEW m \in requests, Begin(w, m)
  PROVE  StatementsInv'
<1> USE DEF StatementsInv
<1> DEFINE twins == {v \in Busy : Asked(v).tx = m.tx}
           begun == [NoSession EXCEPT
                       !.at = IF m.type = "reserve" THEN "lock" ELSE "tombstone",
                       !.req = {m}, !.prior = StateOf(m.tx, m.epoch), !.raced = twins # {}]
<1>1. m.tx \in Tx /\ m.epoch \in Epochs /\ m.type \in {"reserve", "release"}
  BY DEF SessionsTypeOK, LedgerTypeOK, ReserveRequest, ReleaseRequest
<1>2. w \notin Busy /\ UNCHANGED <<stock, record, alerts, requests, replies>>
  BY DEF Begin, ledgerVars
<1>3. /\ begun.at = IF m.type = "reserve" THEN "lock" ELSE "tombstone"
      /\ begun.req = {m} /\ begun.prior = StateOf(m.tx, m.epoch) /\ begun.stock = {}
      /\ begun.row = FALSE /\ begun.writes = "nothing" /\ begun.raced = (twins # {})
  BY DEF NoSession
<1>4. begun \in Session
  <2>1. StateOf(m.tx, m.epoch) \in RecordState
    BY <1>1 DEF SessionsTypeOK, LedgerTypeOK, StateOf
  <2> QED BY <1>1, <2>1 DEF NoSession, Session, SessionsTypeOK, LedgerTypeOK, Write
<1>5. session' = [v \in Sessions |-> IF v = w THEN begun
                     ELSE IF v \in twins THEN [session[v] EXCEPT !.raced = TRUE] ELSE session[v]]
  BY DEF Begin
<1> HIDE DEF begun
<1>6. ASSUME NEW v \in Busy
      PROVE  /\ v # w /\ session'[v] \in Session /\ Stands(v) /\ Undisturbed(v)
             /\ v \in twins => session'[v].raced
  <2>1. v \in Sessions /\ session[v] \in Session /\ v # w
    BY <1>2, AskedType
  <2>2. session'[v] = IF v \in twins THEN [session[v] EXCEPT !.raced = TRUE] ELSE session[v]
    BY <1>5, <2>1
  <2> HIDE DEF twins
  <2>3. session'[v] \in Session /\ Stands(v) /\ (v \in twins => session'[v].raced)
    BY <2>1, <2>2 DEF Session, Stands
  <2> QED BY <1>2, <2>1, <2>3 DEF Undisturbed, State, StateOf
<1>7. ASSUME NEW v \in Sessions, v # w, v \notin Busy PROVE session'[v] = session[v]
  BY <1>5, <1>7
<1>8. session'[w] = begun /\ session'[w].at # "idle" /\ session'[w].req = {m} /\ m \in requests'
  BY <1>1, <1>2, <1>3, <1>5
<1>9. SessionsTypeOK'
  <2>1. session' \in [Sessions -> Session]
    BY <1>4, <1>5, <1>6, <1>7, <1>8 DEF SessionsTypeOK
  <2>2. LedgerTypeOK'
    BY <1>2 DEF SessionsTypeOK, LedgerTypeOK
  <2>3. ASSUME NEW v \in Sessions
        PROVE  IF session'[v].at = "idle" THEN session'[v] = NoSession
               ELSE \E n \in requests' : session'[v].req = {n}
    <3>1. CASE v \in Busy
      BY <1>2, <1>6, <3>1, AskedType DEF Stands
    <3>2. CASE v \notin Busy
      BY <1>2, <1>7, <1>8, <3>2 DEF SessionsTypeOK, Busy
    <3> QED BY <3>1, <3>2
  <2> QED BY <2>1, <2>2, <2>3 DEF SessionsTypeOK
<1>10. Asked(w)' = m
  BY <1>8 DEF Asked
<1>11. Sound(w)'
  BY <1>1, <1>2, <1>3, <1>8, <1>10 DEF Sound, Locking, Reserves, State, StateOf
<1>12. ASSUME NEW v \in Busy PROVE Sound(v)' /\ Asked(v)' = Asked(v)
  BY <1>6, <1>9, <1>12, SoundKept DEF SessionsTypeOK, LedgerTypeOK
<1>13. ASSUME NEW v \in Busy PROVE Apart(v, w)' /\ Apart(w, v)'
  BY <1>3, <1>6, <1>8, <1>10, <1>12 DEF Apart, Inserts
<1>14. ASSUME NEW v \in Busy, NEW u \in Busy, u # v PROVE Apart(u, v)'
  BY <1>6, <1>14, ApartKept
<1>15. \A v \in Busy' : v = w \/ v \in Busy
  BY <1>7 DEF Busy
<1>16. StockConserved'
  BY <1>2, SameRecordSameUnits DEF StockConserved
<1> QED BY <1>9, <1>11, <1>12, <1>13, <1>14, <1>15, <1>16

LEMMA LeaveInv ==
  ASSUME StatementsInv, NEW w \in Busy, session' = [session EXCEPT ![w] = NoSession],
         requests' = requests, LedgerTypeOK', StockConserved',
         \A v \in Busy \ {w} : Undisturbed(v)
  PROVE  StatementsInv'
<1> USE DEF StatementsInv
<1>1. /\ w \in Sessions /\ session'[w] = NoSession
      /\ \A v \in Sessions : v # w => session'[v] = session[v]
  BY DEF SessionsTypeOK, Busy
<1>2. NoSession \in Session
  BY DEF NoSession, Session, RecordState, Write
<1>3. SessionsTypeOK'
  <2>1. session' \in [Sessions -> Session]
    BY <1>1, <1>2 DEF SessionsTypeOK
  <2>2. \A v \in Sessions : IF session'[v].at = "idle" THEN session'[v] = NoSession
                            ELSE \E m \in requests' : session'[v].req = {m}
    BY <1>1 DEF SessionsTypeOK, NoSession
  <2> QED BY <2>1, <2>2 DEF SessionsTypeOK
<1>4. ASSUME NEW v \in Busy' PROVE v \in Busy \ {w} /\ Stands(v)
  <2>1. v \in Sessions /\ session'[v].at # "idle"
    BY <1>4 DEF Busy
  <2>2. v # w
    BY <1>1, <2>1 DEF NoSession
  <2>3. session'[v] = session[v]
    BY <1>1, <2>1, <2>2
  <2> QED BY <2>1, <2>2, <2>3 DEF Busy, Stands
<1>5. ASSUME NEW v \in Busy' PROVE Sound(v)'
  <2>1. v \in Busy /\ Stands(v) /\ Undisturbed(v) /\ stock' \in Lines
    BY <1>4 DEF LedgerTypeOK
  <2> QED BY <2>1, SoundKept
<1>6. ASSUME NEW u \in Busy', NEW v \in Busy', u # v PROVE Apart(u, v)'
  BY <1>4, <1>6, ApartKept
<1> QED BY <1>3, <1>5, <1>6

LEMMA AbortInv ==
  ASSUME StatementsInv, NEW w \in Busy, Aborts(w)
  PROVE  StatementsInv'
<1>1. /\ session' = [session EXCEPT ![w] = NoSession]
      /\ UNCHANGED <<stock, record, alerts, requests, replies>>
  BY DEF Aborts, Moves, ledgerVars
<1>2. LedgerTypeOK'
  BY <1>1 DEF StatementsInv, SessionsTypeOK, LedgerTypeOK
<1>3. StockConserved'
  BY <1>1, SameRecordSameUnits DEF StatementsInv, StockConserved
<1>4. \A v \in Busy \ {w} : Undisturbed(v)
  BY <1>1 DEF Undisturbed, State, StateOf
<1> QED BY <1>1, <1>2, <1>3, <1>4, LeaveInv

-----------------------------------------------------------------------------
(* COMMIT *)

\* What is committed is one request handled by the ledger, unless the session was
\* overtaken and only answers.
LEMMA CommitHandles ==
  ASSUME StatementsInv, NEW w \in Busy, Commits(w),
         session[w].writes # "nothing" \/ ~ session[w].raced
  PROVE  HandleReservation(Asked(w)) \/ HandleRelease(Asked(w))
<1> DEFINE m == Asked(w)
<1> USE DEF StatementsInv
<1>1. /\ session[w].at = "commit" /\ Written(w) /\ requests' = requests
      /\ replies' = replies \union {ReplyTo(m, session[w].answer)}
  BY DEF Commits
<1>2. /\ Decided(w) /\ session[w].writes \in Write /\ m.type \in {"reserve", "release"}
      /\ State(w) = StateOf(m.tx, m.epoch) /\ (Reserves(w) <=> m.type = "reserve")
      /\ (~ Reserves(w) <=> m.type = "release")
  BY <1>1, AskedType DEF Sound, Session, State, Reserves
<1> HIDE DEF m
<1>3. CASE session[w].writes = "apply"
  <2>1. Take(m.lines) /\ SetRecord(m, "APPLIED", m.lines)
    BY <1>1, <1>3 DEF Written, m
  <2>2. m.type = "reserve" /\ State(w) = "NONE" /\ Covered(m.lines) /\ session[w].answer = "reserved"
    BY <1>2, <1>3 DEF Decided, m
  <2>3. ReserveApplied(m)
    BY <1>1, <1>2, <2>1, <2>2 DEF ReserveApplied
  <2> QED BY <1>1, <2>2, <2>3 DEF HandleReservation, m
<1>4. CASE session[w].writes = "reject"
  <2>1. SetRecord(m, "REJECTED", Nothing) /\ UNCHANGED <<stock, alerts>>
    BY <1>1, <1>4 DEF Written, m
  <2>2. m.type = "reserve" /\ State(w) = "NONE" /\ ~ Covered(m.lines) /\ session[w].answer = "rejected"
    BY <1>2, <1>4 DEF Decided, m
  <2>3. ReserveShort(m)
    BY <1>1, <1>2, <2>1, <2>2 DEF ReserveShort
  <2> QED BY <1>1, <2>2, <2>3 DEF HandleReservation, m
<1>5. CASE session[w].writes = "tombstone"
  <2>1. SetRecord(m, "RELEASED", Nothing) /\ UNCHANGED <<stock, alerts>>
    BY <1>1, <1>5 DEF Written, m
  <2>2. m.type = "release" /\ State(w) \in {"NONE", "REJECTED"} /\ session[w].answer = "released"
    BY <1>2, <1>5 DEF Decided
  <2>3. ReleaseNothing(m)
    BY <1>2, <2>1, <2>2 DEF ReleaseNothing
  <2> QED BY <1>1, <2>1, <2>2, <2>3 DEF HandleRelease, m
<1>6. CASE session[w].writes = "restore"
  <2>1. /\ stock' = [s \in Skus |-> stock[s] + record[m.tx][m.epoch].lines[s]]
        /\ SetRecord(m, "RELEASED", record[m.tx][m.epoch].lines) /\ UNCHANGED alerts
    BY <1>1, <1>6 DEF Written, m
  <2>2. m.type = "release" /\ State(w) = "APPLIED" /\ session[w].answer = "released"
    BY <1>2, <1>6 DEF Decided
  <2>3. ReleaseApplied(m)
    BY <1>2, <2>1, <2>2 DEF ReleaseApplied
  <2> QED BY <1>1, <2>1, <2>2, <2>3 DEF HandleRelease, m
<1>7. CASE session[w].writes = "nothing" /\ ~ session[w].raced
  <2>1. UNCHANGED ledger
    BY <1>1, <1>7 DEF Written
  <2>2. IF Reserves(w)
        THEN State(w) # "NONE" /\ session[w].answer = RecordedAnswer(State(w))
        ELSE State(w) = "RELEASED" /\ session[w].answer = "released"
    BY <1>2, <1>7 DEF Decided
  <2>3. CASE Reserves(w)
    <3>1. ReserveReplayed(m)
      BY <1>1, <1>2, <2>1, <2>2, <2>3 DEF ReserveReplayed
    <3> QED BY <1>1, <1>2, <2>3, <3>1 DEF HandleReservation, m
  <2>4. CASE ~ Reserves(w)
    <3>1. ReleaseAgain(m) /\ alerts' = alerts
      BY <1>2, <2>1, <2>2, <2>4 DEF ReleaseAgain, ledger
    <3> QED BY <1>1, <1>2, <2>2, <2>4, <3>1 DEF HandleRelease, m
  <2> QED BY <2>3, <2>4
<1> QED BY <1>2, <1>3, <1>4, <1>5, <1>6, <1>7 DEF Write

\* Whoever another COMMIT overtakes is marked, and has decided nothing that its
\* record or its rows could contradict.
LEMMA CommitDisturbsNobody ==
  ASSUME StatementsInv, NEW w \in Busy, Commits(w),
         HandleReservation(Asked(w)) \/ HandleRelease(Asked(w)), NEW v \in Busy \ {w}
  PROVE  Undisturbed(v)
<1> USE DEF StatementsInv
<1>1. session[w].at = "commit" /\ Written(w) /\ Decided(w) /\ session[w].writes \in Write
  BY AskedType DEF Commits, Sound, Session
<1>2. Sound(v) /\ Apart(v, w) /\ (SameKey(v, w) => State(v) = State(w))
  BY DEF SameKey, State
<1>3. /\ Asked(v).tx \in Tx /\ Asked(v).epoch \in Epochs /\ Asked(w) \in requests
      /\ session[v].writes \in Write
  BY AskedType DEF Session
<1>4. \/ record'[Asked(v).tx][Asked(v).epoch] = record[Asked(v).tx][Asked(v).epoch]
      \/ /\ SameKey(v, w) /\ session[w].writes # "nothing"
         /\ record'[Asked(v).tx][Asked(v).epoch].state # "NONE"
  <2>1. session[w].writes = "nothing" => record' = record
    BY <1>1 DEF Written, ledger
  <2>2. \/ record'[Asked(v).tx][Asked(v).epoch] = record[Asked(v).tx][Asked(v).epoch]
        \/ SameKey(v, w) /\ record'[Asked(v).tx][Asked(v).epoch].state # "NONE"
    BY <1>3, LedgerStep DEF SessionsTypeOK, SameKey, StateOf
  <2> QED BY <2>1, <2>2
<1>5. ASSUME SameKey(v, w), session[w].writes # "nothing" PROVE Loose(v)
  <2>1. session[v].raced
    BY <1>2, <1>5 DEF Apart, SameKey
  <2>2. Inserts(w) \/ session[w].writes = "restore"
    BY <1>1, <1>5 DEF Inserts, Write
  <2>3. Inserts(w) => State(v) \in {"NONE", "REJECTED"} /\ ~ Inserts(v)
    BY <1>1, <1>2, <1>5 DEF Decided, Inserts, Apart
  <2>4. session[w].writes = "restore" => State(v) = "APPLIED" /\ ~ session[v].row
    BY <1>1, <1>2, <1>5 DEF Decided, Apart
  <2>5. Decided(v) => /\ Inserts(v) => State(v) \in {"NONE", "REJECTED"}
                      /\ session[v].writes = "restore" => State(v) = "APPLIED" /\ session[v].row
    BY DEF Decided, Inserts
  <2>6. session[v].writes = "nothing"
    BY <1>2, <1>3, <2>2, <2>3, <2>4, <2>5 DEF Sound, Inserts, Write
  <2>7. session[v].at = "lock" => Reserves(v)
    BY <1>2, <2>2, <2>3, <2>4 DEF Sound, Locking
  <2> QED BY <2>1, <2>6, <2>7 DEF Loose
<1>6. ASSUME HasAll(v), NEW s \in Wanted(v) PROVE stock'[s] = stock[s]
  <2>1. s \in Skus /\ s \notin session[w].stock
    BY <1>2, <1>6 DEF HasAll, Wanted, Apart
  <2>2. stock[s] \in Nat
    BY <2>1 DEF SessionsTypeOK, LedgerTypeOK, Lines
  <2>3. CASE session[w].writes = "apply"
    <3>1. stock'[s] = stock[s] - Asked(w).lines[s]
      BY <1>1, <2>1, <2>3 DEF Written, Take
    <3>2. Reserves(w) /\ HasAll(w)
      BY <1>1, <2>3 DEF Decided
    <3>3. Asked(w).lines[s] \in Nat /\ ~ (0 < Asked(w).lines[s])
      BY <2>1, <3>2, AskedType DEF HasAll, Wanted, Reserves, Lines
    <3> QED BY <2>2, <3>1, <3>3
  <2>4. CASE session[w].writes = "restore"
    <3>1. stock'[s] = stock[s] + record[Asked(w).tx][Asked(w).epoch].lines[s]
      BY <1>1, <2>1, <2>4 DEF Written
    <3>2. ~ Reserves(w) /\ HasAll(w)
      BY <1>1, <2>4 DEF Decided
    <3>3. record[Asked(w).tx][Asked(w).epoch].lines[s] \in Nat
      BY <2>1, AskedType DEF SessionsTypeOK, LedgerTypeOK, Lines
    <3>4. ~ (0 < record[Asked(w).tx][Asked(w).epoch].lines[s])
      BY <2>1, <3>2 DEF HasAll, Wanted, Reserves
    <3> QED BY <2>2, <3>1, <3>3, <3>4
  <2>5. CASE session[w].writes \notin {"apply", "restore"}
    BY <1>1, <2>5 DEF Written, Write, ledger
  <2> QED BY <2>3, <2>4, <2>5
<1> QED BY <1>4, <1>5, <1>6 DEF Undisturbed, State, StateOf

\* The reply of a session that was overtaken says what it read then.
LEMMA CommitAnswers ==
  ASSUME StatementsInv, NEW w \in Busy, Commits(w),
         session[w].writes = "nothing", session[w].raced
  PROVE  /\ LedgerTypeOK' /\ UNCHANGED ledger
<1> USE DEF StatementsInv
<1>1. UNCHANGED ledger
  BY DEF Commits, Written
<1>2. session[w].answer \in {"reserved", "rejected", "refused", "released"}
  <2>1. Decided(w) /\ session[w].answer \in {"none", "reserved", "rejected", "refused", "released"}
    BY AskedType DEF Commits, Sound, Session
  <2> QED BY <2>1 DEF Decided
<1>3. ReplyTo(Asked(w), session[w].answer) \in Reply
  BY <1>2, AskedType DEF ReplyTo, Reply
<1> QED BY <1>1, <1>3 DEF Commits, SessionsTypeOK, LedgerTypeOK, ledger

LEMMA CommitInv ==
  ASSUME StatementsInv, NEW w \in Sessions, Commits(w)
  PROVE  StatementsInv'
<1> USE DEF StatementsInv
<1>1. w \in Busy /\ session' = [session EXCEPT ![w] = NoSession] /\ requests' = requests
  BY DEF Commits, Busy
<1>2. CASE session[w].writes # "nothing" \/ ~ session[w].raced
  <2>1. HandleReservation(Asked(w)) \/ HandleRelease(Asked(w))
    BY <1>1, <1>2, CommitHandles
  <2>2. Asked(w) \in requests /\ LedgerTypeOK
    BY <1>1, AskedType DEF SessionsTypeOK
  <2>3. LedgerTypeOK' /\ StockConserved'
    BY <2>1, <2>2, LedgerTypeStep, ConservedStep
  <2>4. \A v \in Busy \ {w} : Undisturbed(v)
    BY <1>1, <2>1, CommitDisturbsNobody
  <2> QED BY <1>1, <2>3, <2>4, LeaveInv
<1>3. CASE session[w].writes = "nothing" /\ session[w].raced
  <2>1. LedgerTypeOK' /\ UNCHANGED <<stock, record>>
    BY <1>1, <1>3, CommitAnswers DEF ledger
  <2>2. StockConserved'
    BY <2>1, SameRecordSameUnits DEF StockConserved
  <2>3. \A v \in Busy \ {w} : Undisturbed(v)
    BY <2>1 DEF Undisturbed, State, StateOf
  <2> QED BY <1>1, <2>1, <2>2, <2>3, LeaveInv
<1> QED BY <1>2, <1>3

-----------------------------------------------------------------------------

LEMMA InitStatements == StatementsInit => StatementsInv
<1> SUFFICES ASSUME StatementsInit PROVE StatementsInv
  OBVIOUS
<1>1. LedgerTypeOK /\ StockConserved
  BY LedgerInitInv DEF StatementsInit, LedgerInv
<1>2. NoSession \in Session
  BY DEF NoSession, Session, RecordState, Write
<1>3. \A w \in Sessions : session[w] = NoSession /\ session[w].at = "idle"
  BY DEF StatementsInit, NoSession
<1>4. SessionsTypeOK
  BY <1>1, <1>2, <1>3 DEF SessionsTypeOK, StatementsInit
<1>5. Busy = {}
  BY <1>3 DEF Busy
<1> QED BY <1>1, <1>4, <1>5 DEF StatementsInv

\* The ledger may get new requests, or stay: the sessions are as they were.
LEMMA SameSessionsInv ==
  ASSUME StatementsInv, LedgerTypeOK', requests \subseteq requests',
         UNCHANGED <<stock, record, session>>
  PROVE  StatementsInv'
<1> USE DEF StatementsInv
<1>1. SessionsTypeOK'
  BY DEF SessionsTypeOK
<1>2. Busy' = Busy
  BY DEF Busy
<1>3. ASSUME NEW v \in Busy PROVE Stands(v) /\ Sound(v)'
  <2>1. Stands(v) /\ Undisturbed(v) /\ stock' \in Lines
    BY DEF Stands, Undisturbed, State, StateOf, LedgerTypeOK
  <2> QED BY <2>1, SoundKept
<1>4. \A u, v \in Busy : u # v => Apart(u, v)'
  BY <1>3, ApartKept
<1>5. StockConserved'
  BY SameRecordSameUnits DEF StockConserved
<1> QED BY <1>1, <1>2, <1>3, <1>4, <1>5

LEMMA StatementsStep ==
  StatementsInv /\ [StatementsNext]_statementVars => StatementsInv'
<1> SUFFICES ASSUME StatementsInv, [StatementsNext]_statementVars PROVE StatementsInv'
  OBVIOUS
<1>1. ASSUME NEW w \in Sessions, NEW m \in requests, Begin(w, m) PROVE StatementsInv'
  BY <1>1, BeginInv
<1>2. ASSUME NEW w \in Sessions, Step(w) PROVE StatementsInv'
  <2>1. ASSUME NEW s \in Skus, LockStock(w, s) PROVE StatementsInv'
    BY <2>1, LockStockInv
  <2>2. CASE ReservePrior(w) \/ ReserveOk(w) \/ ReserveLacks(w)
    BY <2>2, ReserveDecides
  <2>3. CASE ReserveConflict(w)
    BY <2>3, ConflictInv
  <2>4. CASE Tombstone(w)
    BY <2>4, TombstoneInv
  <2>5. CASE LockRecord(w)
    BY <2>5, LockRecordInv
  <2>6. CASE Restore(w)
    BY <2>6, RestoreInv
  <2>7. CASE Commits(w)
    BY <2>7, CommitInv
  <2> QED BY <1>2, <2>1, <2>2, <2>3, <2>4, <2>5, <2>6, <2>7 DEF Step
<1>3. ASSUME NEW w \in Sessions, Aborts(w) PROVE StatementsInv'
  BY <1>3, AbortInv DEF Aborts
<1>4. CASE Ask /\ UNCHANGED session
  <2>1. LedgerTypeOK' /\ requests \subseteq requests' /\ UNCHANGED <<stock, record, session>>
    BY <1>4, AskTypes DEF StatementsInv, SessionsTypeOK
  <2> QED BY <2>1, SameSessionsInv
<1>5. CASE UNCHANGED statementVars
  <2>1. UNCHANGED <<stock, record, alerts, requests, replies, session>>
    BY <1>5 DEF statementVars, ledgerVars
  <2>2. LedgerTypeOK'
    BY <2>1 DEF StatementsInv, SessionsTypeOK, LedgerTypeOK
  <2> QED BY <2>1, <2>2, SameSessionsInv
<1> QED BY <1>1, <1>2, <1>3, <1>4, <1>5 DEF StatementsNext

LEMMA StatementsKeep == StatementsSpec => []StatementsInv
BY InitStatements, StatementsStep, PTL DEF StatementsSpec

\* However copies of a request, releases and other baskets overlap, and whichever
\* of their sessions dies, no unit is lost or sold twice and no COMMIT meets the
\* CHECK (current_stock >= 0).
THEOREM OverlapsLoseNothing == StatementsSpec => []NoUnitLost
<1>1. StatementsInv => NoUnitLost
  BY DEF StatementsInv, SessionsTypeOK, LedgerTypeOK, NoUnitLost
<1> QED BY <1>1, StatementsKeep, PTL

\* A session that moves on shows nothing: only its COMMIT does, and that is the
\* ledger handling its request, unless the session was overtaken.
LEMMA StatementMaps ==
  StatementsInv /\ [StatementsNext]_statementVars =>
    [ \/ LedgerNext \/ Ask
      \/ \E w \in Sessions : session[w].raced /\ Commits(w) ]_ledgerVars
<1> DEFINE Goal == [ \/ LedgerNext \/ Ask
                     \/ \E w \in Sessions : session[w].raced /\ Commits(w) ]_ledgerVars
<1> SUFFICES ASSUME StatementsInv, [StatementsNext]_statementVars PROVE Goal
  OBVIOUS
<1>1. ASSUME NEW w \in Sessions, Commits(w) PROVE Goal
  <2>1. CASE session[w].raced
    BY <1>1, <2>1
  <2>2. CASE ~ session[w].raced
    <3>1. w \in Busy
      BY <1>1 DEF Commits, Busy
    <3>2. Asked(w) \in requests
      BY <3>1, AskedType DEF StatementsInv
    <3>3. HandleReservation(Asked(w)) \/ HandleRelease(Asked(w))
      BY <1>1, <2>2, <3>1, CommitHandles
    <3> QED BY <3>2, <3>3 DEF LedgerNext
  <2> QED BY <2>1, <2>2
<1>2. ASSUME NEW w \in Sessions, Step(w), ~ Commits(w) PROVE UNCHANGED ledgerVars
  BY <1>2 DEF Step, LockStock, ReservePrior, ReserveOk, ReserveConflict, ReserveLacks,
              Tombstone, LockRecord, Restore, Finishes, Moves
<1>3. ASSUME NEW w \in Sessions, Aborts(w) \/ \E m \in requests : Begin(w, m)
      PROVE  UNCHANGED ledgerVars
  BY <1>3 DEF Aborts, Begin, Moves
<1> QED BY <1>1, <1>2, <1>3 DEF StatementsNext, statementVars

\* Statement by statement, Inventory is the ledger that takes each request at once,
\* as long as requests of one transaction do not overlap.
THEOREM StatementsMakeLedger == StatementsSpec => ImplementsLedger
<1>1. StatementsInit => LedgerInit
  BY DEF StatementsInit
<1> DEFINE Maps == [ \/ LedgerNext \/ Ask
                     \/ \E w \in Sessions : session[w].raced /\ Commits(w) ]_ledgerVars
<1>2. StatementsInv /\ [StatementsNext]_statementVars => Maps
  BY StatementMaps
<1> QED BY <1>1, <1>2, StatementsKeep, PTL DEF StatementsSpec, ImplementsLedger

-----------------------------------------------------------------------------
(* Nobody waits in a circle *)

LEMMA HasHighest ==
  ASSUME NEW L, IsFiniteSet(L), L # {}, NEW k, \A u \in L : k[u] \in Nat
  PROVE  \E u \in L : \A v \in L : k[v] <= k[u]
<1> DEFINE Right == {s \in SUBSET L : s = {} \/ \E u \in s : \A v \in s : k[v] <= k[u]}
<1>1. {} \in Right
  OBVIOUS
<1>2. ASSUME NEW s \in SUBSET L, NEW x \in L \ s, s \in Right PROVE s \union {x} \in Right
  <2>1. CASE s = {}
    BY <2>1
  <2>2. ASSUME NEW u \in s, \A v \in s : k[v] <= k[u] PROVE s \union {x} \in Right
    <3>1. CASE k[x] <= k[u]
      BY <2>2, <3>1
    <3>2. CASE k[u] <= k[x]
      <4>1. \A v \in s \union {x} : k[v] <= k[x]
        BY <2>2, <3>2
      <4> QED BY <4>1
    <3> QED BY <2>2, <3>1, <3>2
  <2> QED BY <1>2, <2>1, <2>2
<1> HIDE DEF Right
<1>3. L \in Right
  BY <1>1, <1>2, GrowsUp
<1> QED BY <1>3 DEF Right

\* Whom a session waits for: who commits, or who locks rows as well.
LEMMA WaitsForWhom ==
  ASSUME StatementsInv, NEW w \in Busy, NEW v \in Busy, WaitsFor(w, v),
         session[v].at # "commit"
  PROVE  /\ session[w].at # "commit" /\ session[v].at = "lock"
         /\ session[w].at = "lock" => \E s \in session[v].stock : NextInOrder(w, s)
<1>1. Sound(v) /\ session[v].at \in {"lock", "row", "tombstone", "commit"}
  BY AskedType DEF StatementsInv, Session
<1>2. ~ Inserts(v)
  BY <1>1 DEF Sound, Inserts
<1>3. session[v].stock # {} \/ session[v].row => session[v].at = "lock"
  BY <1>1 DEF Sound
<1> QED BY <1>2, <1>3 DEF WaitsFor, InsertWaits

\* "deadlock structurally impossible": of the sessions that lock rows, the one whose
\* next row is the last in the order waits for none of the others, since what each of
\* them has is before its own next row.
THEOREM OrderPreventsDeadlock == StatementsSpec => []NoDeadlock
<1>1. StatementsInv => NoDeadlock
  <2> SUFFICES ASSUME StatementsInv, NEW S \in SUBSET Busy, S # {},
                      \A w \in S : \E v \in S : WaitsFor(w, v)
               PROVE  FALSE
    BY DEF NoDeadlock
  <2>1. \A w \in S : session[w].at # "commit"
    BY DEF WaitsFor
  <2> DEFINE L == {u \in S : session[u].at = "lock"}
             next(u) == CHOOSE s \in Skus : NextInOrder(u, s)
             k == [u \in L |-> SkuOrder[next(u)]]
  <2>2. ASSUME NEW w \in S
        PROVE  \E v \in L : WaitsFor(w, v) /\ (w \in L => \E s \in session[v].stock : NextInOrder(w, s))
    BY <2>1, WaitsForWhom
  <2>3. ASSUME NEW w \in L PROVE next(w) \in Skus /\ NextInOrder(w, next(w)) /\ k[w] \in Nat
    <3>1. \E s \in Skus : NextInOrder(w, s)
      BY <2>2 DEF NextInOrder, Wanted
    <3> QED BY <3>1, SkuOrderAssumption
  <2>4. ASSUME NEW w \in L PROVE \E v \in L : k[w] < k[v]
    <3>1. PICK v \in L : \E s \in session[v].stock : NextInOrder(w, s)
      BY <2>2
    <3>2. PICK s \in session[v].stock : NextInOrder(w, s)
      BY <3>1
    <3>3. s \in Skus /\ SkuOrder[s] <= SkuOrder[next(w)] /\ SkuOrder[next(w)] <= SkuOrder[s]
      BY <2>3, <3>2 DEF NextInOrder, Wanted
    <3>4. k[w] = SkuOrder[s]
      BY <2>3, <3>3, SkuOrderAssumption
    <3>5. next(v) \in Wanted(v) \ session[v].stock
      BY <2>3 DEF NextInOrder
    <3>6. SkuOrder[s] < SkuOrder[next(v)]
      BY <3>2, <3>5 DEF StatementsInv, Sound, Locking
    <3> QED BY <3>4, <3>6
  <2>5. L # {} /\ IsFiniteSet(L)
    <3>1. L \subseteq Sessions
      BY DEF Busy
    <3> QED BY <2>2, <3>1, SessionsAssumption, FS_Subset
  <2>6. \A w \in L : k[w] \in Nat
    BY <2>3
  <2> HIDE DEF L, k
  <2>7. PICK u \in L : \A v \in L : k[v] <= k[u]
    BY <2>5, <2>6, HasHighest
  <2>8. PICK v \in L : k[u] < k[v]
    BY <2>4
  <2>9. k[v] <= k[u] /\ k[u] \in Nat /\ k[v] \in Nat
    BY <2>6, <2>7
  <2> QED BY <2>8, <2>9
<1> QED BY <1>1, StatementsKeep, PTL
=============================================================================
