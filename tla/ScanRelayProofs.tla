---------------------------- MODULE ScanRelayProofs ----------------------------
(***************************************************************************)
(* Checkout's scan relay, for any number of workers, ids, logs and         *)
(* failures.  The saved position covers published scans only, whether or   *)
(* not a leader outlives its lock; while none does, what is published is   *)
(* in order and a reader of it has all of this log up to the position.     *)
(***************************************************************************)
EXTENDS ScanRelay, FiniteSetTheorems, TLAPS

\* A scan that is on the topic, or never will commit.
Settled(i) ==
  \/ scans[i] = "aborted"
  \/ scans[i] = "committed" /\ \E k \in 1..Len(stream) : stream[k] = Recorded(i, log)

\* Nobody holds a token of a log that is still to come, and what is published
\* names a log.
TokensPast ==
  /\ saved.token <= log
  /\ \A w \in Workers : relay[w].token <= log
  /\ \A w \in Workers : relay[w].at = "replaced" => relay[w].token # 0
  /\ \A w \in Workers :
       relay[w].at = "publish" =>
         relay[w].src # 0 /\ relay[w].token <= relay[w].src /\ relay[w].src <= log

\* The sequence has handed out every id below one it handed out.
IdsInOrder == \A i, j \in Ids : j < i /\ scans[i] # "free" => scans[j] # "free"

\* A pass that read this log's position read one that was settled.
ReadIsSettled ==
  \A w \in Workers :
    relay[w].at \in {"read", "same"} /\ relay[w].token = log =>
      \A i \in 1..relay[w].pos : Settled(i)

\* All that a pass will save over is settled or is still on its way.
BatchIsSettled ==
  \A w \in Workers :
    relay[w].at = "publish" /\ relay[w].token = log =>
      \A i \in 1..relay[w].upto :
        Settled(i) \/ (i \in relay[w].left /\ scans[i] = "committed")

RelayInv ==
  /\ RelayTypeOK
  /\ TokensPast
  /\ IdsInOrder
  /\ SavedIsPublished
  /\ ReadIsSettled
  /\ BatchIsSettled

-----------------------------------------------------------------------------
(* A batch has the lowest ids: a committed id below one of them is another. *)
LEMMA RowsAreLowest ==
  ASSUME NEW pos \in Nat, NEW m \in Rows(pos), NEW j \in Committed, pos < j, j < m
  PROVE  j \in Rows(pos)
<1> DEFINE Below(n) == {k \in Committed : k > pos /\ k < n}
<1>1. Below(j) \subseteq Below(m)
  BY MaxScansAssumption DEF Rows, Committed, Ids
<1>2. IsFiniteSet(Below(m))
  <2>1. IsFiniteSet(1..MaxScans)
    BY FS_Interval, MaxScansAssumption
  <2>2. Below(m) \subseteq 1..MaxScans
    BY DEF Committed, Ids
  <2> QED BY <2>1, <2>2, FS_Subset
<1>3. /\ IsFiniteSet(Below(j))
      /\ Cardinality(Below(j)) <= Cardinality(Below(m))
  BY <1>1, <1>2, FS_Subset
<1>4. Cardinality(Below(j)) \in Nat /\ Cardinality(Below(m)) \in Nat
  BY <1>2, <1>3, FS_CardinalityType
<1>5. Cardinality(Below(m)) < Batch
  BY DEF Rows
<1>6. Cardinality(Below(j)) < Batch
  BY <1>3, <1>4, <1>5, RelayAssumption
<1> QED BY <1>6 DEF Rows
-----------------------------------------------------------------------------
(* Types *)

\* Where a pass stands, and what it stands on.
PassState ==
  [at : {"out", "lead", "read", "fresh", "replaced", "reset", "same", "publish"},
   pos : Ids \cup {0}, token : Logs \cup {0}, left : SUBSET Ids,
   upto : Ids \cup {0}, src : Logs \cup {0}, gap : 0..MaxScans + 1]

LEMMA RestsIsAState ==
  ASSUME NEW gap \in 0..MaxScans + 1
  PROVE  /\ Rests(gap) \in PassState
         /\ [Idle EXCEPT !.gap = gap] \in PassState
         /\ Idle \in PassState
<1>1. Idle \in PassState
  BY MaxScansAssumption DEF Idle, PassState
<1>2. [Idle EXCEPT !.gap = gap] \in PassState
  BY <1>1 DEF PassState
<1>3. [Idle EXCEPT !.at = "lead", !.gap = gap] \in PassState
  BY <1>1 DEF PassState
<1> QED BY <1>1, <1>2, <1>3 DEF Rests

LEMMA TypesInit == RelayInit => RelayTypeOK
<1> SUFFICES ASSUME RelayInit PROVE RelayTypeOK
  OBVIOUS
<1>1. log \in Logs /\ saved \in [pos : Ids \cup {0}, token : Logs \cup {0}]
  BY MaxLogsAssumption DEF RelayInit, Logs
<1>2. relay \in [Workers -> PassState]
  <2>1. 0 \in 0..MaxScans + 1
    BY MaxScansAssumption
  <2> QED BY <2>1, RestsIsAState DEF RelayInit
<1>3. stream \in Seq({Recorded(i, g) : i \in Ids, g \in Logs} \cup {LogReset(g) : g \in Logs})
  BY DEF RelayInit
<1>4. faults \in 0..MaxFaults
  BY RelayAssumption DEF RelayInit
<1>5. /\ scans \in [Ids -> ScanState]
      /\ lock \in Workers \cup {NoWorker}
      /\ outlived \in BOOLEAN
  BY DEF RelayInit, ScanState
<1> QED BY <1>1, <1>2, <1>3, <1>4, <1>5 DEF RelayTypeOK, PassState

\* A walk ends on an id of its rows, and its gap is the id after it.
LEMMA GapIsAnId ==
  ASSUME NEW rows, NEW n \in Int, -1 <= n, n <= MaxScans
  PROVE  GapAfter(n, rows) \in 0..MaxScans + 1
BY MaxScansAssumption DEF GapAfter

LEMMA TakesIsAState ==
  ASSUME RelayTypeOK, NEW w \in Workers, NEW e \in 1..MaxScans + 1,
         NEW n \in (e - 1)..MaxScans, NEW gap \in 0..MaxScans + 1
  PROVE  Takes(w, e, n, gap) \in PassState
<1>1. CASE n < e
  BY <1>1, RestsIsAState DEF Takes
<1>2. CASE n >= e
  <2>1. n \in Ids /\ e..n \subseteq Ids
    BY <1>2, MaxScansAssumption DEF Ids
  <2>2. relay[w] \in PassState /\ log \in Logs
    BY DEF RelayTypeOK, PassState
  <2>3. Takes(w, e, n, gap) =
          [relay[w] EXCEPT !.at = "publish", !.left = e..n, !.src = log, !.gap = gap, !.upto = n]
    BY <1>2, MaxScansAssumption DEF Takes
  <2> QED BY <2>1, <2>2, <2>3 DEF PassState
<1> QED BY <1>1, <1>2, MaxScansAssumption

LEMMA TypesStep ==
  ASSUME RelayTypeOK, TokensPast, [RelayNext]_relayVars
  PROVE  RelayTypeOK'
<1> DEFINE Event == {Recorded(i, g) : i \in Ids, g \in Logs} \cup {LogReset(g) : g \in Logs}
           Rest == /\ log' \in Logs
                   /\ scans' \in [Ids -> ScanState]
                   /\ saved' \in [pos : Ids \cup {0}, token : Logs \cup {0}]
                   /\ lock' \in Workers \cup {NoWorker}
                   /\ stream' \in Seq(Event)
                   /\ faults' \in 0..MaxFaults
                   /\ outlived' \in BOOLEAN
<1>0. /\ relay \in [Workers -> PassState]
      /\ \A w \in Workers : relay[w].gap \in 0..MaxScans + 1
  BY DEF RelayTypeOK, PassState
<1>t. ASSUME relay' \in [Workers -> PassState], Rest PROVE RelayTypeOK'
  BY <1>t DEF RelayTypeOK, PassState
<1>u. UNCHANGED <<log, scans, saved, lock, stream, faults, outlived>> => Rest
  BY DEF RelayTypeOK
<1>v. /\ log \in Logs /\ saved.pos \in Ids \cup {0} /\ saved.token \in Logs \cup {0}
  BY DEF RelayTypeOK
<1>e. stream \in Seq(Event)
  BY DEF RelayTypeOK
<1>s. ASSUME NEW w \in Workers, NEW r \in PassState, relay' = [relay EXCEPT ![w] = r], Rest
      PROVE  RelayTypeOK'
  <2>1. relay' \in [Workers -> PassState]
    BY <1>0, <1>s
  <2> HIDE DEF Rest
  <2> QED BY <1>t, <1>s, <2>1
<1>f. ASSUME Fails PROVE faults' \in 0..MaxFaults
  BY <1>f, RelayAssumption DEF Fails, RelayTypeOK
<1>a. /\ Logs \subseteq Int /\ 1 \in Logs
      /\ \A g \in Logs : g < MaxLogs => g + 1 \in Logs
  BY MaxLogsAssumption DEF Logs
<1>1. ASSUME NEW i \in Ids, BeginScan(i) \/ EndScan(i) PROVE RelayTypeOK'
  <2>1. scans' \in [Ids -> ScanState]
    BY <1>1 DEF BeginScan, EndScan, RelayTypeOK, ScanState
  <2> QED BY <1>1, <2>1 DEF BeginScan, EndScan, RelayTypeOK, Recorded, LogReset
<1>2. ASSUME NEW d \in BOOLEAN, ReplaceLog(d) PROVE RelayTypeOK'
  BY <1>2, <1>a DEF ReplaceLog, RelayTypeOK, ScanState
<1> SUFFICES ASSUME NEW w \in Workers,
                    \/ Contend(w) \/ Pass(w) \/ NoticesLockLost(w)
                    \/ PublishFails(w) \/ StepsDown(w) \/ WorkerDies(w) \/ LockLost(w)
             PROVE  RelayTypeOK'
  <2>1. CASE UNCHANGED relayVars
    BY <2>1 DEF relayVars, RelayTypeOK
  <2> QED BY <1>1, <1>2, <2>1 DEF RelayNext
<1>w. relay[w] \in PassState /\ relay[w].gap \in 0..MaxScans + 1
  BY <1>0
<1>r. /\ Rests(relay[w].gap) \in PassState
      /\ Rests(0) \in PassState
      /\ [Idle EXCEPT !.gap = relay[w].gap] \in PassState
      /\ Idle \in PassState
  <2>1. 0 \in 0..MaxScans + 1
    BY MaxScansAssumption
  <2> QED BY <1>w, <2>1, RestsIsAState
<1>3. CASE Contend(w)
  <2>1. [relay[w] EXCEPT !.at = "lead"] \in PassState
    BY <1>w DEF PassState
  <2>2. relay' = [relay EXCEPT ![w] = [relay[w] EXCEPT !.at = "lead"]]
    BY <1>0, <1>3 DEF Contend
  <2>3. Rest
    BY <1>3 DEF Contend, RelayTypeOK
  <2> HIDE DEF Rest
  <2> QED BY <1>s, <2>1, <2>2, <2>3
<1>4. CASE NoticesLockLost(w) \/ PublishFails(w) \/ StepsDown(w) \/ WorkerDies(w)
  <2>1. Rest
    BY <1>4, <1>f DEF NoticesLockLost, PublishFails, StepsDown, WorkerDies, Released, RelayTypeOK
  <2>2. \E r \in PassState : relay' = [relay EXCEPT ![w] = r]
    BY <1>0, <1>4, <1>r DEF NoticesLockLost, PublishFails, StepsDown, WorkerDies
  <2> HIDE DEF Rest
  <2> QED BY <1>s, <2>1, <2>2
<1>5. CASE LockLost(w)
  BY <1>5, <1>f DEF LockLost, RelayTypeOK
<1>6. CASE ReadState(w)
  <2>1. [relay[w] EXCEPT !.at = "read", !.pos = saved.pos, !.token = saved.token] \in PassState
    BY <1>w, <1>v DEF PassState
  <2>2. Rest
    BY <1>6, <1>f DEF ReadState, Moves, RelayTypeOK
  <2>3. relay' = [relay EXCEPT ![w] =
          [relay[w] EXCEPT !.at = "read", !.pos = saved.pos, !.token = saved.token]]
    BY <1>6 DEF ReadState, Moves
  <2> HIDE DEF Rest
  <2> QED BY <1>s, <2>1, <2>2, <2>3
<1>7. CASE ReadToken(w)
  <2>1. PICK a \in {"fresh", "replaced", "same"} :
          relay' = [relay EXCEPT ![w] = [relay[w] EXCEPT !.at = a, !.token = log]]
    BY <1>7 DEF ReadToken, Moves
  <2>2. [relay[w] EXCEPT !.at = a, !.token = log] \in PassState
    BY <1>w, <1>v DEF PassState
  <2>3. Rest
    BY <1>7 DEF ReadToken, Moves, RelayTypeOK
  <2> HIDE DEF Rest
  <2> QED BY <1>s, <2>1, <2>2, <2>3
<1>8. CASE SaveFresh(w) \/ SaveReset(w)
  <2>1. [pos |-> 0, token |-> relay[w].token] \in [pos : Ids \cup {0}, token : Logs \cup {0}]
    BY <1>w DEF PassState
  <2>2. Rest
    BY <1>8, <2>1 DEF SaveFresh, SaveReset, Moves, RelayTypeOK
  <2>3. \E r \in PassState : relay' = [relay EXCEPT ![w] = r]
    BY <1>8, <1>r DEF SaveFresh, SaveReset, Moves
  <2> HIDE DEF Rest
  <2> QED BY <1>s, <2>2, <2>3
<1>9. CASE PublishReset(w)
  <2>1. [relay[w] EXCEPT !.at = "reset"] \in PassState
    BY <1>w DEF PassState
  <2>2. relay[w].token \in Logs
    BY <1>9, <1>w DEF PublishReset, PassState, TokensPast
  <2>3. LogReset(relay[w].token) \in Event
    BY <2>2
  <2>4. stream' \in Seq(Event)
    BY <1>9, <1>e, <2>3 DEF PublishReset, Stored
  <2>5. Rest
    BY <1>9, <2>4 DEF PublishReset, Moves, RelayTypeOK
  <2>6. relay' = [relay EXCEPT ![w] = [relay[w] EXCEPT !.at = "reset"]]
    BY <1>9 DEF PublishReset, Moves
  <2> HIDE DEF Rest
  <2> QED BY <1>s, <2>1, <2>5, <2>6
<1>10. CASE PublishScan(w)
  <2>1. PICK i \in relay[w].left :
          /\ Stored(Recorded(i, relay[w].src))
          /\ relay' = [relay EXCEPT ![w] = [relay[w] EXCEPT !.left = @ \ {i}]]
    BY <1>10 DEF PublishScan, Moves
  <2>2. [relay[w] EXCEPT !.left = @ \ {i}] \in PassState
    BY <1>w DEF PassState
  <2>3. i \in Ids /\ relay[w].src \in Logs
    BY <1>10, <1>w DEF PublishScan, PassState, TokensPast
  <2>4. Recorded(i, relay[w].src) \in Event
    BY <2>3
  <2>5. stream' \in Seq(Event)
    BY <1>e, <2>1, <2>4 DEF Stored
  <2>6. Rest
    BY <1>10, <2>5 DEF PublishScan, Moves, RelayTypeOK
  <2> HIDE DEF Rest
  <2> QED BY <1>s, <2>1, <2>2, <2>6
<1>11. CASE SavePosition(w)
  <2>1. saved' \in [pos : Ids \cup {0}, token : Logs \cup {0}]
    BY <1>11, <1>w DEF SavePosition, PassState
  <2>2. Rest
    BY <1>11, <2>1 DEF SavePosition, Moves, RelayTypeOK
  <2>3. relay' = [relay EXCEPT ![w] = Rests(relay[w].gap)]
    BY <1>11 DEF SavePosition, Moves
  <2> HIDE DEF Rest
  <2> QED BY <1>s, <1>r, <2>2, <2>3
<1>12. CASE ReadBatch(w)
  <2> DEFINE rows == Rows(relay[w].pos)
             gap(n) == IF rows = {} THEN relay[w].gap ELSE GapAfter(n, rows)
  <2>1. relay[w].pos \in Ids \cup {0} /\ relay[w].pos + 1 \in 1..MaxScans + 1
    BY <1>w, MaxScansAssumption DEF PassState, Ids
  <2>2. PICK n \in ((relay[w].pos + 1) - 1)..MaxScans :
          relay' = [relay EXCEPT ![w] = Takes(w, relay[w].pos + 1, n, gap(n))]
    BY <1>12, Zenon DEF ReadBatch, Moves
  <2>3. gap(n) \in 0..MaxScans + 1
    <3>1. GapAfter(n, rows) \in 0..MaxScans + 1
      BY <2>1, <2>2, GapIsAnId, MaxScansAssumption DEF Ids
    <3> QED BY <1>w, <3>1
  <2>4. Takes(w, relay[w].pos + 1, n, gap(n)) \in PassState
    BY <2>1, <2>3, TakesIsAState
  <2>5. Rest
    BY <1>12 DEF ReadBatch, Moves, RelayTypeOK
  <2> HIDE DEF Rest, gap
  <2> QED BY <1>s, <2>2, <2>4, <2>5
<1>13. CASE SkipGap(w)
  <2> DEFINE rows == Rows(relay[w].pos)
  <2>1. relay[w].pos \in Ids \cup {0}
    BY <1>w DEF PassState
  <2>2. PICK m \in rows, n \in Ids :
          m <= n /\ relay' = [relay EXCEPT ![w] = Takes(w, m, n, GapAfter(n, rows))]
    BY <1>13 DEF SkipGap, Moves
  <2>3. m \in 1..MaxScans + 1 /\ n \in (m - 1)..MaxScans
    BY <2>2, MaxScansAssumption DEF Rows, Committed, Ids
  <2>4. GapAfter(n, rows) \in 0..MaxScans + 1
    BY <2>2, GapIsAnId, MaxScansAssumption DEF Ids
  <2>5. Takes(w, m, n, GapAfter(n, rows)) \in PassState
    BY <2>3, <2>4, TakesIsAState
  <2>6. Rest
    BY <1>13 DEF SkipGap, Moves, RelayTypeOK
  <2> HIDE DEF Rest
  <2> QED BY <1>s, <2>2, <2>5, <2>6
<1> QED BY <1>3, <1>4, <1>5, <1>6, <1>7, <1>8, <1>9, <1>10, <1>11, <1>12, <1>13 DEF Pass

-----------------------------------------------------------------------------
(* The position *)

LEMMA RelayInvInit == RelayInit => RelayInv
<1> SUFFICES ASSUME RelayInit PROVE RelayInv
  OBVIOUS
<1>1. RelayTypeOK
  BY TypesInit
<1>2. TokensPast
  BY DEF RelayInit, TokensPast, Idle
<1>3. IdsInOrder /\ SavedIsPublished /\ ReadIsSettled /\ BatchIsSettled
  BY DEF RelayInit, IdsInOrder, SavedIsPublished, ReadIsSettled, BatchIsSettled, Idle
<1> QED BY <1>1, <1>2, <1>3 DEF RelayInv

\* What is settled stays so while the log and its table stand still.
LEMMA SettledStays ==
  ASSUME RelayTypeOK, UNCHANGED <<log, scans>>,
         stream' = stream \/ \E e : Stored(e)
  PROVE  \A i \in Int : Settled(i) => Settled(i)'
<1>1. PICK T : stream \in Seq(T)
  BY DEF RelayTypeOK
<1>2. \A k \in 1..Len(stream) : k \in 1..Len(stream') /\ stream'[k] = stream[k]
  BY <1>1 DEF Stored
<1> QED BY <1>2 DEF Settled, Recorded

\* A worker's step leaves the table and the other passes alone: its own pass and
\* the saved position are all there is to look at.
LEMMA WorkerStep ==
  ASSUME RelayInv, NEW w \in Workers, UNCHANGED <<log, scans>>,
         stream' = stream \/ \E e : Stored(e),
         \A u \in Workers : u # w => relay'[u] = relay[u],
         \/ saved' = saved
         \/ saved'.token <= log /\ (saved'.token = log => \A i \in 1..saved'.pos : Settled(i)),
         relay'[w].token <= log,
         relay'[w].at = "replaced" => relay'[w].token # 0,
         relay'[w].at = "publish" =>
           relay'[w].src # 0 /\ relay'[w].token <= relay'[w].src /\ relay'[w].src <= log,
         relay'[w].at \in {"read", "same"} /\ relay'[w].token = log =>
           \A i \in 1..relay'[w].pos : Settled(i),
         relay'[w].at = "publish" /\ relay'[w].token = log =>
           \A i \in 1..relay'[w].upto :
             Settled(i)' \/ (i \in relay'[w].left /\ scans[i] = "committed")
  PROVE  TokensPast' /\ IdsInOrder' /\ SavedIsPublished' /\ ReadIsSettled' /\ BatchIsSettled'
<1>1. \A i \in Int : Settled(i) => Settled(i)'
  BY SettledStays DEF RelayInv
<1>2. TokensPast' /\ IdsInOrder'
  BY DEF RelayInv, TokensPast, IdsInOrder
<1>3. saved'.token = log => \A i \in 1..saved'.pos : Settled(i)
  BY DEF RelayInv, SavedIsPublished, Settled
<1>4. SavedIsPublished'
  BY <1>1, <1>3 DEF SavedIsPublished, Settled
<1>5. ReadIsSettled'
  BY <1>1 DEF RelayInv, ReadIsSettled
<1>6. BatchIsSettled'
  BY <1>1 DEF RelayInv, BatchIsSettled
<1> QED BY <1>2, <1>4, <1>5, <1>6

\* A batch starts right after the position, or after ids that never commit.
LEMMA BatchFollows ==
  ASSUME RelayInv, NEW w \in Workers, relay[w].at = "same",
         ReadBatch(w) \/ SkipGap(w), relay'[w].at = "publish"
  PROVE  /\ relay'[w].left \subseteq Committed /\ relay'[w].left \subseteq 1..relay'[w].upto
         /\ \A i \in 1..relay'[w].upto :
              i <= relay[w].pos \/ scans[i] = "aborted" \/ i \in relay'[w].left
<1> DEFINE rows == Rows(relay[w].pos)
           e == relay[w].pos + 1
           Follows == /\ relay'[w].left \subseteq Committed
                      /\ relay'[w].left \subseteq 1..relay'[w].upto
                      /\ \A i \in 1..relay'[w].upto :
                           i <= relay[w].pos \/ scans[i] = "aborted" \/ i \in relay'[w].left
<1>0. /\ relay[w] \in PassState /\ relay[w].pos \in Nat
      /\ scans \in [Ids -> ScanState]
      /\ relay \in [Workers -> PassState]
  BY MaxScansAssumption DEF RelayInv, RelayTypeOK, PassState, Ids
<1>1. ASSUME NEW m \in Int, NEW n \in Int, NEW gap, m <= n, Walk(m, n, rows),
             relay' = [relay EXCEPT ![w] = Takes(w, m, n, gap)],
             \A j \in e..(m - 1) : scans[j] = "aborted"
      PROVE  Follows
  <2>1. relay'[w] = Takes(w, m, n, gap)
    BY <1>0, <1>1
  <2>2. relay'[w].left = m..n /\ relay'[w].upto = n
    BY <1>0, <1>1, <2>1 DEF Takes, PassState
  <2>3. m..n \subseteq Committed /\ m..n \subseteq Ids
    BY <1>1 DEF Walk, Rows, Committed
  <2>4. \A j \in m..n : 1 <= j
    BY <1>1, <2>3 DEF Ids
  <2>5. m..n \subseteq 1..n
    BY <1>1, <2>4
  <2> QED BY <1>0, <1>1, <2>2, <2>3, <2>5
<1> HIDE DEF Follows
<1>2. CASE ReadBatch(w)
  <2>n. PICK n \in (e - 1)..MaxScans : \E gap :
          Walk(e, n, rows) /\ relay' = [relay EXCEPT ![w] = Takes(w, e, n, gap)]
    BY <1>2, Zenon DEF ReadBatch, Moves
  <2>1. PICK gap :
          Walk(e, n, rows) /\ relay' = [relay EXCEPT ![w] = Takes(w, e, n, gap)]
    BY <2>n
  <2>2. n >= e
    <3>1. SUFFICES ASSUME n < e PROVE FALSE
      BY <1>0, <2>1, MaxScansAssumption
    <3>2. relay'[w] = Rests(gap)
      BY <1>0, <2>1, <3>1 DEF Takes
    <3> QED BY <3>2 DEF Rests, Idle
  <2>3. e \in Int /\ n \in Int /\ e <= n /\ \A j \in e..(e - 1) : scans[j] = "aborted"
    BY <1>0, <2>1, <2>2, MaxScansAssumption
  <2> HIDE DEF e, rows
  <2> QED BY <1>1, <2>1, <2>3 DEF Follows
<1>3. CASE SkipGap(w)
  <2>1. PICK m \in rows, n \in Ids :
          /\ m # e /\ \A j \in rows : m <= j
          /\ GraceCovers(e, m - 1)
          /\ m <= n /\ Walk(m, n, rows)
          /\ relay' = [relay EXCEPT ![w] = Takes(w, m, n, GapAfter(n, rows))]
    BY <1>3 DEF SkipGap, Moves
  <2>2. m \in Ids /\ m \in Int /\ n \in Int /\ m > relay[w].pos /\ scans[m] = "committed"
    BY <2>1, MaxScansAssumption DEF Rows, Committed, Ids
  <2>3. ASSUME NEW j \in e..(m - 1) PROVE scans[j] = "aborted"
    <3>1. j \in Ids /\ j < m /\ relay[w].pos < j
      BY <1>0, <2>2, <2>3, MaxScansAssumption DEF Ids
    <3>2. j \notin Committed
      BY <1>0, <2>1, <3>1, RowsAreLowest, <2>2
    <3>3. scans[j] # "open"
      BY <2>1, <2>3 DEF GraceCovers
    <3>4. scans[j] # "free"
      BY <2>2, <3>1 DEF RelayInv, IdsInOrder
    <3> QED BY <1>0, <3>1, <3>2, <3>3, <3>4 DEF Committed, ScanState
  <2> QED BY <1>1, <2>1, <2>2, <2>3 DEF Follows
<1> QED BY <1>2, <1>3 DEF Follows

LEMMA RelayInvStep ==
  ASSUME RelayInv, [RelayNext]_relayVars
  PROVE  RelayInv'
<1> DEFINE Rest == TokensPast /\ IdsInOrder /\ SavedIsPublished /\ ReadIsSettled /\ BatchIsSettled
<1>0. /\ RelayTypeOK /\ RelayTypeOK'
      /\ relay \in [Workers -> PassState]
      /\ scans \in [Ids -> ScanState]
      /\ log \in Nat /\ log' \in Nat
  BY TypesStep, MaxLogsAssumption DEF RelayInv, RelayTypeOK, PassState, Logs
<1> SUFFICES Rest'
  BY <1>0 DEF RelayInv
<1>1. ASSUME NEW i \in Ids, BeginScan(i) \/ EndScan(i) PROVE Rest'
  <2>1. /\ UNCHANGED <<log, saved, relay, stream>>
        /\ \E s \in ScanState : scans' = [scans EXCEPT ![i] = s] /\ s # "free"
        /\ scans[i] \in {"free", "open"}
        /\ \A j \in Ids : j < i => scans[j] # "free"
    BY <1>1 DEF BeginScan, EndScan, ScanState, RelayInv, IdsInOrder
  <2>2. \A j \in Ids : Settled(j) => Settled(j)'
    BY <1>0, <2>1 DEF Settled, Recorded
  <2>3. TokensPast' /\ IdsInOrder'
    BY <1>0, <2>1 DEF RelayInv, TokensPast, IdsInOrder
  <2>4. \A j \in Ids : scans[j] = "committed" => scans'[j] = "committed"
    BY <1>0, <2>1
  <2>5. /\ saved.pos \in Ids \cup {0}
        /\ \A w \in Workers : relay[w].pos \in Ids \cup {0} /\ relay[w].upto \in Ids \cup {0}
    BY DEF RelayInv, RelayTypeOK
  <2>6. \A p \in Ids \cup {0} : 1..p \subseteq Ids
    BY MaxScansAssumption DEF Ids
  <2>7. SavedIsPublished'
    <3>1. saved.token = log => \A j \in 1..saved.pos : Settled(j)
      BY DEF RelayInv, SavedIsPublished, Settled
    <3>2. saved.token = log => \A j \in 1..saved.pos : Settled(j)'
      BY <2>2, <2>5, <2>6, <3>1
    <3> QED BY <2>1, <3>2 DEF SavedIsPublished, Settled
  <2>8. ReadIsSettled'
    BY <2>1, <2>2, <2>5, <2>6 DEF RelayInv, ReadIsSettled
  <2>9. BatchIsSettled'
    BY <2>1, <2>2, <2>4, <2>5, <2>6 DEF RelayInv, BatchIsSettled
  <2> QED BY <2>3, <2>7, <2>8, <2>9
<1>2. ASSUME NEW d \in BOOLEAN, ReplaceLog(d) PROVE Rest'
  <2>1. /\ log' = log + 1 /\ scans' = [i \in Ids |-> "free"] /\ relay' = relay
        /\ saved'.token <= log
    BY <1>0, <1>2 DEF ReplaceLog, RelayInv, TokensPast
  <2>2. /\ saved'.token \in Int /\ saved'.token < log' /\ saved'.token <= log'
        /\ \A w \in Workers : /\ relay'[w].token \in Int
                              /\ relay'[w].token < log' /\ relay'[w].token <= log'
    <3>1. /\ saved'.token \in Int /\ saved'.token <= log
          /\ \A w \in Workers : relay'[w].token \in Int /\ relay'[w].token <= log
      BY <1>0, <2>1, MaxLogsAssumption DEF RelayInv, TokensPast, RelayTypeOK, PassState, Logs
    <3> QED BY <1>0, <2>1, <3>1
  <2>3. TokensPast'
    <3>1. \A w \in Workers :
            relay[w].at = "publish" => relay[w].src \in Int /\ relay[w].src <= log
      BY <1>0, MaxLogsAssumption DEF RelayInv, TokensPast, PassState, Logs
    <3>2. saved'.token <= log'
      BY <2>2
    <3>3. \A w \in Workers : relay'[w].token <= log'
      BY <2>2
    <3>4. \A w \in Workers : relay[w].at = "publish" => relay[w].src <= log'
      BY <1>0, <2>1, <3>1
    <3> QED BY <2>1, <3>2, <3>3, <3>4 DEF RelayInv, TokensPast
  <2> QED BY <1>0, <2>1, <2>2, <2>3
       DEF IdsInOrder, SavedIsPublished, ReadIsSettled, BatchIsSettled
<1> SUFFICES ASSUME NEW w \in Workers,
                    \/ Contend(w) \/ Pass(w) \/ NoticesLockLost(w)
                    \/ PublishFails(w) \/ StepsDown(w) \/ WorkerDies(w) \/ LockLost(w)
             PROVE  Rest'
  <2>1. CASE UNCHANGED relayVars
    BY <2>1 DEF relayVars, RelayInv, TokensPast, IdsInOrder, SavedIsPublished,
            ReadIsSettled, BatchIsSettled, Settled, Recorded
  <2> QED BY <1>1, <1>2, <2>1 DEF RelayNext
<1>w. /\ relay[w] \in PassState
      /\ relay[w].token \in Int /\ relay[w].token <= log
  BY <1>0, MaxLogsAssumption DEF RelayInv, TokensPast, PassState, Logs
<1>3. CASE \/ Contend(w) \/ NoticesLockLost(w) \/ PublishFails(w) \/ StepsDown(w)
           \/ WorkerDies(w) \/ LockLost(w)
  <2>1. UNCHANGED <<log, scans, saved, stream>>
    BY <1>3 DEF Contend, NoticesLockLost, PublishFails, StepsDown, WorkerDies, LockLost
  <2>2. CASE LockLost(w)
    BY <2>1, <2>2 DEF LockLost, RelayInv, TokensPast, IdsInOrder, SavedIsPublished,
                      ReadIsSettled, BatchIsSettled, Settled, Recorded
  <2>3. CASE ~ LockLost(w)
    <3>1. PICK r \in PassState :
            /\ relay' = [relay EXCEPT ![w] = r]
            /\ r.at \in {"out", "lead"} /\ r.token <= log
      <4>1. CASE Contend(w)
        <5>1. [relay[w] EXCEPT !.at = "lead"] \in PassState
          BY <1>w DEF PassState
        <5> QED BY <1>0, <1>w, <4>1, <5>1 DEF Contend, PassState
      <4>2. CASE \/ NoticesLockLost(w) \/ PublishFails(w) \/ StepsDown(w) \/ WorkerDies(w)
        <5>1. relay[w].gap \in 0..MaxScans + 1
          BY <1>w DEF PassState
        <5>2. /\ Rests(relay[w].gap).at = "lead" /\ Rests(relay[w].gap).token = 0
              /\ [Idle EXCEPT !.gap = relay[w].gap].at = "out"
              /\ [Idle EXCEPT !.gap = relay[w].gap].token = 0
              /\ Idle.at = "out" /\ Idle.token = 0
          BY DEF Rests, Idle
        <5>3. 0 <= log
          BY <1>0
        <5>4. CASE relay' = [relay EXCEPT ![w] = Rests(relay[w].gap)]
          BY <5>1, <5>2, <5>3, <5>4, RestsIsAState
        <5>5. CASE relay' = [relay EXCEPT ![w] = [Idle EXCEPT !.gap = relay[w].gap]]
          BY <5>1, <5>2, <5>3, <5>5, RestsIsAState
        <5>6. CASE relay' = [relay EXCEPT ![w] = Idle]
          BY <5>1, <5>2, <5>3, <5>6, RestsIsAState
        <5> QED BY <1>0, <4>2, <5>4, <5>5, <5>6
                DEF NoticesLockLost, PublishFails, StepsDown, WorkerDies
      <4> QED BY <1>3, <2>3, <4>1, <4>2
    <3>2. relay'[w] = r /\ \A u \in Workers : u # w => relay'[u] = relay[u]
      BY <1>0, <3>1
    <3> QED BY <2>1, <3>1, <3>2, WorkerStep
  <2> QED BY <2>2, <2>3
<1>4. CASE ReadState(w)
  <2>1. /\ UNCHANGED <<log, scans, saved, stream>>
        /\ relay' = [relay EXCEPT ![w] =
             [relay[w] EXCEPT !.at = "read", !.pos = saved.pos, !.token = saved.token]]
    BY <1>4 DEF ReadState, Moves
  <2>2. /\ \A u \in Workers : u # w => relay'[u] = relay[u]
        /\ relay'[w].at = "read" /\ relay'[w].pos = saved.pos /\ relay'[w].token = saved.token
    BY <1>0, <1>w, <2>1 DEF PassState
  <2>3. saved.token <= log /\ (saved.token = log => \A i \in 1..saved.pos : Settled(i))
    BY DEF RelayInv, TokensPast, SavedIsPublished, Settled
  <2> QED BY <2>1, <2>2, <2>3, WorkerStep
<1>5. CASE ReadToken(w)
  <2>1. /\ UNCHANGED <<log, scans, saved, stream>>
        /\ relay[w].at = "read"
        /\ \E a \in {"fresh", "replaced", "same"} :
             /\ relay' = [relay EXCEPT ![w] = [relay[w] EXCEPT !.at = a, !.token = log]]
             /\ a = "same" => relay[w].token = log
    BY <1>5 DEF ReadToken, Moves
  <2>2. /\ \A u \in Workers : u # w => relay'[u] = relay[u]
        /\ relay'[w].at \in {"fresh", "replaced", "same"}
        /\ relay'[w].token = log /\ relay'[w].pos = relay[w].pos
        /\ relay'[w].at = "same" => relay[w].token = log
    BY <1>0, <1>w, <2>1 DEF PassState
  <2>3. relay'[w].at = "same" => \A i \in 1..relay[w].pos : Settled(i)
    BY <2>1, <2>2 DEF RelayInv, ReadIsSettled
  <2>4. log # 0
    BY DEF RelayInv, RelayTypeOK, Logs
  <2> QED BY <1>0, <2>1, <2>2, <2>3, <2>4, WorkerStep
<1>6. CASE SaveFresh(w) \/ SaveReset(w)
  <2>1. /\ UNCHANGED <<log, scans, stream>>
        /\ saved' = [pos |-> 0, token |-> relay[w].token]
        /\ \E gap : relay' = [relay EXCEPT ![w] = Rests(gap)]
    BY <1>6 DEF SaveFresh, SaveReset, Moves
  <2>2. /\ \A u \in Workers : u # w => relay'[u] = relay[u]
        /\ relay'[w].at = "lead" /\ relay'[w].token = 0
    BY <1>0, <2>1 DEF Rests, Idle
  <2>3. saved'.token <= log /\ \A i \in 1..saved'.pos : Settled(i)
    BY <1>w, <2>1
  <2> QED BY <1>0, <2>1, <2>2, <2>3, WorkerStep
<1>7. CASE PublishReset(w)
  <2>1. /\ UNCHANGED <<log, scans, saved>>
        /\ \E e : Stored(e)
        /\ relay' = [relay EXCEPT ![w] = [relay[w] EXCEPT !.at = "reset"]]
    BY <1>7 DEF PublishReset, Moves
  <2>2. /\ \A u \in Workers : u # w => relay'[u] = relay[u]
        /\ relay'[w].at = "reset" /\ relay'[w].token = relay[w].token
    BY <1>0, <1>w, <2>1 DEF PassState
  <2> QED BY <1>w, <2>1, <2>2, WorkerStep
<1>8. CASE PublishScan(w)
  <2>1. PICK i \in relay[w].left :
          /\ relay[w].at = "publish"
          /\ Stored(Recorded(i, relay[w].src))
          /\ relay' = [relay EXCEPT ![w] = [relay[w] EXCEPT !.left = @ \ {i}]]
          /\ UNCHANGED <<log, scans, saved>>
    BY <1>8 DEF PublishScan, Moves
  <2>2. /\ \A u \in Workers : u # w => relay'[u] = relay[u]
        /\ relay'[w].at = "publish" /\ relay'[w].token = relay[w].token
        /\ relay'[w].src = relay[w].src /\ relay'[w].upto = relay[w].upto
        /\ relay'[w].left = relay[w].left \ {i}
    BY <1>0, <1>w, <2>1 DEF PassState
  <2>3. relay[w].src # 0 /\ relay[w].token <= relay[w].src /\ relay[w].src <= log
    BY <2>1 DEF RelayInv, TokensPast
  <2>4. ASSUME relay[w].token = log, scans[i] = "committed" PROVE Settled(i)'
    <3>1. relay[w].src = log
      BY <1>0, <1>w, <2>3, <2>4, MaxLogsAssumption DEF PassState, Logs
    <3>2. PICK T : stream \in Seq(T)
      BY DEF RelayInv, RelayTypeOK
    <3>3. Len(stream') = Len(stream) + 1 /\ stream'[Len(stream) + 1] = Recorded(i, log)
      BY <2>1, <3>1, <3>2 DEF Stored
    <3>4. Len(stream) + 1 \in 1..Len(stream')
      BY <3>2, <3>3
    <3> QED BY <2>1, <2>4, <3>3, <3>4 DEF Settled, Recorded
  <2>5. \A j \in Int : Settled(j) => Settled(j)'
    BY <1>0, <2>1, SettledStays
  <2>6. ASSUME relay[w].token = log, NEW j \in 1..relay[w].upto
        PROVE  Settled(j)' \/ (j \in relay'[w].left /\ scans[j] = "committed")
    BY <2>1, <2>2, <2>4, <2>5, <2>6 DEF RelayInv, BatchIsSettled
  <2> QED BY <1>w, <2>1, <2>2, <2>3, <2>6, WorkerStep
<1>9. CASE SavePosition(w)
  <2>1. /\ UNCHANGED <<log, scans, stream>>
        /\ relay[w].at = "publish" /\ relay[w].left = {}
        /\ saved' = [pos |-> relay[w].upto, token |-> relay[w].token]
        /\ relay' = [relay EXCEPT ![w] = Rests(relay[w].gap)]
    BY <1>9 DEF SavePosition, Moves
  <2>2. /\ \A u \in Workers : u # w => relay'[u] = relay[u]
        /\ relay'[w].at = "lead" /\ relay'[w].token = 0
    BY <1>0, <2>1 DEF Rests, Idle
  <2>3. relay[w].token = log => \A i \in 1..relay[w].upto : Settled(i)
    BY <2>1 DEF RelayInv, BatchIsSettled
  <2> QED BY <1>0, <1>w, <2>1, <2>2, <2>3, WorkerStep
<1>10. CASE ReadBatch(w) \/ SkipGap(w)
  <2>1. /\ UNCHANGED <<log, scans, saved, stream>>
        /\ relay[w].at = "same"
        /\ \E e, n, gap : relay' = [relay EXCEPT ![w] = Takes(w, e, n, gap)]
    BY <1>10, Zenon DEF ReadBatch, SkipGap, Moves
  <2>2. /\ \A u \in Workers : u # w => relay'[u] = relay[u]
        /\ \/ relay'[w].at = "lead" /\ relay'[w].token = 0
           \/ /\ relay'[w].at = "publish" /\ relay'[w].token = relay[w].token
              /\ relay'[w].src = log
    <3>1. PICK e, n, gap : relay' = [relay EXCEPT ![w] = Takes(w, e, n, gap)]
      BY <2>1
    <3>2. relay'[w] = Takes(w, e, n, gap) /\ \A u \in Workers : u # w => relay'[u] = relay[u]
      BY <1>0, <3>1
    <3>3. CASE n < e
      BY <3>2, <3>3 DEF Takes, Rests, Idle
    <3>4. CASE ~ (n < e)
      BY <1>w, <3>2, <3>4 DEF Takes, PassState
    <3> QED BY <3>2, <3>3, <3>4
  <2>3. ASSUME relay'[w].at = "publish", relay'[w].token = log, NEW i \in 1..relay'[w].upto
        PROVE  Settled(i) \/ (i \in relay'[w].left /\ scans[i] = "committed")
    <3>1. \/ i <= relay[w].pos \/ scans[i] = "aborted"
          \/ i \in relay'[w].left /\ i \in Committed
      BY <1>10, <2>1, <2>2, <2>3, BatchFollows
    <3>2. relay[w].token = log /\ \A j \in 1..relay[w].pos : Settled(j)
      BY <2>1, <2>2, <2>3 DEF RelayInv, ReadIsSettled
    <3>3. i <= relay[w].pos => Settled(i)
      BY <1>w, <2>3, <3>2 DEF PassState
    <3> QED BY <3>1, <3>3 DEF Committed, Settled
  <2>4. /\ relay'[w].upto \in Ids \cup {0} /\ log # 0
    BY <1>0 DEF RelayTypeOK, Logs
  <2>5. \A i \in Int : Settled(i) => Settled(i)'
    BY <1>0, <2>1, SettledStays
  <2>6. ASSUME relay'[w].at = "publish", relay'[w].token = log, NEW i \in 1..relay'[w].upto
        PROVE  Settled(i)' \/ (i \in relay'[w].left /\ scans[i] = "committed")
    BY <2>3, <2>5, <2>6
  <2> QED BY <1>0, <1>w, <2>1, <2>2, <2>4, <2>6, WorkerStep
<1> QED BY <1>3, <1>4, <1>5, <1>6, <1>7, <1>8, <1>9, <1>10 DEF Pass

-----------------------------------------------------------------------------
(* One leader at a time: what the topic says to a reader of all of it *)

\* What a reader of the topic knows of a scan that is settled.
Told(i) == scans[i] = "aborted" \/ (scans[i] = "committed" /\ Heard(i) # {})

\* The ids of log g that a reader has, since the last reset.
Said(g) == {stream[k].id : k \in {j \in Current : stream[j].log = g}}

\* Only the holder of the lock is in a pass, so that nobody else saves or publishes.
LeaderLeads == \A w \in Workers : relay[w].at # "out" => lock = w

\* What a reader has is from the log of the saved position, or from one that took
\* its place during a pass; nothing of any before the first position.
TopicIsCurrent ==
  /\ saved.token = 0 => Current = {}
  /\ \A k \in Current : saved.token <= stream[k].log /\ stream[k].log <= log

\* Up to the position, and below all that it has, a reader misses no scan.
ReaderMissesNone ==
  saved.token = log =>
    /\ \A i \in 1..saved.pos : Told(i)
    /\ \A j \in Said(log), i \in Ids : i < j => scans[i] = "aborted" \/ i \in Said(log)

\* What the leader's pass stands on.
PassStands(w) ==
  /\ relay[w].at \in {"read", "same"} => relay[w].pos = saved.pos
  /\ relay[w].at \in {"read", "same", "publish"} => relay[w].token = saved.token
  /\ relay[w].at \in {"same", "publish"} => saved.token # 0
  /\ relay[w].at = "fresh" => saved.token = 0
  /\ relay[w].at \in {"replaced", "reset"} => saved.token < relay[w].token
  /\ relay[w].at = "reset" => Current = {}
  /\ relay[w].at = "same" => \A k \in Current : stream[k].log <= relay[w].token
  /\ relay[w].at = "publish" =>
       /\ relay[w].left \subseteq 1..relay[w].upto
       /\ \A i \in relay[w].left : InOrder(i, relay[w].src)
       /\ relay[w].token = log =>
            \A i \in 1..relay[w].upto : Told(i) \/ (i \in relay[w].left /\ scans[i] = "committed")

OneLeaderInv ==
  ~ outlived => /\ LeaderLeads /\ TopicIsCurrent /\ ReaderMissesNone
                /\ \A w \in Workers : PassStands(w)

\* A set of numbers has a least one.
LEMMA LeastNumber ==
  ASSUME NEW S \in SUBSET Nat, S # {}
  PROVE  \E k \in S : \A j \in S : k <= j
<1> PICK n \in S : TRUE
  OBVIOUS
<1> DEFINE N == 0..n
           Starts == {s \in SUBSET N : \E k \in S : s = 0..k}
<1>1. IsWellFoundedOn(StrictSubsetOrdering(N), SUBSET N)
  <2>1. IsFiniteSet(N)
    BY FS_Interval
  <2> HIDE DEF N
  <2> QED BY <2>1, FS_StrictSubsetOrderingWellFounded, FS_FiniteSubsetsOfFinite
<1>2. Starts \subseteq SUBSET N /\ N \in Starts
  OBVIOUS
<1> HIDE DEF Starts
<1>3. PICK s \in Starts : \A r \in Starts : <<r, s>> \notin StrictSubsetOrdering(N)
  BY <1>1, <1>2, WFMin
<1> USE DEF Starts
<1>4. PICK k \in S : s = 0..k
  BY <1>3
<1>5. ASSUME NEW j \in S, j < k PROVE FALSE
  <2>1. 0..j \subseteq s /\ k \in s /\ k \notin 0..j
    BY <1>4, <1>5
  <2>2. 0..j \in Starts /\ s \in SUBSET N
    BY <1>3, <2>1
  <2>3. <<0..j, s>> \in StrictSubsetOrdering(N)
    BY <2>1, <2>2 DEF StrictSubsetOrdering
  <2> QED BY <1>3, <2>2, <2>3
<1> QED BY <1>5

\* The reader's view after one more event.
LEMMA ReaderOnward ==
  ASSUME RelayTypeOK, NEW e, Stored(e)
  PROVE  /\ Current \subseteq 1..Len(stream) /\ Len(stream) \in Nat
         /\ e.type # "scan-recorded" => Current' = {}
         /\ e.type = "scan-recorded" => Current' = Current \cup {Len(stream) + 1}
         /\ \A k \in 1..Len(stream) : stream'[k] = stream[k]
         /\ stream'[Len(stream) + 1] = e
<1>1. PICK T : stream \in Seq(T)
  BY DEF RelayTypeOK
<1> DEFINE n == Len(stream)
<1>2. /\ n \in Nat /\ Len(stream') = n + 1 /\ stream'[n + 1] = e
      /\ \A k \in 1..n : stream'[k] = stream[k]
  BY <1>1 DEF Stored
<1> HIDE DEF n
<1>3. Current = {k \in 1..n : \A j \in k..n : stream[j].type = "scan-recorded"}
  BY DEF Current, n
<1>4. Current' = {k \in 1..n + 1 : \A j \in k..n + 1 : stream'[j].type = "scan-recorded"}
  BY <1>2 DEF Current
<1>5. e.type # "scan-recorded" => Current' = {}
  <2>1. \A k \in 1..n + 1 : n + 1 \in k..n + 1
    BY <1>2
  <2> QED BY <1>2, <1>4, <2>1
<1>6. ASSUME e.type = "scan-recorded" PROVE Current' = Current \cup {n + 1}
  <2>1. ASSUME NEW k \in Current' PROVE k \in Current \/ k = n + 1
    <3>1. k # n + 1 => k \in 1..n /\ \A j \in k..n : j \in k..n + 1 /\ stream'[j] = stream[j]
      BY <1>2, <1>4, <2>1
    <3> QED BY <1>3, <1>4, <2>1, <3>1
  <2>2. ASSUME NEW k \in Current PROVE k \in Current'
    <3>1. k \in 1..n + 1 /\ \A j \in k..n + 1 : j = n + 1 \/ (j \in k..n /\ stream'[j] = stream[j])
      BY <1>2, <1>3
    <3> QED BY <1>2, <1>3, <1>4, <1>6, <3>1
  <2>3. n + 1 \in Current'
    <3>1. n + 1 \in 1..n + 1 /\ \A j \in n + 1..n + 1 : j = n + 1
      BY <1>2
    <3> QED BY <1>2, <1>4, <1>6, <3>1
  <2> QED BY <2>1, <2>2, <2>3
<1> QED BY <1>2, <1>3, <1>5, <1>6 DEF n

LEMMA EventsHaveLogs ==
  ASSUME RelayTypeOK
  PROVE  \A k \in Current : stream[k].log \in Int
<1>1. stream \in Seq({Recorded(i, g) : i \in Ids, g \in Logs} \cup {LogReset(g) : g \in Logs})
  BY DEF RelayTypeOK
<1>2. \A k \in Current : k \in 1..Len(stream)
  BY DEF Current
<1> QED BY <1>1, <1>2, MaxLogsAssumption DEF Recorded, LogReset, Logs

\* Nothing of this changes while table, topic and position stand still.
LEMMA ReaderStays ==
  ASSUME UNCHANGED <<log, scans, saved, stream>>
  PROVE  /\ Current' = Current /\ \A g : Said(g)' = Said(g)
         /\ \A i : Told(i)' <=> Told(i)
         /\ TopicIsCurrent => TopicIsCurrent'
         /\ ReaderMissesNone => ReaderMissesNone'
<1>1. Current' = Current
  BY DEF Current
<1>2. \A g : Said(g)' = Said(g)
  BY <1>1 DEF Said
<1>3. \A i : Told(i)' <=> Told(i)
  BY <1>1 DEF Told, Heard
<1> QED BY <1>1, <1>2, <1>3 DEF TopicIsCurrent, ReaderMissesNone

\* With one worker in a pass, that pass is all there is to look at.
LEMMA OnePass ==
  ASSUME RelayTypeOK, OneLeaderInv, ~ outlived, NEW w \in Workers,
         \A u \in Workers : u # w => relay'[u] = relay[u],
         lock \in {w, NoWorker}, lock' = w \/ relay'[w].at = "out",
         TopicIsCurrent', ReaderMissesNone', PassStands(w)'
  PROVE  OneLeaderInv'
<1>1. \A u \in Workers : u # w => relay'[u].at = "out"
  BY RelayAssumption DEF OneLeaderInv, LeaderLeads
<1>2. \A u \in Workers : PassStands(u)'
  BY <1>1 DEF PassStands
<1>3. LeaderLeads'
  BY <1>1 DEF LeaderLeads
<1> QED BY <1>2, <1>3 DEF OneLeaderInv

\* New scans are above all that a reader has; a replaced log has none of its own.
LEMMA TableStep ==
  ASSUME RelayInv, OneLeaderInv, ~ SchemaDropped, ~ outlived',
         \/ \E i \in Ids : BeginScan(i) \/ EndScan(i)
         \/ \E dropped \in BOOLEAN : ReplaceLog(dropped)
  PROVE  OneLeaderInv'
<1>0. /\ UNCHANGED <<saved, lock, relay, outlived, stream>> /\ ~ outlived
      /\ log' = log \/ log' = log + 1
  BY DEF BeginScan, EndScan, ReplaceLog
<1>1. /\ log \in Int /\ saved.token \in Int /\ saved.token <= log
      /\ \A u \in Workers : relay[u] \in PassState /\ relay[u].token \in Int /\ relay[u].token <= log
      /\ scans \in [Ids -> ScanState]
  BY <1>0, MaxLogsAssumption DEF RelayInv, RelayTypeOK, PassState, TokensPast, Logs
<1>2. Current' = Current /\ \A g : Said(g)' = Said(g)
  <2>1. Current' = Current
    BY <1>0 DEF Current
  <2> QED BY <1>0, <2>1 DEF Said
<1>3. LeaderLeads'
  BY <1>0 DEF OneLeaderInv, LeaderLeads
<1>4. \A i, g : InOrder(i, g)' <=> InOrder(i, g)
  BY <1>0, <1>2 DEF InOrder
<1>5. TopicIsCurrent'
  <2>1. \A k \in Current : stream[k].log \in Int
    BY EventsHaveLogs DEF RelayInv
  <2>2. TopicIsCurrent
    BY <1>0 DEF OneLeaderInv
  <2> QED BY <1>0, <1>1, <1>2, <2>1, <2>2 DEF TopicIsCurrent
<1>6. CASE \E i \in Ids : BeginScan(i) \/ EndScan(i)
  <2>1. /\ log' = log
        /\ \A j \in Ids : scans[j] \in {"committed", "aborted"} => scans'[j] = scans[j]
    BY <1>1, <1>6 DEF BeginScan, EndScan
  <2>2. \A j \in Ids : Told(j) => Told(j)'
    BY <1>0, <1>2, <2>1 DEF Told, Heard
  <2>3. 1..saved.pos \subseteq Ids /\ \A w \in Workers : 1..relay[w].upto \subseteq Ids
    <3>1. saved.pos \in Ids \cup {0} /\ \A w \in Workers : relay[w].upto \in Ids \cup {0}
      BY <1>1 DEF RelayInv, RelayTypeOK, PassState
    <3>2. \A p \in Ids \cup {0} : 1..p \subseteq Ids
      BY MaxScansAssumption DEF Ids
    <3> QED BY <3>1, <3>2
  <2>4. ReaderMissesNone'
    BY <1>0, <1>2, <2>1, <2>2, <2>3 DEF OneLeaderInv, ReaderMissesNone
  <2>5. ASSUME NEW w \in Workers PROVE PassStands(w)'
    <3>1. PassStands(w)
      BY <1>0 DEF OneLeaderInv
    <3>2. relay[w].at = "publish" /\ relay[w].token = log =>
            \A j \in 1..relay[w].upto : Told(j)' \/ (j \in relay[w].left /\ scans'[j] = "committed")
      BY <2>1, <2>2, <2>3, <3>1 DEF PassStands
    <3> QED BY <1>0, <1>2, <1>4, <2>1, <3>1, <3>2 DEF PassStands
  <2> QED BY <1>3, <1>5, <2>4, <2>5 DEF OneLeaderInv
<1>7. CASE \E dropped \in BOOLEAN : ReplaceLog(dropped)
  <2>1. log' = log + 1
    BY <1>7 DEF ReplaceLog
  <2>2. saved.token # log' /\ \A w \in Workers : relay[w].token # log'
    BY <1>1, <2>1
  <2>3. ReaderMissesNone'
    BY <1>0, <2>2 DEF ReaderMissesNone
  <2>4. ASSUME NEW w \in Workers PROVE PassStands(w)'
    <3>1. PassStands(w)
      BY <1>0 DEF OneLeaderInv
    <3> QED BY <1>0, <1>2, <1>4, <2>2, <3>1 DEF PassStands
  <2> QED BY <1>3, <1>5, <2>3, <2>4 DEF OneLeaderInv
<1> QED BY <1>6, <1>7

\* The next scan of a batch is in order, and the reader has it now.
LEMMA PublishScanStep ==
  ASSUME RelayInv, OneLeaderInv, ~ outlived, NEW w \in Workers, PublishScan(w)
  PROVE  /\ OneLeaderInv'
         /\ \E i \in Ids, g \in Logs : InOrder(i, g) /\ Stored(Recorded(i, g))
<1>0. /\ RelayTypeOK /\ LeaderLeads /\ TopicIsCurrent /\ ReaderMissesNone /\ PassStands(w)
      /\ relay \in [Workers -> PassState] /\ relay[w] \in PassState
  BY DEF RelayInv, OneLeaderInv, RelayTypeOK, PassState
<1>g. PICK g : g = relay[w].src
  OBVIOUS
<1>1. PICK i \in relay[w].left :
        /\ \A j \in relay[w].left : i <= j
        /\ Stored(Recorded(i, g))
        /\ relay' = [relay EXCEPT ![w] = [relay[w] EXCEPT !.left = @ \ {i}]]
        /\ UNCHANGED <<log, scans, saved, lock, outlived>> /\ relay[w].at = "publish"
  BY <1>g DEF PublishScan, Moves
<1>2. /\ relay'[w].at = "publish" /\ relay'[w].token = relay[w].token
      /\ relay'[w].src = g /\ relay'[w].upto = relay[w].upto
      /\ relay'[w].left = relay[w].left \ {i}
      /\ \A u \in Workers : u # w => relay'[u] = relay[u]
  BY <1>0, <1>1, <1>g DEF PassState
<1>3. /\ i \in Ids /\ i \in Int /\ relay[w].left \subseteq Ids /\ g \in Logs /\ g \in Int
      /\ relay[w].token \in Int /\ log \in Int /\ relay[w].token <= g /\ g <= log
      /\ relay[w].token = saved.token /\ saved.token # 0 /\ relay[w].upto \in Ids \cup {0}
  BY <1>0, <1>1, <1>g, MaxLogsAssumption, MaxScansAssumption
     DEF RelayInv, RelayTypeOK, TokensPast, PassState, PassStands, Logs, Ids
<1>4. InOrder(i, g)
  BY <1>0, <1>1, <1>g DEF PassStands
<1> DEFINE n == Len(stream) + 1
<1>5. /\ Current' = Current \cup {n} /\ Current \subseteq 1..Len(stream)
      /\ \A k \in Current : stream'[k] = stream[k] /\ k # n
      /\ stream'[n].id = i /\ stream'[n].log = g
  BY <1>0, <1>1, ReaderOnward DEF Recorded
<1> HIDE DEF n
<1>6. Said(g)' = Said(g) \cup {i}
  <2>1. \A k \in Current' : (k = n /\ stream'[k].id = i /\ stream'[k].log = g)
                            \/ (k \in Current /\ k # n /\ stream'[k] = stream[k])
    BY <1>5
  <2> SUFFICES ASSUME NEW j
               PROVE  j \in Said(g)' <=> j \in Said(g) \/ j = i
    OBVIOUS
  <2>2. j \in Said(g)' <=> \E k \in Current' : stream'[k].log = g /\ stream'[k].id = j
    BY DEF Said
  <2>3. j \in Said(g) <=> \E k \in Current : stream[k].log = g /\ stream[k].id = j
    BY DEF Said
  <2> QED BY <1>5, <2>1, <2>2, <2>3
<1>7. \A j \in Ids : Told(j) => Told(j)'
  BY <1>1, <1>5 DEF Told, Heard
<1>8. scans[i] = "committed" => Told(i)'
  BY <1>1, <1>5 DEF Told, Heard
<1>9. TopicIsCurrent'
  BY <1>0, <1>1, <1>3, <1>5 DEF TopicIsCurrent
<1>10. \A j \in 1..relay[w].upto : j \in Ids
  BY <1>3, MaxScansAssumption DEF Ids
<1>11. ReaderMissesNone'
  <2> SUFFICES ASSUME saved.token = log
               PROVE  /\ \A j \in 1..saved.pos : Told(j)'
                      /\ \A j \in Said(log)', h \in Ids :
                           h < j => scans[h] = "aborted" \/ h \in Said(log)'
    BY <1>1 DEF ReaderMissesNone
  <2>1. g = log /\ relay[w].token = log
    BY <1>3
  <2>2. \A j \in 1..saved.pos : j \in Ids
    BY MaxScansAssumption DEF RelayInv, RelayTypeOK, Ids
  <2>3. \A j \in 1..saved.pos : Told(j)'
    BY <1>0, <1>7, <2>2 DEF ReaderMissesNone
  <2>4. ASSUME NEW h \in Ids, h < i PROVE scans[h] = "aborted" \/ h \in Said(log)
    <3>1. h \in 1..relay[w].upto
      <4>1. i \in 1..relay[w].upto /\ relay[w].upto \in Int
        BY <1>0, <1>1, <1>3, MaxScansAssumption DEF PassStands, Ids
      <4> QED BY <2>4, <4>1, MaxScansAssumption DEF Ids
    <3>2. h \notin relay[w].left
      BY <1>1, <1>3, <2>4, MaxScansAssumption DEF Ids
    <3>3. Told(h)
      BY <1>0, <1>1, <2>1, <3>1, <3>2 DEF PassStands
    <3>4. \A k \in Heard(h) : k \in Current /\ stream[k].id = h /\ stream[k].log = log
      BY <1>0, <1>3, <2>1, EventsHaveLogs DEF Heard, TopicIsCurrent
    <3> QED BY <3>3, <3>4 DEF Told, Said
  <2>5. Said(log)' = Said(log) \cup {i}
    <3>1. \A h : h = g => Said(h)' = Said(h) \cup {i}
      BY <1>6
    <3> QED BY <1>1, <2>1, <1>6 DEF Said
  <2>6. \A j \in Said(log), h \in Ids : h < j => scans[h] = "aborted" \/ h \in Said(log)
    BY <1>0 DEF ReaderMissesNone
  <2> QED BY <2>3, <2>4, <2>5, <2>6
<1>12. ASSUME NEW j \in relay'[w].left PROVE InOrder(j, g)'
  <2>1. InOrder(j, g) /\ j \in Int /\ i < j
    BY <1>0, <1>1, <1>2, <1>3, <1>12, <1>g, MaxScansAssumption DEF PassStands, Ids
  <2>2. j \in Said(g) \/ \A h \in Said(g) : h < j
    BY <2>1 DEF InOrder, Said
  <2>3. j \in Said(g)' \/ \A h \in Said(g)' : h < j
    <3> HIDE DEF Said
    <3> QED BY <1>6, <2>1, <2>2
  <2> QED BY <2>3 DEF InOrder, Said
<1>13. PassStands(w)'
  <2>1. ASSUME relay[w].token = log, NEW j \in 1..relay[w].upto
        PROVE  Told(j)' \/ (j \in relay'[w].left /\ scans[j] = "committed")
    BY <1>0, <1>1, <1>2, <1>7, <1>8, <1>10, <2>1 DEF PassStands
  <2>2. \A j \in relay'[w].left : InOrder(j, relay[w].src)'
    <3>1. \A h, j : h = g /\ j \in relay'[w].left => InOrder(j, h)'
      BY <1>12
    <3> QED BY <1>2, <3>1
  <2>3. relay'[w].left \subseteq 1..relay'[w].upto
    BY <1>0, <1>1, <1>2 DEF PassStands
  <2> QED BY <1>1, <1>2, <1>3, <2>1, <2>2, <2>3 DEF PassStands
<1>14. lock = w
  BY <1>0, <1>1 DEF LeaderLeads
<1>15. OneLeaderInv'
  BY <1>0, <1>1, <1>2, <1>9, <1>11, <1>13, <1>14, OnePass DEF RelayInv
<1> QED BY <1>1, <1>3, <1>4, <1>15

\* A batch of this log has the reader's next ids, and perhaps some it has heard;
\* of a log that just took the other's place, it has none yet.
LEMMA BatchStep ==
  ASSUME RelayInv, OneLeaderInv, ~ outlived, NEW w \in Workers, ReadBatch(w) \/ SkipGap(w)
  PROVE  OneLeaderInv'
<1>0. /\ RelayTypeOK /\ LeaderLeads /\ TopicIsCurrent /\ ReaderMissesNone /\ PassStands(w)
      /\ relay \in [Workers -> PassState] /\ relay[w] \in PassState
  BY DEF RelayInv, OneLeaderInv, RelayTypeOK, PassState
<1>1. /\ UNCHANGED <<log, scans, saved, lock, outlived, stream>>
      /\ relay[w].at = "same"
      /\ \E e, n, gap : relay' = [relay EXCEPT ![w] = Takes(w, e, n, gap)]
  BY Zenon DEF ReadBatch, SkipGap, Moves
<1>2. /\ \A u \in Workers : u # w => relay'[u] = relay[u]
      /\ \/ relay'[w].at = "lead"
         \/ /\ relay'[w].at = "publish" /\ relay'[w].token = relay[w].token
            /\ relay'[w].src = log
  <2>1. PICK e, n, gap : relay' = [relay EXCEPT ![w] = Takes(w, e, n, gap)]
    BY <1>1
  <2>2. relay'[w] = Takes(w, e, n, gap) /\ \A u \in Workers : u # w => relay'[u] = relay[u]
    BY <1>0, <2>1
  <2>3. CASE n < e
    BY <2>2, <2>3 DEF Takes, Rests, Idle
  <2>4. CASE ~ (n < e)
    BY <1>0, <2>2, <2>4 DEF Takes, PassState
  <2> QED BY <2>2, <2>3, <2>4
<1>3. TopicIsCurrent' /\ ReaderMissesNone' /\ \A i : Told(i)' <=> Told(i)
  BY <1>0, <1>1, ReaderStays
<1>4. Current' = Current /\ \A g : Said(g)' = Said(g)
  BY <1>1, ReaderStays
<1>5. PassStands(w)'
  <2>1. CASE relay'[w].at = "lead"
    BY <2>1 DEF PassStands
  <2>2. CASE relay'[w].at = "publish"
    <3>1. /\ relay'[w].left \subseteq Committed /\ relay'[w].left \subseteq 1..relay'[w].upto
          /\ \A i \in 1..relay'[w].upto :
               i <= relay[w].pos \/ scans[i] = "aborted" \/ i \in relay'[w].left
      BY <1>1, <2>2, BatchFollows
    <3>2. /\ relay[w].pos = saved.pos /\ relay[w].token = saved.token /\ saved.token # 0
          /\ \A k \in Current : stream[k].log <= relay[w].token
      BY <1>0, <1>1 DEF PassStands
    <3>3. /\ log \in Int /\ saved.token \in Int /\ saved.token <= log /\ saved.pos \in Int
          /\ \A i \in Ids : i \in Int
      BY <1>0, MaxLogsAssumption, MaxScansAssumption DEF RelayInv, RelayTypeOK, TokensPast, Logs, Ids
    <3>4. ASSUME NEW i \in relay'[w].left
          PROVE  i \in Said(log) \/ \A j \in Said(log) : j < i
      <4>1. CASE saved.token = log
        <5>1. ASSUME NEW j \in Said(log), ~ (j < i), j # i PROVE i \in Said(log)
          <6>1. j \in Int
            <7>1. stream \in Seq({Recorded(h, g) : h \in Ids, g \in Logs} \cup {LogReset(g) : g \in Logs})
              BY <1>0 DEF RelayTypeOK
            <7>2. \A k \in Current : stream[k].id \in Int
              BY <7>1, MaxScansAssumption DEF Current, Recorded, LogReset, Ids
            <7> QED BY <5>1, <7>2 DEF Said
          <6>2. i \in Ids /\ i < j /\ scans[i] = "committed"
            BY <3>1, <3>3, <3>4, <5>1, <6>1 DEF Committed
          <6> QED BY <1>0, <4>1, <5>1, <6>2 DEF ReaderMissesNone
        <5> QED BY <5>1
      <4>2. CASE saved.token # log
        <5>1. Said(log) = {}
          BY <1>0, <3>2, <3>3, <4>2, EventsHaveLogs DEF Said
        <5> QED BY <5>1
      <4> QED BY <4>1, <4>2
    <3>5. \A i \in relay'[w].left : InOrder(i, log)'
      BY <1>1, <1>4, <3>4 DEF InOrder, Said
    <3>6. ASSUME saved.token = log, NEW i \in 1..relay'[w].upto
          PROVE  Told(i) \/ (i \in relay'[w].left /\ scans[i] = "committed")
      <4>1. i <= saved.pos => Told(i)
        BY <1>0, <3>3, <3>6 DEF ReaderMissesNone
      <4> QED BY <3>1, <3>2, <3>6, <4>1 DEF Told, Committed
    <3>7. \A i \in relay'[w].left : InOrder(i, relay[w].src)'
      <4>1. relay'[w].src = log /\ log' = log
        BY <1>1, <1>2, <2>2
      <4> QED BY <3>5, <4>1
    <3>8. relay'[w].token = relay[w].token
      BY <1>2, <2>2
    <3> QED BY <1>1, <1>3, <2>2, <3>1, <3>2, <3>6, <3>7, <3>8 DEF PassStands
  <2> QED BY <1>2, <2>1, <2>2
<1>6. lock = w
  BY <1>0, <1>1 DEF LeaderLeads
<1> QED BY <1>0, <1>1, <1>2, <1>3, <1>5, <1>6, OnePass

\* A pass that reads, resets or saves; and what ends one.
LEMMA LeaderStep ==
  ASSUME RelayInv, OneLeaderInv, ~ outlived, ~ outlived', NEW w \in Workers,
         \/ Contend(w) \/ NoticesLockLost(w) \/ PublishFails(w) \/ StepsDown(w)
         \/ WorkerDies(w) \/ ReadState(w) \/ ReadToken(w) \/ SaveFresh(w)
         \/ PublishReset(w) \/ SaveReset(w) \/ SavePosition(w)
  PROVE  OneLeaderInv'
<1>0. /\ RelayTypeOK /\ LeaderLeads /\ TopicIsCurrent /\ ReaderMissesNone /\ PassStands(w)
      /\ relay \in [Workers -> PassState] /\ relay[w] \in PassState
  BY DEF RelayInv, OneLeaderInv, RelayTypeOK, PassState
<1>1. /\ log \in Int /\ saved.token \in Int /\ saved.token <= log
      /\ relay[w].token \in Int /\ relay[w].token <= log
  BY <1>0, MaxLogsAssumption DEF RelayInv, RelayTypeOK, PassState, TokensPast, Logs
<1>2. relay[w].at # "out" => lock = w
  BY <1>0 DEF LeaderLeads
<1>3. CASE \/ Contend(w) \/ PublishFails(w) \/ StepsDown(w) \/ WorkerDies(w) \/ NoticesLockLost(w)
  <2>1. UNCHANGED <<log, scans, saved, stream, outlived>>
    BY <1>3 DEF Contend, PublishFails, StepsDown, WorkerDies, NoticesLockLost
  <2>2. /\ \A u \in Workers : u # w => relay'[u] = relay[u]
        /\ relay'[w].at \in {"out", "lead"}
    <3>1. PICK r : relay' = [relay EXCEPT ![w] = r] /\ r.at \in {"out", "lead"}
      <4>1. [relay[w] EXCEPT !.at = "lead"].at = "lead"
        BY <1>0 DEF PassState
      <4>2. /\ Rests(relay[w].gap).at = "lead" /\ Idle.at = "out"
            /\ [Idle EXCEPT !.gap = relay[w].gap].at = "out"
        BY DEF Rests, Idle
      <4>3. \/ relay' = [relay EXCEPT ![w] = [relay[w] EXCEPT !.at = "lead"]]
            \/ relay' = [relay EXCEPT ![w] = Rests(relay[w].gap)]
            \/ relay' = [relay EXCEPT ![w] = [Idle EXCEPT !.gap = relay[w].gap]]
            \/ relay' = [relay EXCEPT ![w] = Idle]
        BY <1>0, <1>3 DEF Contend, PublishFails, StepsDown, WorkerDies, NoticesLockLost
      <4> QED BY <4>1, <4>2, <4>3
    <3> QED BY <1>0, <3>1
  <2>3. lock \in {w, NoWorker} /\ (lock' = w \/ relay'[w].at = "out")
    BY <1>0, <1>2, <1>3 DEF Contend, PublishFails, StepsDown, WorkerDies, NoticesLockLost, Idle
  <2>4. PassStands(w)'
    BY <2>2 DEF PassStands
  <2>5. TopicIsCurrent' /\ ReaderMissesNone'
    BY <1>0, <2>1, ReaderStays
  <2> QED BY <1>0, <2>2, <2>3, <2>4, <2>5, OnePass
<1>4. CASE ReadState(w) \/ ReadToken(w)
  <2>1. UNCHANGED <<log, scans, saved, stream, outlived, lock>> /\ lock = w
    BY <1>2, <1>4 DEF ReadState, ReadToken, Moves
  <2>2. TopicIsCurrent' /\ ReaderMissesNone' /\ Current' = Current
    BY <1>0, <2>1, ReaderStays
  <2>3. \A u \in Workers : u # w => relay'[u] = relay[u]
    BY <1>0, <1>4 DEF ReadState, ReadToken, Moves
  <2>4. CASE ReadState(w)
    <3>1. relay'[w].at = "read" /\ relay'[w].pos = saved.pos /\ relay'[w].token = saved.token
      BY <1>0, <2>4 DEF ReadState, Moves, PassState
    <3>2. PassStands(w)'
      BY <2>1, <3>1 DEF PassStands
    <3> QED BY <1>0, <2>1, <2>2, <2>3, <3>2, OnePass
  <2>5. CASE ReadToken(w)
    <3>1. /\ relay[w].at = "read" /\ relay'[w].token = log /\ relay'[w].pos = relay[w].pos
          /\ relay'[w].at = IF relay[w].token = 0 THEN "fresh"
                            ELSE IF relay[w].token # log THEN "replaced" ELSE "same"
      BY <1>0, <2>5 DEF ReadToken, Moves, PassState
    <3>2. relay[w].token = saved.token /\ relay[w].pos = saved.pos
      BY <1>0, <3>1 DEF PassStands
    <3>3. PassStands(w)'
      BY <1>0, <1>1, <2>1, <2>2, <3>1, <3>2 DEF PassStands, TopicIsCurrent
    <3> QED BY <1>0, <2>1, <2>2, <2>3, <3>3, OnePass
  <2> QED BY <1>4, <2>4, <2>5
<1>5. CASE SaveFresh(w) \/ SaveReset(w)
  <2>1. /\ UNCHANGED <<log, scans, stream, outlived, lock>> /\ lock = w
        /\ saved' = [pos |-> 0, token |-> relay[w].token]
        /\ \E gap : relay' = [relay EXCEPT ![w] = Rests(gap)]
    BY <1>2, <1>5 DEF SaveFresh, SaveReset, Moves
  <2>2. /\ \A u \in Workers : u # w => relay'[u] = relay[u]
        /\ relay'[w].at = "lead"
    BY <1>0, <2>1 DEF Rests, Idle
  <2>3. Current = {}
    BY <1>0, <1>5 DEF SaveFresh, SaveReset, PassStands, TopicIsCurrent
  <2>4. Current' = {} /\ Said(log)' = {}
    BY <2>1, <2>3 DEF Current, Said
  <2>5. TopicIsCurrent' /\ ReaderMissesNone'
    BY <2>1, <2>4 DEF TopicIsCurrent, ReaderMissesNone
  <2>6. PassStands(w)'
    BY <2>2 DEF PassStands
  <2> QED BY <1>0, <2>1, <2>2, <2>5, <2>6, OnePass
<1>6. CASE PublishReset(w)
  <2>1. /\ relay[w].at = "replaced" /\ Stored(LogReset(relay[w].token))
        /\ UNCHANGED <<log, scans, saved, outlived, lock>> /\ lock = w
        /\ relay' = [relay EXCEPT ![w] = [relay[w] EXCEPT !.at = "reset"]]
    BY <1>2, <1>6 DEF PublishReset, Moves
  <2>2. /\ \A u \in Workers : u # w => relay'[u] = relay[u]
        /\ relay'[w].at = "reset" /\ relay'[w].token = relay[w].token
    BY <1>0, <2>1 DEF PassState
  <2>3. Current' = {}
    BY <1>0, <2>1, ReaderOnward DEF LogReset
  <2>4. saved.token < relay[w].token
    BY <1>0, <2>1 DEF PassStands
  <2>5. TopicIsCurrent' /\ ReaderMissesNone'
    BY <1>1, <2>1, <2>3, <2>4 DEF TopicIsCurrent, ReaderMissesNone
  <2>6. PassStands(w)'
    BY <2>1, <2>2, <2>3, <2>4 DEF PassStands
  <2> QED BY <1>0, <2>1, <2>2, <2>5, <2>6, OnePass
<1>7. CASE SavePosition(w)
  <2>1. /\ UNCHANGED <<log, scans, stream, outlived, lock>> /\ lock = w
        /\ relay[w].at = "publish" /\ relay[w].left = {}
        /\ saved' = [pos |-> relay[w].upto, token |-> relay[w].token]
        /\ relay' = [relay EXCEPT ![w] = Rests(relay[w].gap)]
    BY <1>2, <1>7 DEF SavePosition, Moves
  <2>2. /\ \A u \in Workers : u # w => relay'[u] = relay[u]
        /\ relay'[w].at = "lead"
    BY <1>0, <2>1 DEF Rests, Idle
  <2>3. relay[w].token = saved.token
        /\ (relay[w].token = log => \A i \in 1..relay[w].upto : Told(i))
    BY <1>0, <2>1 DEF PassStands
  <2>4. Current' = Current /\ Said(log)' = Said(log) /\ \A i : Told(i)' <=> Told(i)
    BY <2>1 DEF Current, Said, Told, Heard
  <2>5. TopicIsCurrent' /\ ReaderMissesNone'
    BY <1>0, <2>1, <2>3, <2>4 DEF TopicIsCurrent, ReaderMissesNone
  <2>6. PassStands(w)'
    BY <2>2 DEF PassStands
  <2> QED BY <1>0, <2>1, <2>2, <2>5, <2>6, OnePass
<1> QED BY <1>3, <1>4, <1>5, <1>6, <1>7

LEMMA OneLeaderInit == RelayInit => OneLeaderInv
<1> SUFFICES ASSUME RelayInit PROVE OneLeaderInv
  OBVIOUS
<1>1. Current = {}
  BY DEF RelayInit, Current
<1>2. \A w \in Workers : relay[w].at = "out"
  BY DEF RelayInit, Idle
<1>3. \A g : Said(g) = {}
  BY <1>1 DEF Said
<1>4. TopicIsCurrent /\ ReaderMissesNone
  BY <1>1, <1>3 DEF TopicIsCurrent, ReaderMissesNone, RelayInit
<1> QED BY <1>2, <1>4 DEF OneLeaderInv, LeaderLeads, PassStands

LEMMA OneLeaderStep ==
  ASSUME RelayInv, OneLeaderInv, ~ SchemaDropped, [RelayNext]_relayVars
  PROVE  OneLeaderInv'
<1> SUFFICES ASSUME ~ outlived' PROVE OneLeaderInv'
  BY DEF OneLeaderInv
<1>1. CASE UNCHANGED relayVars
  <2>1. UNCHANGED <<log, scans, saved, lock, relay, outlived, stream>> /\ ~ outlived
    BY <1>1 DEF relayVars
  <2>2. TopicIsCurrent' /\ ReaderMissesNone' /\ Current' = Current /\ \A i : Told(i)' <=> Told(i)
    BY <2>1, ReaderStays DEF OneLeaderInv
  <2>3. \A i, g : InOrder(i, g)' <=> InOrder(i, g)
    BY <2>1, <2>2 DEF InOrder
  <2>4. LeaderLeads'
    BY <2>1 DEF OneLeaderInv, LeaderLeads
  <2>5. ASSUME NEW w \in Workers PROVE PassStands(w)'
    <3>1. PassStands(w)
      BY <2>1 DEF OneLeaderInv
    <3> QED BY <2>1, <2>2, <2>3, <3>1 DEF PassStands
  <2> QED BY <2>2, <2>4, <2>5 DEF OneLeaderInv
<1>2. CASE \/ \E i \in Ids : BeginScan(i) \/ EndScan(i)
           \/ \E dropped \in BOOLEAN : ReplaceLog(dropped)
  BY <1>2, TableStep
<1>3. ASSUME NEW w \in Workers,
             \/ Contend(w) \/ Pass(w) \/ NoticesLockLost(w)
             \/ PublishFails(w) \/ StepsDown(w) \/ WorkerDies(w) \/ LockLost(w)
      PROVE  OneLeaderInv'
  <2>1. ~ LockLost(w)
    BY DEF LockLost
  <2>2. outlived' = outlived
    BY <1>3, <2>1 DEF Contend, Pass, NoticesLockLost, PublishFails, StepsDown, WorkerDies,
                      ReadState, ReadToken, ReadBatch, SkipGap, SaveFresh, PublishReset,
                      SaveReset, PublishScan, SavePosition, Moves
  <2> QED BY <1>3, <2>1, <2>2, PublishScanStep, BatchStep, LeaderStep DEF Pass
<1> QED BY <1>1, <1>2, <1>3 DEF RelayNext

-----------------------------------------------------------------------------
(* What the relay keeps *)

LEMMA RelayInvHolds == RelaySpec => []RelayInv
<1>1. RelayInv /\ [RelayNext]_relayVars => RelayInv'
  BY RelayInvStep
<1> QED BY RelayInvInit, <1>1, PTL DEF RelaySpec

\* Positions, tokens, batches and events keep their shape (relay.py).
THEOREM RelayTypes == RelaySpec => []RelayTypeOK
<1>1. RelayInv => RelayTypeOK
  BY DEF RelayInv
<1> QED BY RelayInvHolds, <1>1, PTL

\* With any number of leaders, a saved position has no committed scan below it
\* that is not on the topic, and none that may still commit (relay.py: "The
\* position is saved after Kafka acknowledges a batch").
THEOREM PositionIsPublished == RelaySpec => []SavedIsPublished
<1>1. RelayInv => SavedIsPublished
  BY DEF RelayInv
<1> QED BY RelayInvHolds, <1>1, PTL

LEMMA OneLeaderHolds ==
  ASSUME ~ SchemaDropped
  PROVE  RelaySpec => []OneLeaderInv
<1>1. RelayInv /\ OneLeaderInv /\ [RelayNext]_relayVars => OneLeaderInv'
  BY OneLeaderStep
<1> QED BY OneLeaderInit, RelayInvHolds, <1>1, PTL DEF RelaySpec

\* While no leader has outlived its lock, and unless the schema was dropped with the
\* position in it, a reader of the topic has every scan up to the position, and each
\* from the log the position is in (relay.py: "A replaced log").
THEOREM ReaderIsCurrent ==
  ASSUME ~ SchemaDropped
  PROVE  RelaySpec => []ReaderHasThisLog
<1>1. ASSUME RelayInv, OneLeaderInv PROVE ReaderHasThisLog
  <2> SUFFICES ASSUME ~ outlived, saved.token = log
               PROVE  /\ \A i \in Ids : Heard(i) # {} => stream[First(i)].log = log
                      /\ \A i \in Committed : i <= saved.pos => Heard(i) # {}
    BY DEF ReaderHasThisLog
  <2>1. RelayTypeOK /\ TopicIsCurrent /\ ReaderMissesNone
    BY <1>1 DEF RelayInv, OneLeaderInv
  <2>2. log \in Int /\ saved.pos \in Int /\ Ids \subseteq Nat \ {0}
    BY <2>1, MaxLogsAssumption, MaxScansAssumption DEF RelayTypeOK, Logs, Ids
  <2>3. \A k \in Current : stream[k].log = log
    BY <2>1, <2>2, EventsHaveLogs DEF TopicIsCurrent
  <2>4. ASSUME NEW i \in Ids, Heard(i) # {} PROVE stream[First(i)].log = log
    <3>1. Heard(i) \subseteq Current /\ Heard(i) \subseteq Nat
      BY DEF Heard, Current
    <3>2. PICK k \in Heard(i) : \A j \in Heard(i) : k <= j
      BY <2>4, <3>1, LeastNumber
    <3>3. First(i) \in Heard(i)
      BY <3>2 DEF First
    <3> QED BY <2>3, <3>1, <3>3
  <2>5. ASSUME NEW i \in Committed, i <= saved.pos PROVE Heard(i) # {}
    <3>1. i \in Ids /\ i \in 1..saved.pos /\ scans[i] = "committed"
      BY <2>2, <2>5 DEF Committed
    <3> QED BY <2>1, <3>1 DEF ReaderMissesNone, Told
  <2> QED BY <2>4, <2>5
<1> QED BY <1>1, RelayInvHolds, OneLeaderHolds, PTL

\* And what goes out is a reset, a repeat, or the highest id so far (relay.py: "In
\* order").
THEOREM ScansAreInOrder ==
  ASSUME ~ SchemaDropped
  PROVE  RelaySpec => ScansGoOutInOrder
<1> DEFINE Ordered == \/ outlived
                      \/ stream' = stream
                      \/ \E g \in Logs : Stored(LogReset(g))
                      \/ \E i \in Ids, g \in Logs : InOrder(i, g) /\ Stored(Recorded(i, g))
<1>1. RelayInv /\ OneLeaderInv /\ [RelayNext]_relayVars => [Ordered]_stream
  <2> SUFFICES ASSUME RelayInv, OneLeaderInv, [RelayNext]_relayVars, ~ outlived
               PROVE  Ordered
    OBVIOUS
  <2>1. ASSUME NEW w \in Workers, PublishScan(w) PROVE Ordered
    BY <2>1, PublishScanStep
  <2>2. ASSUME NEW w \in Workers, PublishReset(w) PROVE Ordered
    <3>1. relay[w].token \in Logs \cup {0} /\ relay[w].at = "replaced" /\ relay[w].token # 0
      BY <2>2 DEF RelayInv, RelayTypeOK, TokensPast, PublishReset
    <3> QED BY <2>2, <3>1 DEF PublishReset
  <2>3. CASE UNCHANGED relayVars
    BY <2>3 DEF relayVars
  <2>4. CASE RelayNext
    BY <2>1, <2>2, <2>4
       DEF RelayNext, BeginScan, EndScan, ReplaceLog, Contend, Pass, NoticesLockLost,
           PublishFails, StepsDown, WorkerDies, LockLost, ReadState, ReadToken, ReadBatch,
           SkipGap, SaveFresh, SaveReset, SavePosition, Moves
  <2> QED BY <2>3, <2>4
<1> HIDE DEF Ordered
<1>2. RelaySpec => [][Ordered]_stream
  BY <1>1, RelayInvHolds, OneLeaderHolds, PTL DEF RelaySpec
<1> QED BY <1>2 DEF ScansGoOutInOrder, Ordered
=============================================================================
