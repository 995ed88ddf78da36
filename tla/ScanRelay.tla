------------------------------- MODULE ScanRelay -------------------------------
(***************************************************************************)
(* Checkout's scan relay.  The scan table is the outbox: ids are handed    *)
(* out in order, commit in any order, or never.  Every worker contends for *)
(* an advisory lock; the leader publishes the committed prefix to          *)
(* checkout.scans.v1 and saves its position afterwards.                    *)
(***************************************************************************)
EXTENDS ScanStream

CONSTANTS Workers,
          NoWorker,
          Batch,             \* BATCH: rows of one pass
          MaxFaults,         \* bound: failures of all kinds
          LeadersOutlive,    \* may a leader live on without its lock?
          SchemaDropped      \* may the log be replaced by dropping the schema?

ASSUME RelayAssumption ==
  /\ NoWorker \notin Workers
  /\ Batch \in Nat \ {0}
  /\ MaxFaults \in Nat
  /\ LeadersOutlive \in BOOLEAN
  /\ SchemaDropped \in BOOLEAN

VARIABLES log,       \* scan_log.token, 1, 2, ...
          scans,     \* transaction_item: the ids of this log
          saved,     \* relay_state; token 0 is no row
          lock,      \* the holder of the advisory lock
          relay,     \* each worker's run_pass
          faults,    \* counts failures, for MaxFaults
          outlived   \* history: has a leader lost its lock and lived on?

relayVars == <<log, scans, saved, lock, relay, faults, outlived, stream>>

ScanState == {"free", "open", "committed", "aborted"}

\* gap is the id waited for, 0 if none; left and upto are the rows on their way
\* and the last of them, src the log they were read from.
Idle == [at |-> "out", pos |-> 0, token |-> 0, left |-> {}, upto |-> 0,
         src |-> 0, gap |-> 0]

RelayInit ==
  /\ stream = <<>>
  /\ log = 1
  /\ scans = [i \in Ids |-> "free"]
  /\ saved = [pos |-> 0, token |-> 0]
  /\ lock = NoWorker
  /\ relay = [w \in Workers |-> Idle]
  /\ faults = 0
  /\ outlived = FALSE

Committed == {i \in Ids : scans[i] = "committed"}

-----------------------------------------------------------------------------
(* The scan table *)

\* The sequence hands out ids in order; a row is visible once it commits.
BeginScan(i) ==
  /\ scans[i] = "free"
  /\ \A j \in Ids : j < i => scans[j] # "free"
  /\ scans' = [scans EXCEPT ![i] = "open"]
  /\ UNCHANGED <<log, saved, lock, relay, faults, outlived, stream>>

EndScan(i) ==
  /\ scans[i] = "open"
  /\ \E s \in {"committed", "aborted"} : scans' = [scans EXCEPT ![i] = s]
  /\ UNCHANGED <<log, saved, lock, relay, faults, outlived, stream>>

\* seed.py: TRUNCATE waits for open scans and restarts the ids; --reset drops
\* the schema, relay_state with it.
ReplaceLog(dropped) ==
  /\ log < MaxLogs
  /\ \A i \in Ids : scans[i] # "open"
  /\ dropped => SchemaDropped
  /\ log' = log + 1
  /\ scans' = [i \in Ids |-> "free"]
  /\ saved' = IF dropped THEN [pos |-> 0, token |-> 0] ELSE saved
  /\ UNCHANGED <<lock, relay, faults, outlived, stream>>

-----------------------------------------------------------------------------
(* One pass *)

Contend(w) ==
  /\ relay[w].at = "out"
  /\ lock = NoWorker
  /\ lock' = w
  /\ relay' = [relay EXCEPT ![w].at = "lead"]
  /\ UNCHANGED <<log, scans, saved, faults, outlived, stream>>

Fails == faults < MaxFaults /\ faults' = faults + 1

Moves(w, r) ==
  /\ relay' = [relay EXCEPT ![w] = r]
  /\ UNCHANGED <<log, scans, lock, outlived>>

\* Back to the top of the loop; the gap is remembered.
Rests(gap) == [Idle EXCEPT !.at = "lead", !.gap = gap]

\* Position, token and batch are three statements, each with its own snapshot.
\* A pass begun without the lock counts as a failure.
ReadState(w) ==
  /\ relay[w].at = "lead"
  /\ IF lock = w THEN UNCHANGED faults ELSE Fails
  /\ Moves(w, [relay[w] EXCEPT !.at = "read", !.pos = saved.pos, !.token = saved.token])
  /\ UNCHANGED <<saved, stream>>

\* Mutant: a replaced log is taken for a fresh database.
ReadTokenFresh(w) ==
  /\ relay[w].at = "read"
  /\ Moves(w, [relay[w] EXCEPT !.at = IF relay[w].token # log THEN "fresh" ELSE "same",
                               !.token = log])
  /\ UNCHANGED <<saved, stream, faults>>

ReadToken(w) ==
  /\ relay[w].at = "read"
  /\ Moves(w, [relay[w] EXCEPT
                 !.at = IF relay[w].token = 0 THEN "fresh"
                        ELSE IF relay[w].token # log THEN "replaced" ELSE "same",
                 !.token = log])
  /\ UNCHANGED <<saved, stream, faults>>

\* A fresh database: nothing was published, so nothing is reset.
SaveFresh(w) ==
  /\ relay[w].at = "fresh"
  /\ saved' = [pos |-> 0, token |-> relay[w].token]
  /\ Moves(w, Rests(relay[w].gap))
  /\ UNCHANGED <<stream, faults>>

PublishReset(w) ==
  /\ relay[w].at = "replaced"
  /\ Stored(LogReset(relay[w].token))
  /\ Moves(w, [relay[w] EXCEPT !.at = "reset"])
  /\ UNCHANGED <<saved, faults>>

SaveReset(w) ==
  /\ relay[w].at = "reset"
  /\ saved' = [pos |-> 0, token |-> relay[w].token]
  /\ Moves(w, Rests(0))
  /\ UNCHANGED <<stream, faults>>

\* The Batch lowest committed ids above the position.
Rows(pos) ==
  {i \in Committed : i > pos /\
     Cardinality({j \in Committed : j > pos /\ j < i}) < Batch}

\* The rows from e on go up to n without a gap, and no further.
Walk(e, n, rows) == e..n \subseteq rows /\ n + 1 \notin rows

\* The id at which such a walk stops for its first gap, or 0.
GapAfter(n, rows) == IF \A i \in rows : i <= n THEN 0 ELSE n + 1

Takes(w, e, n, gap) ==
  IF n < e THEN Rests(gap)
  ELSE [relay[w] EXCEPT !.at = "publish", !.left = e..n, !.src = log, !.gap = gap,
                        !.upto = n]

\* The committed prefix; a gap after it is waited out from now on.
ReadBatch(w) ==
  /\ relay[w].at = "same"
  /\ LET rows == Rows(relay[w].pos)
         e == relay[w].pos + 1
     IN \E n \in (e - 1)..MaxScans :
          /\ Walk(e, n, rows)
          /\ Moves(w, Takes(w, e, n,
                            IF rows = {} THEN relay[w].gap ELSE GapAfter(n, rows)))
  /\ UNCHANGED <<saved, stream, faults>>

\* Mutant: a gap is skipped while its scan's statement may still run.
GraceTooShort(from, to) == TRUE

\* The grace outlasts a scan's statement: no id of the gap is still open.
GraceCovers(from, to) == \A j \in from..to : scans[j] # "open"

\* The same gap was met before and its grace is over: it is skipped.
SkipGap(w) ==
  /\ relay[w].at = "same"
  /\ LET rows == Rows(relay[w].pos)
         e == relay[w].pos + 1
     IN /\ relay[w].gap = e
        /\ \E m \in rows, n \in Ids :
             /\ m # e /\ \A j \in rows : m <= j
             /\ GraceCovers(e, m - 1)
             /\ m <= n /\ Walk(m, n, rows)
             /\ Moves(w, Takes(w, m, n, GapAfter(n, rows)))
  /\ UNCHANGED <<saved, stream, faults>>

\* Mutant: the batch is sent without waiting for the order.
PublishScanAny(w) ==
  /\ relay[w].at = "publish"
  /\ \E i \in relay[w].left :
       /\ Stored(Recorded(i, relay[w].src))
       /\ Moves(w, [relay[w] EXCEPT !.left = @ \ {i}])
  /\ UNCHANGED <<saved, faults>>

\* Kafka stores the batch in order.
PublishScan(w) ==
  /\ relay[w].at = "publish"
  /\ \E i \in relay[w].left :
       /\ \A j \in relay[w].left : i <= j
       /\ Stored(Recorded(i, relay[w].src))
       /\ Moves(w, [relay[w] EXCEPT !.left = @ \ {i}])
  /\ UNCHANGED <<saved, faults>>

\* Mutant: the position is saved before the broker has the batch.
SavePositionEarly(w) ==
  /\ relay[w].at = "publish"
  /\ saved' = [pos |-> relay[w].upto, token |-> relay[w].token]
  /\ Moves(w, Rests(relay[w].gap))
  /\ UNCHANGED <<stream, faults>>

SavePosition(w) ==
  /\ relay[w].at = "publish" /\ relay[w].left = {}
  /\ saved' = [pos |-> relay[w].upto, token |-> relay[w].token]
  /\ Moves(w, Rests(relay[w].gap))
  /\ UNCHANGED <<stream, faults>>

-----------------------------------------------------------------------------
(* Failures *)

\* Transient: some or all of it is stored, nothing is saved.  What the client
\* still holds it sends before the next event of this worker.
PublishFails(w) ==
  /\ Fails
  /\ relay[w].at \in {"replaced", "reset", "publish"}
  /\ relay' = [relay EXCEPT ![w] = Rests(@.gap)]
  /\ UNCHANGED <<log, scans, saved, lock, outlived, stream>>

Released(w) == IF lock = w THEN NoWorker ELSE lock

\* Any other error: the lock is released and the worker contends again.
StepsDown(w) ==
  /\ Fails
  /\ relay[w].at # "out"
  /\ relay' = [relay EXCEPT ![w] = [Idle EXCEPT !.gap = relay[w].gap]]
  /\ lock' = Released(w)
  /\ UNCHANGED <<log, scans, saved, outlived, stream>>

\* The process dies; PostgreSQL releases its lock.
WorkerDies(w) ==
  /\ Fails
  /\ relay[w].at # "out"
  /\ relay' = [relay EXCEPT ![w] = Idle]
  /\ lock' = Released(w)
  /\ UNCHANGED <<log, scans, saved, outlived, stream>>

\* The lock's connection drops under a living leader, which looks for that
\* between passes, every five seconds.
LockLost(w) ==
  /\ Fails
  /\ LeadersOutlive
  /\ lock = w
  /\ lock' = NoWorker
  /\ outlived' = TRUE
  /\ UNCHANGED <<log, scans, saved, relay, stream>>

NoticesLockLost(w) ==
  /\ relay[w].at = "lead" /\ lock # w
  /\ relay' = [relay EXCEPT ![w] = [Idle EXCEPT !.gap = relay[w].gap]]
  /\ UNCHANGED <<log, scans, saved, lock, faults, outlived, stream>>

-----------------------------------------------------------------------------
Pass(w) ==
  \/ ReadState(w) \/ ReadToken(w) \/ ReadBatch(w) \/ SkipGap(w)
  \/ SaveFresh(w) \/ PublishReset(w) \/ SaveReset(w)
  \/ PublishScan(w) \/ SavePosition(w)

RelayNext ==
  \/ \E i \in Ids : BeginScan(i) \/ EndScan(i)
  \/ \E dropped \in BOOLEAN : ReplaceLog(dropped)
  \/ \E w \in Workers :
       \/ Contend(w) \/ Pass(w) \/ NoticesLockLost(w)
       \/ PublishFails(w) \/ StepsDown(w) \/ WorkerDies(w) \/ LockLost(w)

RelaySpec == RelayInit /\ [][RelayNext]_relayVars

\* Each worker's task loops for ever, a statement ends, and a gap's grace is
\* over some time if the relay keeps coming back to it.
FairRelay ==
  /\ RelaySpec
  /\ \A i \in Ids : WF_relayVars(EndScan(i))
  /\ \A w \in Workers :
       /\ WF_relayVars(Contend(w))
       /\ WF_relayVars(Pass(w))
       /\ WF_relayVars(NoticesLockLost(w))
       /\ SF_relayVars(SkipGap(w))

-----------------------------------------------------------------------------
(* Properties *)

\* Checkout: GET /internal/reports/scan-count.
ScanCount ==
  [maxScanId |-> IF Committed = {} THEN 0
                 ELSE CHOOSE i \in Committed : \A j \in Committed : j <= i,
   relayPosition |-> saved.pos]

\* verify_invariant.py, check 6.
Relayed(report) == report.relayPosition = report.maxScanId

RelayTypeOK ==
  /\ log \in Logs
  /\ scans \in [Ids -> ScanState]
  /\ saved \in [pos : Ids \cup {0}, token : Logs \cup {0}]
  /\ lock \in Workers \cup {NoWorker}
  /\ relay \in [Workers ->
       [at : {"out", "lead", "read", "fresh", "replaced", "reset", "same", "publish"},
        pos : Ids \cup {0}, token : Logs \cup {0}, left : SUBSET Ids,
        upto : Ids \cup {0}, src : Logs \cup {0}, gap : 0..MaxScans + 1]]
  /\ stream \in Seq({Recorded(i, g) : i \in Ids, g \in Logs}
                      \cup {LogReset(g) : g \in Logs})
  /\ faults \in 0..MaxFaults
  /\ outlived \in BOOLEAN

\* The saved position covers published scans only, whoever saved it and however
\* many leaders there are (relay.py: "The position is saved after Kafka
\* acknowledges a batch"); an id below it that is not published never commits.
SavedIsPublished ==
  saved.token = log =>
    \A i \in 1..saved.pos :
      \/ scans[i] = "aborted"
      \/ scans[i] = "committed" /\ \E k \in 1..Len(stream) : stream[k] = Recorded(i, log)

\* With one leader at a time, a reader of the topic has this log's row for every
\* id below the position, and no row of a log that was replaced (relay.py: "A
\* replaced log"; scan_source.py: the first event of an id counts).
ReaderHasThisLog ==
  ~ outlived /\ saved.token = log =>
    /\ \A i \in Ids : Heard(i) # {} => stream[First(i)].log = log
    /\ \A i \in Committed : i <= saved.pos => Heard(i) # {}

\* With one leader at a time, events go out in scan-id order (relay.py: "In
\* order"): a step adds a reset, a repeat, or the highest id so far.
ScansGoOutInOrder ==
  [][ \/ outlived
      \/ stream' = stream
      \/ \E g \in Logs : Stored(LogReset(g))
      \/ \E i \in Ids, g \in Logs : InOrder(i, g) /\ Stored(Recorded(i, g))
    ]_stream

\* When failures and scans end, the topic's reader has exactly the committed
\* scans, and says so (verify_invariant.py, 6: "Checkout's scan relay has published
\* every committed scan").
EveryScanIsPublished ==
  <>[]( \/ outlived
        \/ /\ saved.token = log
           /\ \A i \in Ids : i \in Committed <=> Heard(i) # {}
           /\ Relayed(ScanCount) )
=============================================================================
