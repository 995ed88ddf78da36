------------------------------ MODULE ScanWindows ------------------------------
(***************************************************************************)
(* Analytics: a consumer copies the tail of checkout.scans.v1 into a       *)
(* buffer, a pipeline of tasks reads the buffer in id order and counts the *)
(* scans of a sliding window, and the newest window answers the popular    *)
(* items.  Everything is in memory; a supervisor restarts the pipeline.    *)
(***************************************************************************)
EXTENDS ScanStream, SequencesExt

CONSTANTS Skus, SkuOf,       \* the SKU of each scan of each log
          Window, Slide,     \* popular_window_size, popular_slide_interval
          Replay, Keep,      \* records read again at a start; rows kept
          TailBatch,         \* rows of one read of the tail
          RelayBatch,        \* ids that the relay may publish again
          MaxNoise,          \* bound: ids skipped and events repeated by the relay
          MaxLag,            \* bound: events the source has not applied
          MaxFaults,         \* bound: restarts, of the pipeline or the process
          EmptyPollsLie      \* may a poll be empty before the topic's end?

ASSUME WindowsAssumption ==
  /\ SkuOf \in [Logs -> [Ids -> Skus]]
  /\ {Window, Slide, Replay, Keep, TailBatch, RelayBatch} \subseteq Nat \ {0}
  /\ {MaxNoise, MaxLag, MaxFaults} \subseteq Nat
  /\ EmptyPollsLie \in BOOLEAN
  \* What is read again is a window, a slide and the repeats; more is kept.
  /\ Replay >= Window + Slide - 1 + MaxNoise
  /\ Keep >= Replay /\ Keep >= RelayBatch

VARIABLES relay,     \* what the relay has published: log, newest id, noise
          source,    \* KafkaScanSource
          sup,       \* the supervisor: start, running, backoff, drained
          tail,      \* TailIngest
          q1, slot,  \* the first queue between the filters, and the last
          buffer, boundary, counts,  \* WindowFilter, AggregationFilter
          written,   \* OutputFilter: last_written_end
          window, latest, cursor,    \* state.py: what is read
          faults     \* counts faults, for MaxFaults

pipeVars == <<tail, q1, slot, buffer, boundary, counts, written>>
stateVars == <<window, latest, cursor>>
windowsVars == <<stream, relay, source, sup, pipeVars, stateVars, faults>>

None == [end |-> 0]
Least(S) == CHOOSE i \in S : \A j \in S : i <= j
Above(a, b) == IF a > b THEN a ELSE b

Highest(S) == CHOOSE i \in S : \A j \in S : j <= i

\* How many of the rows are of each SKU.
Tally(rows) == [s \in Skus |-> Cardinality({r \in rows : SkuOf[r.log][r.id] = s})]

\* The deques of rows are filled in id order, each id once, by a tail that only moves
\* up: they are sets here, and their order is that of the ids.
Newest(n, rows) == {r \in rows : Cardinality({x \in rows : x.id > r.id}) < n}

-----------------------------------------------------------------------------
(* The relay, as ScanRelay has it *)

\* Bound: an event that the source applies later may as well arrive later.
Arrives(e) ==
  /\ Len(stream) - source.pos < MaxLag
  /\ Stored(e)
  /\ UNCHANGED <<source, sup, pipeVars, stateVars, faults>>

\* The ids before a higher one are skipped; a lower one is a repeat from the
\* relay's last batch.
ScanArrives(i) ==
  LET skips == IF i > relay.newest THEN i - relay.newest - 1 ELSE 1
  IN /\ relay.noise + skips <= MaxNoise
     /\ i > relay.newest - RelayBatch
     /\ InOrder(i, relay.log)
     /\ relay' = [relay EXCEPT !.newest = Above(@, i), !.noise = @ + skips]
     /\ Arrives(Recorded(i, relay.log))

LogReplaced ==
  /\ relay.log < MaxLogs
  /\ relay' = [relay EXCEPT !.log = @ + 1, !.newest = 0]
  /\ Arrives(LogReset(relay.log + 1))

\* Ghost: the log of the first n events.
LogAt(n) == IF n = 0 THEN 1 ELSE stream[n].log

-----------------------------------------------------------------------------
(* KafkaScanSource *)

\* Mutant: only a window's records are read again.
FreshSourceWindow ==
  [pos |-> Above(0, Len(stream) - Window), rows |-> <<>>, max |-> 0,
   caughtUp |-> FALSE, log |-> 0]

\* A fresh process reads the last Replay records again.
FreshSource ==
  [pos |-> Above(0, Len(stream) - Replay), rows |-> <<>>, max |-> 0,
   caughtUp |-> FALSE, log |-> 0]

Known(id) == \E k \in 1..Len(source.rows) : source.rows[k].id = id

\* The oldest row goes when Keep is reached.
Inserted(row) ==
  LET rows == Append(source.rows, row)
  IN IF Len(rows) > Keep THEN Tail(rows) ELSE rows

\* The tail polls far more often than Keep scans arrive.
TailKeepsUp ==
  sup = "running" /\ Len(source.rows) = Keep => source.rows[1].id <= tail.last

SourceApplies ==
  /\ source.pos < Len(stream)
  /\ TailKeepsUp
  /\ LET e == stream[source.pos + 1]
         next == [source EXCEPT !.pos = @ + 1]
     IN source' =
          CASE e.type = "scan-log-reset" ->
                 [next EXCEPT !.rows = <<>>, !.max = 0, !.log = e.log]
            [] e.type = "scan-recorded" /\ ~ Known(e.id) ->
                 [next EXCEPT !.rows = Inserted([id |-> e.id, log |-> e.log]),
                              !.max = Above(@, e.id)]
            [] OTHER -> next
  /\ UNCHANGED <<stream, relay, sup, pipeVars, stateVars, faults>>

\* An empty poll is taken for the end of the topic; a poll that fails, or a
\* broker that is not there yet, is an empty poll, too.
SourceCatchesUp ==
  /\ ~ source.caughtUp
  /\ source.pos = Len(stream) \/ EmptyPollsLie
  /\ source' = [source EXCEPT !.caughtUp = TRUE]
  /\ UNCHANGED <<stream, relay, sup, pipeVars, stateVars, faults>>

-----------------------------------------------------------------------------
(* The supervisor *)

NoTail == [last |-> 0, first |-> Slide, next |-> Slide, pending |-> {}, hole |-> FALSE,
           upto |-> 0, log |-> 0, of |-> 0]

\* No pipeline: its tasks are cancelled, its queues gone.
NoPipeline ==
  /\ tail' = NoTail
  /\ q1' = <<>>
  /\ slot' = [item |-> None, closed |-> FALSE]
  /\ buffer' = {} /\ boundary' = 0 /\ counts' = Tally({}) /\ written' = 0

\* Mutant: the first boundary published is the first one after the start.
FirstBoundaryEarlier(b0, startAfter) == (startAfter \div Slide + 1) * Slide

FirstBoundary(b0, startAfter) == IF b0 > 0 THEN b0 ELSE Slide

\* _run_pipeline: the first window published is complete.
Bootstrap ==
  /\ sup = "start" /\ source.caughtUp
  /\ LET b0 == source.max - (source.max % Slide)
         startAfter == Above(0, b0 - Window)
         first == FirstBoundary(b0, startAfter)
     IN /\ tail' = [NoTail EXCEPT !.last = startAfter, !.first = first, !.next = first,
                                  !.log = source.log, !.of = LogAt(source.pos)]
        /\ boundary' = startAfter
        /\ cursor' = startAfter
  /\ sup' = "running"
  /\ window' = {}
  /\ UNCHANGED <<stream, relay, source, q1, slot, buffer, counts, written, latest, faults>>

\* Mutant: only a log that is shorter is noticed.
CursorAheadOfMax == source.max < tail.last

\* What read raises: the log was replaced, or ends before the cursor.
CursorAhead == source.log # tail.log \/ source.max < tail.last

\* Forget everything and start over at once.
StartsOver ==
  /\ sup = "running" /\ CursorAhead
  /\ sup' = "start"
  /\ NoPipeline
  /\ window' = {} /\ latest' = None /\ cursor' = 0
  /\ UNCHANGED <<stream, relay, source, faults>>

\* Any other error of a filter: back off, then bootstrap again.
PipelineFails ==
  /\ sup = "running" /\ faults < MaxFaults
  /\ sup' = "backoff"
  /\ NoPipeline
  /\ faults' = faults + 1
  /\ UNCHANGED <<stream, relay, source, stateVars>>

BackoffEnds ==
  /\ sup = "backoff"
  /\ sup' = "start"
  /\ UNCHANGED <<stream, relay, source, pipeVars, stateVars, faults>>

\* TERMINATE, behind all that the tail has sent.
End == [id |-> 0, scans |-> {}, then |-> "end"]

\* stop(): the tail is cancelled between two passes and the end sent after it.
Stop ==
  /\ sup = "running" /\ faults < MaxFaults
  /\ sup' = "stopping"
  /\ q1' = Append(q1, End)
  /\ faults' = faults + 1
  /\ UNCHANGED <<stream, relay, source, tail, slot, buffer, boundary, counts, written, stateVars>>

\* A new process, after a stop or a crash.
ProcessStarts ==
  /\ sup = "drained" \/ faults < MaxFaults
  /\ faults' = IF sup = "drained" THEN faults ELSE faults + 1
  /\ sup' = "start"
  /\ source' = FreshSource
  /\ NoPipeline
  /\ window' = {} /\ latest' = None /\ cursor' = 0
  /\ UNCHANGED <<stream, relay>>

-----------------------------------------------------------------------------
(* TailIngest *)

IsBoundary(id) == id >= tail.next /\ (id - tail.next) % Slide = 0

\* What advancing from a to b puts into q1, of rows that are accepted: id by id the
\* scan, if there is one, then a watermark, if the id is a boundary.
Advance(a, b, rows) ==
  [k \in 1..(b - a) |-> [id |-> a + k, scans |-> {r \in rows : r.id = a + k},
                         then |-> IF IsBoundary(a + k) THEN "mark" ELSE "nothing"]]

\* Mutant: the id expected next is returned for the last one accepted.
DrainedNext(a, rows) ==
  LET ids == {r.id : r \in rows}
  IN a + 1 + Cardinality({i \in ids : i > a /\ \A j \in (a + 1)..i : j \in ids})

\* The end of the rows that follow a without a hole.
Drained(a, rows) ==
  LET ids == {r.id : r \in rows}
  IN a + Cardinality({i \in ids : i > a /\ \A j \in (a + 1)..i : j \in ids})

NextBoundary(last) ==
  IF last < tail.next THEN tail.next
  ELSE tail.next + Slide * ((last - tail.next) \div Slide + 1)

\* Skip the ids up to b, accept the rows from there to c; on_scan: a deque of
\* Window + Slide rows.
Passes(rows, b, c, hole, upto) ==
  LET accepted == {r \in rows : r.id > b /\ r.id <= c}
  IN /\ q1' = q1 \o Advance(tail.last, c, accepted)
     /\ window' = Newest(Window + Slide, window \cup accepted)
     /\ cursor' = c
     /\ tail' = [tail EXCEPT !.last = c, !.next = NextBoundary(c),
                             !.pending = rows \ accepted,
                             !.hole = hole, !.upto = upto]
     /\ UNCHANGED <<stream, relay, source, sup, slot, buffer, boundary, counts, written,
                    latest, faults>>

\* One read: the lowest rows above last join the pending ones.
Reads ==
  LET above == {r \in ToSet(source.rows) : r.id > tail.last}
  IN tail.pending \cup
       {r \in above : Cardinality({x \in above : x.id < r.id}) < TailBatch}

MayPass == sup = "running" /\ ~ CursorAhead

\* A pass without a skip; a hole is first noticed, or still in its grace.
TailPass ==
  /\ MayPass
  /\ LET a == Drained(tail.last, Reads)
         left == {r.id : r \in Reads} \ (1..a)
         waits == tail.hole /\ a = tail.last
     IN /\ Passes(Reads, tail.last, a, left # {},
                  IF left = {} THEN 0 ELSE IF waits THEN tail.upto ELSE Least(left) - 1)

\* The grace is over: the ids of the hole are skipped.
TailSkips ==
  /\ MayPass
  /\ tail.hole /\ Drained(tail.last, Reads) = tail.last
  /\ LET b == Above(tail.last, tail.upto)
     IN Passes(Reads, b, Drained(b, Reads), FALSE, 0)

-----------------------------------------------------------------------------
(* The filters *)

\* The next watermark, or the end; scans before it only fill the buffer.
NextMark == Least({k \in 1..Len(q1) : q1[k].then # "nothing"})
Scans(n) == UNION {q1[k].scans : k \in 1..n}

\* What enters and leaves the window at boundary b.
Added(buf, b) == {x \in buf : boundary < x.id /\ x.id <= b}
Evicted(buf, b) == {x \in buf : x.id <= b - Window}

Counted(buf, b) ==
  [s \in Skus |-> Above(0, counts[s] + Tally(Added(buf, b))[s] - Tally(Evicted(buf, b))[s])]

\* Mutant: the end takes the place of the last item in the slot.
EndedEmpty == [item |-> None, closed |-> TRUE]

\* The slot keeps the newest item, and the end apart from it.
Ended == [slot EXCEPT !.closed = TRUE]

\* WindowFilter, AggregationFilter and RankingFilter hand an item on in turn;
\* no one sees it between them.  The ranking is the counts in order.
Filters ==
  /\ \E k \in 1..Len(q1) : q1[k].then # "nothing"
  /\ LET item == q1[NextMark]
         buf == buffer \cup Scans(NextMark)
     IN /\ q1' = SubSeq(q1, NextMark + 1, Len(q1))
        /\ IF item.then = "end"
           THEN /\ slot' = Ended
                /\ buffer' = buf
                /\ UNCHANGED <<boundary, counts>>
           ELSE /\ counts' = Counted(buf, item.id)
                /\ slot' = [slot EXCEPT !.item = [end |-> item.id, counts |-> counts']]
                /\ buffer' = buf \ Evicted(buf, item.id)
                /\ boundary' = item.id
  /\ UNCHANGED <<stream, relay, source, sup, tail, written, stateVars, faults>>

\* Taking the item makes room for a newer one; an older window is not written.
OutputFilter ==
  /\ slot.item # None
  /\ slot' = [slot EXCEPT !.item = None]
  /\ IF slot.item.end > written
     THEN /\ written' = slot.item.end
          /\ latest' = [end |-> slot.item.end, counts |-> slot.item.counts, of |-> tail.of]
     ELSE UNCHANGED <<written, latest>>
  /\ UNCHANGED <<stream, relay, source, sup, tail, q1, buffer, boundary, counts, window, cursor, faults>>

Drain ==
  /\ sup = "stopping" /\ slot.closed /\ slot.item = None
  /\ sup' = "drained"
  /\ UNCHANGED <<stream, relay, source, pipeVars, stateVars, faults>>

-----------------------------------------------------------------------------
(* The read path *)

\* last_scan_id
NewestId == Highest({0} \cup {r.id : r \in window})

\* Mutant: the last Window rows, wherever their ids are.
OnDemandByRows ==
  [start |-> Above(0, NewestId - Window), end |-> NewestId,
   counts |-> Tally(Newest(Window, window))]

\* The rows in memory, within Window ids of the last of them.
OnDemand ==
  LET start == Above(0, NewestId - Window)
  IN [start |-> start, end |-> NewestId,
      counts |-> Tally({x \in window : start < x.id /\ x.id <= NewestId})]

-----------------------------------------------------------------------------
\* Analytics: GET /internal/reports/cursor.
CursorReport == [lastScanId |-> cursor, windowEnd |-> latest.end]

WindowsInit ==
  /\ stream = <<>> /\ relay = [log |-> 1, newest |-> 0, noise |-> 0]
  /\ source = [pos |-> 0, rows |-> <<>>, max |-> 0, caughtUp |-> FALSE, log |-> 0]
  /\ sup = "start"
  /\ tail = NoTail
  /\ q1 = <<>>
  /\ slot = [item |-> None, closed |-> FALSE]
  /\ buffer = {} /\ boundary = 0 /\ counts = Tally({}) /\ written = 0
  /\ window = {} /\ latest = None /\ cursor = 0
  /\ faults = 0

\* What the tasks of the process do.
Works ==
  \/ SourceApplies \/ SourceCatchesUp
  \/ Bootstrap \/ StartsOver \/ BackoffEnds \/ Drain
  \/ TailPass \/ TailSkips
  \/ Filters \/ OutputFilter

WindowsNext ==
  \/ \E i \in Ids : ScanArrives(i)
  \/ LogReplaced
  \/ Works
  \/ PipelineFails \/ Stop \/ ProcessStarts

WindowsSpec == WindowsInit /\ [][WindowsNext]_windowsVars

\* The event loop runs some task that can run.
FairWindows == WindowsSpec /\ WF_windowsVars(Works)

-----------------------------------------------------------------------------
(* Properties *)

WindowsTypeOK ==
  /\ relay \in [log : Logs, newest : 0..MaxScans, noise : 0..MaxNoise]
  /\ source \in [pos : 0..Len(stream), rows : Seq([id : Ids, log : Logs]), max : 0..MaxScans,
                  caughtUp : BOOLEAN, log : 0..MaxLogs]
  /\ Len(source.rows) <= Keep
  /\ sup \in {"start", "running", "backoff", "stopping", "drained"}
  /\ tail \in [last : 0..MaxScans, first : Nat, next : Nat, pending : SUBSET [id : Ids, log : Logs],
                hole : BOOLEAN, upto : 0..MaxScans, log : 0..MaxLogs, of : 0..MaxLogs]
  /\ q1 \in Seq([id : 0..MaxScans, scans : SUBSET [id : Ids, log : Logs],
                 then : {"nothing", "mark", "end"}])
  /\ counts \in [Skus -> Nat]
  /\ {boundary, written, cursor} \subseteq 0..MaxScans
  /\ {buffer, window} \subseteq SUBSET [id : Ids, log : Logs]
  /\ Cardinality(window) <= Window + Slide
  /\ latest # None => latest.counts \in [Skus -> Nat] /\ latest.of \in Logs
  /\ faults \in 0..MaxFaults

\* The scans of log g that the topic has said in (a, b], by SKU.
TrueCounts(g, a, b) ==
  LET said == {i \in (a + 1)..b : \E k \in DOMAIN stream : stream[k] = Recorded(i, g)}
  IN [s \in Skus |-> Cardinality({i \in said : SkuOf[g][i] = s})]

\* A published window counts each scan of its ids once and no other, however
\* the pipeline was restarted (supervisor.py: "The first window published is b0
\* itself (complete), never a half-filled earlier boundary").
PublishedIsComplete ==
  latest # None =>
    /\ latest.end % Slide = 0
    /\ latest.counts = TrueCounts(latest.of, Above(0, latest.end - Window), latest.end)

\* Until a window is published, a tail that has passed the last boundary answers
\* from memory with the scans of the newest Window ids, all of them
\* (popular_items.py: "the answer is computed on demand").
AnswersOnDemand ==
  /\ sup = "running" /\ latest = None
  /\ tail.of = relay.log /\ cursor >= source.max - (source.max % Slide)
  => LET answer == OnDemand
     IN answer.counts = TrueCounts(relay.log, answer.start, answer.end)

\* A stop that drains publishes the last window that the tail has finished
\* (pipeline.py: "shutdown never drops the final window").
DrainedIsPublished ==
  sup = "drained" /\ tail.next > tail.first => latest.end + Slide = tail.next

\* As long as the log is the same, what is published never gets older.
NeverOlder ==
  [][latest # None /\ latest' # None /\ latest.of = latest'.of
       => latest.end <= latest'.end]_windowsVars

\* When scans and faults end and the process runs, the cursor is the newest scan's
\* id, and the newest whole window is published (verify_invariant.py: "Analytics
\* read every scan Checkout holds").
CatchesUp ==
  <>[](sup # "drained" =>
         /\ CursorReport.lastScanId = relay.newest
         /\ relay.newest >= Slide =>
              CursorReport.windowEnd = relay.newest - (relay.newest % Slide) /\ latest.of = relay.log)
=============================================================================
