--------------------------- MODULE ScanWindowsProofs ---------------------------
(***************************************************************************)
(* What Analytics publishes counts each scan of its window once and no     *)
(* other, for windows, logs, faults and noise of any size.  The invariant  *)
(* follows a scan along its way: said by the topic (SaidInOrder,           *)
(* FewEvents), kept by the source until no window to come reaches it       *)
(* (SourceInv), read by the tail (TailInv), queued with the boundaries     *)
(* between (NextInv), counted and forgotten by the filters (FiltersInv),   *)
(* and published (SlotInv, LatestInv).                                     *)
(***************************************************************************)
EXTENDS ScanWindows, FiniteSetTheorems, TLAPS

Event == [type : {"scan-recorded", "scan-log-reset"}, id : 0..MaxScans, log : Logs]
Row == [id : Ids, log : Logs]
Ranked == [end : 1..MaxScans, counts : [Skus -> Nat]]

-----------------------------------------------------------------------------
(* Numbers *)

LEMMA Division ==
  ASSUME NEW a \in Nat, NEW n \in Nat \ {0}
  PROVE  /\ a \div n \in Nat /\ (a % n) \in 0..(n - 1)
         /\ a = n * (a \div n) + (a % n)
OBVIOUS

LEMMA Multiple ==
  ASSUME NEW q \in Nat, NEW n \in Nat \ {0}
  PROVE  (n * q) % n = 0
OBVIOUS

\* Multiples of a number lie apart, and their sums and differences are multiples.
LEMMA MultiplesApart ==
  ASSUME NEW n \in Nat \ {0}, NEW a \in Nat, NEW b \in Nat, a % n = 0, b % n = 0
  PROVE  /\ a < b => a + n <= b
         /\ (a + b) % n = 0
         /\ a <= b => (b - a) % n = 0
<1> DEFINE p == a \div n
           q == b \div n
<1>1. p \in Nat /\ q \in Nat /\ a = n * p /\ b = n * q
  BY Division
<1> HIDE DEF p, q
<1>2. p + 1 <= q => n * p + n <= n * q
  BY <1>1
<1>3. q + 1 <= p => n * q + n <= n * p
  BY <1>1
<1>4. q <= p => n * q <= n * p
  BY <1>1
<1>5. a + b = n * (p + q) /\ b - a = n * (q - p) /\ p + q \in Nat
  BY <1>1
<1>6. (a + b) % n = 0
  BY <1>5, Multiple
<1>7. ASSUME a <= b PROVE (b - a) % n = 0
  <2>1. p <= q
    BY <1>1, <1>3, <1>7
  <2>2. q - p \in Nat
    BY <1>1, <2>1
  <2> QED BY <1>5, <2>2, Multiple
<1>8. ASSUME a < b PROVE a + n <= b
  BY <1>1, <1>2, <1>4, <1>8
<1> QED BY <1>6, <1>7, <1>8

\* The last multiple up to a number.
LEMMA MultipleBelow ==
  ASSUME NEW n \in Nat \ {0}, NEW a \in Nat
  PROVE  /\ a - (a % n) \in 0..a /\ (a - (a % n)) % n = 0 /\ a < a - (a % n) + n
         /\ \A b \in 0..a : b % n = 0 => b <= a - (a % n)
<1>1. a \div n \in Nat /\ (a % n) \in 0..(n - 1) /\ a = n * (a \div n) + (a % n)
  BY Division
<1>2. n * (a \div n) \in Nat /\ a - (a % n) = n * (a \div n)
  BY <1>1
<1>3. (a - (a % n)) % n = 0
  BY <1>1, <1>2, Multiple
<1>4. ASSUME NEW b \in 0..a, b % n = 0, a - (a % n) < b PROVE FALSE
  <2>1. a - (a % n) \in Nat /\ b \in Nat
    BY <1>1, <1>2
  <2>2. a - (a % n) + n <= b
    BY <1>3, <1>4, <2>1, MultiplesApart
  <2> QED BY <1>1, <2>2
<1>5. a - (a % n) \in 0..a /\ a < a - (a % n) + n
  BY <1>1, <1>2
<1> QED BY <1>3, <1>4, <1>5

LEMMA SmallerBelow ==
  ASSUME NEW n \in Nat \ {0}, NEW a \in Nat, NEW b \in Nat, a <= b
  PROVE  a - (a % n) <= b - (b % n)
<1>1. a - (a % n) \in 0..b /\ (a - (a % n)) % n = 0
  BY MultipleBelow
<1> QED BY <1>1, MultipleBelow

\* A set of numbers has a least one, and a highest one if it is bounded.
LEMMA LeastNumber ==
  ASSUME NEW S \in SUBSET Nat, S # {}
  PROVE  Least(S) \in S /\ \A j \in S : Least(S) <= j
<1> PICK n \in S : TRUE
  OBVIOUS
<1> DEFINE N == 0..n
           Starts == {s \in SUBSET N : \E k \in S : s = 0..k}
<1>1. IsWellFoundedOn(StrictSubsetOrdering(N), SUBSET N)
  <2>1. IsFiniteSet(N)
    BY FS_Interval
  <2> HIDE DEF N
  <2> QED BY <2>1, FS_StrictSubsetOrderingWellFounded, FS_FiniteSubsetsOfFinite
<1>2. Starts \subseteq SUBSET N /\ N \in Starts
  OBVIOUS
<1> HIDE DEF Starts
<1>3. PICK s \in Starts : \A r \in Starts : <<r, s>> \notin StrictSubsetOrdering(N)
  BY <1>1, <1>2, WFMin
<1> USE DEF Starts
<1>4. PICK k \in S : s = 0..k
  BY <1>3
<1>5. ASSUME NEW j \in S, j < k PROVE FALSE
  <2>1. 0..j \subseteq s /\ k \in s /\ k \notin 0..j
    BY <1>4, <1>5
  <2>2. 0..j \in Starts /\ s \in SUBSET N
    BY <1>3, <2>1
  <2>3. <<0..j, s>> \in StrictSubsetOrdering(N)
    BY <2>1, <2>2 DEF StrictSubsetOrdering
  <2> QED BY <1>3, <2>2, <2>3
<1>6. \E i \in S : \A j \in S : i <= j
  BY <1>5
<1> HIDE DEF Starts, N
<1> QED BY <1>6 DEF Least

LEMMA HighestNumber ==
  ASSUME NEW S \in SUBSET Nat, S # {}, NEW n \in Nat, \A j \in S : j <= n
  PROVE  Highest(S) \in S /\ \A j \in S : j <= Highest(S)
<1> DEFINE Down == {n - j : j \in S}
<1>1. \A j \in S : j \in Nat /\ n - j \in Nat
  OBVIOUS
<1>2. Down \in SUBSET Nat /\ Down # {}
  BY <1>1
<1> HIDE DEF Down
<1>3. PICK d \in Down : \A e \in Down : d <= e
  BY <1>2, LeastNumber
<1> USE DEF Down
<1>4. PICK i \in S : d = n - i
  BY <1>3
<1>5. \A j \in S : d <= n - j
  BY <1>3
<1>6. \E k \in S : \A j \in S : j <= k
  BY <1>1, <1>4, <1>5
<1> HIDE DEF Down
<1> QED BY <1>6 DEF Highest

-----------------------------------------------------------------------------
(* The model's operators *)

LEMMA Bounds ==
  /\ MaxScans \in Nat /\ MaxLogs \in Nat \ {0} /\ MaxNoise \in Nat
  /\ Ids = 1..MaxScans /\ Logs = 1..MaxLogs
BY MaxScansAssumption, MaxLogsAssumption, WindowsAssumption DEF Ids, Logs

LEMMA Constants ==
  /\ MaxScans \in Nat /\ MaxLogs \in Nat \ {0}
  /\ Window \in Nat \ {0} /\ Slide \in Nat \ {0} /\ Replay \in Nat \ {0} /\ Keep \in Nat \ {0}
  /\ TailBatch \in Nat \ {0} /\ RelayBatch \in Nat \ {0}
  /\ MaxNoise \in Nat /\ MaxLag \in Nat /\ MaxFaults \in Nat
  /\ SkuOf \in [Logs -> [Ids -> Skus]]
  /\ Replay >= Window + Slide - 1 + MaxNoise /\ Keep >= Replay /\ Keep >= RelayBatch
  /\ Ids \subseteq Nat /\ Logs \subseteq Nat
<1>1. MaxScans \in Nat /\ MaxLogs \in Nat \ {0}
  BY MaxScansAssumption, MaxLogsAssumption
<1>2. /\ {Window, Slide, Replay, Keep, TailBatch, RelayBatch} \subseteq Nat \ {0}
      /\ {MaxNoise, MaxLag, MaxFaults} \subseteq Nat
  BY WindowsAssumption
<1>3. /\ SkuOf \in [Logs -> [Ids -> Skus]]
      /\ Replay >= Window + Slide - 1 + MaxNoise /\ Keep >= Replay /\ Keep >= RelayBatch
  BY WindowsAssumption
<1>4. Ids \subseteq Nat /\ Logs \subseteq Nat
  BY <1>1 DEF Ids, Logs
<1> QED BY <1>1, <1>2, <1>3, <1>4

\* Drained finds the end of the rows that follow without a hole.
LEMMA DrainedEnds ==
  ASSUME NEW a \in 0..MaxScans, NEW rows, \A r \in rows : r.id \in Ids
  PROVE  /\ Drained(a, rows) \in a..MaxScans
         /\ \A i \in (a + 1)..Drained(a, rows) : \E r \in rows : r.id = i
         /\ \A r \in rows : r.id # Drained(a, rows) + 1
<1> DEFINE ids == {r.id : r \in rows}
           S == {i \in ids : i > a /\ \A j \in (a + 1)..i : j \in ids}
           Holes == {i \in Nat : i > a /\ i \notin ids}
           h == Least(Holes)
<1>1. ids \subseteq 1..MaxScans /\ MaxScans \in Nat
  BY Constants DEF Ids
<1>2. MaxScans + 1 \in Holes
  BY <1>1
<1>3. h \in Holes /\ \A j \in Holes : h <= j
  <2>1. Holes \in SUBSET Nat /\ Holes # {}
    BY <1>2
  <2> HIDE DEF Holes
  <2> QED BY <2>1, LeastNumber
<1>4. h \in (a + 1)..(MaxScans + 1) /\ h \notin ids
  BY <1>1, <1>2, <1>3
<1>5. \A j \in (a + 1)..(h - 1) : j \in ids
  BY <1>1, <1>3, <1>4
<1> HIDE DEF h, Holes
<1>6. S = (a + 1)..(h - 1)
  <2>1. ASSUME NEW i \in S PROVE i \in (a + 1)..(h - 1)
    <3>1. i \in 1..MaxScans /\ i > a /\ \A j \in (a + 1)..i : j \in ids
      BY <1>1, <2>1
    <3>2. ~ (i >= h)
      BY <1>4, <3>1
    <3> QED BY <1>4, <3>1, <3>2
  <2>2. ASSUME NEW i \in (a + 1)..(h - 1) PROVE i \in S
    <3>1. i \in ids /\ i > a
      BY <1>4, <1>5, <2>2
    <3>2. \A j \in (a + 1)..i : j \in (a + 1)..(h - 1)
      BY <1>4, <2>2
    <3> QED BY <1>5, <3>1, <3>2
  <2> HIDE DEF S
  <2> QED BY <2>1, <2>2
<1>7. Cardinality(S) = h - 1 - a
  <2> HIDE DEF S
  <2>1. a + 1 \in Int /\ h - 1 \in Int /\ a \in Int
    BY <1>1, <1>4
  <2>2. Cardinality((a + 1)..(h - 1)) = IF a + 1 > h - 1 THEN 0 ELSE h - 1 - (a + 1) + 1
    BY <2>1, FS_Interval
  <2> QED BY <1>1, <1>4, <1>6, <2>1, <2>2
<1>8. Drained(a, rows) = h - 1
  <2>1. Drained(a, rows) = a + Cardinality(S)
    BY DEF Drained
  <2> HIDE DEF S
  <2> QED BY <1>1, <1>4, <1>7, <2>1
<1>9. Drained(a, rows) \in a..MaxScans
  BY <1>1, <1>4, <1>8
<1>10. \A r \in rows : r.id # Drained(a, rows) + 1
  BY <1>1, <1>4, <1>8
<1>11. \A i \in (a + 1)..Drained(a, rows) : \E r \in rows : r.id = i
  BY <1>5, <1>8
<1> QED BY <1>9, <1>10, <1>11

LEMMA RowsFinite == \A rows \in SUBSET Row : IsFiniteSet(rows)
<1> DEFINE f == [r \in Row |-> <<r.id, r.log>>]
<1>1. IsFiniteSet(Ids \X Logs)
  <2>1. IsFiniteSet(Ids) /\ IsFiniteSet(Logs)
    BY FS_Interval, Constants DEF Ids, Logs
  <2> QED BY <2>1, FS_Product
<1>2. f \in Injection(Row, Ids \X Logs)
  BY DEF Injection, IsInjective, Row
<1>3. IsFiniteSet(Row)
  BY <1>1, <1>2, FS_Injection
<1> QED BY <1>3, FS_Subset

\* A deque of n rows holds no more of them.
LEMMA NewestFit ==
  ASSUME NEW rows \in SUBSET Row, \A r, x \in rows : r.log = x.log, NEW n \in Nat
  PROVE  Newest(n, rows) \subseteq rows /\ Cardinality(Newest(n, rows)) <= n
<1> DEFINE N == Newest(n, rows)
<1>1. N \subseteq rows
  BY DEF Newest
<1>2. IsFiniteSet(N) /\ IsFiniteSet(rows)
  BY <1>1, RowsFinite
<1>3. CASE N = {}
  BY <1>1, <1>3, FS_EmptySet
<1>4. CASE N # {}
  <2> DEFINE ids == {r.id : r \in N}
  <2>0. \A x \in N : x.id \in Nat
    BY <1>1, Constants DEF Row
  <2>1. ids \in SUBSET Nat /\ ids # {}
    BY <1>4, <2>0
  <2>2. PICK r \in N : \A x \in N : r.id <= x.id
    <3> HIDE DEF ids, N
    <3>1. PICK i \in ids : \A j \in ids : i <= j
      BY <2>1, LeastNumber
    <3> QED BY <3>1 DEF ids
  <2>3. \A x \in N \ {r} : x.id > r.id
    <3> TAKE x \in N \ {r}
    <3>1. x \in rows /\ r \in rows /\ x # r /\ r.id <= x.id
      BY <1>1, <2>2
    <3>2. x.log = r.log /\ x.id \in Nat /\ r.id \in Nat
      BY <3>1, Constants DEF Row
    <3>3. x.id # r.id
      BY <3>1, <3>2 DEF Row
    <3> QED BY <3>1, <3>2, <3>3
  <2> DEFINE above == {x \in rows : x.id > r.id}
  <2>4. Cardinality(above) < n
    BY <2>2 DEF Newest
  <2>5. N \ {r} \subseteq above /\ IsFiniteSet(above)
    BY <1>1, <1>2, <2>3, FS_Subset
  <2>6. Cardinality(N \ {r}) <= Cardinality(above) /\ Cardinality(above) \in Nat
    BY <2>5, FS_Subset, FS_CardinalityType
  <2>7. Cardinality(N \ {r}) = Cardinality(N) - 1 /\ Cardinality(N) \in Nat
    BY <1>2, <2>2, FS_RemoveElement, FS_CardinalityType
  <2> QED BY <1>1, <2>4, <2>6, <2>7
<1> QED BY <1>3, <1>4

LEMMA TallyType ==
  ASSUME NEW rows \in SUBSET Row
  PROVE  Tally(rows) \in [Skus -> Nat]
<1>1. \A s \in Skus : IsFiniteSet({r \in rows : SkuOf[r.log][r.id] = s})
  BY RowsFinite, FS_Subset
<1> QED BY <1>1, FS_CardinalityType DEF Tally

-----------------------------------------------------------------------------
(* The topic *)

\* Positions among the first n events that record a scan of log g, and its ids.
Records(g, n) == {k \in 1..n : stream[k].type = "scan-recorded" /\ stream[k].log = g}
Said(g, n) == {stream[k].id : k \in Records(g, n)}

StreamTypes ==
  /\ stream \in Seq(Event)
  /\ relay \in [log : Logs, newest : 0..MaxScans, noise : 0..MaxNoise]

\* Logs follow one another, each begun by its reset.
LogsFollow ==
  /\ LogAt(Len(stream)) = relay.log
  /\ \A k \in 1..Len(stream) : \A j \in 0..(k - 1) : LogAt(j) <= stream[k].log
  /\ \A k \in 1..Len(stream) :
       /\ stream[k].type = "scan-recorded" => stream[k].id \in Ids /\ stream[k].log = LogAt(k - 1)
       /\ stream[k].type = "scan-log-reset" => LogAt(k - 1) < stream[k].log

LEMMA LogTypes ==
  ASSUME stream \in Seq(Event)
  PROVE  /\ \A n \in 0..Len(stream) : LogAt(n) \in Logs
         /\ \A g, n : n \in 0..Len(stream) =>
              Records(g, n) \subseteq 1..n /\ Said(g, n) \subseteq 0..MaxScans
<1>1. \A k \in 1..Len(stream) : stream[k] \in Event
  OBVIOUS
<1>2. \A n \in 0..Len(stream) : LogAt(n) \in Logs
  BY <1>1, Bounds DEF LogAt, Event
<1>3. \A g, n : Records(g, n) \subseteq 1..n
  BY DEF Records
<1>4. ASSUME NEW g, NEW n \in 0..Len(stream) PROVE Said(g, n) \subseteq 0..MaxScans
  <2>1. \A k \in Records(g, n) : k \in 1..Len(stream)
    BY <1>3
  <2>2. \A k \in Records(g, n) : stream[k].id \in 0..MaxScans
    BY <1>1, <2>1 DEF Event
  <2> QED BY <2>2 DEF Said
<1> QED BY <1>2, <1>3, <1>4

LEMMA SaidIds ==
  ASSUME stream \in Seq(Event), LogsFollow, NEW g, NEW n \in 0..Len(stream)
  PROVE  Said(g, n) \subseteq Ids
<1>1. \A k \in Records(g, n) : k \in 1..Len(stream) /\ stream[k].type = "scan-recorded"
  BY DEF Records
<1> QED BY <1>1 DEF Said, LogsFollow

\* What the topic said stays as it was when an event joins it.
LEMMA Joins ==
  ASSUME stream \in Seq(Event), NEW n \in Nat, n = Len(stream), NEW e \in Event, Stored(e)
  PROVE  /\ stream' \in Seq(Event) /\ Len(stream') = n + 1
         /\ stream'[n + 1] = e
         /\ \A k \in 1..n : stream'[k] = stream[k]
         /\ \A k \in 0..n : LogAt(k)' = LogAt(k)
         /\ LogAt(n + 1)' = e.log
<1>1. stream' = Append(stream, e)
  BY DEF Stored
<1>2. /\ stream' \in Seq(Event) /\ Len(stream') = n + 1
      /\ stream'[n + 1] = e
      /\ \A k \in 1..n : stream'[k] = stream[k]
  BY <1>1
<1>3. \A k \in 0..n : LogAt(k)' = LogAt(k)
  BY <1>2 DEF LogAt
<1>4. LogAt(n + 1)' = e.log
  BY <1>2 DEF LogAt
<1> QED BY <1>2, <1>3, <1>4

LEMMA SaidStays ==
  ASSUME stream \in Seq(Event), NEW e \in Event, Stored(e), NEW n \in 0..Len(stream), NEW g
  PROVE  Records(g, n)' = Records(g, n) /\ Said(g, n)' = Said(g, n)
<1>1. \A k \in 1..n : stream'[k] = stream[k]
  BY DEF Stored
<1>2. Records(g, n)' = Records(g, n)
  BY <1>1 DEF Records
<1>3. \A k \in Records(g, n) : stream'[k] = stream[k]
  BY <1>1 DEF Records
<1> QED BY <1>2, <1>3 DEF Said

\* What an event adds to what is known of log g.
Tells(e, g, x) == IF e.type = "scan-recorded" /\ e.log = g THEN {x} ELSE {}

\* And it says the event's id besides, if that is of the log in question.
LEMMA SaidGrows ==
  ASSUME stream \in Seq(Event), NEW n \in Nat, n = Len(stream), NEW e \in Event, Stored(e), NEW g
  PROVE  /\ Records(g, n + 1)' =
              Records(g, n) \cup Tells(e, g, n + 1)
         /\ Said(g, n + 1)' =
              Said(g, n) \cup Tells(e, g, e.id)
<1>1. \A k \in 1..n : stream'[k] = stream[k]
  BY Joins
<1>2. 1..(n + 1) = (1..n) \cup {n + 1} /\ n + 1 \notin 1..n
  OBVIOUS
<1>0. stream'[n + 1] = e
  BY Joins
<1>3. Records(g, n + 1)' = Records(g, n) \cup Tells(e, g, n + 1)
  <2>1. Records(g, n + 1)' =
          {k \in 1..(n + 1) : stream'[k].type = "scan-recorded" /\ stream'[k].log = g}
    BY DEF Records
  <2>2. \A k \in 1..n : stream'[k] = stream[k]
    BY <1>1
  <2>3. \A k \in 1..(n + 1) : k \in 1..n \/ k = n + 1
    BY <1>2
  <2>4. Records(g, n + 1)' = {k \in 1..n : stream[k].type = "scan-recorded" /\ stream[k].log = g}
          \cup {k \in {n + 1} : e.type = "scan-recorded" /\ e.log = g}
    BY <1>0, <1>2, <2>1, <2>2, <2>3
  <2> QED BY <2>4 DEF Records, Tells
<1>4. \A k \in Records(g, n) : stream'[k] = stream[k]
  BY <1>1 DEF Records
<1>5. Said(g, n + 1)' = {stream'[k] .id : k \in Records(g, n + 1)'}
  BY DEF Said
<1>6. Said(g, n + 1)' = Said(g, n) \cup Tells(e, g, e.id)
  BY <1>0, <1>3, <1>4, <1>5 DEF Said, Tells
<1> QED BY <1>3, <1>6

\* The next event of a prefix.
LEMMA SaidNext ==
  ASSUME stream \in Seq(Event), NEW n \in 0..(Len(stream) - 1), NEW g
  PROVE  LET e == stream[n + 1] IN
         /\ Records(g, n + 1) =
              Records(g, n) \cup Tells(e, g, n + 1)
         /\ Said(g, n + 1) =
              Said(g, n) \cup Tells(e, g, e.id)
<1>1. 1..(n + 1) = (1..n) \cup {n + 1} /\ n + 1 \notin 1..n
  OBVIOUS
<1> DEFINE e == stream[n + 1]
<1>2. Records(g, n + 1) = Records(g, n) \cup Tells(e, g, n + 1)
  BY <1>1 DEF Records, Tells
<1>3. Said(g, n + 1) = Said(g, n) \cup Tells(e, g, e.id)
  BY <1>2 DEF Said, Tells
<1> QED BY <1>2, <1>3

\* Only the relay writes the topic.
LEMMA WhoWrites ==
  ASSUME WindowsNext
  PROVE  \/ \E i \in Ids : ScanArrives(i)
         \/ LogReplaced
         \/ UNCHANGED <<stream, relay>>
BY DEF WindowsNext, Works, SourceApplies, SourceCatchesUp, Bootstrap, StartsOver, BackoffEnds,
    Drain, TailPass, TailSkips, Passes, Filters, OutputFilter, PipelineFails, Stop, ProcessStarts

LEMMA StreamTypesStep ==
  ASSUME StreamTypes, LogsFollow, WindowsNext
  PROVE  StreamTypes' /\ LogsFollow'
<1>n. PICK n \in Nat : n = Len(stream)
  BY DEF StreamTypes
<1>0. \A j \in 0..n : LogAt(j) \in Logs /\ LogAt(j) <= LogAt(n)
  <2>1. \A j \in 0..n : LogAt(j) \in Logs
    BY <1>n, LogTypes DEF StreamTypes
  <2>2. \A j \in 0..n : LogAt(j) <= LogAt(n)
    <3> TAKE j \in 0..n
    <3>1. CASE j = n
      BY <2>1, <3>1, Bounds
    <3>2. CASE j < n
      BY <1>n, <2>1, <3>2 DEF LogsFollow, LogAt
    <3> QED BY <2>1, <3>1, <3>2
  <2> QED BY <2>1, <2>2
<1>1. ASSUME NEW e \in Event, Stored(e), LogAt(n) <= e.log, e.log = relay'.log,
             e.type = "scan-recorded" => e.id \in Ids /\ e.log = LogAt(n),
             e.type = "scan-log-reset" => LogAt(n) < e.log,
             relay' \in [log : Logs, newest : 0..MaxScans, noise : 0..MaxNoise]
      PROVE  StreamTypes' /\ LogsFollow'
  <2>1. /\ stream' \in Seq(Event) /\ Len(stream') = n + 1 /\ stream'[n + 1] = e
        /\ \A k \in 1..n : stream'[k] = stream[k]
        /\ \A k \in 0..n : LogAt(k)' = LogAt(k)
        /\ LogAt(n + 1)' = e.log
    BY <1>n, <1>1, Joins DEF StreamTypes
  <2>2. ASSUME NEW k \in 1..(n + 1), NEW j \in 0..(k - 1) PROVE LogAt(j)' <= stream'[k].log
    <3>1. CASE k \in 1..n
      BY <1>n, <1>0, <2>1, <2>2, <3>1 DEF LogsFollow
    <3>2. CASE k = n + 1
      <4>1. j \in 0..n /\ LogAt(j)' = LogAt(j) /\ LogAt(j) <= LogAt(n)
        BY <1>n, <1>0, <2>1, <2>2, <3>2
      <4>2. LogAt(j) \in Nat /\ LogAt(n) \in Nat /\ e.log \in Nat
        BY <1>0, <1>1, <4>1, Bounds DEF Event
      <4> QED BY <1>1, <2>1, <3>2, <4>1, <4>2
    <3> QED BY <1>n, <1>0, <3>1, <3>2
  <2>3. ASSUME NEW k \in 1..(n + 1)
        PROVE  /\ stream'[k].type = "scan-recorded" =>
                    stream'[k].id \in Ids /\ stream'[k].log = LogAt(k - 1)'
               /\ stream'[k].type = "scan-log-reset" => LogAt(k - 1)' < stream'[k].log
    <3>1. CASE k \in 1..n
      BY <1>n, <1>0, <2>1, <3>1 DEF LogsFollow
    <3>2. CASE k = n + 1
      BY <1>n, <1>0, <1>1, <2>1, <3>2
    <3> QED BY <1>n, <1>0, <3>1, <3>2
  <2>4. LogAt(Len(stream))' = relay'.log
    <3>1. LogAt(Len(stream))' = LogAt(n + 1)'
      BY <2>1 DEF LogAt
    <3> QED BY <1>n, <1>1, <2>1, <3>1
  <2> QED BY <1>n, <1>1, <2>1, <2>2, <2>3, <2>4 DEF StreamTypes, LogsFollow
<1>2. ASSUME NEW i \in Ids, ScanArrives(i) PROVE StreamTypes' /\ LogsFollow'
  <2>1. Recorded(i, relay.log) \in Event
    BY Constants DEF Recorded, Event, Ids, StreamTypes
  <2>2. relay' \in [log : Logs, newest : 0..MaxScans, noise : 0..MaxNoise] /\ relay'.log = relay.log
    <3> DEFINE skips == IF i > relay.newest THEN i - relay.newest - 1 ELSE 1
    <3>1. /\ relay.noise + skips <= MaxNoise
          /\ relay' = [relay EXCEPT !.newest = Above(@, i), !.noise = @ + skips]
      BY <1>2 DEF ScanArrives
    <3>2. Above(relay.newest, i) \in 0..MaxScans /\ relay.noise + skips \in 0..MaxNoise
      <4>1. i \in 1..MaxScans /\ relay.newest \in 0..MaxScans /\ relay.noise \in Nat /\ MaxNoise \in Nat
        BY <1>2, Bounds DEF StreamTypes
      <4>2. skips \in Nat
        BY <4>1
      <4> HIDE DEF skips
      <4>3. relay.noise + skips \in 0..MaxNoise
        BY <3>1, <4>1, <4>2
      <4>4. Above(relay.newest, i) \in 0..MaxScans
        BY <4>1 DEF Above
      <4> QED BY <4>3, <4>4
    <3> HIDE DEF skips
    <3> QED BY <3>1, <3>2 DEF StreamTypes
  <2>3. Stored(Recorded(i, relay.log)) /\ LogAt(n) = relay.log /\ relay.log \in Nat
    BY <1>n, <1>2, Constants DEF ScanArrives, Arrives, LogsFollow, StreamTypes
  <2> QED BY <1>1, <2>1, <2>2, <2>3 DEF Recorded
<1>3. ASSUME LogReplaced PROVE StreamTypes' /\ LogsFollow'
  <2>1. relay.log + 1 \in Logs
    BY <1>3, Bounds DEF LogReplaced, StreamTypes
  <2>2. LogReset(relay.log + 1) \in Event
    BY <2>1, Constants DEF LogReset, Event
  <2>3. /\ relay' \in [log : Logs, newest : 0..MaxScans, noise : 0..MaxNoise]
        /\ relay'.log = relay.log + 1
    <3>1. relay' = [relay EXCEPT !.log = @ + 1, !.newest = 0] /\ 0 \in 0..MaxScans
      BY <1>3, Bounds DEF LogReplaced
    <3> QED BY <2>1, <3>1 DEF StreamTypes
  <2>4. Stored(LogReset(relay.log + 1)) /\ LogAt(n) = relay.log /\ relay.log \in Nat
    BY <1>n, <1>3, Constants DEF LogReplaced, Arrives, LogsFollow, StreamTypes
  <2> QED BY <1>1, <2>2, <2>3, <2>4 DEF LogReset
<1>4. ASSUME UNCHANGED <<stream, relay>> PROVE StreamTypes' /\ LogsFollow'
  BY <1>4 DEF StreamTypes, LogsFollow, LogAt
<1> QED BY <1>2, <1>3, <1>4, WhoWrites

-----------------------------------------------------------------------------
(* Types *)

\* The log of the events that the source has applied.
SourceLog == LogAt(source.pos)

PipelineRuns == sup \in {"running", "stopping", "drained"}

SourceTypes ==
  /\ source \in [pos : 0..Len(stream), rows : Seq(Row), max : 0..MaxScans,
                 caughtUp : BOOLEAN, log : 0..MaxLogs]
  /\ Len(source.rows) <= Keep

QueueEntry == [id : Ids, scans : SUBSET Row, then : {"nothing", "mark"}] \cup {End}

TailTypes ==
  /\ tail \in [last : 0..MaxScans, first : Nat, next : Nat, pending : SUBSET Row,
               hole : BOOLEAN, upto : 0..MaxScans, log : 0..MaxLogs, of : 0..MaxLogs]
  /\ q1 \in Seq(QueueEntry)

FilterTypes ==
  /\ slot \in [item : {None} \cup Ranked, closed : BOOLEAN]
  /\ buffer \in SUBSET Row
  /\ boundary \in 0..MaxScans /\ written \in 0..MaxScans
  /\ counts \in [Skus -> Nat]

ReadTypes ==
  /\ window \in SUBSET Row /\ Cardinality(window) <= Window + Slide
  /\ latest \in {None} \cup [end : 1..MaxScans, counts : [Skus -> Nat], of : Logs]
  /\ cursor \in 0..MaxScans

RunTypes ==
  /\ sup \in {"start", "running", "backoff", "stopping", "drained"}
  /\ faults \in 0..MaxFaults

\* The rows in a place are of one log, and a tail goes on with a source of its log.
LogsAgree ==
  /\ source.log \in {0, SourceLog}
  /\ \A m \in 1..Len(source.rows) : source.rows[m].log = SourceLog
  /\ PipelineRuns =>
       /\ tail.of \in Logs /\ tail.of <= SourceLog /\ tail.log \in {0, tail.of}
       /\ source.log = tail.log <=> SourceLog = tail.of
  /\ sup = "running" => \A r \in tail.pending \cup window : r.log = tail.of

\* A pipeline begins with nothing on its way.
NothingRuns ==
  ~ PipelineRuns =>
    /\ q1 = <<>> /\ slot = [item |-> None, closed |-> FALSE]
    /\ buffer = {} /\ counts = Tally({}) /\ written = 0

TypeInv ==
  /\ StreamTypes /\ LogsFollow
  /\ SourceTypes /\ TailTypes /\ FilterTypes /\ ReadTypes /\ RunTypes
  /\ LogsAgree /\ NothingRuns

LEMMA WiderSeq ==
  ASSUME NEW S, NEW T, S \subseteq T, NEW s \in Seq(S)
  PROVE  s \in Seq(T)
OBVIOUS

LEMMA TypesSuffice == TypeInv => WindowsTypeOK
<1> SUFFICES ASSUME TypeInv PROVE WindowsTypeOK
  OBVIOUS
<1>1. QueueEntry \subseteq [id : 0..MaxScans, scans : SUBSET Row, then : {"nothing", "mark", "end"}]
  BY Bounds DEF QueueEntry, End
<1>2. q1 \in Seq([id : 0..MaxScans, scans : SUBSET Row, then : {"nothing", "mark", "end"}])
  BY <1>1, WiderSeq DEF TypeInv, TailTypes
<1>3. latest # None => latest.counts \in [Skus -> Nat] /\ latest.of \in Logs
  BY DEF TypeInv, ReadTypes
<1>4. relay \in [log : Logs, newest : 0..MaxScans, noise : 0..MaxNoise] /\ faults \in 0..MaxFaults
      /\ sup \in {"start", "running", "backoff", "stopping", "drained"}
  BY DEF TypeInv, StreamTypes, RunTypes
<1>5. source \in [pos : 0..Len(stream), rows : Seq(Row), max : 0..MaxScans,
                  caughtUp : BOOLEAN, log : 0..MaxLogs] /\ Len(source.rows) <= Keep
  BY DEF TypeInv, SourceTypes
<1>6. tail \in [last : 0..MaxScans, first : Nat, next : Nat, pending : SUBSET Row,
               hole : BOOLEAN, upto : 0..MaxScans, log : 0..MaxLogs, of : 0..MaxLogs]
  BY DEF TypeInv, TailTypes
<1>7. /\ counts \in [Skus -> Nat] /\ {boundary, written, cursor} \subseteq 0..MaxScans
      /\ {buffer, window} \subseteq SUBSET Row /\ Cardinality(window) <= Window + Slide
  BY DEF TypeInv, FilterTypes, ReadTypes
<1> QED BY <1>2, <1>3, <1>4, <1>5, <1>6, <1>7 DEF WindowsTypeOK, Row

\* The event that the source applies next, and what that does to it.
NextEvent == stream[source.pos + 1]

LEMMA Applies ==
  ASSUME StreamTypes, LogsFollow, SourceTypes, SourceApplies
  PROVE  /\ source.pos + 1 \in 1..Len(stream) /\ NextEvent \in Event
         /\ source'.pos = source.pos + 1 /\ source'.caughtUp = source.caughtUp
         /\ \/ /\ NextEvent.type = "scan-log-reset"
               /\ source'.rows = <<>> /\ source'.max = 0 /\ source'.log = NextEvent.log
            \/ /\ NextEvent.type = "scan-recorded" /\ ~ Known(NextEvent.id) /\ NextEvent.id \in Ids
               /\ source'.rows = Inserted([id |-> NextEvent.id, log |-> NextEvent.log])
               /\ source'.max = Above(source.max, NextEvent.id) /\ source'.log = source.log
            \/ /\ NextEvent.type = "scan-recorded" /\ Known(NextEvent.id) /\ NextEvent.id \in Ids
               /\ source'.rows = source.rows
               /\ source'.max = source.max /\ source'.log = source.log
         /\ SourceTypes'
<1> DEFINE e == NextEvent
           next == [source EXCEPT !.pos = @ + 1]
<1>1. source.pos + 1 \in 1..Len(stream) /\ e \in Event
  BY DEF SourceApplies, StreamTypes, SourceTypes, NextEvent
<1>2. source' =
          CASE e.type = "scan-log-reset" ->
                 [next EXCEPT !.rows = <<>>, !.max = 0, !.log = e.log]
            [] e.type = "scan-recorded" /\ ~ Known(e.id) ->
                 [next EXCEPT !.rows = Inserted([id |-> e.id, log |-> e.log]),
                              !.max = Above(@, e.id)]
            [] OTHER -> next
  BY DEF SourceApplies, NextEvent
<1>3. e.type = "scan-recorded" => e.id \in Ids
  BY <1>1 DEF LogsFollow, NextEvent
<1>4. e.log \in Logs /\ Logs \subseteq 0..MaxLogs
  BY <1>1, Bounds DEF Event
<1>5. next \in [pos : 0..Len(stream), rows : Seq(Row), max : 0..MaxScans,
                 caughtUp : BOOLEAN, log : 0..MaxLogs]
      /\ next.pos = source.pos + 1 /\ next.rows = source.rows /\ next.max = source.max
      /\ next.caughtUp = source.caughtUp /\ next.log = source.log
  BY <1>1 DEF SourceTypes
<1>6. stream' = stream /\ 0 \in 0..MaxScans /\ Keep \in Nat \ {0}
  BY Constants DEF SourceApplies
<1> HIDE DEF next, e
<1>7. CASE e.type = "scan-log-reset"
  <2>1. source' = [next EXCEPT !.rows = <<>>, !.max = 0, !.log = e.log]
    BY <1>2, <1>7
  <2>2. <<>> \in Seq(Row) /\ Len(<<>>) = 0
    OBVIOUS
  <2>3. source' \in [pos : 0..Len(stream), rows : Seq(Row), max : 0..MaxScans,
                     caughtUp : BOOLEAN, log : 0..MaxLogs]
        /\ source'.rows = <<>> /\ source'.max = 0 /\ source'.log = e.log
        /\ source'.pos = next.pos /\ source'.caughtUp = next.caughtUp
    BY <1>4, <1>5, <1>6, <2>1, <2>2
  <2>4. Len(source'.rows) <= Keep
    BY <1>6, <2>2, <2>3
  <2> QED BY <1>1, <1>5, <1>6, <1>7, <2>3, <2>4 DEF SourceTypes, e
<1>8. CASE e.type = "scan-recorded" /\ ~ Known(e.id)
  <2> DEFINE row == [id |-> e.id, log |-> e.log]
  <2>1. source' = [next EXCEPT !.rows = Inserted(row), !.max = Above(@, e.id)]
    BY <1>2, <1>8
  <2>2. row \in Row
    BY <1>3, <1>4, <1>8 DEF Row
  <2>3. Inserted(row) \in Seq(Row) /\ Len(Inserted(row)) <= Keep
    <3>1. source.rows \in Seq(Row) /\ Len(source.rows) \in Nat /\ Len(source.rows) <= Keep
      BY DEF SourceTypes
    <3>r. PICK r \in Row : r = row
      BY <2>2
    <3>2. PICK s \in Seq(Row), n \in Nat :
            s = Append(source.rows, r) /\ n = Len(s) /\ n = Len(source.rows) + 1
      <4>1. PICK rows \in Seq(Row) : rows = source.rows
        BY <3>1
      <4>2. Append(rows, r) \in Seq(Row) /\ Len(Append(rows, r)) = Len(rows) + 1
        OBVIOUS
      <4>3. Len(rows) + 1 \in Nat
        BY <3>1, <4>1
      <4> QED BY <4>1, <4>2, <4>3
    <3>3. n > 0 /\ n - 1 <= Keep
      BY <1>6, <3>1, <3>2
    <3>4. Tail(s) \in Seq(Row) /\ Len(Tail(s)) = n - 1
      BY <3>2, <3>3
    <3>5. Inserted(row) = IF n > Keep THEN Tail(s) ELSE s
      BY <3>r, <3>2 DEF Inserted
    <3>6. CASE n > Keep
      BY <3>3, <3>4, <3>5, <3>6
    <3>7. CASE ~ (n > Keep)
      <4>1. Inserted(row) = s /\ n <= Keep
        BY <1>6, <3>5, <3>7
      <4> QED BY <3>2, <4>1
    <3> QED BY <3>6, <3>7
  <2>4. Above(source.max, e.id) \in 0..MaxScans
    BY <1>3, <1>8, Bounds DEF Above, SourceTypes
  <2> QED BY <1>1, <1>3, <1>5, <1>6, <1>8, <2>1, <2>3, <2>4 DEF SourceTypes, e
<1>9. CASE e.type = "scan-recorded" /\ Known(e.id)
  <2>1. source' = next
    BY <1>2, <1>9
  <2> QED BY <1>1, <1>3, <1>5, <1>6, <1>9, <2>1 DEF SourceTypes, e
<1>10. e.type \in {"scan-log-reset", "scan-recorded"}
  BY <1>1 DEF Event
<1> QED BY <1>7, <1>8, <1>9, <1>10 DEF e

LEMMA RunTypesStep ==
  ASSUME TypeInv, WindowsNext
  PROVE  RunTypes'
<1>1. MaxFaults \in Nat /\ faults \in 0..MaxFaults
  BY Constants DEF TypeInv, RunTypes
<1>2. faults' \in 0..MaxFaults
  <2>1. faults' = faults \/ (faults < MaxFaults /\ faults' = faults + 1)
    BY DEF WindowsNext, Works, ScanArrives, LogReplaced, Arrives, SourceApplies, SourceCatchesUp,
        Bootstrap, StartsOver, BackoffEnds, Drain, TailPass, TailSkips, Passes, Filters,
        OutputFilter, PipelineFails, Stop, ProcessStarts
  <2> QED BY <1>1, <2>1
<1>3. sup' \in {"start", "running", "backoff", "stopping", "drained"}
  BY DEF WindowsNext, Works, ScanArrives, LogReplaced, Arrives, SourceApplies, SourceCatchesUp,
      Bootstrap, StartsOver, BackoffEnds, Drain, TailPass, TailSkips, Passes, Filters,
      OutputFilter, PipelineFails, Stop, ProcessStarts, TypeInv, RunTypes
<1> QED BY <1>2, <1>3 DEF RunTypes

LEMMA NextFollows ==
  ASSUME TypeInv, source.pos + 1 \in 1..Len(stream)
  PROVE  /\ SourceLog \in Nat /\ NextEvent.log \in Nat \ {0}
         /\ NextEvent.type = "scan-log-reset" => SourceLog < NextEvent.log
         /\ NextEvent.type = "scan-recorded" => NextEvent.id \in Ids /\ NextEvent.log = SourceLog
<1>1. PICK k \in 1..Len(stream) : k = source.pos + 1
  OBVIOUS
<1>2. k - 1 = source.pos /\ stream[k] = NextEvent /\ NextEvent \in Event
  BY <1>1 DEF NextEvent, TypeInv, SourceTypes, StreamTypes
<1>3. LogAt(k - 1) = SourceLog
  BY <1>2 DEF SourceLog
<1>4. SourceLog \in Logs
  BY LogTypes DEF TypeInv, SourceTypes, StreamTypes, SourceLog
<1>5. SourceLog \in Nat /\ NextEvent.log \in Nat \ {0}
  BY <1>2, <1>4, Bounds DEF Event
<1> QED BY <1>1, <1>2, <1>3, <1>5 DEF TypeInv, LogsFollow

\* Apart from a source of its own, a step may let the topic grow.
LEMMA SourceTypesStep ==
  ASSUME TypeInv, WindowsNext
  PROVE  SourceTypes'
<1>1. StreamTypes /\ LogsFollow /\ SourceTypes
  BY DEF TypeInv
<1>2. ASSUME NEW e \in Event, Stored(e), UNCHANGED source PROVE SourceTypes'
  <2>1. PICK n \in Nat : n = Len(stream)
    BY <1>1 DEF StreamTypes
  <2>2. Len(stream') = n + 1
    BY <1>1, <1>2, <2>1 DEF Stored, StreamTypes
  <2>3. 0..n \subseteq 0..(n + 1)
    BY <2>1
  <2> QED BY <1>1, <1>2, <2>1, <2>2, <2>3 DEF SourceTypes
<1>3. ASSUME NEW i \in Ids, ScanArrives(i) PROVE SourceTypes'
  <2>1. Recorded(i, relay.log) \in Event
    BY <1>1, Bounds DEF Recorded, Event, StreamTypes
  <2> QED BY <1>2, <1>3, <2>1 DEF ScanArrives, Arrives
<1>4. CASE LogReplaced
  <2>1. LogReset(relay.log + 1) \in Event
    BY <1>1, <1>4, Bounds DEF LogReplaced, LogReset, Event, StreamTypes
  <2> QED BY <1>2, <1>4, <2>1 DEF LogReplaced, Arrives
<1>5. CASE SourceApplies
  BY <1>1, <1>5, Applies
<1>6. CASE SourceCatchesUp
  BY <1>1, <1>6 DEF SourceCatchesUp, SourceTypes
<1>7. CASE ProcessStarts
  <2>1. source' = FreshSource /\ stream' = stream
    BY <1>7 DEF ProcessStarts
  <2>2. Above(0, Len(stream) - Replay) \in 0..Len(stream)
    BY <1>1, Constants DEF Above, StreamTypes
  <2>3. 0 \in 0..MaxScans /\ 0 \in 0..MaxLogs /\ <<>> \in Seq(Row) /\ Len(<<>>) <= Keep
    BY Constants
  <2> QED BY <2>1, <2>2, <2>3 DEF FreshSource, SourceTypes
<1>8. CASE UNCHANGED <<stream, source>>
  BY <1>1, <1>8 DEF SourceTypes
<1>9. \/ \E i \in Ids : ScanArrives(i)
      \/ LogReplaced \/ SourceApplies \/ SourceCatchesUp \/ ProcessStarts
      \/ UNCHANGED <<stream, source>>
  BY DEF WindowsNext, Works, Bootstrap, StartsOver, BackoffEnds, Drain, TailPass, TailSkips, Passes,
      Filters, OutputFilter, PipelineFails, Stop
<1> QED BY <1>3, <1>4, <1>5, <1>6, <1>7, <1>8, <1>9

\* The start of a pipeline: the last boundary that the source has reached, and the
\* window before it.
LastBoundary == source.max - (source.max % Slide)
StartAfter == Above(0, LastBoundary - Window)

LEMMA Bootstraps ==
  ASSUME StreamTypes, SourceTypes, Bootstrap
  PROVE  /\ LastBoundary \in 0..source.max /\ LastBoundary % Slide = 0
         /\ source.max < LastBoundary + Slide
         /\ StartAfter \in 0..LastBoundary /\ StartAfter \in 0..MaxScans
         /\ tail' = [last |-> StartAfter, first |-> FirstBoundary(LastBoundary, StartAfter),
                     next |-> FirstBoundary(LastBoundary, StartAfter), pending |-> {},
                     hole |-> FALSE, upto |-> 0, log |-> source.log, of |-> SourceLog]
         /\ FirstBoundary(LastBoundary, StartAfter) \in Nat
         /\ SourceLog \in Logs
         /\ boundary' = StartAfter /\ cursor' = StartAfter
<1>1. source.max \in 0..MaxScans /\ MaxScans \in Nat /\ Slide \in Nat \ {0} /\ Window \in Nat \ {0}
  BY Constants DEF SourceTypes
<1>2. LastBoundary \in 0..source.max /\ LastBoundary % Slide = 0 /\ source.max < LastBoundary + Slide
  BY <1>1, MultipleBelow DEF LastBoundary
<1>3. StartAfter \in 0..LastBoundary /\ StartAfter \in 0..MaxScans
  BY <1>1, <1>2 DEF StartAfter, Above
<1>4. FirstBoundary(LastBoundary, StartAfter) \in Nat
  BY <1>1, <1>2 DEF FirstBoundary
<1>5. SourceLog \in Logs
  BY LogTypes DEF SourceLog, StreamTypes, SourceTypes
<1>6. tail' = [NoTail EXCEPT !.last = StartAfter, !.first = FirstBoundary(LastBoundary, StartAfter),
                            !.next = FirstBoundary(LastBoundary, StartAfter),
                            !.log = source.log, !.of = SourceLog]
      /\ boundary' = StartAfter /\ cursor' = StartAfter
  BY DEF Bootstrap, StartAfter, LastBoundary, SourceLog
<1>7. tail' = [last |-> StartAfter, first |-> FirstBoundary(LastBoundary, StartAfter),
               next |-> FirstBoundary(LastBoundary, StartAfter), pending |-> {},
               hole |-> FALSE, upto |-> 0, log |-> source.log, of |-> SourceLog]
  BY <1>6 DEF NoTail
<1> QED BY <1>2, <1>3, <1>4, <1>5, <1>6, <1>7

LEMMA ReadsAre ==
  ASSUME TypeInv, MayPass
  PROVE  /\ Reads \in SUBSET Row /\ tail.pending \subseteq Reads
         /\ SourceLog = tail.of
         /\ \A r \in Reads : r.id \in Ids /\ r.log = tail.of
<1>1. sup = "running" /\ source.log = tail.log
  BY DEF MayPass, CursorAhead
<1>2. SourceLog = tail.of
  BY <1>1 DEF TypeInv, LogsAgree, PipelineRuns
<1>3. source.rows \in Seq(Row) /\ tail.pending \in SUBSET Row
  BY DEF TypeInv, SourceTypes, TailTypes
<1>4. \A r \in ToSet(source.rows) : r \in Row /\ r.log = tail.of
  BY <1>2, <1>3 DEF ToSet, TypeInv, LogsAgree
<1>5. \A r \in tail.pending : r \in Row /\ r.log = tail.of
  BY <1>1, <1>3 DEF TypeInv, LogsAgree
<1>6. \A r \in Reads : r \in tail.pending \/ r \in ToSet(source.rows)
  BY DEF Reads
<1>7. tail.pending \subseteq Reads
  BY DEF Reads
<1> QED BY <1>2, <1>4, <1>5, <1>6, <1>7 DEF Row

\* A pass with a skip or without one.
LEMMA PassIs ==
  ASSUME TypeInv, TailPass \/ TailSkips
  PROVE  \E b \in tail.last..MaxScans, hole \in BOOLEAN, upto \in 0..MaxScans :
           Passes(Reads, b, Drained(b, Reads), hole, upto)
<1>1. MayPass
  BY DEF TailPass, TailSkips
<1>2. tail.last \in 0..MaxScans /\ tail.upto \in 0..MaxScans /\ MaxScans \in Nat
  BY Bounds DEF TypeInv, TailTypes
<1>3. \A r \in Reads : r.id \in Ids
  BY <1>1, ReadsAre
<1>4. CASE TailPass
  <2> DEFINE a == Drained(tail.last, Reads)
             left == {r.id : r \in Reads} \ (1..a)
             waits == tail.hole /\ a = tail.last
             upto == IF left = {} THEN 0 ELSE IF waits THEN tail.upto ELSE Least(left) - 1
  <2>1. Passes(Reads, tail.last, a, left # {}, upto)
    BY <1>4 DEF TailPass
  <2>2. left \subseteq 1..MaxScans
    BY <1>3, Bounds
  <2> HIDE DEF left
  <2>3. left # {} => Least(left) \in 1..MaxScans
    <3>1. left \in SUBSET Nat
      BY <1>2, <2>2
    <3> QED BY <2>2, <3>1, LeastNumber
  <2> HIDE DEF a
  <2>4. upto \in 0..MaxScans
    <3>1. CASE left = {}
      BY <1>2, <3>1
    <3>2. CASE left # {} /\ waits
      BY <1>2, <3>2
    <3>3. CASE left # {} /\ ~ waits
      BY <1>2, <2>3, <3>3
    <3> QED BY <3>1, <3>2, <3>3
  <2> HIDE DEF upto
  <2>5. PICK hole \in BOOLEAN : hole = (left # {})
    OBVIOUS
  <2>6. Passes(Reads, tail.last, a, hole, upto)
    BY <2>1, <2>5
  <2>7. tail.last \in tail.last..MaxScans
    BY <1>2
  <2> QED BY <2>4, <2>6, <2>7 DEF a
<1>5. CASE TailSkips
  <2>1. Passes(Reads, Above(tail.last, tail.upto),
               Drained(Above(tail.last, tail.upto), Reads), FALSE, 0)
    BY <1>5 DEF TailSkips
  <2>2. Above(tail.last, tail.upto) \in tail.last..MaxScans /\ 0 \in 0..MaxScans
    BY <1>2 DEF Above
  <2> QED BY <2>1, <2>2
<1> QED BY <1>4, <1>5

\* What a pass does.
LEMMA PassDoes ==
  ASSUME TypeInv, MayPass, NEW b \in tail.last..MaxScans, NEW hole \in BOOLEAN,
         NEW upto \in 0..MaxScans, Passes(Reads, b, Drained(b, Reads), hole, upto)
  PROVE  /\ Drained(b, Reads) \in b..MaxScans
         /\ tail' = [last |-> Drained(b, Reads), first |-> tail.first,
                     next |-> NextBoundary(Drained(b, Reads)),
                     pending |-> Reads \ {r \in Reads : r.id > b /\ r.id <= Drained(b, Reads)},
                     hole |-> hole, upto |-> upto, log |-> tail.log, of |-> tail.of]
         /\ TailTypes'
         /\ cursor' \in 0..MaxScans /\ window' \in SUBSET Row
         /\ Cardinality(window') <= Window + Slide
         /\ \A r \in window' : r.log = tail.of
<1> DEFINE c == Drained(b, Reads)
           accepted == {r \in Reads : r.id > b /\ r.id <= c}
<1>1. /\ tail.last \in 0..MaxScans /\ tail.next \in Nat /\ MaxScans \in Nat /\ Slide \in Nat \ {0}
      /\ Window \in Nat \ {0}
  BY Constants DEF TypeInv, TailTypes
<1>2. /\ Reads \in SUBSET Row /\ \A r \in Reads : r.id \in Ids /\ r.log = tail.of
  BY ReadsAre
<1>3. c \in b..MaxScans
  BY <1>1, <1>2, DrainedEnds
<1> HIDE DEF c
<1>4. NextBoundary(c) \in Nat
  <2>1. CASE c < tail.next
    BY <1>1, <2>1 DEF NextBoundary
  <2>2. CASE tail.next <= c
    <3>1. c - tail.next \in Nat /\ ~ c < tail.next
      BY <1>1, <1>3, <2>2
    <3>2. (c - tail.next) \div Slide \in Nat
      BY <1>1, <3>1, Division
    <3> QED BY <1>1, <3>1, <3>2 DEF NextBoundary
  <2> QED BY <1>1, <1>3, <2>1, <2>2
<1>5. /\ tail' = [tail EXCEPT !.last = c, !.next = NextBoundary(c), !.pending = Reads \ accepted,
                              !.hole = hole, !.upto = upto]
      /\ q1' = q1 \o Advance(tail.last, c, accepted)
      /\ window' = Newest(Window + Slide, window \cup accepted)
      /\ cursor' = c
  BY DEF Passes, c
<1>6. tail' = [last |-> c, first |-> tail.first, next |-> NextBoundary(c),
               pending |-> Reads \ accepted,
               hole |-> hole, upto |-> upto, log |-> tail.log, of |-> tail.of]
  BY <1>5 DEF TypeInv, TailTypes
<1>7. Advance(tail.last, c, accepted) \in Seq(QueueEntry)
  <2>1. c - tail.last \in Nat
    BY <1>1, <1>3
  <2>2. \A k \in 1..(c - tail.last) : tail.last + k \in Ids
    BY <1>1, <1>3, Bounds
  <2>3. \A k \in 1..(c - tail.last) :
          [id |-> tail.last + k, scans |-> {r \in accepted : r.id = tail.last + k},
           then |-> IF IsBoundary(tail.last + k) THEN "mark" ELSE "nothing"] \in QueueEntry
    BY <1>2, <2>2 DEF QueueEntry
  <2> HIDE DEF accepted
  <2> QED BY <2>1, <2>3 DEF Advance
<1>8. q1' \in Seq(QueueEntry)
  BY <1>5, <1>7 DEF TypeInv, TailTypes
<1>9. TailTypes'
  <2>1. Reads \ accepted \in SUBSET Row /\ c \in 0..MaxScans
    BY <1>1, <1>2, <1>3
  <2> HIDE DEF accepted
  <2> QED BY <1>4, <1>6, <1>8, <2>1 DEF TypeInv, TailTypes
<1>10. cursor' \in 0..MaxScans
  BY <1>1, <1>3, <1>5
<1>11. window' \subseteq window \cup accepted /\ Cardinality(window') <= Window + Slide
  <2>1. window \cup accepted \in SUBSET Row
    BY <1>2 DEF TypeInv, ReadTypes
  <2>2. \A r \in window \cup accepted : r.log = tail.of
    BY <1>2 DEF TypeInv, LogsAgree, MayPass
  <2>3. Window + Slide \in Nat
    BY <1>1
  <2> HIDE DEF accepted
  <2> QED BY <1>5, <2>1, <2>2, <2>3, NewestFit
<1>12. window' \in SUBSET Row /\ \A r \in window' : r.log = tail.of
  BY <1>2, <1>11 DEF TypeInv, ReadTypes, LogsAgree, MayPass
<1> QED BY <1>3, <1>6, <1>9, <1>10, <1>11, <1>12 DEF c

\* What the filters do with a watermark that the tail has sent.
LEMMA MarkIs ==
  ASSUME TypeInv, \E k \in 1..Len(q1) : q1[k].then # "nothing"
  PROVE  /\ NextMark \in 1..Len(q1)
         /\ \A k \in 1..(NextMark - 1) : q1[k].then = "nothing"
         /\ q1[NextMark].then # "nothing"
         /\ \A k \in 1..NextMark : q1[k] \in QueueEntry
         /\ q1[NextMark].then = "end" <=> q1[NextMark] = End
         /\ Scans(NextMark) \in SUBSET Row
<1> DEFINE marks == {k \in 1..Len(q1) : q1[k].then # "nothing"}
<1>1. marks # {} /\ marks \subseteq 1..Len(q1) /\ Len(q1) \in Nat /\ q1 \in Seq(QueueEntry)
  BY DEF TypeInv, TailTypes
<1>2. marks \in SUBSET Nat
  BY <1>1
<1> HIDE DEF marks
<1>3. NextMark \in marks /\ \A k \in marks : NextMark <= k
  BY <1>1, <1>2, LeastNumber DEF NextMark, marks
<1>4. NextMark \in 1..Len(q1) /\ q1[NextMark].then # "nothing"
  BY <1>3 DEF marks
<1>5. \A k \in 1..(NextMark - 1) : q1[k].then = "nothing"
  BY <1>1, <1>3, <1>4 DEF marks
<1>6. \A k \in 1..NextMark : q1[k] \in QueueEntry
  BY <1>1, <1>4
<1>7. \A x \in QueueEntry : (x.then = "end" <=> x = End) /\ x.scans \in SUBSET Row
  BY DEF QueueEntry, End
<1>8. Scans(NextMark) \in SUBSET Row
  BY <1>6, <1>7 DEF Scans
<1> QED BY <1>4, <1>5, <1>6, <1>7, <1>8

LEMMA TailTypesStep ==
  ASSUME TypeInv, WindowsNext
  PROVE  TailTypes'
<1>0. MaxScans \in Nat /\ Slide \in Nat /\ 0 \in 0..MaxLogs
  BY Constants
<1>1. CASE NoPipeline
  <2>1. tail' \in [last : 0..MaxScans, first : Nat, next : Nat, pending : SUBSET Row,
                   hole : BOOLEAN, upto : 0..MaxScans, log : 0..MaxLogs, of : 0..MaxLogs]
    BY <1>0, <1>1 DEF NoPipeline, NoTail
  <2>2. q1' \in Seq(QueueEntry)
    BY <1>1 DEF NoPipeline
  <2> QED BY <2>1, <2>2 DEF TailTypes
<1>2. CASE Bootstrap
  <2> DEFINE first == FirstBoundary(LastBoundary, StartAfter)
  <2>1. /\ StartAfter \in 0..MaxScans /\ first \in Nat /\ SourceLog \in Logs
        /\ tail' = [last |-> StartAfter, first |-> first, next |-> first, pending |-> {},
                    hole |-> FALSE, upto |-> 0, log |-> source.log, of |-> SourceLog]
    BY <1>2, Bootstraps DEF TypeInv
  <2>2. source.log \in 0..MaxLogs /\ SourceLog \in 0..MaxLogs
    BY <2>1, Bounds DEF TypeInv, SourceTypes
  <2>3. q1' = q1
    BY <1>2 DEF Bootstrap
  <2> HIDE DEF first
  <2> QED BY <1>0, <2>1, <2>2, <2>3 DEF TypeInv, TailTypes
<1>3. CASE Stop
  <2>1. tail' = tail /\ q1' = Append(q1, End)
    BY <1>3 DEF Stop
  <2>2. End \in QueueEntry
    BY DEF QueueEntry
  <2> QED BY <2>1, <2>2 DEF TypeInv, TailTypes
<1>4. CASE TailPass \/ TailSkips
  <2>1. MayPass
    BY <1>4 DEF TailPass, TailSkips
  <2> QED BY <1>4, <2>1, PassIs, PassDoes
<1>5. CASE Filters
  <2>1. tail' = tail /\ q1' = SubSeq(q1, NextMark + 1, Len(q1))
    BY <1>5 DEF Filters
  <2>2. NextMark \in 1..Len(q1)
    BY <1>5, MarkIs DEF Filters
  <2> QED BY <2>1, <2>2 DEF TypeInv, TailTypes
<1>6. CASE UNCHANGED <<tail, q1>>
  BY <1>6 DEF TypeInv, TailTypes
<1>7. NoPipeline \/ Bootstrap \/ Stop \/ TailPass \/ TailSkips \/ Filters \/ UNCHANGED <<tail, q1>>
  BY DEF WindowsNext, Works, ScanArrives, LogReplaced, Arrives, SourceApplies, SourceCatchesUp,
      StartsOver, BackoffEnds, Drain, OutputFilter, PipelineFails, ProcessStarts, pipeVars
<1> QED BY <1>1, <1>2, <1>3, <1>4, <1>5, <1>6, <1>7

LEMMA FilterTypesStep ==
  ASSUME TypeInv, WindowsNext
  PROVE  FilterTypes'
<1>1. CASE NoPipeline
  <2>1. Tally({}) \in [Skus -> Nat] /\ 0 \in 0..MaxScans
    BY TallyType, Constants
  <2> QED BY <1>1, <2>1 DEF NoPipeline, FilterTypes
<1>2. CASE Bootstrap
  <2>1. boundary' \in 0..MaxScans
    BY <1>2, Bootstraps DEF TypeInv
  <2>2. UNCHANGED <<slot, buffer, counts, written>>
    BY <1>2 DEF Bootstrap
  <2> QED BY <2>1, <2>2 DEF TypeInv, FilterTypes
<1>3. CASE Filters
  <2> DEFINE item == q1[NextMark]
             buf == buffer \cup Scans(NextMark)
  <2>1. item \in QueueEntry /\ item.then # "nothing" /\ Scans(NextMark) \in SUBSET Row
    BY <1>3, MarkIs DEF Filters
  <2>2. buf \in SUBSET Row
    BY <2>1 DEF TypeInv, FilterTypes
  <2>3. CASE item.then = "end"
    <3>1. /\ slot' = [slot EXCEPT !.closed = TRUE]
          /\ buffer' = buf
          /\ UNCHANGED <<boundary, counts, written>>
      BY <1>3, <2>3 DEF Filters, Ended
    <3> HIDE DEF buf
    <3> QED BY <2>2, <3>1 DEF TypeInv, FilterTypes
  <2>4. CASE item.then # "end"
    <3>1. /\ counts' = Counted(buf, item.id)
          /\ slot' = [slot EXCEPT !.item = [end |-> item.id, counts |-> counts']]
          /\ buffer' = buf \ Evicted(buf, item.id)
          /\ boundary' = item.id /\ written' = written
      BY <1>3, <2>4 DEF Filters
    <3>2. item.id \in 1..MaxScans
      BY <2>1, <2>4, Bounds DEF QueueEntry, End
    <3> HIDE DEF buf, item
    <3>3. Added(buf, item.id) \in SUBSET Row /\ Evicted(buf, item.id) \in SUBSET Row
      BY <2>2 DEF Added, Evicted
    <3>4. /\ Tally(Added(buf, item.id)) \in [Skus -> Nat]
          /\ Tally(Evicted(buf, item.id)) \in [Skus -> Nat]
      BY <3>3, TallyType
    <3>5. counts' \in [Skus -> Nat]
      <4>1. counts \in [Skus -> Nat]
        BY DEF TypeInv, FilterTypes
      <4>2. \A s \in Skus :
              Above(0, counts[s] + Tally(Added(buf, item.id))[s] - Tally(Evicted(buf, item.id))[s]) \in Nat
        BY <3>4, <4>1 DEF Above
      <4> QED BY <3>1, <4>2 DEF Counted
    <3>6. slot' \in [item : {None} \cup Ranked, closed : BOOLEAN]
      <4>1. [end |-> item.id, counts |-> counts'] \in Ranked
        BY <3>2, <3>5 DEF Ranked
      <4> QED BY <3>1, <4>1 DEF TypeInv, FilterTypes
    <3>7. buffer' \in SUBSET Row
      BY <2>2, <3>1
    <3>8. boundary' \in 0..MaxScans /\ written' \in 0..MaxScans
      BY <3>1, <3>2 DEF TypeInv, FilterTypes
    <3> QED BY <3>5, <3>6, <3>7, <3>8 DEF FilterTypes
  <2> QED BY <2>3, <2>4
<1>4. CASE OutputFilter
  <2>1. slot' = [slot EXCEPT !.item = None] /\ UNCHANGED <<buffer, boundary, counts>>
    BY <1>4 DEF OutputFilter
  <2>2. slot.item \in Ranked
    BY <1>4 DEF OutputFilter, TypeInv, FilterTypes
  <2>3. written' \in 0..MaxScans
    BY <1>4, <2>2, Bounds DEF OutputFilter, Ranked, TypeInv, FilterTypes
  <2> QED BY <2>1, <2>3 DEF TypeInv, FilterTypes
<1>5. CASE UNCHANGED <<slot, buffer, boundary, counts, written>>
  BY <1>5 DEF TypeInv, FilterTypes
<1>6. NoPipeline \/ Bootstrap \/ Filters \/ OutputFilter
      \/ UNCHANGED <<slot, buffer, boundary, counts, written>>
  BY DEF WindowsNext, Works, ScanArrives, LogReplaced, Arrives, SourceApplies, SourceCatchesUp, Stop,
      StartsOver, BackoffEnds, Drain, PipelineFails, ProcessStarts, TailPass, TailSkips, Passes,
      pipeVars
<1> QED BY <1>1, <1>2, <1>3, <1>4, <1>5, <1>6

LEMMA ReadTypesStep ==
  ASSUME TypeInv, WindowsNext
  PROVE  ReadTypes'
<1>0. 0 \in 0..MaxScans /\ Cardinality({}) <= Window + Slide
  BY Constants, FS_EmptySet
<1>1. CASE window' = {} /\ latest' = None /\ cursor' = 0
  BY <1>0, <1>1 DEF ReadTypes
<1>2. CASE Bootstrap
  <2>1. cursor' \in 0..MaxScans
    BY <1>2, Bootstraps DEF TypeInv
  <2>2. window' = {} /\ latest' = latest
    BY <1>2 DEF Bootstrap
  <2> QED BY <1>0, <2>1, <2>2 DEF TypeInv, ReadTypes
<1>3. CASE TailPass \/ TailSkips
  <2>1. MayPass
    BY <1>3 DEF TailPass, TailSkips
  <2>2. latest' = latest
    BY <1>3 DEF TailPass, TailSkips, Passes
  <2>3. cursor' \in 0..MaxScans /\ window' \in SUBSET Row /\ Cardinality(window') <= Window + Slide
    BY <1>3, <2>1, PassIs, PassDoes
  <2> QED BY <2>2, <2>3 DEF TypeInv, ReadTypes
<1>4. CASE OutputFilter
  <2>1. UNCHANGED <<window, cursor>>
    BY <1>4 DEF OutputFilter
  <2>2. slot.item \in Ranked
    BY <1>4 DEF OutputFilter, TypeInv, FilterTypes
  <2>3. tail.of \in Logs
    BY <1>4 DEF OutputFilter, TypeInv, LogsAgree, NothingRuns
  <2>4. latest' = latest \/ latest' = [end |-> slot.item.end, counts |-> slot.item.counts, of |-> tail.of]
    BY <1>4 DEF OutputFilter
  <2> QED BY <2>1, <2>2, <2>3, <2>4 DEF TypeInv, ReadTypes, Ranked
<1>5. CASE UNCHANGED stateVars
  BY <1>5 DEF TypeInv, ReadTypes, stateVars
<1>6. (window' = {} /\ latest' = None /\ cursor' = 0) \/ Bootstrap \/ TailPass \/ TailSkips
      \/ OutputFilter \/ UNCHANGED stateVars
  BY DEF WindowsNext, Works, ScanArrives, LogReplaced, Arrives, SourceApplies, SourceCatchesUp, Stop,
      StartsOver, BackoffEnds, Drain, PipelineFails, ProcessStarts, Filters, stateVars
<1> QED BY <1>1, <1>2, <1>3, <1>4, <1>5, <1>6

LEMMA NothingRunsStep ==
  ASSUME TypeInv, WindowsNext
  PROVE  NothingRuns'
<1>1. CASE NoPipeline
  BY <1>1 DEF NoPipeline, NothingRuns
<1>2. CASE sup' \in {"running", "stopping", "drained"}
  BY <1>2 DEF NothingRuns, PipelineRuns
<1>3. ASSUME UNCHANGED <<sup, pipeVars>> PROVE NothingRuns'
  BY <1>3 DEF pipeVars, TypeInv, NothingRuns, PipelineRuns
<1>4. CASE TailPass \/ TailSkips
  BY <1>2, <1>4 DEF TailPass, TailSkips, MayPass, Passes
<1>5. CASE Filters
  <2>1. q1 # <<>>
    BY <1>5, MarkIs DEF Filters
  <2> QED BY <1>2, <1>5, <2>1 DEF Filters, TypeInv, NothingRuns, PipelineRuns
<1>6. CASE OutputFilter
  <2>1. sup \in {"running", "stopping", "drained"}
    BY <1>6 DEF OutputFilter, TypeInv, NothingRuns, PipelineRuns
  <2> QED BY <1>2, <1>6, <2>1 DEF OutputFilter
<1>7. CASE BackoffEnds
  BY <1>7 DEF BackoffEnds, pipeVars, TypeInv, NothingRuns, PipelineRuns
<1> QED BY <1>1, <1>2, <1>3, <1>4, <1>5, <1>6, <1>7
      DEF WindowsNext, Works, ScanArrives, LogReplaced, Arrives, SourceApplies, SourceCatchesUp, Stop,
          Bootstrap, StartsOver, Drain, PipelineFails, ProcessStarts

LEMMA LogsAgreeStep ==
  ASSUME TypeInv, WindowsNext
  PROVE  LogsAgree'
<1>1. ASSUME NEW e \in Event, Stored(e), UNCHANGED <<source, sup, pipeVars, stateVars>>
      PROVE  LogsAgree'
  <2>1. SourceLog' = SourceLog
    <3>1. PICK n \in Nat : n = Len(stream)
      BY DEF TypeInv, StreamTypes
    <3>2. source.pos \in 0..n /\ source'.pos = source.pos
      BY <1>1, <3>1 DEF TypeInv, SourceTypes
    <3>3. \A k \in 0..n : LogAt(k)' = LogAt(k)
      BY <1>1, <3>1, Joins DEF TypeInv, StreamTypes
    <3> QED BY <3>2, <3>3 DEF SourceLog, LogAt
  <2> QED BY <1>1, <2>1 DEF TypeInv, LogsAgree, PipelineRuns, pipeVars, stateVars
<1>2. ASSUME NEW i \in Ids, ScanArrives(i) PROVE LogsAgree'
  <2>1. Recorded(i, relay.log) \in Event
    BY Bounds DEF Recorded, Event, TypeInv, StreamTypes
  <2> QED BY <1>1, <1>2, <2>1 DEF ScanArrives, Arrives
<1>3. CASE LogReplaced
  <2>1. LogReset(relay.log + 1) \in Event
    BY <1>3, Bounds DEF LogReplaced, LogReset, Event, TypeInv, StreamTypes
  <2> QED BY <1>1, <1>3, <2>1 DEF LogReplaced, Arrives

<1>4. CASE SourceApplies
  <2> DEFINE e == NextEvent
  <2>1. /\ source.pos + 1 \in 1..Len(stream) /\ e \in Event /\ source'.pos = source.pos + 1
        /\ \/ /\ e.type = "scan-log-reset"
              /\ source'.rows = <<>> /\ source'.log = e.log
           \/ /\ e.type = "scan-recorded"
              /\ source'.rows \in {source.rows, Inserted([id |-> e.id, log |-> e.log])}
              /\ source'.log = source.log
    BY <1>4, Applies DEF TypeInv
  <2>2. UNCHANGED <<stream, sup, tail, window>>
    BY <1>4 DEF SourceApplies, pipeVars, stateVars
  <2>3. SourceLog' = e.log
    BY <2>1, <2>2 DEF SourceLog, LogAt, NextEvent
  <2>4. /\ e.type = "scan-log-reset" => SourceLog < e.log
        /\ e.type = "scan-recorded" => e.log = SourceLog
    BY <2>1, NextFollows
  <2>5. SourceLog \in Nat /\ e.log \in Nat /\ e.log # 0
    BY <2>1, NextFollows
  <2> HIDE DEF e
  <2>6. CASE e.type = "scan-log-reset"
    <3>1. source'.log = SourceLog' /\ \A m \in 1..Len(source'.rows) : source'.rows[m].log = SourceLog'
      BY <2>1, <2>3, <2>6
    <3>2. PipelineRuns => tail.of < e.log /\ tail.log # e.log /\ tail.of # e.log
      BY <2>4, <2>5, <2>6, Bounds DEF TypeInv, LogsAgree
    <3>3. PipelineRuns' =>
            /\ tail'.of \in Logs /\ tail'.of <= SourceLog' /\ tail'.log \in {0, tail'.of}
            /\ source'.log = tail'.log <=> SourceLog' = tail'.of
      BY <2>1, <2>2, <2>3, <2>5, <2>6, <3>2, Bounds DEF TypeInv, LogsAgree, PipelineRuns
    <3> QED BY <2>2, <3>1, <3>3 DEF TypeInv, LogsAgree
  <2>7. CASE e.type = "scan-recorded"
    <3>1. SourceLog' = SourceLog /\ source'.log = source.log
      BY <2>1, <2>3, <2>4, <2>7
    <3>2. \A m \in 1..Len(source'.rows) : source'.rows[m].log = SourceLog
      <4>1. source.rows \in Seq(Row) /\ \A m \in 1..Len(source.rows) : source.rows[m].log = SourceLog
        BY DEF TypeInv, LogsAgree, SourceTypes
      <4> DEFINE row == [id |-> e.id, log |-> e.log]
      <4>2. row.log = SourceLog
        BY <2>4, <2>7
      <4> HIDE DEF row
      <4>3. \A m \in 1..Len(Append(source.rows, row)) : Append(source.rows, row)[m].log = SourceLog
        BY <4>1, <4>2
      <4>4. \A m \in 1..Len(Tail(Append(source.rows, row))) :
              Tail(Append(source.rows, row))[m].log = SourceLog
        BY <4>1, <4>3
      <4> QED BY <2>1, <2>7, <4>1, <4>3, <4>4 DEF Inserted, row
    <3> QED BY <2>2, <3>1, <3>2 DEF TypeInv, LogsAgree, PipelineRuns
  <2> QED BY <2>1, <2>6, <2>7
<1>5. CASE SourceCatchesUp
  <2>1. /\ source'.pos = source.pos /\ source'.rows = source.rows /\ source'.log = source.log
        /\ UNCHANGED <<stream, sup, tail, window>>
    BY <1>5 DEF SourceCatchesUp, TypeInv, SourceTypes, pipeVars, stateVars
  <2>2. SourceLog' = SourceLog
    BY <2>1 DEF SourceLog, LogAt
  <2> QED BY <2>1, <2>2 DEF TypeInv, LogsAgree, PipelineRuns
<1>6. ASSUME UNCHANGED <<stream, source>> PROVE SourceLog' = SourceLog
  BY <1>6 DEF SourceLog, LogAt
<1>7. CASE Bootstrap
  <2>1. /\ SourceLog \in Logs /\ tail'.of = SourceLog /\ tail'.log = source.log /\ tail'.pending = {}
    BY <1>7, Bootstraps DEF TypeInv
  <2>2. window' = {} /\ UNCHANGED <<stream, source>>
    BY <1>7 DEF Bootstrap
  <2>3. SourceLog \in Nat /\ source.log \in {0, SourceLog}
    BY <2>1, Bounds DEF TypeInv, LogsAgree
  <2> QED BY <1>6, <2>1, <2>2, <2>3 DEF TypeInv, LogsAgree
<1>8. CASE StartsOver \/ PipelineFails \/ BackoffEnds
  <2>1. UNCHANGED <<stream, source>> /\ ~ PipelineRuns' /\ sup' # "running"
    BY <1>8 DEF StartsOver, PipelineFails, BackoffEnds, PipelineRuns
  <2> QED BY <1>6, <2>1 DEF TypeInv, LogsAgree
<1>9. CASE ProcessStarts
  <2>1. source'.log = 0 /\ source'.rows = <<>> /\ ~ PipelineRuns' /\ sup' # "running"
    BY <1>9 DEF ProcessStarts, FreshSource, PipelineRuns
  <2> QED BY <2>1 DEF LogsAgree
<1>10. CASE TailPass \/ TailSkips
  <2>1. MayPass
    BY <1>10 DEF TailPass, TailSkips
  <2>2. /\ tail'.of = tail.of /\ tail'.log = tail.log /\ tail'.pending \subseteq Reads
        /\ \A r \in window' : r.log = tail.of
    BY <1>10, <2>1, PassIs, PassDoes
  <2>3. \A r \in Reads : r.log = tail.of
    BY <2>1, ReadsAre
  <2>4. UNCHANGED <<stream, source, sup>>
    BY <1>10 DEF TailPass, TailSkips, Passes
  <2> QED BY <1>6, <2>2, <2>3, <2>4 DEF TypeInv, LogsAgree, PipelineRuns
<1>11. CASE Stop \/ Drain
  <2>1. UNCHANGED <<stream, source, tail>> /\ PipelineRuns /\ sup' # "running"
    BY <1>11 DEF Stop, Drain, PipelineRuns, pipeVars
  <2> QED BY <1>6, <2>1 DEF TypeInv, LogsAgree
<1>12. CASE UNCHANGED <<stream, source, sup, tail, window>>
  BY <1>6, <1>12 DEF TypeInv, LogsAgree, PipelineRuns
<1> QED BY <1>2, <1>3, <1>4, <1>5, <1>7, <1>8, <1>9, <1>10, <1>11, <1>12
      DEF WindowsNext, Works, Filters, OutputFilter, stateVars

LEMMA TypesStep == TypeInv /\ [WindowsNext]_windowsVars => TypeInv'
<1> SUFFICES ASSUME TypeInv, [WindowsNext]_windowsVars PROVE TypeInv'
  OBVIOUS
<1>1. CASE WindowsNext
  <2>1. StreamTypes' /\ LogsFollow'
    BY <1>1, StreamTypesStep DEF TypeInv
  <2> QED BY <1>1, <2>1, SourceTypesStep, TailTypesStep, FilterTypesStep, ReadTypesStep,
            RunTypesStep, LogsAgreeStep, NothingRunsStep DEF TypeInv
<1>2. CASE UNCHANGED windowsVars
  <2>1. UNCHANGED <<stream, relay, source, sup, tail, q1, slot, buffer, boundary, counts, written,
                    window, latest, cursor, faults>>
    BY <1>2 DEF windowsVars, pipeVars, stateVars
  <2>2. StreamTypes' /\ LogsFollow'
    BY <2>1 DEF TypeInv, StreamTypes, LogsFollow, LogAt
  <2>3. SourceTypes' /\ TailTypes'
    BY <2>1 DEF TypeInv, SourceTypes, TailTypes
  <2>4. FilterTypes' /\ ReadTypes' /\ RunTypes'
    BY <2>1 DEF TypeInv, FilterTypes, ReadTypes, RunTypes
  <2>5. LogsAgree'
    BY <2>1 DEF TypeInv, LogsAgree, SourceLog, LogAt, PipelineRuns
  <2>6. NothingRuns'
    BY <2>1 DEF TypeInv, NothingRuns, PipelineRuns
  <2> QED BY <2>2, <2>3, <2>4, <2>5, <2>6 DEF TypeInv
<1> QED BY <1>1, <1>2

LEMMA TypesInit == WindowsInit => TypeInv
<1> SUFFICES ASSUME WindowsInit PROVE TypeInv
  OBVIOUS
<1>0. 0 \in 0..MaxScans /\ 0 \in 0..MaxNoise /\ 0 \in 0..MaxFaults /\ 0 \in 0..MaxLogs /\ 1 \in Logs
      /\ Slide \in Nat /\ Keep \in Nat /\ Window + Slide \in Nat
  BY Constants, Bounds
<1>1. stream = <<>> /\ StreamTypes /\ LogsFollow
  BY <1>0 DEF WindowsInit, StreamTypes, LogsFollow, LogAt
<1>2. SourceTypes /\ RunTypes
  BY <1>0, <1>1 DEF WindowsInit, SourceTypes, RunTypes
<1>3. TailTypes
  BY <1>0 DEF WindowsInit, TailTypes, NoTail
<1>4. Tally({}) \in [Skus -> Nat] /\ Cardinality({}) = 0
  BY TallyType, FS_EmptySet
<1>5. FilterTypes /\ ReadTypes
  BY <1>0, <1>4 DEF WindowsInit, FilterTypes, ReadTypes
<1>6. LogsAgree /\ NothingRuns
  BY DEF WindowsInit, LogsAgree, PipelineRuns, NothingRuns, SourceLog, LogAt
<1> QED BY <1>1, <1>2, <1>3, <1>5, <1>6 DEF TypeInv

\* A published window, the window's rows, the queue, the tail and the source are what
\* they are taken for, whatever a poll says; state.window holds no more rows than its
\* deque has room for.
THEOREM WindowsTypes == WindowsSpec => []WindowsTypeOK
<1>1. WindowsSpec => []TypeInv
  BY TypesInit, TypesStep, PTL DEF WindowsSpec
<1> QED BY <1>1, TypesSuffice, PTL

-----------------------------------------------------------------------------
(* The order of the topic *)

\* The relay says the ids of a log in order, but for repeats.
SaidInOrder ==
  /\ \A i \in Said(relay.log, Len(stream)) : i <= relay.newest
  /\ relay.newest # 0 => relay.newest \in Said(relay.log, Len(stream))
  /\ \A k \in 1..Len(stream) :
       stream[k].type = "scan-recorded" =>
         \/ stream[k].id \in Said(stream[k].log, k - 1)
         \/ \A i \in Said(stream[k].log, k - 1) : i < stream[k].id

\* Since a scan was said, an event is a higher scan or noise.
FewSince(n) ==
  \A k \in Records(LogAt(n), n) :
    \E top \in Said(LogAt(n), n) : n - k <= top - stream[k].id + relay.noise

FewEvents == \A n \in 1..Len(stream) : FewSince(n)

LEMMA LogsGrow ==
  ASSUME StreamTypes, LogsFollow, NEW n \in 0..Len(stream), NEW j \in 0..n
  PROVE  LogAt(j) <= LogAt(n) /\ LogAt(j) \in Nat
<1>1. LogAt(j) \in Logs /\ LogAt(n) \in Logs
  BY LogTypes DEF StreamTypes
<1>2. CASE j = n
  BY <1>1, <1>2, Bounds
<1>3. CASE j < n
  BY <1>1, <1>3, Bounds DEF LogsFollow, LogAt
<1> QED BY <1>1, <1>2, <1>3, Bounds

\* A log has no scans before its reset.
LEMMA NoneYet ==
  ASSUME StreamTypes, LogsFollow, NEW n \in 0..Len(stream), NEW g \in Nat, LogAt(n) < g
  PROVE  Records(g, n) = {} /\ Said(g, n) = {}
<1>1. ASSUME NEW k \in Records(g, n) PROVE FALSE
  <2>1. k \in 1..n /\ LogAt(k) = g
    BY <1>1 DEF Records, LogAt
  <2>2. LogAt(k) <= LogAt(n) /\ LogAt(n) \in Nat
    BY <2>1, LogsGrow
  <2> QED BY <2>1, <2>2
<1> QED BY <1>1 DEF Said

\* What the relay compares a scan with is what was said of its log.
LEMMA InOrderIs ==
  ASSUME StreamTypes, LogsFollow, NEW n \in Nat, n = Len(stream), NEW i \in Ids,
         InOrder(i, relay.log)
  PROVE  i \in Said(relay.log, n) \/ \A j \in Said(relay.log, n) : j < i
<1>1. \A j \in 0..n : LogAt(j) \in Nat /\ LogAt(j) <= LogAt(n)
  BY LogsGrow
<1>2. ASSUME NEW k \in Records(relay.log, n), NEW j \in k..n, stream[j].type # "scan-recorded"
      PROVE  FALSE
  <2>1. k \in 1..n /\ stream[k].type = "scan-recorded" /\ LogAt(k) = relay.log
    BY DEF Records, LogAt
  <2>2. j \in 1..n /\ k <= j - 1 /\ j - 1 \in 0..n
    BY <1>2, <2>1
  <2>3. stream[j].type = "scan-log-reset"
    <3>1. stream[j] \in Event
      BY <2>2 DEF StreamTypes
    <3> QED BY <1>2, <3>1 DEF Event
  <2>4. LogAt(j - 1) < LogAt(j)
    BY <2>2, <2>3 DEF LogsFollow, LogAt
  <2>5. LogAt(k) <= LogAt(j - 1)
    BY <2>1, <2>2, LogsGrow
  <2>6. LogAt(n) = relay.log
    BY DEF LogsFollow
  <2> QED BY <1>1, <2>1, <2>2, <2>4, <2>5, <2>6
<1>3. Records(relay.log, n) = {k \in Current : stream[k].log = relay.log}
  <2>1. ASSUME NEW k \in Records(relay.log, n) PROVE k \in Current /\ stream[k].log = relay.log
    <3>1. k \in 1..n /\ stream[k].log = relay.log
      BY DEF Records
    <3>2. \A j \in k..n : stream[j].type = "scan-recorded"
      BY <1>2
    <3> QED BY <3>1, <3>2 DEF Current
  <2>2. ASSUME NEW k \in Current, stream[k].log = relay.log PROVE k \in Records(relay.log, n)
    BY <2>2 DEF Current, Records
  <2> QED BY <2>1, <2>2
<1> QED BY <1>3 DEF InOrder, Said

LEMMA SaidInOrderStep ==
  ASSUME TypeInv, SaidInOrder, WindowsNext
  PROVE  SaidInOrder'
<1>n. PICK n \in Nat : n = Len(stream)
  BY DEF TypeInv, StreamTypes
<1>0. /\ StreamTypes /\ LogsFollow /\ relay.newest \in Nat /\ relay.log \in Nat
      /\ stream \in Seq(Event) /\ LogAt(n) = relay.log
  BY <1>n, Bounds DEF TypeInv, StreamTypes, LogsFollow
<1>1. ASSUME NEW e \in Event, Stored(e)
      PROVE  /\ Len(stream') = n + 1 /\ stream'[n + 1] = e
             /\ \A k \in 1..n :
                  (stream[k].type = "scan-recorded" =>
                     \/ stream[k].id \in Said(stream[k].log, k - 1)
                     \/ \A i \in Said(stream[k].log, k - 1) : i < stream[k].id)'
  <2>1. /\ Len(stream') = n + 1 /\ stream'[n + 1] = e /\ \A k \in 1..n : stream'[k] = stream[k]
    BY <1>n, <1>0, <1>1, Joins
  <2>2. ASSUME NEW k \in 1..n
        PROVE  (stream[k].type = "scan-recorded" =>
                     \/ stream[k].id \in Said(stream[k].log, k - 1)
                     \/ \A i \in Said(stream[k].log, k - 1) : i < stream[k].id)'
    <3>1. PICK g : g = stream[k].log
      OBVIOUS
    <3>2. k - 1 \in 0..Len(stream) /\ stream'[k] = stream[k]
      BY <1>n, <2>1
    <3>3. Said(g, k - 1)' = Said(g, k - 1)
      BY <1>0, <1>1, <3>2, SaidStays
    <3>4. Said(stream[k].log, k - 1)' = Said(g, k - 1)'
      BY <3>1, <3>2
    <3> QED BY <1>n, <3>1, <3>2, <3>3, <3>4 DEF SaidInOrder
  <2> QED BY <2>1, <2>2
<1>2. ASSUME NEW i \in Ids, ScanArrives(i) PROVE SaidInOrder'
  <2>0. Recorded(i, relay.log) \in Event
    BY <1>0, Bounds DEF Recorded, Event, StreamTypes
  <2>e. PICK e \in Event : e = Recorded(i, relay.log)
    BY <2>0
  <2>1. e.type = "scan-recorded" /\ e.id = i /\ e.log = relay.log
    BY <2>e DEF Recorded
  <2>2. Stored(e) /\ relay'.log = relay.log /\ relay'.newest = Above(relay.newest, i)
        /\ InOrder(i, relay.log)
    BY <1>0, <1>2, <2>e DEF ScanArrives, Arrives, StreamTypes
  <2>3. PICK g : g = relay.log
    OBVIOUS
  <2>4. Said(g, n)' = Said(g, n) /\ Said(g, n + 1)' = Said(g, n) \cup {i}
    <3>1. n \in 0..Len(stream)
      BY <1>n
    <3>2. Said(g, n)' = Said(g, n)
      BY <1>0, <2>1, <2>2, <3>1, SaidStays
    <3>3. Said(g, n + 1)' =
            Said(g, n) \cup Tells(e, g, e.id)
      <4>1. stream \in Seq(Event) /\ Stored(e)
        BY <1>0, <2>2
      <4> QED BY <1>n, <4>1, SaidGrows
    <3> QED BY <2>1, <2>3, <3>2, <3>3 DEF Tells
  <2>5. Said(relay.log, Len(stream))' = Said(g, n) \cup {i}
    <3>1. Len(stream') = n + 1
      BY <1>1, <2>1, <2>2
    <3> QED BY <2>2, <2>3, <2>4, <3>1
  <2>6. i \in Nat /\ i # 0 /\ Said(g, n) \subseteq Nat
    <3>1. Said(g, n) \subseteq 0..MaxScans
      BY <1>n, <1>0, LogTypes
    <3> QED BY <3>1, Bounds
  <2>7. (\A j \in Said(relay.log, Len(stream)) : j <= relay.newest)'
    BY <1>n, <1>0, <2>2, <2>3, <2>5, <2>6 DEF SaidInOrder, Above
  <2>8. (relay.newest # 0 => relay.newest \in Said(relay.log, Len(stream)))'
    BY <1>n, <1>0, <2>2, <2>3, <2>5, <2>6 DEF SaidInOrder, Above
  <2>9. (stream[n + 1].type = "scan-recorded" =>
           \/ stream[n + 1].id \in Said(stream[n + 1].log, n + 1 - 1)
           \/ \A j \in Said(stream[n + 1].log, n + 1 - 1) : j < stream[n + 1].id)'
    <3>1. i \in Said(g, n) \/ \A j \in Said(g, n) : j < i
      BY <1>n, <1>0, <2>2, <2>3, InOrderIs
    <3>2. stream'[n + 1] = e
      BY <1>1, <2>1, <2>2
    <3>3. Said(stream[n + 1].log, n + 1 - 1)' = Said(g, n)'
      BY <1>n, <2>1, <2>3, <3>2
    <3> QED BY <2>1, <2>4, <3>1, <3>2, <3>3
  <2>10. (\A k \in 1..Len(stream) :
           stream[k].type = "scan-recorded" =>
             \/ stream[k].id \in Said(stream[k].log, k - 1)
             \/ \A j \in Said(stream[k].log, k - 1) : j < stream[k].id)'
    <3>1. \A k \in 1..(n + 1) : k \in 1..n \/ k = n + 1
      BY <1>n
    <3>2. Len(stream') = n + 1
      BY <1>1, <2>1, <2>2
    <3> QED BY <1>1, <2>1, <2>2, <2>9, <3>1, <3>2
  <2> QED BY <2>7, <2>8, <2>10 DEF SaidInOrder

<1>3. ASSUME LogReplaced PROVE SaidInOrder'
  <2> DEFINE e == LogReset(relay.log + 1)
  <2>1. e \in Event /\ e.type = "scan-log-reset"
    BY <1>0, <1>3, Bounds DEF LogReplaced, LogReset, Event, StreamTypes
  <2>2. Stored(e) /\ relay'.log = relay.log + 1 /\ relay'.newest = 0
    BY <1>0, <1>3 DEF LogReplaced, Arrives, StreamTypes
  <2> HIDE DEF e
  <2>3. PICK g : g = relay.log + 1
    OBVIOUS
  <2>4. Said(g, n + 1)' = Said(g, n) /\ Said(g, n) = {}
    <3>1. n \in 0..Len(stream) /\ g \in Nat /\ LogAt(n) < g
      BY <1>n, <1>0, <2>3
    <3>2. Said(g, n) = {}
      BY <1>0, <3>1, NoneYet
    <3>3. Said(g, n + 1)' =
            Said(g, n) \cup Tells(e, g, e.id)
      BY <1>n, <1>0, <2>1, <2>2, SaidGrows
    <3> QED BY <2>1, <3>2, <3>3 DEF Tells
  <2>5. Len(stream') = n + 1 /\ stream'[n + 1] = e
    BY <1>1, <2>1, <2>2
  <2>6. Said(relay.log, Len(stream))' = {}
    BY <2>2, <2>3, <2>4, <2>5
  <2>7. \A k \in 1..(n + 1) : k \in 1..n \/ k = n + 1
    BY <1>n
  <2>8. (\A k \in 1..Len(stream) :
           stream[k].type = "scan-recorded" =>
             \/ stream[k].id \in Said(stream[k].log, k - 1)
             \/ \A j \in Said(stream[k].log, k - 1) : j < stream[k].id)'
    BY <1>1, <2>1, <2>2, <2>5, <2>7
  <2> QED BY <2>2, <2>6, <2>8 DEF SaidInOrder
<1>4. ASSUME UNCHANGED <<stream, relay>> PROVE SaidInOrder'
  <2>1. \A g, k : Said(g, k)' = Said(g, k)
    BY <1>4 DEF Said, Records
  <2> QED BY <1>4, <2>1 DEF SaidInOrder
<1> QED BY <1>2, <1>3, <1>4, WhoWrites

LEMMA HigherCovers ==
  ASSUME NEW n \in Nat, NEW k \in Nat, NEW top \in Nat, NEW id \in Nat, NEW noise \in Nat,
         NEW i \in Nat, NEW newest \in Nat,
         n - k <= top - id + noise, top <= newest, i > newest
  PROVE  n + 1 - k <= i - id + (noise + (i - newest - 1))
OBVIOUS

LEMMA FewEventsStep ==
  ASSUME TypeInv, SaidInOrder, FewEvents, WindowsNext
  PROVE  FewEvents'
<1>n. PICK n \in Nat : n = Len(stream)
  BY DEF TypeInv, StreamTypes
<1>0. /\ StreamTypes /\ LogsFollow /\ relay.newest \in Nat /\ relay.log \in Nat /\ relay.noise \in Nat
      /\ stream \in Seq(Event) /\ LogAt(n) = relay.log
  BY <1>n, Bounds DEF TypeInv, StreamTypes, LogsFollow
<1>1. ASSUME NEW e \in Event, Stored(e), relay'.noise \in Nat, relay.noise <= relay'.noise,
             NEW m \in 1..n
      PROVE  FewSince(m)'
  <2>1. PICK g : g = LogAt(m)
    OBVIOUS
  <2>2. LogAt(m)' = g /\ \A k \in 1..n : stream'[k] = stream[k]
    <3>1. stream \in Seq(Event) /\ Stored(e)
      BY <1>0, <1>1
    <3>2. (\A k \in 1..n : stream'[k] = stream[k]) /\ \A k \in 0..n : LogAt(k)' = LogAt(k)
      BY <1>n, <3>1, Joins
    <3>3. m \in 0..n
      BY <1>n
    <3> QED BY <2>1, <3>2, <3>3
  <2>3. m \in 0..Len(stream)
    BY <1>n
  <2>4. Records(g, m)' = Records(g, m) /\ Said(g, m)' = Said(g, m)
    BY <1>0, <1>1, <2>3, SaidStays
  <2>5. Records(LogAt(m), m)' = Records(g, m) /\ Said(LogAt(m), m)' = Said(g, m)
    BY <2>2, <2>4
  <2>6. ASSUME NEW k \in Records(g, m)
        PROVE  \E top \in Said(g, m) : m - k <= top - stream'[k].id + relay'.noise
    <3>1. PICK top \in Said(g, m) : m - k <= top - stream[k].id + relay.noise
      BY <1>n, <2>1, <2>6 DEF FewEvents, FewSince
    <3>2. k \in 1..n /\ stream'[k] = stream[k] /\ stream[k] \in Event
      BY <1>n, <1>0, <2>2, <2>6 DEF Records
    <3>3. Said(g, m) \subseteq 0..MaxScans
      BY <1>0, <2>3, LogTypes
    <3>4. top \in Int /\ stream[k].id \in Int /\ m \in Int /\ k \in Int
      BY <3>1, <3>2, <3>3, Bounds DEF Event
    <3>5. m - k <= top - stream'[k].id + relay'.noise
      <4>1. relay.noise \in Nat /\ relay'.noise \in Nat /\ relay.noise <= relay'.noise
        BY <1>0, <1>1
      <4>2. m - k <= top - stream[k].id + relay'.noise
        BY <3>1, <3>4, <4>1
      <4> QED BY <3>2, <4>2
    <3> QED BY <3>5
  <2> QED BY <2>5, <2>6 DEF FewSince
<1>2. ASSUME NEW i \in Ids, ScanArrives(i) PROVE FewEvents'
  <2> DEFINE skips == IF i > relay.newest THEN i - relay.newest - 1 ELSE 1
  <2>0. Recorded(i, relay.log) \in Event
    BY <1>0, Bounds DEF Recorded, Event, StreamTypes
  <2>e. PICK e \in Event : e = Recorded(i, relay.log)
    BY <2>0
  <2>1. e.type = "scan-recorded" /\ e.id = i /\ e.log = relay.log
    BY <2>e DEF Recorded
  <2>2. Stored(e) /\ relay'.noise = relay.noise + skips
    BY <1>0, <1>2, <2>e DEF ScanArrives, Arrives, StreamTypes
  <2>3. skips \in Nat /\ i \in Nat
    BY <1>0, Bounds
  <2>4. relay'.noise \in Nat /\ relay.noise <= relay'.noise
    BY <1>0, <2>2, <2>3
  <2>5. PICK g : g = relay.log
    OBVIOUS
  <2>6. /\ Len(stream') = n + 1 /\ stream'[n + 1] = e /\ \A k \in 1..n : stream'[k] = stream[k]
        /\ LogAt(n + 1)' = e.log
    BY <1>n, <1>0, <2>2, Joins
  <2>7. /\ Records(g, n + 1)' = Records(g, n) \cup {n + 1}
        /\ Said(g, n + 1)' = Said(g, n) \cup {i}
    <3>1. /\ Records(g, n + 1)' = Records(g, n) \cup
               Tells(e, g, n + 1)
          /\ Said(g, n + 1)' =
               Said(g, n) \cup Tells(e, g, e.id)
      <4>1. stream \in Seq(Event) /\ Stored(e)
        BY <1>0, <2>2
      <4> QED BY <1>n, <4>1, SaidGrows
    <3> QED BY <2>1, <2>5, <3>1 DEF Tells
  <2>m. PICK m \in Nat : m = n + 1
    BY <1>n
  <2>s. PICK S, T : S = Records(g, m)' /\ T = Said(g, m)'
    OBVIOUS
  <2>t. i \in T /\ (\A j \in Said(g, n) : j \in T) /\ \A k \in S : k \in Records(g, n) \/ k = n + 1
    BY <2>7, <2>m, <2>s
  <2>8. ASSUME NEW k \in S
        PROVE  \E top \in T : m - k <= top - stream'[k].id + relay'.noise
    <3>1. CASE k = n + 1
      <4>1. m - k = 0 /\ stream'[k].id = i
        BY <1>n, <2>1, <2>6, <2>m, <3>1
      <4>2. m - k <= i - stream'[k].id + relay'.noise
        BY <2>3, <2>4, <4>1
      <4> QED BY <2>t, <4>2
    <3>2. CASE k \in Records(g, n)
      <4>1. k \in 1..n /\ stream'[k] = stream[k] /\ stream[k] \in Event
        BY <1>n, <1>0, <2>6, <3>2 DEF Records
      <4>2. PICK top \in Said(g, n) : n - k <= top - stream[k].id + relay.noise
        <5>1. n \in 1..Len(stream) /\ LogAt(n) = g
          BY <1>n, <1>0, <2>5, <4>1
        <5> QED BY <3>2, <5>1 DEF FewEvents, FewSince
      <4>3. top <= relay.newest
        BY <1>n, <2>5, <4>2 DEF SaidInOrder
      <4>4. top \in Nat /\ stream[k].id \in Nat
        <5>1. Said(g, n) \subseteq 0..MaxScans
          BY <1>n, <1>0, LogTypes
        <5> QED BY <4>1, <4>2, <5>1, Bounds DEF Event
      <4>5. CASE i > relay.newest
        <5>0. relay'.noise = relay.noise + (i - relay.newest - 1)
          BY <2>2, <4>5
        <5>1. m - k <= i - stream'[k].id + relay'.noise
          <6>1. /\ i \in Nat /\ relay.newest \in Nat /\ relay.noise \in Nat /\ k \in Nat
                /\ stream'[k].id = stream[k].id
            BY <1>n, <1>0, <2>3, <4>1
          <6>2. n + 1 - k <= i - stream[k].id + (relay.noise + (i - relay.newest - 1))
            BY <1>n, <4>2, <4>3, <4>4, <4>5, <6>1, HigherCovers
          <6> QED BY <2>m, <5>0, <6>1, <6>2
        <5> QED BY <2>t, <5>1
      <4>6. CASE ~ (i > relay.newest)
        <5>1. m - k <= top - stream'[k].id + relay'.noise
          <6>1. relay'.noise = relay.noise + 1 /\ relay.noise \in Nat
            BY <1>0, <2>2, <4>6
          <6>2. stream'[k].id = stream[k].id /\ k \in Nat
            BY <4>1
          <6>3. m - k <= top - stream[k].id + (relay.noise + 1)
            BY <2>m, <4>2, <4>4, <6>1, <6>2
          <6> QED BY <6>1, <6>2, <6>3
        <5> QED BY <2>t, <4>2, <5>1
      <4> QED BY <4>5, <4>6
    <3> QED BY <2>8, <2>t, <3>1, <3>2
  <2>9. FewSince(m)'
    <3>1. LogAt(m)' = g
      BY <2>1, <2>5, <2>6, <2>m
    <3>2. Records(LogAt(m), m)' = S /\ Said(LogAt(m), m)' = T
      BY <2>s, <3>1
    <3> QED BY <2>8, <3>2 DEF FewSince
  <2>10. \A j \in 1..(n + 1) : j \in 1..n \/ j = n + 1
    BY <1>n
  <2>11. \A j \in 1..n : FewSince(j)'
    BY <1>1, <2>2, <2>4
  <2> HIDE DEF skips
  <2> QED BY <2>6, <2>9, <2>10, <2>11, <2>m DEF FewEvents
<1>3. ASSUME LogReplaced PROVE FewEvents'
  <2>0. LogReset(relay.log + 1) \in Event
    BY <1>0, <1>3, Bounds DEF LogReplaced, LogReset, Event, StreamTypes
  <2>e. PICK e \in Event : e = LogReset(relay.log + 1)
    BY <2>0
  <2>1. e.type = "scan-log-reset" /\ e.log = relay.log + 1
    BY <2>e DEF LogReset
  <2>2. Stored(e) /\ relay'.noise = relay.noise
    BY <1>0, <1>3, <2>e DEF LogReplaced, Arrives, StreamTypes
  <2>3. PICK g : g = relay.log + 1
    OBVIOUS
  <2>4. Len(stream') = n + 1 /\ LogAt(n + 1)' = e.log
    BY <1>n, <1>0, <2>2, Joins
  <2>5. Records(g, n + 1)' = {}
    <3>1. n \in 0..Len(stream) /\ g \in Nat /\ LogAt(n) < g
      BY <1>n, <1>0, <2>3
    <3>2. Records(g, n) = {}
      BY <1>0, <3>1, NoneYet
    <3>3. Records(g, n + 1)' = Records(g, n) \cup
            Tells(e, g, n + 1)
      <4>1. stream \in Seq(Event) /\ Stored(e)
        BY <1>0, <2>2
      <4> QED BY <1>n, <4>1, SaidGrows
    <3> QED BY <2>1, <3>2, <3>3 DEF Tells
  <2>6. Records(LogAt(n + 1), n + 1)' = {}
    BY <2>1, <2>3, <2>4, <2>5
  <2>7. \A m \in 1..(n + 1) : m \in 1..n \/ m = n + 1
    BY <1>n
  <2>8. relay'.noise \in Nat /\ relay.noise <= relay'.noise
    BY <1>0, <2>2
  <2>9. \A m \in 1..n : FewSince(m)'
    BY <1>1, <2>2, <2>8
  <2>10. FewSince(n + 1)'
    BY <2>6 DEF FewSince
  <2> QED BY <2>4, <2>7, <2>9, <2>10 DEF FewEvents
<1>4. ASSUME UNCHANGED <<stream, relay>> PROVE FewEvents'
  <2>1. /\ \A g, m : Records(g, m)' = Records(g, m) /\ Said(g, m)' = Said(g, m)
        /\ \A m : LogAt(m)' = LogAt(m)
    BY <1>4 DEF Said, Records, LogAt
  <2> QED BY <1>4, <2>1 DEF FewEvents, FewSince
<1> QED BY <1>2, <1>3, <1>4, WhoWrites

\* What was said of a log by some time stays said.
LEMMA SaidMore ==
  ASSUME NEW g, NEW n \in Nat, NEW m \in Nat, n <= m
  PROVE  Records(g, n) \subseteq Records(g, m) /\ Said(g, n) \subseteq Said(g, m)
<1>1. Records(g, n) \subseteq Records(g, m)
  BY DEF Records
<1> QED BY <1>1 DEF Said

\* An id below one that was said by then was said by then, or never.
LEMMA SaidBefore ==
  ASSUME TypeInv, SaidInOrder, NEW g, NEW n \in 0..Len(stream), NEW j \in Said(g, n),
         NEW i \in Said(g, Len(stream)), i <= j
  PROVE  i \in Said(g, n)
<1>n. PICK l \in Nat : l = Len(stream)
  BY DEF TypeInv, StreamTypes
<1> DEFINE P == {k \in Records(g, l) : stream[k].id = i}
           k == Least(P)
<1>1. P \in SUBSET Nat /\ P # {}
  BY <1>n DEF Said, Records
<1> HIDE DEF P
<1>2. k \in P /\ \A p \in P : k <= p
  BY <1>1, LeastNumber
<1> HIDE DEF k
<1> USE DEF P
<1>3. k \in 1..l /\ k \in Records(g, l) /\ stream[k].id = i /\ n \in Nat
      /\ stream[k].type = "scan-recorded" /\ stream[k].log = g
  BY <1>n, <1>2 DEF Records
<1>4. CASE k <= n
  <2>1. k \in Records(g, n)
    BY <1>3, <1>4 DEF Records
  <2> QED BY <1>3, <2>1 DEF Said
<1>5. CASE n <= k - 1
  <2>1. k - 1 \in Nat
    BY <1>3
  <2>2. ASSUME i \in Said(g, k - 1) PROVE FALSE
    <3>1. PICK p \in Records(g, k - 1) : stream[p].id = i
      BY <2>2 DEF Said
    <3>2. p \in 1..(k - 1)
      BY <3>1 DEF Records
    <3>3. p \in Records(g, l)
      BY <1>3, <3>1, <3>2 DEF Records
    <3> QED BY <1>2, <1>3, <3>1, <3>2, <3>3
  <2>3. \A q \in Said(g, k - 1) : q < i
    BY <1>n, <1>3, <2>2 DEF SaidInOrder
  <2>4. j \in Said(g, k - 1)
    BY <1>3, <1>5, <2>1, SaidMore
  <2>5. i \in Nat /\ j \in Nat
    <3>1. Said(g, l) \subseteq 0..MaxScans /\ Said(g, n) \subseteq 0..MaxScans
      BY <1>n, LogTypes DEF TypeInv, StreamTypes
    <3> QED BY <1>n, <3>1, Bounds
  <2> QED BY <2>3, <2>4, <2>5
<1> QED BY <1>3, <1>4, <1>5

\* The scans of log g with an id in (a, b].
ScansIn(g, a, b) == {i \in Said(g, Len(stream)) : a < i /\ i <= b}

\* An event that joins the topic says nothing new of ids that were passed.
Passed(g, b) == g <= relay.log /\ (g = relay.log => b <= relay.newest)

LEMMA PastStays ==
  ASSUME TypeInv, SaidInOrder, LogReplaced \/ \E i \in Ids : ScanArrives(i),
         NEW g \in Nat, NEW b \in Nat, Passed(g, b), NEW a
  PROVE  ScansIn(g, a, b)' = ScansIn(g, a, b) /\ Passed(g, b)'
<1>n. PICK n \in Nat : n = Len(stream)
  BY DEF TypeInv, StreamTypes
<1>0. /\ StreamTypes /\ LogsFollow /\ relay.newest \in Nat /\ relay.log \in Nat
      /\ stream \in Seq(Event) /\ LogAt(n) = relay.log
  BY <1>n, Bounds DEF TypeInv, StreamTypes, LogsFollow
<1>1. ASSUME NEW e \in Event, Stored(e)
      PROVE  /\ Said(g, Len(stream))' =
                  Said(g, n) \cup Tells(e, g, e.id)
  <2>1. Said(g, n + 1)' =
          Said(g, n) \cup Tells(e, g, e.id)
    <3>1. stream \in Seq(Event) /\ Stored(e)
      BY <1>0, <1>1
    <3> QED BY <1>n, <3>1, SaidGrows
  <2>2. Len(stream') = n + 1
    BY <1>n, <1>0, <1>1, Joins
  <2> QED BY <2>1, <2>2
<1>2. ASSUME NEW i \in Ids, ScanArrives(i)
      PROVE  ScansIn(g, a, b)' = ScansIn(g, a, b) /\ Passed(g, b)'
  <2>0. Recorded(i, relay.log) \in Event
    BY <1>0, Bounds DEF Recorded, Event, StreamTypes
  <2>e. PICK e \in Event : e = Recorded(i, relay.log)
    BY <2>0
  <2>1. e.type = "scan-recorded" /\ e.id = i /\ e.log = relay.log
    BY <2>e DEF Recorded
  <2>2. /\ Stored(e) /\ InOrder(i, relay.log)
        /\ relay'.log = relay.log /\ relay'.newest = Above(relay.newest, i)
    BY <1>0, <1>2, <2>e DEF ScanArrives, Arrives, StreamTypes
  <2>3. i \in Nat /\ i # 0
    BY Bounds
  <2>4. g = relay.log => i \in Said(g, n) \/ i > b
    <3>1. i \in Said(relay.log, n) \/ \A j \in Said(relay.log, n) : j < i
      BY <1>n, <1>0, <2>2, InOrderIs
    <3>2. relay.newest # 0 => relay.newest \in Said(relay.log, n)
      BY <1>n DEF SaidInOrder
    <3> QED BY <1>0, <2>3, <3>1, <3>2 DEF Passed
  <2>5. Said(g, Len(stream))' = Said(g, n) \cup (IF g = relay.log THEN {i} ELSE {})
    BY <1>1, <2>1, <2>2 DEF Tells
  <2>6. ScansIn(g, a, b)' = {j \in Said(g, Len(stream))' : a < j /\ j <= b}
    BY DEF ScansIn
  <2>7. {j \in Said(g, n) \cup (IF g = relay.log THEN {i} ELSE {}) : a < j /\ j <= b}
          = {j \in Said(g, n) : a < j /\ j <= b}
    BY <2>3, <2>4
  <2>8. Passed(g, b)'
    BY <1>0, <2>2, <2>3 DEF Passed, Above
  <2> QED BY <1>n, <2>5, <2>6, <2>7, <2>8 DEF ScansIn
<1>3. ASSUME LogReplaced
      PROVE  ScansIn(g, a, b)' = ScansIn(g, a, b) /\ Passed(g, b)'
  <2>0. LogReset(relay.log + 1) \in Event
    BY <1>0, <1>3, Bounds DEF LogReplaced, LogReset, Event, StreamTypes
  <2>e. PICK e \in Event : e = LogReset(relay.log + 1)
    BY <2>0
  <2>1. e.type = "scan-log-reset"
    BY <2>e DEF LogReset
  <2>2. Stored(e) /\ relay'.log = relay.log + 1
    BY <1>0, <1>3, <2>e DEF LogReplaced, Arrives, StreamTypes
  <2>3. Said(g, Len(stream))' = Said(g, n)
    BY <1>1, <2>1, <2>2 DEF Tells
  <2>4. Passed(g, b)'
    BY <1>0, <2>2 DEF Passed
  <2> QED BY <1>n, <2>3, <2>4 DEF ScansIn
<1> QED BY <1>2, <1>3

-----------------------------------------------------------------------------
(* The source *)

\* No window to come, and no part of one in progress, goes back to such an id.
Old(i) == \E top \in Said(SourceLog, source.pos) : i <= top - Window - Slide + 1

Applied(i) == i <= source.max /\ (Known(i) \/ Old(i))

\* What the topic says up to the source's place, behind the first events, is applied.
AppliedFrom(from) ==
  \A k \in Records(SourceLog, source.pos) : from < k => Applied(stream[k].id)

RowsAreRecords ==
  \A m \in 1..Len(source.rows) :
    /\ source.rows[m].id <= source.max
    /\ \E k \in Records(SourceLog, source.pos) :
         /\ stream[k].id = source.rows[m].id
         /\ Len(source.rows) - m <= source.pos - k

\* A source starts where all that comes before is old.
StartsEarly ==
  \E from \in 0..source.pos :
    /\ from = 0 \/ from <= Len(stream) - Replay
    /\ AppliedFrom(from)

SourceInv ==
  /\ source.max \in {0} \cup Said(SourceLog, source.pos)
  /\ RowsAreRecords
  /\ StartsEarly
  /\ source.caughtUp => AppliedFrom(0)

LEMMA FarBelow ==
  ASSUME NEW d \in Int, NEW top \in Nat, NEW id \in Nat, NEW noise \in Nat,
         d >= Replay, d <= top - id + noise, noise <= MaxNoise
  PROVE  id <= top - Window - Slide + 1
<1>1. {Window, Slide, Replay, MaxNoise} \subseteq Nat /\ Replay >= Window + Slide - 1 + MaxNoise
  BY Constants
<1> QED BY <1>1

\* What was said Replay events ago is old.
LEMMA LongAgo ==
  ASSUME TypeInv, FewEvents, NEW n \in 1..Len(stream), NEW k \in Records(LogAt(n), n),
         n - k >= Replay
  PROVE  \E top \in Said(LogAt(n), n) : stream[k].id <= top - Window - Slide + 1
<1>1. PICK top \in Said(LogAt(n), n) : n - k <= top - stream[k].id + relay.noise
  BY DEF FewEvents, FewSince
<1>2. relay.noise \in 0..MaxNoise /\ stream \in Seq(Event) /\ n \in 0..Len(stream) /\ n \in Nat
  BY DEF TypeInv, StreamTypes
<1>3. top \in 0..MaxScans /\ k \in 1..n
  BY <1>2, LogTypes DEF Records
<1>4. stream[k].id \in 0..MaxScans
  <2>1. k \in 1..Len(stream)
    BY <1>2, <1>3
  <2>2. stream[k] \in Event
    BY <1>2, <2>1
  <2> QED BY <2>2 DEF Event
<1>5. stream[k].id <= top - Window - Slide + 1
  <2>1. n - k \in Int
    BY <1>2, <1>3
  <2>2. top \in Nat /\ stream[k].id \in Nat /\ relay.noise \in Nat /\ relay.noise <= MaxNoise
    BY <1>2, <1>3, <1>4, Constants
  <2> QED BY <1>1, <2>1, <2>2, FarBelow
<1> QED BY <1>5

LEMMA SourceStays ==
  ASSUME TypeInv, SourceInv, NEW e \in Event, Stored(e), UNCHANGED source
  PROVE  SourceInv'
<1>n. PICK n \in Nat : n = Len(stream)
  BY DEF TypeInv, StreamTypes
<1>p. PICK p \in 0..n : p = source.pos
  BY <1>n DEF TypeInv, SourceTypes
<1>g. PICK g : g = SourceLog
  OBVIOUS
<1>0. stream \in Seq(Event) /\ p \in 0..Len(stream)
  BY <1>n, <1>p DEF TypeInv, StreamTypes
<1>1. Len(stream') = n + 1 /\ \A k \in 1..n : stream'[k] = stream[k]
  BY <1>n, <1>0, Joins
<1>2. SourceLog' = g
  <2>1. \A k \in 0..n : LogAt(k)' = LogAt(k)
    BY <1>n, <1>0, Joins
  <2> QED BY <1>p, <1>g, <2>1 DEF SourceLog, LogAt
<1>3. Records(g, p)' = Records(g, p) /\ Said(g, p)' = Said(g, p)
  BY <1>0, SaidStays
<1>R. PICK R, S : R = Records(g, p) /\ S = Said(g, p)
  OBVIOUS
<1>4. /\ Records(SourceLog, source.pos) = R /\ Said(SourceLog, source.pos) = S
      /\ Records(SourceLog, source.pos)' = R /\ Said(SourceLog, source.pos)' = S
  BY <1>p, <1>g, <1>2, <1>3, <1>R
<1>5. \A k \in R : k \in 1..n /\ stream'[k] = stream[k]
  BY <1>1, <1>p, <1>R DEF Records
<1>6. \A i : Applied(i)' = Applied(i)
  BY <1>4 DEF Applied, Known, Old
<1>7. \A from : AppliedFrom(from) => AppliedFrom(from)'
  BY <1>4, <1>5, <1>6 DEF AppliedFrom
<1>8. RowsAreRecords'
  <2>1. RowsAreRecords
    BY DEF SourceInv
  <2>2. \A k \in R : stream'[k] = stream[k]
    BY <1>5
  <2> QED BY <1>4, <2>1, <2>2 DEF RowsAreRecords
<1>9. StartsEarly'
  <2>1. PICK from \in 0..p : (from = 0 \/ from <= n - Replay) /\ AppliedFrom(from)
    BY <1>n, <1>p DEF SourceInv, StartsEarly
  <2>2. AppliedFrom(from)' /\ (from = 0 \/ from <= n + 1 - Replay)
    BY <1>7, <2>1, Constants
  <2>3. source'.pos = p
    BY <1>p
  <2>4. (from = 0 \/ from <= Len(stream) - Replay)'
    BY <1>1, <2>2, Constants
  <2>5. from \in 0..source'.pos
    BY <2>3
  <2> QED BY <2>2, <2>4, <2>5 DEF StartsEarly
<1> QED BY <1>4, <1>7, <1>8, <1>9 DEF SourceInv

\* When it has reached the end, it has applied all that is not old.
LEMMA ReachesEnd ==
  ASSUME TypeInv, SourceInv, FewEvents, source.pos = Len(stream)
  PROVE  AppliedFrom(0)
<1>n. PICK n \in Nat : n = Len(stream) /\ n = source.pos
  BY DEF TypeInv, StreamTypes
<1>g. PICK g : g = LogAt(n) /\ g = SourceLog
  BY <1>n DEF SourceLog
<1>S. PICK R, S : R = Records(g, n) /\ S = Said(g, n)
  OBVIOUS
<1>0. stream \in Seq(Event) /\ n \in 0..Len(stream)
  BY <1>n DEF TypeInv, StreamTypes
<1>1. R \subseteq 1..n /\ S \subseteq 0..MaxScans
  BY <1>0, <1>S, LogTypes
<1>2. PICK from \in 0..n : (from = 0 \/ from <= n - Replay) /\ AppliedFrom(from)
  BY <1>n DEF SourceInv, StartsEarly
<1>3. ASSUME NEW k \in R, k <= from
      PROVE  \E top \in S : stream[k].id <= top - Window - Slide + 1
  <2>1. n - k >= Replay /\ n \in 1..Len(stream)
    BY <1>n, <1>1, <1>2, <1>3, Constants
  <2> QED BY <1>g, <1>S, <1>3, <2>1, LongAgo
<1>4. \A k \in R : from < k => Applied(stream[k].id)
  BY <1>n, <1>g, <1>S, <1>2 DEF AppliedFrom
<1>5. ASSUME NEW k \in R PROVE stream[k].id \in S /\ stream[k].id \in Nat
  <2>1. stream[k].id \in S
    BY <1>S DEF Said
  <2>2. S \subseteq Nat
    BY <1>1, Bounds
  <2> QED BY <2>1, <2>2
<1>6. source.max \in Nat
  BY Bounds DEF TypeInv, SourceTypes
<1>7. ASSUME S # {} PROVE \A i \in S : i <= source.max
  <2>1. S \in SUBSET Nat /\ \A j \in S : j <= MaxScans
    BY <1>1, Bounds
  <2>2. PICK h \in S : \A j \in S : j <= h
    BY <1>7, <2>1, Bounds, HighestNumber
  <2>3. PICK k \in R : stream[k].id = h
    BY <1>S, <2>2 DEF Said
  <2>4. from < k
    <3>1. ASSUME k <= from PROVE FALSE
      <4>1. PICK top \in S : h <= top - Window - Slide + 1
        BY <1>3, <2>3, <3>1
      <4> QED BY <2>1, <2>2, <4>1, Constants
    <3> QED BY <1>1, <1>2, <3>1
  <2>5. h <= source.max
    BY <1>4, <2>3, <2>4 DEF Applied
  <2> QED BY <1>6, <2>1, <2>2, <2>5
<1>8. ASSUME NEW k \in R PROVE Applied(stream[k].id)
  <2>1. CASE from < k
    BY <1>4, <2>1
  <2>2. CASE k <= from
    <3>1. Old(stream[k].id)
      BY <1>n, <1>g, <1>S, <1>3, <2>2 DEF Old
    <3>2. stream[k].id <= source.max
      BY <1>5, <1>7
    <3> QED BY <3>1, <3>2 DEF Applied
  <2> QED BY <1>1, <1>2, <2>1, <2>2
<1> QED BY <1>n, <1>g, <1>S, <1>8 DEF AppliedFrom

\* A row joins the others, and the oldest may go.
LEMMA InsertedIs ==
  ASSUME SourceTypes, NEW row \in Row, NEW n \in Nat, n = Len(source.rows)
  PROVE  \/ /\ n < Keep /\ Len(Inserted(row)) = n + 1 /\ Inserted(row)[n + 1] = row
            /\ \A m \in 1..n : Inserted(row)[m] = source.rows[m]
         \/ /\ n = Keep /\ n > 0 /\ Len(Inserted(row)) = n /\ Inserted(row)[n] = row
            /\ \A m \in 1..(n - 1) : Inserted(row)[m] = source.rows[m + 1]
<1>1. source.rows \in Seq(Row) /\ n <= Keep /\ Keep \in Nat \ {0}
  BY Constants DEF SourceTypes
<1>a. Append(source.rows, row) \in Seq(Row)
  BY <1>1
<1>2. PICK s \in Seq(Row) : s = Append(source.rows, row)
  BY <1>a
<1>3. /\ Len(s) = n + 1 /\ s[n + 1] = row /\ \A m \in 1..n : s[m] = source.rows[m]
  BY <1>1, <1>2
<1>4. CASE n < Keep
  <2>1. Inserted(row) = s
    BY <1>1, <1>2, <1>3, <1>4 DEF Inserted
  <2> QED BY <1>3, <1>4, <2>1
<1>5. CASE n = Keep
  <2>1. Inserted(row) = Tail(s)
    BY <1>1, <1>2, <1>3, <1>5 DEF Inserted
  <2>2. Len(Tail(s)) = n /\ \A m \in 1..n : Tail(s)[m] = s[m + 1]
    BY <1>2, <1>3
  <2> QED BY <1>1, <1>3, <1>5, <2>1, <2>2
<1> QED BY <1>1, <1>4, <1>5

LEMMA SourceAppliesStep ==
  ASSUME TypeInv, SourceInv, FewEvents, SourceApplies
  PROVE  SourceInv'
<1>n. PICK n \in Nat : n = Len(source.rows)
  BY DEF TypeInv, SourceTypes
<1>p. PICK p \in Nat, q \in Nat : p = source.pos /\ q = p + 1 /\ q \in 1..Len(stream)
  BY Applies DEF TypeInv, SourceTypes, StreamTypes
<1>e. PICK e \in Event : e = NextEvent /\ e = stream[q]
  BY <1>p, Applies DEF TypeInv, NextEvent
<1>g. PICK g \in Nat : g = SourceLog
  BY NextFollows, Applies DEF TypeInv
<1>0. stream' = stream /\ source'.pos = q /\ source'.caughtUp = source.caughtUp
      /\ stream \in Seq(Event) /\ q - 1 = p /\ p \in 0..(Len(stream) - 1)
  BY <1>p, Applies DEF SourceApplies, TypeInv, StreamTypes
<1>R. PICK R, S, Rx, Sx : /\ R = Records(g, p) /\ S = Said(g, p)
                          /\ Rx = Records(g, q) /\ Sx = Said(g, q)
  OBVIOUS
<1>1. /\ Records(SourceLog, source.pos) = R /\ Said(SourceLog, source.pos) = S
  BY <1>p, <1>g, <1>R
<1>2. \A k \in R : k \in 1..p
  BY <1>R DEF Records
<1>3. SourceLog' = e.log
  BY <1>0, <1>p, <1>e DEF SourceLog, LogAt
<1>4. CASE e.type = "scan-log-reset"
  <2>1. source'.rows = <<>> /\ source'.max = 0
    BY <1>e, <1>4, Applies DEF TypeInv
  <2>2. PICK h \in Nat : h = e.log /\ g < h
    BY <1>p, <1>e, <1>g, <1>4, NextFollows
  <2>3. Records(h, q) = {}
    <3>1. Records(h, p) = {}
      <4>1. p \in 0..Len(stream) /\ LogAt(p) = g
        BY <1>0, <1>p, <1>g DEF SourceLog
      <4> QED BY <2>2, <4>1, NoneYet DEF TypeInv
    <3>2. Records(h, q) = Records(h, p)
      <4>1. stream \in Seq(Event) /\ p \in 0..(Len(stream) - 1)
        BY <1>0
      <4>2. Records(h, p + 1) = Records(h, p) \cup
              (IF stream[p + 1].type = "scan-recorded" /\ stream[p + 1].log = h THEN {p + 1} ELSE {})
        BY <4>1, SaidNext DEF Tells
      <4> QED BY <1>p, <1>e, <1>4, <4>2
    <3> QED BY <3>1, <3>2
  <2>4. Records(SourceLog, source.pos)' = {}
    <3>1. Records(h, q)' = {}
      BY <1>0, <2>3 DEF Records
    <3> QED BY <1>0, <1>3, <2>2, <3>1
  <2>5. AppliedFrom(0)'
    BY <2>4 DEF AppliedFrom
  <2>6. StartsEarly'
    <3>1. 0 \in 0..source'.pos
      BY <1>0
    <3> QED BY <2>5, <3>1 DEF StartsEarly
  <2>7. RowsAreRecords'
    BY <2>1 DEF RowsAreRecords
  <2> QED BY <2>1, <2>5, <2>6, <2>7 DEF SourceInv
<1>5. CASE e.type = "scan-recorded"
  <2>1. e.log = g /\ e.id \in Ids /\ e.id \in Nat
    <3>1. e.log = g /\ e.id \in Ids
      BY <1>p, <1>e, <1>g, <1>5, NextFollows
    <3> QED BY <3>1, Bounds
  <2>2. Rx = R \cup {q} /\ Sx = S \cup {e.id}
    <3>1. q = p + 1 /\ stream[p + 1] = e
      BY <1>p, <1>e
    <3>2. /\ Records(g, p + 1) = Records(g, p) \cup Tells(stream[p + 1], g, p + 1)
          /\ Said(g, p + 1) = Said(g, p) \cup Tells(stream[p + 1], g, stream[p + 1].id)
      BY <1>0, SaidNext
    <3>3. Rx = R \cup Tells(e, g, q) /\ Sx = S \cup Tells(e, g, e.id)
      BY <1>R, <3>1, <3>2
    <3> QED BY <1>5, <2>1, <3>3 DEF Tells
  <2>3. Records(SourceLog, source.pos)' = Rx /\ Said(SourceLog, source.pos)' = Sx
    <3>1. Records(g, q)' = Rx /\ Said(g, q)' = Sx
      BY <1>0, <1>R DEF Said, Records
    <3> QED BY <1>0, <1>3, <2>1, <3>1
  <2>4. \A k \in Rx : k \in 1..q /\ stream[k].id \in Sx
    BY <1>p, <1>2, <1>R DEF Said, Records
  <2>m. source.max \in Nat /\ source.rows \in Seq(Row)
    BY Bounds DEF TypeInv, SourceTypes
  <2>5. /\ source'.max \in Nat /\ source.max <= source'.max
        /\ source'.max \in {0} \cup Sx
    BY <1>e, <1>1, <1>5, <2>1, <2>2, <2>m, Applies DEF Above, TypeInv, SourceInv
  <2>6. ASSUME NEW k \in R, q - k >= Replay PROVE Old(stream[k].id)'
    <3>1. k \in Records(LogAt(q), q) /\ LogAt(q) = g
      BY <1>0, <1>p, <1>e, <1>R, <2>1, <2>2, <2>6 DEF LogAt
    <3>2. PICK top \in Sx : stream[k].id <= top - Window - Slide + 1
      BY <1>p, <1>R, <2>6, <3>1, LongAgo
    <3> QED BY <1>0, <2>3, <3>2 DEF Old
  <2>7. RowsAreRecords' /\ (\A i : Known(i) => (Known(i) \/ Old(i))') /\ Known(e.id)'
        /\ e.id <= source'.max
    <3>1. CASE Known(e.id)
      <4>1. source'.rows = source.rows /\ source'.max = source.max
        BY <1>e, <1>5, <3>1, Applies DEF TypeInv
      <4>2. \A i : Known(i)' = Known(i)
        BY <4>1 DEF Known
      <4>3. e.id <= source.max
        BY <3>1 DEF Known, SourceInv, RowsAreRecords
      <4>4. RowsAreRecords'
        <5>1. ASSUME NEW m \in 1..n
              PROVE  \E k \in Rx : stream[k].id = source.rows[m].id /\ n - m <= q - k
          <6>1. PICK k \in R : stream[k].id = source.rows[m].id /\ n - m <= p - k
            BY <1>n, <1>p, <1>1 DEF SourceInv, RowsAreRecords
          <6>2. k \in Rx /\ k \in 1..p
            BY <1>2, <2>2, <6>1
          <6>3. n - m <= q - k
            BY <1>p, <6>1, <6>2
          <6> QED BY <6>1, <6>2, <6>3
        <5>2. \A m \in 1..n : source.rows[m].id <= source.max
          BY <1>n DEF SourceInv, RowsAreRecords
        <5> QED BY <1>n, <1>0, <2>3, <4>1, <5>1, <5>2 DEF RowsAreRecords
      <4> QED BY <3>1, <4>1, <4>2, <4>3, <4>4
    <3>2. CASE ~ Known(e.id)
      <4> DEFINE row == [id |-> e.id, log |-> e.log]
      <4>1. row \in Row /\ row.id = e.id
        BY <2>1, Bounds DEF Row, Event
      <4>2. source'.rows = Inserted(row) /\ source'.max = Above(source.max, e.id)
        BY <1>e, <1>5, <3>2, Applies DEF TypeInv
      <4> HIDE DEF row
      <4>3. e.id <= source'.max
        BY <2>1, <2>m, <4>2 DEF Above
      <4>4. ASSUME NEW m \in 1..n
            PROVE  /\ source.rows[m].id <= source'.max
                   /\ \E k \in R : stream[k].id = source.rows[m].id /\ n - m <= p - k
        <5>1. source.rows[m].id <= source.max /\ source.rows[m] \in Row
          BY <1>n, <2>m DEF SourceInv, RowsAreRecords
        <5>2. source.rows[m].id \in Nat
          BY <5>1, Bounds DEF Row
        <5>3. \E k \in R : stream[k].id = source.rows[m].id /\ n - m <= p - k
          BY <1>n, <1>p, <1>1 DEF SourceInv, RowsAreRecords
        <5> QED BY <2>5, <2>m, <5>1, <5>2, <5>3
      <4>5. PICK s \in Seq(Row), l \in Nat : s = source'.rows /\ l = Len(s)
        BY Applies DEF TypeInv, SourceTypes
      <4>6. CASE n < Keep /\ l = n + 1 /\ s[n + 1] = row /\ \A m \in 1..n : s[m] = source.rows[m]
        <5>1. ASSUME NEW m \in 1..l
              PROVE  s[m].id <= source'.max /\ \E k \in Rx : stream[k].id = s[m].id /\ l - m <= q - k
          <6>1. CASE m = l
            BY <1>p, <1>e, <2>2, <4>1, <4>3, <4>6, <6>1
          <6>2. CASE m \in 1..n
            <7>1. PICK k \in R : stream[k].id = source.rows[m].id /\ n - m <= p - k
              BY <4>4, <6>2
            <7>2. k \in Rx
              BY <2>2, <7>1
            <7>3. k \in Nat /\ m \in Nat /\ l = n + 1 /\ q = p + 1 /\ n - m <= p - k
              <8>1. k \in 1..p
                BY <1>2, <7>1
              <8> QED BY <1>p, <1>n, <4>6, <6>2, <7>1, <8>1
            <7>4. l - m <= q - k
              BY <7>3
            <7> QED BY <4>4, <4>6, <6>2, <7>1, <7>2, <7>4
          <6> QED BY <4>6, <6>1, <6>2
        <5>2. RowsAreRecords'
          BY <1>0, <2>3, <4>5, <5>1 DEF RowsAreRecords
        <5>3. \A i : Known(i) => Known(i)'
          BY <1>n, <4>5, <4>6 DEF Known
        <5>4. Known(e.id)'
          BY <4>1, <4>5, <4>6 DEF Known
        <5> QED BY <4>3, <5>2, <5>3, <5>4
      <4>7. CASE n = Keep /\ n > 0 /\ l = n /\ s[n] = row /\ \A m \in 1..(n - 1) : s[m] = source.rows[m + 1]
        <5>1. ASSUME NEW m \in 1..l
              PROVE  s[m].id <= source'.max /\ \E k \in Rx : stream[k].id = s[m].id /\ l - m <= q - k
          <6>1. CASE m = l
            BY <1>p, <1>e, <2>2, <4>1, <4>3, <4>7, <6>1
          <6>2. CASE m \in 1..(n - 1)
            <7>0. m + 1 \in 1..n /\ s[m] = source.rows[m + 1]
              BY <4>7, <6>2
            <7>1. PICK k \in R : stream[k].id = source.rows[m + 1].id /\ n - (m + 1) <= p - k
              BY <4>4, <7>0
            <7>2. k \in Rx /\ k \in 1..p
              BY <1>2, <2>2, <7>1
            <7>3. k \in Nat /\ m \in Nat /\ l = n /\ q = p + 1 /\ n - (m + 1) <= p - k
              BY <1>p, <1>n, <4>7, <6>2, <7>1, <7>2
            <7>4. l - m <= q - k
              BY <7>3
            <7> QED BY <4>4, <7>0, <7>1, <7>2, <7>4
          <6> QED BY <4>7, <6>1, <6>2
        <5>2. RowsAreRecords'
          BY <1>0, <2>3, <4>5, <5>1 DEF RowsAreRecords
        <5>3. ASSUME NEW i, Known(i) PROVE (Known(i) \/ Old(i))'
          <6>1. PICK m \in 1..n : source.rows[m].id = i
            BY <1>n, <5>3 DEF Known
          <6>2. CASE m = 1
            <7>1. PICK k \in R : stream[k].id = i /\ n - 1 <= p - k
              BY <4>4, <6>1, <6>2
            <7>2. q - k >= Replay
              <8>1. k \in 1..p
                BY <1>2, <7>1
              <8>2. k \in Nat /\ q = p + 1 /\ n = Keep /\ n - 1 <= p - k
                BY <1>p, <4>7, <7>1, <8>1
              <8> QED BY <8>2, Constants
            <7>3. Old(i)'
              BY <1>0, <2>6, <7>1, <7>2
            <7> QED BY <7>3
          <6>3. CASE m # 1
            <7>1. m - 1 \in 1..(n - 1) /\ s[m - 1] = source.rows[(m - 1) + 1] /\ (m - 1) + 1 = m
              BY <4>7, <6>1, <6>3
            <7>2. m - 1 \in 1..l /\ s[m - 1].id = i
              BY <4>7, <6>1, <7>1
            <7> QED BY <4>5, <7>2 DEF Known
          <6> QED BY <6>2, <6>3
        <5>4. Known(e.id)'
          BY <4>1, <4>5, <4>7 DEF Known
        <5> QED BY <4>3, <5>2, <5>3, <5>4
      <4> QED BY <1>n, <4>1, <4>2, <4>5, <4>6, <4>7, InsertedIs DEF TypeInv
    <3> QED BY <3>1, <3>2
  <2>8. ASSUME NEW i \in Nat, Applied(i) PROVE Applied(i)'
    <3>1. ASSUME Old(i) PROVE Old(i)'
      BY <1>1, <2>2, <2>3, <3>1 DEF Old
    <3>2. i <= source'.max
      BY <2>5, <2>8, <2>m DEF Applied
    <3> QED BY <2>7, <2>8, <3>1, <3>2 DEF Applied
  <2>9. ASSUME NEW from \in Nat, AppliedFrom(from) PROVE AppliedFrom(from)'
    <3>1. ASSUME NEW k \in Rx, from < k PROVE Applied(stream[k].id)'
      <4>1. CASE k = q
        <5>1. PICK i \in Nat : i = e.id
          BY <2>1
        <5>2. Applied(i)'
          BY <2>7, <5>1 DEF Applied
        <5> QED BY <1>0, <1>e, <4>1, <5>1, <5>2
      <4>2. CASE k \in R
        <5>1. Applied(stream[k].id)
          BY <1>1, <2>9, <3>1, <4>2 DEF AppliedFrom
        <5>2. stream[k].id \in Nat
          <6>1. S \subseteq 0..MaxScans
            BY <1>0, <1>R, LogTypes
          <6> QED BY <1>R, <4>2, <6>1, Bounds DEF Said
        <5>3. PICK i \in Nat : i = stream[k].id
          BY <5>2
        <5> QED BY <1>0, <2>8, <5>1, <5>3
      <4> QED BY <2>2, <3>1, <4>1, <4>2
    <3> QED BY <1>0, <2>3, <3>1 DEF AppliedFrom
  <2>10. StartsEarly'
    <3>1. PICK from \in 0..p : (from = 0 \/ from <= Len(stream) - Replay) /\ AppliedFrom(from)
      BY <1>p DEF SourceInv, StartsEarly
    <3>2. AppliedFrom(from)' /\ from \in 0..source'.pos
      BY <1>0, <1>p, <2>9, <3>1
    <3> QED BY <1>0, <3>1, <3>2 DEF StartsEarly
  <2> QED BY <1>0, <2>3, <2>5, <2>7, <2>9, <2>10 DEF SourceInv
<1> QED BY <1>4, <1>5 DEF Event

\* A step that leaves the topic alone and what the source has got.
LEMMA SameSource ==
  ASSUME UNCHANGED stream, source'.pos = source.pos, source'.rows = source.rows,
         source'.max = source.max
  PROVE  /\ SourceLog' = SourceLog /\ StartsEarly' = StartsEarly
         /\ RowsAreRecords' = RowsAreRecords /\ AppliedFrom(0)' = AppliedFrom(0)
         /\ Said(SourceLog, source.pos)' = Said(SourceLog, source.pos)
<1>1. \A n : LogAt(n)' = LogAt(n)
  BY DEF LogAt
<1>2. SourceLog' = SourceLog
  BY <1>1 DEF SourceLog
<1>3. \A g, n : Records(g, n)' = Records(g, n) /\ Said(g, n)' = Said(g, n)
  BY DEF Said, Records
<1>4. /\ Records(SourceLog, source.pos)' = Records(SourceLog, source.pos)
      /\ Said(SourceLog, source.pos)' = Said(SourceLog, source.pos)
  BY <1>2, <1>3
<1>5. \A i : Applied(i)' = Applied(i)
  BY <1>4 DEF Applied, Known, Old
<1>6. \A from : AppliedFrom(from)' = AppliedFrom(from)
  BY <1>4, <1>5 DEF AppliedFrom
<1>7. RowsAreRecords' = RowsAreRecords
  BY <1>4 DEF RowsAreRecords
<1>8. StartsEarly' = StartsEarly
  BY <1>6 DEF StartsEarly
<1> QED BY <1>2, <1>4, <1>6, <1>7, <1>8

LEMMA SourceInvStep ==
  ASSUME ~ EmptyPollsLie, TypeInv, SourceInv, FewEvents, WindowsNext
  PROVE  SourceInv'
<1>1. ASSUME NEW i \in Ids, ScanArrives(i) PROVE SourceInv'
  <2>1. Recorded(i, relay.log) \in Event
    BY Bounds DEF Recorded, Event, TypeInv, StreamTypes
  <2> QED BY <1>1, <2>1, SourceStays DEF ScanArrives, Arrives
<1>2. CASE LogReplaced
  <2>1. LogReset(relay.log + 1) \in Event
    BY <1>2, Bounds DEF LogReplaced, LogReset, Event, TypeInv, StreamTypes
  <2> QED BY <1>2, <2>1, SourceStays DEF LogReplaced, Arrives
<1>3. CASE SourceCatchesUp
  <2>1. source.pos = Len(stream) /\ stream' = stream /\ source' = [source EXCEPT !.caughtUp = TRUE]
    BY <1>3 DEF SourceCatchesUp
  <2>2. AppliedFrom(0)
    BY <2>1, ReachesEnd
  <2>3. source'.pos = source.pos /\ source'.rows = source.rows /\ source'.max = source.max
    BY <2>1 DEF TypeInv, SourceTypes
  <2> QED BY <2>1, <2>2, <2>3, SameSource DEF SourceInv
<1>4. CASE ProcessStarts
  <2>1. /\ stream' = stream /\ source'.pos = Above(0, Len(stream) - Replay) /\ source'.rows = <<>>
        /\ source'.max = 0 /\ source'.caughtUp = FALSE
    BY <1>4 DEF ProcessStarts, FreshSource
  <2>2. PICK from \in Nat : from = Above(0, Len(stream) - Replay)
    <3>1. Len(stream) \in Nat
      BY DEF TypeInv, StreamTypes
    <3>2. Above(0, Len(stream) - Replay) \in Nat
      BY <3>1, Constants DEF Above
    <3> QED BY <3>2
  <2>3. from = 0 \/ from <= Len(stream) - Replay
    BY <2>2, Constants DEF Above, TypeInv, StreamTypes
  <2>4. \A k \in Records(SourceLog, source.pos)' : k \in 1..from
    BY <2>1, <2>2 DEF Records
  <2>5. AppliedFrom(from)'
    BY <2>4 DEF AppliedFrom
  <2>6. StartsEarly'
    BY <2>1, <2>2, <2>3, <2>5 DEF StartsEarly
  <2>7. RowsAreRecords'
    BY <2>1 DEF RowsAreRecords
  <2> QED BY <2>1, <2>6, <2>7 DEF SourceInv
<1>5. CASE UNCHANGED <<stream, source>>
  BY <1>5, SameSource DEF SourceInv
<1>6. \/ \E i \in Ids : ScanArrives(i)
      \/ LogReplaced \/ SourceApplies \/ SourceCatchesUp \/ ProcessStarts
      \/ UNCHANGED <<stream, source>>
  BY DEF WindowsNext, Works, Bootstrap, StartsOver, BackoffEnds, Drain, TailPass, TailSkips, Passes,
      Filters, OutputFilter, PipelineFails, Stop
<1> QED BY <1>1, <1>2, <1>3, <1>4, <1>5, <1>6, SourceAppliesStep

-----------------------------------------------------------------------------
(* The tail *)

\* The source has all that the tail has not passed, what is pending has nothing below
\* it that is not, and a hole ends below the lowest that is pending.
TailReads ==
  /\ \A i \in Said(tail.of, source.pos) : tail.last < i => Known(i)
  /\ \A r \in tail.pending :
       /\ tail.last < r.id /\ r.id \in Said(tail.of, source.pos)
       /\ \A i \in Said(tail.of, source.pos) :
            tail.last < i /\ i < r.id => \E p \in tail.pending : p.id = i
  /\ tail.hole => \E r \in tail.pending : tail.upto = r.id - 1 /\ tail.last < tail.upto
                    /\ \A p \in tail.pending : r.id <= p.id

TailInv ==
  PipelineRuns =>
    /\ source.caughtUp
    /\ SourceLog = tail.of => tail.last <= source.max
    /\ Passed(tail.of, tail.last)
    /\ sup = "running" /\ SourceLog = tail.of => TailReads

\* What is read is said, and has nothing below it that is not read.
LEMMA ReadsAreSaid ==
  ASSUME TypeInv, SourceInv, TailReads, MayPass, NEW S, S = Said(tail.of, source.pos)
  PROVE  \A r \in Reads :
           /\ tail.last < r.id /\ r.id \in S
           /\ \A i \in S : tail.last < i /\ i < r.id => \E p \in Reads : p.id = i
<1> DEFINE above == {r \in ToSet(source.rows) : r.id > tail.last}
           batch == {r \in above : Cardinality({x \in above : x.id < r.id}) < TailBatch}
<1>0. SourceLog = tail.of /\ tail.pending \subseteq Reads /\ Reads = tail.pending \cup batch
  BY ReadsAre DEF Reads
<1>1. source.rows \in Seq(Row) /\ tail.last \in Nat /\ TailBatch \in Nat
  BY Constants DEF TypeInv, SourceTypes, TailTypes
<1>2. above \in SUBSET Row
  BY <1>1 DEF ToSet
<1>3. ASSUME NEW r \in above PROVE r.id \in S
  <2>1. PICK m \in 1..Len(source.rows) : r = source.rows[m]
    BY <1>3 DEF ToSet
  <2>2. \E k \in Records(SourceLog, source.pos) : stream[k].id = source.rows[m].id
    BY DEF SourceInv, RowsAreRecords
  <2> QED BY <1>0, <2>1, <2>2 DEF Said
<1>4. ASSUME NEW r \in batch, NEW i \in S, tail.last < i, i < r.id
      PROVE  \E p \in batch : p.id = i
  <2>1. Known(i)
    BY <1>4 DEF TailReads
  <2>2. PICK p \in above : p.id = i
    BY <1>4, <2>1 DEF Known, ToSet
  <2> DEFINE B(x) == {y \in above : y.id < x.id}
  <2>3. p \in Row /\ r \in Row /\ p.id < r.id
    BY <1>2, <1>4, <2>2
  <2>4. B(p) \subseteq B(r)
    <3>1. \A y \in above : y.id \in Nat
      BY <1>2, Constants DEF Row
    <3>2. p.id \in Nat /\ r.id \in Nat
      BY <2>3, Constants DEF Row
    <3> HIDE DEF above
    <3> QED BY <2>3, <3>1, <3>2
  <2>5. IsFiniteSet(B(r)) /\ IsFiniteSet(B(p))
    <3>1. B(r) \in SUBSET Row /\ B(p) \in SUBSET Row
      BY <1>2
    <3> HIDE DEF B
    <3> QED BY <3>1, RowsFinite
  <2>6. Cardinality(B(p)) <= Cardinality(B(r)) /\ Cardinality(B(p)) \in Nat /\ Cardinality(B(r)) \in Nat
    BY <2>4, <2>5, FS_Subset, FS_CardinalityType
  <2>7. Cardinality(B(r)) < TailBatch
    BY <1>4
  <2>8. Cardinality(B(p)) < TailBatch
    <3> HIDE DEF B
    <3> QED BY <1>1, <2>6, <2>7
  <2>9. p \in batch
    BY <2>2, <2>8
  <2> QED BY <2>2, <2>9
<1>5. ASSUME NEW r \in batch PROVE tail.last < r.id /\ r.id \in S
  <2>1. r \in above /\ tail.last < r.id
    BY <1>1, <1>2, Constants DEF Row
  <2> QED BY <1>3, <2>1
<1> HIDE DEF above, batch
<1>6. ASSUME NEW r \in tail.pending
      PROVE  /\ tail.last < r.id /\ r.id \in S
             /\ \A i \in S : tail.last < i /\ i < r.id => \E p \in Reads : p.id = i
  BY <1>0 DEF TailReads
<1> QED BY <1>0, <1>4, <1>5, <1>6

\* There is nothing in the hole.
LEMMA HoleIsEmpty ==
  ASSUME TypeInv, SourceInv, TailReads, MayPass, tail.hole, NEW S, S = Said(tail.of, source.pos)
  PROVE  \E r \in tail.pending :
           /\ r \in Reads /\ r.id \in S /\ r.id \in Nat /\ tail.upto = r.id - 1 /\ tail.last < tail.upto
           /\ \A p \in Reads : r.id <= p.id
           /\ \A i \in S : tail.last < i => r.id <= i
<1>1. PICK r \in tail.pending : tail.upto = r.id - 1 /\ tail.last < tail.upto
                    /\ \A p \in tail.pending : r.id <= p.id
  BY DEF TailReads
<1>2. tail.pending \subseteq Reads /\ \A p \in Reads : p.id \in Nat
  BY ReadsAre, Constants
<1>3. S \subseteq Nat
  <2>1. source.pos \in 0..Len(stream) /\ stream \in Seq(Event)
    BY DEF TypeInv, StreamTypes, SourceTypes
  <2>2. S \subseteq 0..MaxScans
    BY <2>1, LogTypes
  <2> QED BY <2>2, Constants
<1>4. ASSUME NEW i \in S, tail.last < i, ~ (r.id <= i) PROVE FALSE
  <2>1. i < r.id
    BY <1>1, <1>2, <1>3, <1>4
  <2>2. PICK p \in tail.pending : p.id = i
    BY <1>1, <1>4, <2>1 DEF TailReads
  <2> QED BY <1>1, <1>4, <2>2
<1>5. \A p \in Reads : tail.last < p.id /\ p.id \in S
  BY ReadsAreSaid
<1> QED BY <1>1, <1>2, <1>4, <1>5

\* The rows of the scans of log g with an id in (a, b].
RowsOf(g, a, b) == {[id |-> i, log |-> g] : i \in ScansIn(g, a, b)}

\* A pass takes all scans up to where it ends.
PassTakes(c, rows) ==
  /\ c \in tail.last..MaxScans /\ (c = tail.last \/ c \in Said(tail.of, source.pos))
  /\ rows = RowsOf(tail.of, tail.last, c)
  /\ q1' = q1 \o Advance(tail.last, c, rows)
  /\ window' = Newest(Window + Slide, window \cup rows)
  /\ cursor' = c
  /\ tail'.last = c /\ tail'.first = tail.first /\ tail'.next = NextBoundary(c)
  /\ tail'.log = tail.log /\ tail'.of = tail.of

\* A pass that starts after b, below which there is nothing to read.
LEMMA PassTo ==
  ASSUME TypeInv, SaidInOrder, SourceInv, TailReads, MayPass,
         NEW b \in tail.last..MaxScans, NEW hole \in BOOLEAN, NEW upto \in 0..MaxScans,
         NEW c, c = Drained(b, Reads), Passes(Reads, b, c, hole, upto),
         \A r \in Reads : b < r.id,
         \A i \in Said(tail.of, source.pos) : tail.last < i => b < i,
         b = tail.last \/ \E r \in Reads : r.id = b + 1,
         hole => \E r \in Reads : /\ c < r.id /\ upto = r.id - 1 /\ c < upto
                                  /\ \A p \in Reads : c < p.id => r.id <= p.id
  PROVE  PassTakes(c, {r \in Reads : r.id > b /\ r.id <= c}) /\ TailReads'
<1>g. PICK g : g = tail.of
  OBVIOUS
<1>S. PICK S : S = Said(g, source.pos)
  OBVIOUS
<1>a. PICK a \in Nat : a = tail.last
  BY Constants DEF TypeInv, TailTypes
<1>b. b \in Nat /\ a <= b /\ b \in 0..MaxScans /\ MaxScans \in Nat
  BY <1>a, Constants
<1> DEFINE A == {r \in Reads : r.id > b /\ r.id <= c}
<1>1. /\ Reads \in SUBSET Row /\ SourceLog = g
      /\ \A r \in Reads : r.id \in Ids /\ r.id \in Nat /\ r.log = g
  BY <1>g, ReadsAre, Constants
<1>2. /\ c \in b..MaxScans
      /\ \A i \in (b + 1)..c : \E r \in Reads : r.id = i
      /\ \A r \in Reads : r.id # c + 1
  BY <1>1, <1>b, DrainedEnds
<1>c. c \in Nat /\ b <= c
  BY <1>2, <1>b
<1>3. \A r \in Reads : /\ tail.last < r.id /\ r.id \in S
                       /\ \A i \in S : tail.last < i /\ i < r.id => \E p \in Reads : p.id = i
  BY <1>g, <1>S, ReadsAreSaid
<1>4. /\ tail'.last = c /\ tail'.first = tail.first /\ tail'.next = NextBoundary(c)
      /\ tail'.log = tail.log /\ tail'.of = g /\ tail'.pending = Reads \ A
      /\ tail'.hole = hole /\ tail'.upto = upto
  BY <1>g, PassDoes
<1>5. /\ q1' = q1 \o Advance(tail.last, c, A)
      /\ window' = Newest(Window + Slide, window \cup A) /\ cursor' = c
      /\ UNCHANGED <<stream, source>>
  BY DEF Passes
<1>6. source.pos \in 0..Len(stream) /\ stream \in Seq(Event) /\ Len(stream) \in Nat
      /\ source.pos \in Nat /\ source.pos <= Len(stream)
  BY DEF TypeInv, StreamTypes, SourceTypes
<1>7. S \subseteq Nat /\ S \subseteq Said(g, Len(stream)) /\ Said(g, Len(stream)) \subseteq Nat
  <2>1. S \subseteq 0..MaxScans /\ Said(g, Len(stream)) \subseteq 0..MaxScans
    BY <1>6, <1>S, LogTypes
  <2>2. S \subseteq Said(g, Len(stream))
    BY <1>6, <1>S, SaidMore
  <2> QED BY <2>1, <2>2, Constants
<1>8. c = a \/ c \in S
  <2>1. CASE c = b
    BY <1>a, <1>b, <1>2, <1>c, <2>1
  <2>2. CASE b + 1 <= c
    <3>1. \E r \in Reads : r.id = c
      BY <1>b, <1>2, <1>c, <2>2
    <3> QED BY <1>3, <3>1
  <2> QED BY <1>b, <1>c, <2>1, <2>2
<1>9. \A r \in A : r.id \in ScansIn(g, a, c)
  BY <1>a, <1>1, <1>3, <1>7 DEF ScansIn
<1>10. ASSUME NEW i \in ScansIn(g, a, c) PROVE \E r \in A : r.id = i
  <2>1. i \in Said(g, Len(stream)) /\ a < i /\ i <= c /\ i \in Nat
    BY <1>7 DEF ScansIn
  <2>2. c \in S
    BY <1>8, <1>a, <1>c, <2>1
  <2>3. i \in S
    BY <1>6, <1>S, <2>1, <2>2, SaidBefore
  <2>4. b < i
    BY <1>g, <1>S, <1>a, <2>1, <2>3
  <2>5. PICK r \in Reads : r.id = i
    BY <1>b, <1>2, <1>c, <2>1, <2>4
  <2> QED BY <2>1, <2>4, <2>5
<1>11. A = RowsOf(g, a, c)
  <2>1. \A r \in A : r = [id |-> r.id, log |-> g]
    BY <1>1 DEF Row
  <2> HIDE DEF A
  <2> QED BY <1>9, <1>10, <2>1 DEF RowsOf
<1>12. PassTakes(c, A)
  <2>1. c \in tail.last..MaxScans
    BY <1>a, <1>b, <1>2
  <2> HIDE DEF A
  <2> QED BY <1>g, <1>S, <1>a, <1>4, <1>5, <1>8, <1>11, <2>1 DEF PassTakes
<1>13. \A r \in Reads : r.id > b /\ (r \in A <=> r.id <= c)
  BY <1>1, <1>b
<1> HIDE DEF A
<1>14. TailReads'
  <2>1. Said(tail.of, source.pos)' = S
    <3>1. Said(g, source.pos)' = Said(g, source.pos)
      BY <1>5 DEF Said, Records
    <3> QED BY <1>S, <1>4, <3>1
  <2>2. \A i : Known(i)' = Known(i)
    BY <1>5 DEF Known
  <2>3. \A i \in S : c < i => Known(i)
    <3> TAKE i \in S
    <3>1. ASSUME c < i PROVE a < i
      BY <1>7, <1>b, <1>c, <3>1
    <3> QED BY <1>g, <1>S, <1>a, <3>1 DEF TailReads
  <2>4. ASSUME NEW r \in tail'.pending
        PROVE  /\ c < r.id /\ r.id \in S
               /\ \A i \in S : c < i /\ i < r.id => \E p \in tail'.pending : p.id = i
    <3>1. r \in Reads /\ ~ r.id <= c /\ r.id \in Nat
      BY <1>1, <1>4, <1>13
    <3>2. ASSUME NEW i \in S, c < i, i < r.id PROVE \E p \in tail'.pending : p.id = i
      <4>1. i \in Nat /\ tail.last < i /\ ~ i <= c
        BY <1>7, <1>a, <1>b, <1>c, <3>2
      <4>2. PICK p \in Reads : p.id = i
        BY <1>3, <3>1, <3>2, <4>1
      <4> QED BY <1>4, <1>13, <4>1, <4>2
    <3> QED BY <1>3, <1>c, <3>1, <3>2
  <2>5. ASSUME hole
        PROVE  \E r \in tail'.pending : upto = r.id - 1 /\ c < upto
                    /\ \A p \in tail'.pending : r.id <= p.id
    <3>1. PICK r \in Reads : /\ c < r.id /\ upto = r.id - 1 /\ c < upto
                             /\ \A p \in Reads : c < p.id => r.id <= p.id
      BY <2>5
    <3>2. r \in tail'.pending
      BY <1>1, <1>4, <1>13, <1>c, <3>1
    <3>3. \A p \in tail'.pending : p \in Reads /\ c < p.id
      BY <1>1, <1>4, <1>13, <1>c
    <3> QED BY <3>1, <3>2, <3>3
  <2> QED BY <1>4, <2>1, <2>2, <2>3, <2>4, <2>5 DEF TailReads
<1> QED BY <1>12, <1>14 DEF A

LEMMA PassTakesAll ==
  ASSUME TypeInv, SaidInOrder, SourceInv, TailReads, TailPass \/ TailSkips
  PROVE  TailReads' /\ \E c, rows : PassTakes(c, rows)
<1>0. MayPass
  BY DEF TailPass, TailSkips
<1>S. PICK S : S = Said(tail.of, source.pos)
  OBVIOUS
<1>1. /\ tail.last \in Nat /\ MaxScans \in Nat /\ tail.last \in 0..MaxScans
      /\ tail.upto \in Nat /\ tail.upto \in 0..MaxScans
  BY Constants DEF TypeInv, TailTypes
<1>2. \A r \in Reads : r.id \in Nat /\ r.id \in Ids /\ tail.last < r.id
  BY <1>0, ReadsAre, ReadsAreSaid, Constants
<1>3. CASE TailPass
  <2> DEFINE c == Drained(tail.last, Reads)
             left == {r.id : r \in Reads} \ (1..c)
             waits == tail.hole /\ c = tail.last
             upto == IF left = {} THEN 0 ELSE IF waits THEN tail.upto ELSE Least(left) - 1
  <2>1. Passes(Reads, tail.last, c, left # {}, upto)
    BY <1>3 DEF TailPass
  <2>2. c \in tail.last..MaxScans /\ \A r \in Reads : r.id # c + 1
    BY <1>1, <1>2, DrainedEnds
  <2>3. left \subseteq 1..MaxScans
    BY <1>2, Bounds
  <2>4. \A r \in Reads : c < r.id <=> r.id \in left
    <3> HIDE DEF c
    <3>1. \A r \in Reads : r.id \in Ids /\ c \in Nat
      BY <1>1, <1>2, <2>2
    <3> QED BY <1>2, <3>1, Bounds
  <2>5. \A i \in left : \E r \in Reads : r.id = i
    OBVIOUS
  <2> HIDE DEF left
  <2>6. left # {} => Least(left) \in left /\ \A i \in left : Least(left) <= i
    <3>1. left \in SUBSET Nat
      BY <1>1, <2>3
    <3> QED BY <3>1, LeastNumber
  <2> HIDE DEF c
  <2>7. ASSUME left # {}
        PROVE  \E r \in Reads : /\ c < r.id /\ upto = r.id - 1 /\ c < upto
                                /\ \A p \in Reads : c < p.id => r.id <= p.id
    <3>1. CASE waits
      <4>1. PICK r \in Reads : /\ tail.upto = r.id - 1 /\ tail.last < tail.upto
                               /\ \A p \in Reads : r.id <= p.id
        BY <1>0, <3>1, HoleIsEmpty DEF TailPass
      <4>2. upto = tail.upto /\ c = tail.last
        BY <2>7, <3>1
      <4> HIDE DEF upto
      <4> QED BY <1>2, <4>1, <4>2
    <3>2. CASE ~ waits
      <4>1. upto = Least(left) - 1
        BY <2>7, <3>2
      <4> HIDE DEF upto
      <4>2. PICK r \in Reads : r.id = Least(left) /\ c < r.id
        BY <2>4, <2>5, <2>6, <2>7
      <4>3. r.id # c + 1 /\ r.id \in Nat /\ c \in Nat
        BY <1>1, <1>2, <2>2
      <4>4. c < upto
        BY <4>1, <4>2, <4>3
      <4>5. \A p \in Reads : c < p.id => r.id <= p.id
        BY <2>4, <2>6, <2>7, <4>2
      <4> QED BY <4>1, <4>2, <4>4, <4>5
    <3> QED BY <3>1, <3>2
  <2>8. upto \in 0..MaxScans
    <3>1. CASE left = {}
      BY <1>1, <3>1
    <3>2. CASE left # {}
      <4>1. PICK r \in Reads : upto = r.id - 1
        BY <2>7, <3>2
      <4> HIDE DEF upto
      <4>2. r.id \in 1..MaxScans
        BY <1>2, Bounds
      <4> QED BY <1>1, <4>1, <4>2
    <3> QED BY <3>1, <3>2
  <2> HIDE DEF upto
  <2>9. PICK hole \in BOOLEAN : hole = (left # {})
    OBVIOUS
  <2>10. Passes(Reads, tail.last, c, hole, upto)
    BY <2>1, <2>9
  <2>11. PassTakes(c, {r \in Reads : r.id > tail.last /\ r.id <= c}) /\ TailReads'
    <3>1. tail.last \in tail.last..MaxScans /\ c = Drained(tail.last, Reads)
      BY <1>1 DEF c
    <3>2. \A i \in Said(tail.of, source.pos) : tail.last < i => tail.last < i
      OBVIOUS
    <3> QED BY <1>0, <1>2, <2>7, <2>8, <2>9, <2>10, <3>1, <3>2, PassTo
  <2> QED BY <2>11
<1>4. CASE TailSkips
  <2>1. tail.hole /\ Passes(Reads, Above(tail.last, tail.upto),
               Drained(Above(tail.last, tail.upto), Reads), FALSE, 0)
    BY <1>4 DEF TailSkips
  <2>2. PICK r \in Reads :
           /\ r.id \in Nat /\ tail.upto = r.id - 1 /\ tail.last < tail.upto
           /\ \A p \in Reads : r.id <= p.id
           /\ \A i \in S : tail.last < i => r.id <= i
    BY <1>0, <1>S, <2>1, HoleIsEmpty
  <2>3. PICK b \in tail.last..MaxScans : b = tail.upto
    BY <1>1, <2>2
  <2>4. Above(tail.last, tail.upto) = b
    BY <1>1, <2>2, <2>3 DEF Above
  <2>5. PICK c : c = Drained(b, Reads)
    OBVIOUS
  <2>6. Passes(Reads, b, c, FALSE, 0) /\ 0 \in 0..MaxScans
    BY <1>1, <1>4, <2>4, <2>5 DEF TailSkips, Passes
  <2>7. (\A p \in Reads : b < p.id) /\ r.id = b + 1
    BY <1>1, <1>2, <2>2, <2>3
  <2>8. \A i \in Said(tail.of, source.pos) : tail.last < i => b < i
    <3>1. S \subseteq Nat
      <4>1. source.pos \in 0..Len(stream) /\ stream \in Seq(Event)
        BY DEF TypeInv, StreamTypes, SourceTypes
      <4>2. S \subseteq 0..MaxScans
        BY <4>1, <1>S, LogTypes
      <4> QED BY <4>2, Constants
    <3> QED BY <1>1, <1>S, <2>2, <2>3, <3>1
  <2>9. PassTakes(c, {p \in Reads : p.id > b /\ p.id <= c}) /\ TailReads'
    BY <1>0, <2>5, <2>6, <2>7, <2>8, PassTo
  <2> QED BY <2>9
<1> QED BY <1>3, <1>4

LEMMA KnownStays ==
  ASSUME TypeInv, SourceApplies, NextEvent.type = "scan-recorded", NEW x, x = NextEvent.id
  PROVE  /\ Known(x)'
         /\ \A i : Known(i) => Known(i)' \/ (Len(source.rows) = Keep /\ i = source.rows[1].id)
<1>n. PICK n \in Nat : n = Len(source.rows)
  BY DEF TypeInv, SourceTypes
<1>1. CASE Known(x)
  <2>1. source'.rows = source.rows
    BY <1>1, Applies DEF TypeInv
  <2>2. \A i : Known(i) => Known(i)'
    BY <2>1 DEF Known
  <2> QED BY <1>1, <2>2
<1>2. CASE ~ Known(x)
  <2> DEFINE row == [id |-> NextEvent.id, log |-> NextEvent.log]
  <2>1. /\ source'.rows = Inserted(row) /\ NextEvent.id \in Ids /\ NextEvent \in Event
        /\ source'.rows \in Seq(Row)
    BY <1>2, Applies DEF TypeInv, SourceTypes
  <2>2. row \in Row /\ row.id = x
    BY <2>1 DEF Row, Event
  <2> HIDE DEF row
  <2>3. PICK s \in Seq(Row) : s = source'.rows /\ s = Inserted(row)
    BY <2>1
  <2>4. CASE n < Keep /\ Len(s) = n + 1 /\ s[n + 1] = row /\ \A m \in 1..n : s[m] = source.rows[m]
    <3>1. \A i : Known(i) => Known(i)'
      BY <1>n, <2>3, <2>4 DEF Known
    <3>2. Known(x)'
      BY <2>2, <2>3, <2>4 DEF Known
    <3> QED BY <3>1, <3>2
  <2>5. CASE n = Keep /\ n > 0 /\ Len(s) = n /\ s[n] = row /\ \A m \in 1..(n - 1) : s[m] = source.rows[m + 1]
    <3>1. ASSUME NEW i, Known(i), i # source.rows[1].id PROVE Known(i)'
      <4>1. PICK m \in 1..n : source.rows[m].id = i
        BY <1>n, <3>1 DEF Known
      <4>2. m - 1 \in 1..(n - 1) /\ (m - 1) + 1 = m
        BY <3>1, <4>1
      <4>3. s[m - 1].id = i /\ m - 1 \in 1..Len(s)
        BY <2>5, <4>1, <4>2
      <4> QED BY <2>3, <4>3 DEF Known
    <3>2. Known(x)'
      BY <2>2, <2>3, <2>5 DEF Known
    <3> QED BY <1>n, <2>5, <3>1, <3>2
  <2> QED BY <1>n, <2>2, <2>3, <2>4, <2>5, InsertedIs DEF TypeInv
<1> QED BY <1>1, <1>2

\* The source is behind the relay.
LEMMA SourceFollows ==
  ASSUME TypeInv
  PROVE  /\ SourceLog \in Nat /\ relay.log \in Nat /\ SourceLog <= relay.log
         /\ SourceLog = relay.log => Said(SourceLog, source.pos) \subseteq Said(relay.log, Len(stream))
<1>1. source.pos \in 0..Len(stream) /\ stream \in Seq(Event) /\ Len(stream) \in 0..Len(stream)
      /\ Len(stream) \in Nat /\ source.pos \in Nat /\ source.pos <= Len(stream)
  BY DEF TypeInv, StreamTypes, SourceTypes
<1>2. LogAt(source.pos) <= LogAt(Len(stream)) /\ LogAt(source.pos) \in Nat /\ LogAt(Len(stream)) \in Nat
  BY <1>1, LogsGrow DEF TypeInv
<1>3. LogAt(Len(stream)) = relay.log
  BY DEF TypeInv, LogsFollow
<1>4. SourceLog = relay.log => Said(SourceLog, source.pos) \subseteq Said(relay.log, Len(stream))
  BY <1>1, SaidMore
<1> QED BY <1>2, <1>3, <1>4 DEF SourceLog

\* Ids that the source has applied are passed by the relay.
LEMMA MaxIsPassed ==
  ASSUME TypeInv, SaidInOrder, SourceInv, NEW b \in Nat, b <= source.max
  PROVE  Passed(SourceLog, b)
<1>1. SourceLog <= relay.log
  BY SourceFollows
<1>2. ASSUME SourceLog = relay.log PROVE b <= relay.newest
  <2>1. source.max \in {0} \cup Said(relay.log, Len(stream))
    BY <1>2, SourceFollows DEF SourceInv
  <2>2. relay.newest \in Nat /\ source.max \in Nat
    BY Constants DEF TypeInv, StreamTypes, SourceTypes
  <2>3. source.max <= relay.newest
    BY <2>1, <2>2 DEF SaidInOrder
  <2> QED BY <2>2, <2>3
<1> QED BY <1>1, <1>2 DEF Passed

\* When it has caught up, it has applied the highest id.
LEMMA MaxIsHighest ==
  ASSUME TypeInv, SourceInv, source.caughtUp
  PROVE  \A i \in Said(SourceLog, source.pos) :
           i \in Nat /\ i <= source.max /\ (Known(i) \/ Old(i))
<1>1. ASSUME NEW i \in Said(SourceLog, source.pos) PROVE Applied(i) /\ i \in Nat
  <2>1. PICK k \in Records(SourceLog, source.pos) : stream[k].id = i
    BY DEF Said
  <2>2. k \in 1..source.pos /\ source.pos \in 0..Len(stream) /\ stream \in Seq(Event)
    BY DEF Records, TypeInv, StreamTypes, SourceTypes
  <2>3. 0 < k
    BY <2>2
  <2>4. Applied(stream[k].id)
    BY <2>3 DEF SourceInv, AppliedFrom
  <2>5. i \in 0..MaxScans
    BY <2>2, LogTypes
  <2> QED BY <2>1, <2>4, <2>5, Constants
<1> QED BY <1>1 DEF Applied

LEMMA TailAppliesStep ==
  ASSUME TypeInv, SaidInOrder, SourceInv, TailInv, SourceApplies
  PROVE  TailInv'
<1> SUFFICES ASSUME PipelineRuns'
             PROVE  /\ source'.caughtUp
                    /\ SourceLog' = tail'.of => tail'.last <= source'.max
                    /\ Passed(tail.of, tail.last)'
                    /\ sup' = "running" /\ SourceLog' = tail'.of => TailReads'
  BY DEF TailInv
<1>1. UNCHANGED <<stream, relay, sup, tail>> /\ source'.caughtUp = source.caughtUp /\ PipelineRuns
  BY Applies DEF SourceApplies, pipeVars, PipelineRuns, TypeInv
<1>2. Passed(tail.of, tail.last)'
  BY <1>1 DEF TailInv, Passed
<1>3. source'.caughtUp
  BY <1>1 DEF TailInv
<1>p. PICK p \in Nat, q \in Nat : p = source.pos /\ q = p + 1 /\ q \in 1..Len(stream)
  BY Applies DEF TypeInv, SourceTypes, StreamTypes
<1>e. PICK e \in Event : e = NextEvent /\ e = stream[q]
  BY <1>p, Applies DEF TypeInv, NextEvent
<1>g. PICK g \in Nat : g = tail.of /\ g <= SourceLog
  BY <1>1, Constants DEF TypeInv, LogsAgree
<1>0. source'.pos = q /\ stream \in Seq(Event) /\ p \in 0..(Len(stream) - 1)
  BY <1>p, Applies DEF TypeInv, StreamTypes
<1>4. SourceLog' = e.log
  BY <1>0, <1>1, <1>p, <1>e DEF SourceLog, LogAt
<1>5. ASSUME SourceLog' = g
      PROVE  /\ SourceLog = g /\ e.type = "scan-recorded" /\ e.log = g /\ e.id \in Nat
  <2>1. e.type # "scan-log-reset"
    BY <1>p, <1>e, <1>g, <1>4, <1>5, NextFollows
  <2>2. e.type = "scan-recorded"
    BY <2>1 DEF Event
  <2> QED BY <1>p, <1>e, <1>4, <1>5, <2>2, NextFollows, Constants
<1>6. ASSUME SourceLog' = g PROVE tail.last <= source'.max
  <2>1. tail.last <= source.max /\ tail.last \in Nat /\ source.max \in Nat
    BY <1>1, <1>g, <1>5, <1>6, Constants DEF TailInv, TypeInv, TailTypes, SourceTypes
  <2>2. source'.max = source.max \/ source'.max = Above(source.max, e.id)
    BY <1>e, <1>5, <1>6, Applies DEF TypeInv
  <2> QED BY <1>5, <1>6, <2>1, <2>2 DEF Above
<1>7. ASSUME SourceLog' = g, sup' = "running" PROVE TailReads'
  <2>1. TailReads
    BY <1>1, <1>g, <1>5, <1>7 DEF TailInv
  <2>R. PICK S, Sx : S = Said(g, p) /\ Sx = Said(g, q)
    OBVIOUS
  <2>2. Sx = S \cup {e.id}
    <3>1. stream \in Seq(Event) /\ p \in 0..(Len(stream) - 1)
      BY <1>0
    <3>2. Said(g, p + 1) = Said(g, p) \cup
            (IF stream[p + 1].type = "scan-recorded" /\ stream[p + 1].log = g
             THEN {stream[p + 1].id} ELSE {})
      BY <3>1, SaidNext DEF Tells
    <3> QED BY <1>p, <1>e, <1>5, <1>7, <2>R, <3>2
  <2>3. Said(tail.of, source.pos)' = Sx
    <3>1. Said(g, q)' = Said(g, q)
      BY <1>1 DEF Said, Records
    <3> QED BY <1>0, <1>1, <1>g, <2>R, <3>1
  <2>4. e.id \in S \/ \A i \in S : i < e.id
    <3>1. q - 1 = p
      BY <1>p
    <3> QED BY <1>p, <1>e, <1>5, <1>7, <2>R, <3>1 DEF SaidInOrder
  <2>5. S \subseteq Nat
    <3>1. S \subseteq 0..MaxScans
      <4>1. p \in 0..Len(stream)
        BY <1>0, <1>p
      <4> QED BY <1>0, <2>R, <4>1, LogTypes
    <3> QED BY <3>1, Constants
  <2>6. ASSUME NEW i \in Nat, Known(i), tail.last < i PROVE Known(i)'
    <3>1. Len(source.rows) = Keep => source.rows[1].id <= tail.last
      BY <1>1, <1>7 DEF SourceApplies, TailKeepsUp
    <3>2. tail.last \in Nat /\ \A m \in 1..Len(source.rows) : source.rows[m].id \in Nat
      <4>1. source.rows \in Seq(Row) /\ tail.last \in 0..MaxScans
        BY DEF TypeInv, TailTypes, SourceTypes
      <4>2. \A r \in Row : r.id \in Nat
        BY Constants DEF Row
      <4> QED BY <4>1, <4>2, Constants
    <3>3. Len(source.rows) = Keep => 1 \in 1..Len(source.rows)
      BY Constants
    <3>4. ~ (Len(source.rows) = Keep /\ i = source.rows[1].id)
      BY <2>6, <3>1, <3>2, <3>3
    <3> QED BY <1>e, <1>5, <1>7, <2>6, <3>4, KnownStays
  <2>7. Known(e.id)'
    BY <1>e, <1>5, <1>7, KnownStays
  <2>8. \A i \in Sx : tail.last < i => Known(i)'
    <3> TAKE i \in Sx
    <3> HAVE tail.last < i
    <3>1. CASE i = e.id
      BY <2>7, <3>1
    <3>2. CASE i \in S
      <4>1. Known(i) /\ i \in Nat
        BY <1>p, <1>g, <2>1, <2>5, <2>R, <3>2 DEF TailReads
      <4> QED BY <2>6, <4>1
    <3> QED BY <2>2, <3>1, <3>2
  <2>9. ASSUME NEW r \in tail.pending
        PROVE  /\ tail.last < r.id /\ r.id \in Sx
               /\ \A i \in Sx : tail.last < i /\ i < r.id => \E x \in tail.pending : x.id = i
    <3>1. /\ tail.last < r.id /\ r.id \in S
          /\ \A i \in S : tail.last < i /\ i < r.id => \E x \in tail.pending : x.id = i
      BY <1>p, <1>g, <2>1, <2>R DEF TailReads
    <3>2. PICK j \in Nat : j = r.id
      BY <2>5, <3>1
    <3>3. e.id < j => e.id \in S
      BY <1>5, <1>7, <2>4, <3>1, <3>2
    <3> QED BY <2>2, <3>1, <3>2, <3>3
  <2>10. tail.hole => \E r \in tail.pending : tail.upto = r.id - 1 /\ tail.last < tail.upto
                    /\ \A x \in tail.pending : r.id <= x.id
    BY <2>1 DEF TailReads
  <2> QED BY <1>1, <2>3, <2>8, <2>9, <2>10 DEF TailReads
<1> QED BY <1>1, <1>2, <1>3, <1>g, <1>6, <1>7

LEMMA StartIs ==
  ASSUME TypeInv
  PROVE  /\ LastBoundary \in 0..source.max /\ LastBoundary % Slide = 0 /\ source.max < LastBoundary + Slide
         /\ LastBoundary \in Nat /\ source.max \in Nat /\ StartAfter \in Nat
         /\ StartAfter \in 0..LastBoundary
         /\ StartAfter = 0 \/ StartAfter = LastBoundary - Window
         /\ LastBoundary - Window <= StartAfter
<1>1. source.max \in Nat /\ Slide \in Nat \ {0} /\ Window \in Nat \ {0}
  BY Constants DEF TypeInv, SourceTypes
<1>2. LastBoundary \in 0..source.max /\ LastBoundary % Slide = 0 /\ source.max < LastBoundary + Slide
  BY <1>1, MultipleBelow DEF LastBoundary
<1> QED BY <1>1, <1>2 DEF StartAfter, Above

\* A pipeline starts before all that is not old.
LEMMA BehindIsKnown ==
  ASSUME TypeInv, SourceInv, source.caughtUp, NEW i \in Said(SourceLog, source.pos), StartAfter < i
  PROVE  Known(i)
<1>1. i \in Nat /\ (Known(i) \/ Old(i))
  BY MaxIsHighest
<1>2. ASSUME Old(i) PROVE FALSE
  <2>1. PICK top \in Said(SourceLog, source.pos) : i <= top - Window - Slide + 1
    BY <1>2 DEF Old
  <2>2. top \in Nat /\ top <= source.max
    BY <2>1, MaxIsHighest
  <2>3. /\ source.max < LastBoundary + Slide /\ LastBoundary \in Nat /\ source.max \in Nat
        /\ StartAfter \in Nat /\ LastBoundary - Window <= StartAfter
    BY StartIs
  <2> QED BY <1>1, <2>1, <2>2, <2>3, Constants
<1> QED BY <1>1, <1>2

LEMMA TailStartsStep ==
  ASSUME TypeInv, SaidInOrder, SourceInv, Bootstrap
  PROVE  TailInv'
<1>1. UNCHANGED <<stream, relay, source>> /\ sup' = "running" /\ source.caughtUp
  BY DEF Bootstrap
<1>2. tail' = [last |-> StartAfter, first |-> FirstBoundary(LastBoundary, StartAfter),
               next |-> FirstBoundary(LastBoundary, StartAfter), pending |-> {},
               hole |-> FALSE, upto |-> 0, log |-> source.log, of |-> SourceLog]
  BY Bootstraps DEF TypeInv
<1>3. tail'.last = StartAfter /\ tail'.pending = {} /\ tail'.hole = FALSE /\ tail'.of = SourceLog
  BY <1>2
<1>g. PICK g, a, p : g = SourceLog /\ a = StartAfter /\ p = source.pos
  OBVIOUS
<1>4. a \in Nat /\ source.max \in Nat /\ a <= source.max
  BY <1>g, StartIs
<1>5. Passed(tail.of, tail.last)'
  <2>1. Passed(g, a)
    BY <1>g, <1>4, MaxIsPassed
  <2> QED BY <1>1, <1>3, <1>g, <2>1 DEF Passed
<1>6. TailReads'
  <2>1. Said(tail.of, source.pos)' = Said(g, p)
    <3>1. Said(g, p)' = Said(g, p)
      BY <1>1 DEF Said, Records
    <3> QED BY <1>1, <1>3, <1>g, <3>1
  <2>2. \A i : Known(i)' = Known(i)
    BY <1>1 DEF Known
  <2>3. \A i \in Said(g, p) : a < i => Known(i)
    BY <1>1, <1>g, BehindIsKnown
  <2> QED BY <1>3, <1>g, <2>1, <2>2, <2>3 DEF TailReads
<1> QED BY <1>1, <1>3, <1>g, <1>4, <1>5, <1>6 DEF TailInv

\* A tail that the topic's next event is nothing to.
LEMMA TailStaysStep ==
  ASSUME TypeInv, SaidInOrder, TailInv, LogReplaced \/ \E i \in Ids : ScanArrives(i)
  PROVE  TailInv'
<1> SUFFICES ASSUME PipelineRuns'
             PROVE  /\ source'.caughtUp
                    /\ SourceLog' = tail'.of => tail'.last <= source'.max
                    /\ Passed(tail.of, tail.last)'
                    /\ sup' = "running" /\ SourceLog' = tail'.of => TailReads'
  BY DEF TailInv
<1>1. UNCHANGED <<source, sup, tail>> /\ \E e \in Event : Stored(e)
  <2>1. ASSUME NEW i \in Ids PROVE Recorded(i, relay.log) \in Event
    BY Bounds DEF Recorded, Event, TypeInv, StreamTypes
  <2>2. ASSUME LogReplaced PROVE LogReset(relay.log + 1) \in Event
    BY <2>2, Bounds DEF LogReplaced, LogReset, Event, TypeInv, StreamTypes
  <2> QED BY <2>1, <2>2 DEF LogReplaced, ScanArrives, Arrives, pipeVars
<1>2. PipelineRuns
  BY <1>1 DEF PipelineRuns
<1>g. PICK g \in Nat, a \in Nat, p \in {source.pos} : g = tail.of /\ a = tail.last
  BY Constants DEF TypeInv, TailTypes
<1>3. Passed(tail.of, tail.last)'
  <2>1. Passed(g, a)
    BY <1>2, <1>g DEF TailInv
  <2>2. Passed(g, a)'
    BY <2>1, PastStays
  <2> QED BY <1>1, <1>g, <2>2 DEF Passed
<1>4. PICK e \in Event : Stored(e)
  BY <1>1
<1>5. p \in 0..Len(stream) /\ stream \in Seq(Event)
  BY <1>g DEF TypeInv, StreamTypes, SourceTypes
<1>6. SourceLog' = SourceLog
  <2>1. \A k \in 0..Len(stream) : LogAt(k)' = LogAt(k)
    <3>1. PICK n \in Nat : n = Len(stream)
      BY <1>5
    <3> QED BY <1>4, <1>5, <3>1, Joins
  <2> QED BY <1>1, <1>g, <1>5, <2>1 DEF SourceLog, LogAt
<1>7. Said(tail.of, source.pos)' = Said(tail.of, source.pos)
  <2>1. Said(g, p)' = Said(g, p)
    BY <1>4, <1>5, SaidStays
  <2> QED BY <1>1, <1>g, <2>1
<1>8. TailReads' = TailReads
  <2>1. \A i : Known(i)' = Known(i)
    BY <1>1 DEF Known
  <2> QED BY <1>1, <1>7, <2>1 DEF TailReads
<1> QED BY <1>1, <1>2, <1>3, <1>6, <1>8 DEF TailInv

LEMMA TailPassesStep ==
  ASSUME TypeInv, SaidInOrder, SourceInv, TailInv, TailPass \/ TailSkips
  PROVE  TailInv'
<1>0. /\ MayPass /\ sup = "running" /\ SourceLog = tail.of /\ source.caughtUp
      /\ UNCHANGED <<stream, relay, source, sup>>
  BY ReadsAre DEF TailPass, TailSkips, MayPass, Passes, TailInv, PipelineRuns
<1>1. TailReads
  BY <1>0 DEF TailInv, PipelineRuns
<1>2. PICK c, rows : PassTakes(c, rows)
  BY <1>1, PassTakesAll
<1>3. TailReads'
  BY <1>1, PassTakesAll
<1>4. c \in Nat /\ c <= source.max
  <2>1. tail.last \in Nat /\ tail.last <= source.max
    BY <1>0, Constants DEF TypeInv, TailTypes, TailInv, PipelineRuns
  <2>2. c = tail.last \/ c \in Said(SourceLog, source.pos)
    BY <1>0, <1>2 DEF PassTakes
  <2> QED BY <1>0, <2>1, <2>2, MaxIsHighest
<1>5. PICK g : g = tail.of
  OBVIOUS
<1>6. Passed(tail.of, tail.last)'
  <2>1. Passed(g, c)
    BY <1>0, <1>4, <1>5, MaxIsPassed
  <2>2. tail'.of = g /\ tail'.last = c
    BY <1>2, <1>5 DEF PassTakes
  <2> QED BY <1>0, <2>1, <2>2 DEF Passed
<1> QED BY <1>0, <1>2, <1>3, <1>4, <1>6 DEF TailInv, PassTakes

LEMMA TailInvStep ==
  ASSUME TypeInv, SaidInOrder, SourceInv, TailInv, WindowsNext
  PROVE  TailInv'
<1>1. CASE ~ PipelineRuns'
  BY <1>1 DEF TailInv
<1>2. ASSUME UNCHANGED <<stream, relay, source, tail>>, PipelineRuns, sup' = "running" => sup = "running"
      PROVE  TailInv'
  <2>1. Said(tail.of, source.pos)' = Said(tail.of, source.pos)
    BY <1>2 DEF Said, Records
  <2>2. SourceLog' = SourceLog
    BY <1>2 DEF SourceLog, LogAt
  <2>3. \A i : Known(i)' = Known(i)
    BY <1>2 DEF Known
  <2>4. TailReads' = TailReads /\ Passed(tail.of, tail.last)' = Passed(tail.of, tail.last)
    BY <1>2, <2>1, <2>3 DEF TailReads, Passed
  <2> QED BY <1>2, <2>2, <2>4 DEF TailInv
<1>3. ASSUME Stop \/ Drain \/ Filters \/ OutputFilter \/ UNCHANGED windowsVars PROVE TailInv'
  <2>1. CASE ~ PipelineRuns
    BY <1>1, <1>3, <2>1 DEF Stop, Drain, Filters, OutputFilter, windowsVars, PipelineRuns
  <2>2. CASE PipelineRuns
    BY <1>2, <1>3, <2>2 DEF Stop, Drain, Filters, OutputFilter, windowsVars, pipeVars
  <2> QED BY <2>1, <2>2
<1>4. ASSUME SourceCatchesUp PROVE TailInv'
  <2>1. CASE PipelineRuns
    BY <1>4, <2>1 DEF SourceCatchesUp, TailInv
  <2>2. CASE ~ PipelineRuns
    BY <1>1, <1>4, <2>2 DEF SourceCatchesUp, PipelineRuns
  <2> QED BY <2>1, <2>2
<1>5. ASSUME StartsOver \/ BackoffEnds \/ PipelineFails \/ ProcessStarts PROVE TailInv'
  BY <1>1, <1>5 DEF StartsOver, BackoffEnds, PipelineFails, ProcessStarts, PipelineRuns
<1> QED BY <1>3, <1>4, <1>5, TailStaysStep, TailAppliesStep, TailStartsStep, TailPassesStep
      DEF WindowsNext, Works

-----------------------------------------------------------------------------
(* Counting *)

\* The scans in a range of ids, from the topic and as rows.
LEMMA ScansInIs ==
  ASSUME TypeInv, NEW g, NEW a \in Nat, NEW b \in Nat
  PROVE  /\ ScansIn(g, a, b) \subseteq (a + 1)..b /\ ScansIn(g, a, b) \subseteq Ids
         /\ ScansIn(g, a, b) = {i \in (a + 1)..b : \E k \in DOMAIN stream : stream[k] = Recorded(i, g)}
         /\ IsFiniteSet(ScansIn(g, a, b))
<1>n. PICK n \in Nat : n = Len(stream) /\ DOMAIN stream = 1..n
  BY DEF TypeInv, StreamTypes
<1>1. stream \in Seq(Event) /\ n \in 0..Len(stream) /\ LogsFollow
  BY <1>n DEF TypeInv, StreamTypes
<1>2. Said(g, n) \subseteq Ids
  BY <1>1, SaidIds
<1>3. ScansIn(g, a, b) \subseteq (a + 1)..b /\ ScansIn(g, a, b) \subseteq Ids
  <2>1. \A i \in Said(g, n) : i \in Ids /\ i \in Nat
    BY <1>2, Constants
  <2>2. \A i \in ScansIn(g, a, b) : i \in Said(g, n) /\ a < i /\ i <= b
    BY <1>n DEF ScansIn
  <2> QED BY <2>1, <2>2
<1>4. IsFiniteSet(ScansIn(g, a, b))
  <2>1. IsFiniteSet((a + 1)..b)
    BY FS_Interval
  <2> QED BY <1>3, <2>1, FS_Subset
<1>5. ASSUME NEW i \in ScansIn(g, a, b)
      PROVE  \E k \in 1..n : stream[k] = Recorded(i, g)
  <2>1. PICK k \in Records(g, n) : stream[k].id = i
    BY <1>n DEF ScansIn, Said
  <2>2. k \in 1..n /\ stream[k].type = "scan-recorded" /\ stream[k].log = g
    BY <2>1 DEF Records
  <2>3. stream[k] \in Event
    BY <1>n, <1>1, <2>2
  <2>4. stream[k] = Recorded(i, g)
    BY <2>1, <2>2, <2>3 DEF Event, Recorded
  <2> QED BY <2>2, <2>4
<1>6. ASSUME NEW i \in (a + 1)..b, NEW k \in 1..n, stream[k] = Recorded(i, g)
      PROVE  i \in ScansIn(g, a, b)
  <2>1. k \in Records(g, n) /\ stream[k].id = i
    BY <1>6 DEF Records, Recorded
  <2>2. i \in Said(g, n) /\ a < i /\ i <= b
    BY <1>6, <2>1 DEF Said
  <2> QED BY <1>n, <2>2 DEF ScansIn
<1> QED BY <1>n, <1>3, <1>4, <1>5, <1>6

\* Those of one SKU.
OfSku(g, a, b, s) == {i \in ScansIn(g, a, b) : SkuOf[g][i] = s}

LEMMA CountsAre ==
  ASSUME TypeInv, NEW g, NEW a \in Nat, NEW b \in Nat
  PROVE  /\ TrueCounts(g, a, b) = [s \in Skus |-> Cardinality(OfSku(g, a, b, s))]
         /\ TrueCounts(g, a, b) \in [Skus -> Nat]
<1> DEFINE said == {i \in (a + 1)..b : \E k \in DOMAIN stream : stream[k] = Recorded(i, g)}
<1>1. TrueCounts(g, a, b) = [s \in Skus |-> Cardinality({i \in said : SkuOf[g][i] = s})]
  BY DEF TrueCounts
<1>2. said = ScansIn(g, a, b) /\ IsFiniteSet(ScansIn(g, a, b))
  BY ScansInIs
<1> HIDE DEF said
<1>3. TrueCounts(g, a, b) = [s \in Skus |-> Cardinality(OfSku(g, a, b, s))]
  BY <1>1, <1>2 DEF OfSku
<1>4. \A s : Cardinality(OfSku(g, a, b, s)) \in Nat
  <2>1. \A s : OfSku(g, a, b, s) \subseteq ScansIn(g, a, b)
    BY DEF OfSku
  <2> QED BY <1>2, <2>1, FS_Subset, FS_CardinalityType
<1> QED BY <1>3, <1>4

\* Rows are counted like the scans that they are of.
LEMMA TallyIs ==
  ASSUME TypeInv, NEW g \in Logs, NEW a \in Nat, NEW b \in Nat
  PROVE  Tally(RowsOf(g, a, b)) = TrueCounts(g, a, b)
<1>1. IsFiniteSet(ScansIn(g, a, b))
  BY ScansInIs
<1>2. ASSUME NEW s \in Skus
      PROVE  Cardinality({r \in RowsOf(g, a, b) : SkuOf[r.log][r.id] = s})
               = Cardinality(OfSku(g, a, b, s))
  <2> DEFINE S == OfSku(g, a, b, s)
             T == {r \in RowsOf(g, a, b) : SkuOf[r.log][r.id] = s}
             f == [i \in S |-> [id |-> i, log |-> g]]
  <2>1. T = {[id |-> i, log |-> g] : i \in S}
    BY DEF RowsOf, OfSku
  <2>2. IsFiniteSet(S)
    <3>1. S \subseteq ScansIn(g, a, b)
      BY DEF OfSku
    <3> QED BY <1>1, <3>1, FS_Subset
  <2> HIDE DEF S, T
  <2>3. f \in Bijection(S, T)
    <3>1. f \in [S -> T] /\ \A r \in T : \E i \in S : f[i] = r
      BY <2>1
    <3>2. \A i, j \in S : f[i] = f[j] => i = j
      OBVIOUS
    <3> HIDE DEF f
    <3> QED BY <3>1, <3>2 DEF Bijection, Injection, Surjection, IsInjective
  <2> HIDE DEF f
  <2>4. Cardinality(S) = Cardinality(T)
    BY <2>2, <2>3, FS_Bijection DEF ExistsBijection
  <2> QED BY <2>4 DEF S, T
<1>3. Tally(RowsOf(g, a, b)) = [s \in Skus |-> Cardinality(OfSku(g, a, b, s))]
  BY <1>2 DEF Tally
<1> QED BY <1>3, CountsAre

LEMMA CountsAdd ==
  ASSUME TypeInv, NEW g, NEW a \in Nat, NEW b \in Nat, NEW c \in Nat, a <= b, b <= c, NEW s \in Skus
  PROVE  TrueCounts(g, a, c)[s] = TrueCounts(g, a, b)[s] + TrueCounts(g, b, c)[s]
<1> DEFINE S(x, y) == OfSku(g, x, y, s)
<1>0. ScansIn(g, a, c) \subseteq Nat /\ ScansIn(g, a, b) \subseteq Nat /\ ScansIn(g, b, c) \subseteq Nat
  BY ScansInIs, Constants
<1>1. ScansIn(g, a, c) = ScansIn(g, a, b) \cup ScansIn(g, b, c)
  BY <1>0 DEF ScansIn
<1>2. ScansIn(g, a, b) \cap ScansIn(g, b, c) = {}
  BY <1>0 DEF ScansIn
<1>3. IsFiniteSet(S(a, b)) /\ IsFiniteSet(S(b, c))
  <2>1. IsFiniteSet(ScansIn(g, a, b)) /\ IsFiniteSet(ScansIn(g, b, c))
    BY ScansInIs
  <2>2. S(a, b) \subseteq ScansIn(g, a, b) /\ S(b, c) \subseteq ScansIn(g, b, c)
    BY DEF OfSku
  <2> QED BY <2>1, <2>2, FS_Subset
<1>4. S(a, c) = S(a, b) \cup S(b, c) /\ S(a, b) \cap S(b, c) = {}
  BY <1>1, <1>2 DEF OfSku
<1>5. Cardinality(S(a, c)) = Cardinality(S(a, b)) + Cardinality(S(b, c))
  <2> HIDE DEF S
  <2>1. /\ Cardinality(S(a, b) \cup S(b, c)) =
              Cardinality(S(a, b)) + Cardinality(S(b, c)) - Cardinality(S(a, b) \cap S(b, c))
    BY <1>3, FS_Union
  <2>2. Cardinality(S(a, b)) \in Nat /\ Cardinality(S(b, c)) \in Nat /\ Cardinality({}) = 0
    BY <1>3, FS_CardinalityType, FS_EmptySet
  <2>3. Cardinality(S(a, b) \cap S(b, c)) = 0
    BY <1>4, <2>2
  <2> QED BY <1>4, <2>1, <2>2, <2>3
<1>6. ASSUME NEW x \in Nat, NEW y \in Nat
      PROVE  TrueCounts(g, x, y)[s] = Cardinality(S(x, y))
  <2>1. TrueCounts(g, x, y) = [sku \in Skus |-> Cardinality(OfSku(g, x, y, sku))]
    BY CountsAre
  <2> QED BY <2>1
<1> QED BY <1>5, <1>6

LEMMA CountsNone ==
  ASSUME TypeInv, NEW g, NEW a \in Nat
  PROVE  /\ ScansIn(g, a, a) = {} /\ RowsOf(g, a, a) = {}
         /\ TrueCounts(g, a, a) = Tally({}) /\ \A s \in Skus : TrueCounts(g, a, a)[s] = 0
<1>1. ScansIn(g, a, a) = {}
  <2>1. (a + 1)..a = {}
    OBVIOUS
  <2> QED BY <2>1, ScansInIs
<1>2. RowsOf(g, a, a) = {}
  BY <1>1 DEF RowsOf
<1>3. \A s \in Skus : OfSku(g, a, a, s) = {}
  BY <1>1 DEF OfSku
<1>4. TrueCounts(g, a, a) = [s \in Skus |-> Cardinality({})]
  BY <1>3, CountsAre
<1>5. Tally({}) = [s \in Skus |-> Cardinality({})]
  <2>1. \A s \in Skus : {r \in {} : SkuOf[r.log][r.id] = s} = {}
    OBVIOUS
  <2> QED BY <2>1 DEF Tally
<1> QED BY <1>1, <1>2, <1>4, <1>5, FS_EmptySet

\* Ranges of rows.
LEMMA RowsOfIs ==
  ASSUME TypeInv, NEW g \in Logs, NEW a \in Nat, NEW b \in Nat
  PROVE  /\ RowsOf(g, a, b) \in SUBSET Row
         /\ \A r \in RowsOf(g, a, b) : r.id \in Nat /\ a < r.id /\ r.id <= b /\ r.log = g
         /\ \A c \in Nat : a <= b /\ b <= c => RowsOf(g, a, c) = RowsOf(g, a, b) \cup RowsOf(g, b, c)
         /\ \A c, d \in Nat : a <= c /\ c <= d /\ d <= b =>
              RowsOf(g, c, d) = {r \in RowsOf(g, a, b) : c < r.id /\ r.id <= d}
<1>0. \A x, y \in Nat : ScansIn(g, x, y) \subseteq Nat
  BY ScansInIs, Constants
<1>1. ScansIn(g, a, b) \subseteq Ids /\ ScansIn(g, a, b) \subseteq (a + 1)..b
  BY ScansInIs
<1>2. RowsOf(g, a, b) \in SUBSET Row
  BY <1>1 DEF RowsOf, Row
<1>3. \A r \in RowsOf(g, a, b) : r.id \in Nat /\ a < r.id /\ r.id <= b /\ r.log = g
  BY <1>1 DEF RowsOf
<1>4. ASSUME NEW c \in Nat, a <= b, b <= c
      PROVE  RowsOf(g, a, c) = RowsOf(g, a, b) \cup RowsOf(g, b, c)
  <2>1. ScansIn(g, a, c) = ScansIn(g, a, b) \cup ScansIn(g, b, c)
    BY <1>0, <1>4 DEF ScansIn
  <2> QED BY <2>1 DEF RowsOf
<1>5. ASSUME NEW c \in Nat, NEW d \in Nat, a <= c, c <= d, d <= b
      PROVE  RowsOf(g, c, d) = {r \in RowsOf(g, a, b) : c < r.id /\ r.id <= d}
  <2>1. ScansIn(g, c, d) = {i \in ScansIn(g, a, b) : c < i /\ i <= d}
    <3>1. ScansIn(g, c, d) \subseteq Nat /\ ScansIn(g, a, b) \subseteq Nat
      BY <1>0
    <3> QED BY <1>5, <3>1 DEF ScansIn
  <2> QED BY <2>1 DEF RowsOf
<1> QED BY <1>2, <1>3, <1>4, <1>5

-----------------------------------------------------------------------------
(* The boundaries *)

\* The boundaries of the windows of this pipeline.
Boundary(i) == i >= tail.first /\ i % Slide = 0

\* The next one is the first above the tail.
NextIsNext ==
  /\ 0 < tail.first /\ tail.first % Slide = 0
  /\ Boundary(tail.next) /\ tail.last < tail.next
  /\ tail.next = tail.first \/ (Boundary(tail.next - Slide) /\ tail.next - Slide <= tail.last)

NextInv == PipelineRuns => NextIsNext

\* The tail marks the boundaries.
LEMMA BoundaryIs ==
  ASSUME TypeInv, NextIsNext, NEW i \in Nat, tail.last < i
  PROVE  IsBoundary(i) <=> Boundary(i)
<1>0. /\ tail.next \in Nat /\ tail.first \in Nat /\ tail.last \in Nat /\ Slide \in Nat \ {0}
      /\ tail.next % Slide = 0 /\ tail.first <= tail.next
  BY Constants DEF TypeInv, TailTypes, NextIsNext, Boundary
<1>1. ASSUME i >= tail.next PROVE (i - tail.next) % Slide = 0 <=> i % Slide = 0
  <2>1. PICK d \in Nat : d = i - tail.next
    BY <1>0, <1>1
  <2>2. i = tail.next + d
    BY <1>0, <2>1
  <2>3. ASSUME d % Slide = 0 PROVE i % Slide = 0
    BY <1>0, <2>2, <2>3, MultiplesApart
  <2>4. ASSUME i % Slide = 0 PROVE (i - tail.next) % Slide = 0
    BY <1>0, <1>1, <2>4, MultiplesApart
  <2> QED BY <2>1, <2>3, <2>4
<1>2. ASSUME Boundary(i), i < tail.next PROVE FALSE
  <2>1. tail.next # tail.first
    BY <1>0, <1>2 DEF Boundary
  <2>2. PICK d \in Nat : d = tail.next - Slide /\ d >= tail.first /\ d % Slide = 0 /\ d <= tail.last
    BY <1>0, <2>1 DEF NextIsNext, Boundary
  <2>3. d + Slide <= i
    <3>1. d < i /\ i % Slide = 0
      BY <1>0, <1>2, <2>2 DEF Boundary
    <3> QED BY <1>0, <2>2, <3>1, MultiplesApart
  <2> QED BY <1>0, <1>2, <2>2, <2>3
<1> QED BY <1>0, <1>1, <1>2 DEF IsBoundary, Boundary

LEMMA NextInvStep ==
  ASSUME TypeInv, SourceInv, TailInv, SaidInOrder, NextInv, WindowsNext
  PROVE  NextInv'
<1>0. Slide \in Nat \ {0} /\ Window \in Nat \ {0}
  BY Constants
<1>1. CASE ~ PipelineRuns'
  BY <1>1 DEF NextInv
<1>2. CASE UNCHANGED tail /\ PipelineRuns
  BY <1>2 DEF NextInv, NextIsNext, Boundary
<1>3. CASE Bootstrap
  <2>1. PICK f \in Nat : f = FirstBoundary(LastBoundary, StartAfter)
    BY <1>3, Bootstraps DEF TypeInv
  <2>2. tail' = [last |-> StartAfter, first |-> f, next |-> f, pending |-> {},
               hole |-> FALSE, upto |-> 0, log |-> source.log, of |-> SourceLog]
    BY <1>3, <2>1, Bootstraps DEF TypeInv
  <2>3. tail'.last = StartAfter /\ tail'.first = f /\ tail'.next = f
    BY <2>2
  <2>4. /\ LastBoundary \in Nat /\ LastBoundary % Slide = 0 /\ StartAfter \in Nat
        /\ StartAfter = 0 \/ StartAfter = LastBoundary - Window
    BY StartIs
  <2>5. StartAfter < f /\ f % Slide = 0
    <3>1. CASE LastBoundary > 0
      BY <1>0, <2>1, <2>4, <3>1 DEF FirstBoundary
    <3>2. CASE LastBoundary = 0
      <4>1. f = Slide /\ StartAfter = 0
        BY <1>0, <2>1, <2>4, <3>2 DEF FirstBoundary
      <4>2. Slide % Slide = 0
        <5>1. (Slide * 1) % Slide = 0 /\ Slide * 1 = Slide
          BY <1>0, Multiple
        <5> QED BY <5>1
      <4> QED BY <1>0, <4>1, <4>2
    <3> QED BY <2>4, <3>1, <3>2
  <2>6. 0 < f /\ f >= f
    BY <2>1, <2>4, <2>5
  <2> QED BY <2>3, <2>5, <2>6 DEF NextInv, NextIsNext, Boundary
<1>4. CASE TailPass \/ TailSkips
  <2>1. sup = "running" /\ SourceLog = tail.of
    BY <1>4, ReadsAre DEF TailPass, TailSkips, MayPass
  <2>2. TailReads /\ NextIsNext
    BY <2>1 DEF TailInv, NextInv, PipelineRuns
  <2>3. PICK c, rows : PassTakes(c, rows)
    BY <1>4, <2>2, PassTakesAll
  <2>4. /\ tail.next \in Nat /\ tail.first \in Nat /\ tail.last \in Nat
        /\ tail.next % Slide = 0 /\ tail.first <= tail.next
        /\ c \in Nat /\ tail.last <= c
    BY <2>2, <2>3, Constants DEF TypeInv, TailTypes, NextIsNext, Boundary, PassTakes
  <2>5. tail'.last = c /\ tail'.first = tail.first /\ tail'.next = NextBoundary(c)
    BY <2>3 DEF PassTakes
  <2>6. CASE c < tail.next
    <3>1. NextBoundary(c) = tail.next
      BY <2>6 DEF NextBoundary
    <3>2. tail.next = tail.first \/ (Boundary(tail.next - Slide) /\ tail.next - Slide <= c)
      BY <1>0, <2>2, <2>4 DEF NextIsNext
    <3> QED BY <2>2, <2>5, <2>6, <3>1, <3>2 DEF NextInv, NextIsNext, Boundary
  <2>7. CASE tail.next <= c
    <3>1. PICK d \in Nat : d = c - tail.next
      BY <2>4, <2>7
    <3>2. PICK k \in Nat, m \in 0..(Slide - 1) : k = d \div Slide /\ d = Slide * k + m
      BY <1>0, Division
    <3>3. PICK x \in Nat : x = Slide * k /\ x % Slide = 0
      BY <1>0, Multiple
    <3>4. NextBoundary(c) = tail.next + Slide * (k + 1)
      BY <2>4, <2>7, <3>1, <3>2 DEF NextBoundary
    <3>5. Slide * (k + 1) = x + Slide
      BY <1>0, <3>3
    <3>a. PICK t \in Nat : t = tail.next /\ t % Slide = 0
      BY <2>4
    <3>c. x % Slide = 0 /\ t % Slide = 0
      BY <3>3, <3>a
    <3>d. (t + x) % Slide = 0
      BY <1>0, <3>c, MultiplesApart
    <3>b. (t + x) % Slide = 0 /\ t + x \in Nat
      BY <3>d
    <3>6. PICK y \in Nat : y = tail.next + x /\ y % Slide = 0
      BY <3>a, <3>b
    <3>7. (y + Slide) % Slide = 0
      <4>1. (Slide * 1) % Slide = 0 /\ Slide * 1 = Slide
        BY <1>0, Multiple
      <4> QED BY <1>0, <3>6, <4>1, MultiplesApart
    <3>8. tail'.next = y + Slide /\ tail'.next - Slide = y
      BY <1>0, <2>4, <2>5, <3>4, <3>5, <3>6
    <3>9. y <= c /\ c < y + Slide /\ y >= tail.first
      BY <1>0, <2>4, <3>1, <3>2, <3>3, <3>6
    <3>10. y + Slide >= tail.first
      BY <1>0, <2>4, <3>6, <3>9
    <3> QED BY <2>2, <2>5, <3>6, <3>7, <3>8, <3>9, <3>10 DEF NextInv, NextIsNext, Boundary
  <2> QED BY <2>4, <2>6, <2>7
<1>5. ASSUME UNCHANGED <<tail, sup>> PROVE NextInv'
  BY <1>5 DEF NextInv, NextIsNext, Boundary, PipelineRuns
<1>6. CASE Stop
  BY <1>2, <1>6 DEF Stop, PipelineRuns
<1>7. CASE Drain
  BY <1>2, <1>7 DEF Drain, PipelineRuns, pipeVars
<1>8. CASE StartsOver \/ BackoffEnds \/ PipelineFails \/ ProcessStarts
  BY <1>1, <1>8 DEF StartsOver, BackoffEnds, PipelineFails, ProcessStarts, PipelineRuns
<1> QED BY <1>3, <1>4, <1>5, <1>6, <1>7, <1>8
      DEF WindowsNext, Works, ScanArrives, LogReplaced, Arrives, SourceApplies, SourceCatchesUp,
          Filters, OutputFilter, pipeVars

-----------------------------------------------------------------------------
(* The filters *)

\* What the tail sends of an id.
EntryOf(i) == [id |-> i, scans |-> RowsOf(tail.of, i - 1, i),
               then |-> IF Boundary(i) THEN "mark" ELSE "nothing"]

\* The queue has an entry for each id from base to the tail's last one.
Queued(base) ==
  /\ \/ Len(q1) = tail.last - base
     \/ Len(q1) = tail.last - base + 1 /\ q1[Len(q1)] = End /\ sup = "stopping"
  /\ \A k \in 1..(tail.last - base) : q1[k] = EntryOf(base + k)

\* The filters have taken the ids up to base, have counted those up to the last
\* boundary, and have forgotten those up to low, below which no window to come reaches.
Filtered(low, base) ==
  /\ low = 0 \/ low <= Above(tail.first, boundary) - Window
  /\ \A i \in (boundary + 1)..base : ~ Boundary(i)
  /\ buffer = RowsOf(tail.of, low, base)
  /\ counts = TrueCounts(tail.of, low, boundary)

FiltersInv ==
  PipelineRuns =>
    /\ boundary < tail.first \/ Boundary(boundary)
    /\ slot.closed => q1 = <<>> /\ sup # "running"
    /\ \E low \in 0..boundary, base \in boundary..tail.last : Queued(base) /\ Filtered(low, base)

LEMMA CountsStay ==
  ASSUME TypeInv, SaidInOrder, LogReplaced \/ \E i \in Ids : ScanArrives(i),
         NEW g \in Nat, NEW a \in Nat, NEW b \in Nat, Passed(g, b)
  PROVE  RowsOf(g, a, b)' = RowsOf(g, a, b) /\ TrueCounts(g, a, b)' = TrueCounts(g, a, b)
<1>n. PICK n \in Nat : n = Len(stream) /\ DOMAIN stream = 1..n
  BY DEF TypeInv, StreamTypes
<1>1. ScansIn(g, a, b)' = ScansIn(g, a, b)
  BY PastStays
<1>2. RowsOf(g, a, b)' = RowsOf(g, a, b)
  BY <1>1 DEF RowsOf
<1>3. \E e \in Event : Stored(e)
  <2>1. ASSUME NEW i \in Ids PROVE Recorded(i, relay.log) \in Event
    BY Bounds DEF Recorded, Event, TypeInv, StreamTypes
  <2>2. ASSUME LogReplaced PROVE LogReset(relay.log + 1) \in Event
    BY <2>2, Bounds DEF LogReplaced, LogReset, Event, TypeInv, StreamTypes
  <2> QED BY <2>1, <2>2 DEF LogReplaced, ScanArrives, Arrives
<1>4. PICK e \in Event : Stored(e)
  BY <1>3
<1>5. stream \in Seq(Event)
  BY DEF TypeInv, StreamTypes
<1>6. /\ stream' \in Seq(Event) /\ Len(stream') = n + 1 /\ DOMAIN stream' = 1..(n + 1)
      /\ \A k \in 1..n : stream'[k] = stream[k]
  <2>1. stream' \in Seq(Event) /\ Len(stream') = n + 1 /\ \A k \in 1..n : stream'[k] = stream[k]
    BY <1>n, <1>4, <1>5, Joins
  <2>2. DOMAIN stream' = 1..(n + 1)
    BY <2>1
  <2> QED BY <2>1, <2>2
<1> DEFINE said(s) == {i \in (a + 1)..b : \E k \in DOMAIN s : s[k] = Recorded(i, g)}
<1>7. said(stream) = ScansIn(g, a, b)
  BY ScansInIs
<1>8. said(stream) \subseteq said(stream')
  BY <1>n, <1>6
<1>9. ASSUME NEW i \in said(stream') PROVE i \in ScansIn(g, a, b)
  <2>1. PICK k \in 1..(n + 1) : stream'[k] = Recorded(i, g)
    BY <1>6, <1>9
  <2>2. k \in Records(g, n + 1)'
    BY <2>1 DEF Records, Recorded
  <2>3. stream'[k].id = i
    BY <2>1 DEF Recorded
  <2>4. i \in Said(g, n + 1)'
    BY <2>2, <2>3 DEF Said
  <2>5. i \in Said(g, Len(stream))'
    BY <1>6, <2>4
  <2>6. i \in ScansIn(g, a, b)'
    BY <1>9, <2>5 DEF ScansIn
  <2> QED BY <1>1, <2>6
<1>10. said(stream') = said(stream)
  <2> HIDE DEF said
  <2> QED BY <1>7, <1>8, <1>9
<1>11. TrueCounts(g, a, b) = [s \in Skus |-> Cardinality({i \in said(stream) : SkuOf[g][i] = s})]
  BY DEF TrueCounts
<1>12. TrueCounts(g, a, b)' = [s \in Skus |-> Cardinality({i \in said(stream') : SkuOf[g][i] = s})]
  BY DEF TrueCounts
<1> QED BY <1>2, <1>10, <1>11, <1>12

LEMMA SameStream ==
  ASSUME UNCHANGED stream
  PROVE  /\ \A g, a, b : RowsOf(g, a, b)' = RowsOf(g, a, b)
         /\ \A g, a, b : TrueCounts(g, a, b)' = TrueCounts(g, a, b)
<1>1. \A g, n : Said(g, n)' = Said(g, n)
  BY DEF Said, Records
<1>2. \A g, a, b : ScansIn(g, a, b)' = ScansIn(g, a, b)
  BY <1>1 DEF ScansIn
<1>3. \A g, a, b : RowsOf(g, a, b)' = RowsOf(g, a, b)
  BY <1>2 DEF RowsOf
<1>4. \A g, a, b : TrueCounts(g, a, b)' = TrueCounts(g, a, b)
  BY DEF TrueCounts
<1> QED BY <1>3, <1>4

LEMMA PassedBelow ==
  ASSUME TypeInv, NEW g \in Nat, NEW a \in Nat, NEW b \in Nat, a <= b, Passed(g, b)
  PROVE  Passed(g, a)
<1>1. relay.newest \in Nat
  BY Constants DEF TypeInv, StreamTypes
<1> QED BY <1>1 DEF Passed

\* The topic grows behind the filters.
LEMMA FiltersStayStep ==
  ASSUME TypeInv, SaidInOrder, TailInv, FiltersInv, LogReplaced \/ \E i \in Ids : ScanArrives(i)
  PROVE  FiltersInv'
<1>1. UNCHANGED <<sup, tail, q1, slot, buffer, boundary, counts>>
  BY DEF LogReplaced, ScanArrives, Arrives, pipeVars
<1>2. CASE ~ PipelineRuns
  BY <1>1, <1>2 DEF FiltersInv, PipelineRuns
<1>3. CASE PipelineRuns
  <2>g. PICK g \in Nat, l \in Nat : g = tail.of /\ l = tail.last
    BY Constants DEF TypeInv, TailTypes
  <2>1. PICK low \in 0..boundary, base \in boundary..l : Queued(base) /\ Filtered(low, base)
    BY <1>3, <2>g DEF FiltersInv
  <2>2. boundary \in Nat /\ low \in Nat /\ base \in Nat /\ boundary <= l /\ base <= l /\ boundary <= base
    BY <2>g, <2>1, Constants DEF TypeInv, FilterTypes
  <2>3. Passed(g, l)
    BY <1>3, <2>g DEF TailInv
  <2>4. \A a, b \in Nat : b <= l => RowsOf(g, a, b)' = RowsOf(g, a, b)
                                    /\ TrueCounts(g, a, b)' = TrueCounts(g, a, b)
    <3> TAKE a, b \in Nat
    <3> HAVE b <= l
    <3>1. Passed(g, b)
      BY <2>3, PassedBelow
    <3> QED BY <3>1, CountsStay
  <2>5. ASSUME NEW k \in 1..(l - base) PROVE EntryOf(base + k)' = EntryOf(base + k)
    <3>1. PICK i \in Nat, h \in Nat : i = base + k /\ h = i - 1 /\ i <= l
      BY <2>2
    <3>2. RowsOf(g, h, i)' = RowsOf(g, h, i)
      BY <2>4, <3>1
    <3>3. Boundary(i)' = Boundary(i)
      BY <1>1 DEF Boundary
    <3>4. EntryOf(i) = [id |-> i, scans |-> RowsOf(g, h, i),
                        then |-> IF Boundary(i) THEN "mark" ELSE "nothing"]
      BY <2>g, <3>1 DEF EntryOf
    <3>5. EntryOf(i)' = [id |-> i, scans |-> RowsOf(g, h, i)',
                        then |-> IF Boundary(i)' THEN "mark" ELSE "nothing"]
      BY <1>1, <2>g, <3>1 DEF EntryOf
    <3>6. EntryOf(i)' = EntryOf(i)
      BY <3>2, <3>3, <3>4, <3>5
    <3> QED BY <3>1, <3>6
  <2>6. Queued(base)'
    BY <1>1, <2>g, <2>1, <2>5 DEF Queued
  <2>7. Filtered(low, base)'
    <3>1. RowsOf(g, low, base)' = RowsOf(g, low, base)
      BY <2>2, <2>4
    <3>b. PICK b \in Nat : b = boundary
      BY <2>2
    <3>2. TrueCounts(g, low, b)' = TrueCounts(g, low, b)
      BY <2>2, <2>4, <3>b
    <3>3. \A i : Boundary(i)' = Boundary(i)
      BY <1>1 DEF Boundary
    <3>4. RowsOf(tail.of, low, base)' = RowsOf(g, low, base)'
      BY <1>1, <2>g
    <3>5. TrueCounts(tail.of, low, boundary)' = TrueCounts(g, low, b)'
      BY <1>1, <2>g, <3>b
    <3>6. buffer = RowsOf(g, low, base) /\ counts = TrueCounts(g, low, b)
      BY <2>1, <2>g, <3>b DEF Filtered
    <3> QED BY <1>1, <2>1, <3>1, <3>2, <3>3, <3>4, <3>5, <3>6 DEF Filtered
  <2>8. (boundary < tail.first \/ Boundary(boundary))' /\ (slot.closed => q1 = <<>> /\ sup # "running")'
    BY <1>1, <1>3 DEF FiltersInv, Boundary
  <2>9. low \in 0..boundary' /\ base \in boundary'..tail'.last
    BY <1>1, <2>g, <2>1
  <2> QED BY <2>6, <2>7, <2>8, <2>9 DEF FiltersInv
<1> QED BY <1>2, <1>3

LEMMA Joined ==
  ASSUME NEW T, NEW s \in Seq(T), NEW t \in Seq(T), NEW n \in Nat, NEW m \in Nat,
         n = Len(s), m = Len(t)
  PROVE  /\ Len(s \o t) = n + m /\ \A k \in 1..n : (s \o t)[k] = s[k]
         /\ \A k \in (n + 1)..(n + m) : (s \o t)[k] = t[k - n]
OBVIOUS

LEMMA FiltersStartStep ==
  ASSUME TypeInv, SourceInv, Bootstrap
  PROVE  FiltersInv'
<1>0. Slide \in Nat \ {0} /\ Window \in Nat \ {0}
  BY Constants
<1>f. PICK f \in Nat : f = FirstBoundary(LastBoundary, StartAfter)
  BY Bootstraps DEF TypeInv
<1>a. PICK a \in Nat, g \in Logs : a = StartAfter /\ g = SourceLog
  BY Bootstraps, StartIs DEF TypeInv
<1>1. tail' = [last |-> a, first |-> f, next |-> f, pending |-> {},
               hole |-> FALSE, upto |-> 0, log |-> source.log, of |-> g]
  BY <1>f, <1>a, Bootstraps DEF TypeInv
<1>2. tail'.last = a /\ tail'.first = f /\ tail'.of = g /\ boundary' = a
  BY <1>1, <1>a, Bootstraps DEF TypeInv
<1>3. UNCHANGED <<stream, q1, slot, buffer, counts>> /\ ~ PipelineRuns
  BY DEF Bootstrap, PipelineRuns
<1>4. q1 = <<>> /\ slot = [item |-> None, closed |-> FALSE] /\ buffer = {} /\ counts = Tally({})
  BY <1>3 DEF TypeInv, NothingRuns
<1>5. a < f /\ (a = 0 \/ a <= f - Window)
  <2>1. /\ LastBoundary \in Nat /\ (a = 0 \/ a = LastBoundary - Window) /\ a <= LastBoundary
    BY <1>a, StartIs
  <2>2. CASE LastBoundary > 0
    BY <1>0, <1>f, <2>1, <2>2 DEF FirstBoundary
  <2>3. CASE LastBoundary = 0
    BY <1>0, <1>f, <2>1, <2>3 DEF FirstBoundary
  <2> QED BY <2>1, <2>2, <2>3
<1>6. Queued(a)'
  <2>1. Len(q1') = a - a /\ 1..(a - a) = {}
    BY <1>3, <1>4
  <2> QED BY <1>2, <2>1 DEF Queued
<1>7. Filtered(a, a)'
  <2>1. RowsOf(g, a, a) = {} /\ TrueCounts(g, a, a) = Tally({})
    BY CountsNone
  <2>2. RowsOf(g, a, a)' = {} /\ TrueCounts(g, a, a)' = Tally({})
    BY <1>3, <2>1, SameStream
  <2>3. RowsOf(tail.of, a, a)' = RowsOf(g, a, a)' /\ TrueCounts(tail.of, a, boundary)' = TrueCounts(g, a, a)'
    BY <1>2
  <2>4. Above(f, a) = f
    BY <1>5 DEF Above
  <2>5. (a + 1)..a = {}
    OBVIOUS
  <2> QED BY <1>2, <1>3, <1>4, <1>5, <2>2, <2>3, <2>4, <2>5 DEF Filtered
<1>8. a \in 0..boundary' /\ a \in boundary'..tail'.last
  BY <1>2
<1>9. boundary' < tail'.first /\ ~ slot'.closed
  BY <1>2, <1>3, <1>4, <1>5
<1> QED BY <1>6, <1>7, <1>8, <1>9 DEF FiltersInv

LEMMA FiltersPassStep ==
  ASSUME TypeInv, SaidInOrder, SourceInv, TailInv, NextInv, FiltersInv, TailPass \/ TailSkips
  PROVE  FiltersInv'
<1>1. /\ sup = "running" /\ SourceLog = tail.of
      /\ UNCHANGED <<stream, sup, slot, buffer, boundary, counts>>
  BY ReadsAre DEF TailPass, TailSkips, MayPass, Passes
<1>2. TailReads /\ NextIsNext
  BY <1>1 DEF TailInv, NextInv, PipelineRuns
<1>3. PICK c, rows : PassTakes(c, rows)
  BY <1>2, PassTakesAll
<1>g. PICK g \in Logs, l \in Nat : g = tail.of /\ l = tail.last
  BY <1>1, Constants DEF TypeInv, TailTypes, LogsAgree, PipelineRuns
<1>4. PICK low \in 0..boundary, base \in boundary..l : Queued(base) /\ Filtered(low, base)
  BY <1>1, <1>g DEF FiltersInv, PipelineRuns
<1>5. boundary \in Nat /\ low \in Nat /\ base \in Nat /\ boundary <= l /\ base <= l /\ boundary <= base
  BY <1>g, <1>4, Constants DEF TypeInv, FilterTypes
<1>6. /\ c \in Nat /\ l <= c /\ rows = RowsOf(g, l, c)
      /\ q1' = q1 \o Advance(l, c, rows)
      /\ tail'.last = c /\ tail'.first = tail.first /\ tail'.of = g
  BY <1>3, <1>g, Constants DEF PassTakes
<1>7. Len(q1) = l - base /\ q1 \in Seq(QueueEntry) /\ \A k \in 1..(l - base) : q1[k] = EntryOf(base + k)
  BY <1>1, <1>g, <1>4 DEF Queued, TypeInv, TailTypes
<1>8. \A i : Boundary(i)' = Boundary(i)
  BY <1>6 DEF Boundary
<1>9. \A i : EntryOf(i)' = EntryOf(i)
  <2>1. \A i : RowsOf(g, i - 1, i)' = RowsOf(g, i - 1, i)
    BY <1>1, SameStream
  <2> QED BY <1>g, <1>6, <1>8, <2>1 DEF EntryOf
<1>10. ASSUME NEW j \in 1..(c - l) PROVE Advance(l, c, rows)[j] = EntryOf(l + j)
  <2>1. PICK i \in Nat, h \in Nat : i = l + j /\ h = i - 1 /\ l <= h /\ h <= i /\ i <= c
    BY <1>6
  <2>2. Advance(l, c, rows)[j] = [id |-> i, scans |-> {r \in rows : r.id = i},
                                 then |-> IF IsBoundary(i) THEN "mark" ELSE "nothing"]
    BY <1>g, <2>1 DEF Advance
  <2>3. IsBoundary(i) <=> Boundary(i)
    BY <1>g, <1>2, <2>1, BoundaryIs
  <2>4. RowsOf(g, h, i) = {r \in rows : h < r.id /\ r.id <= i}
    BY <1>6, <2>1, RowsOfIs
  <2>5. \A r \in rows : r.id \in Nat
    BY <1>6, RowsOfIs
  <2>6. RowsOf(g, h, i) = {r \in rows : r.id = i}
    BY <2>1, <2>4, <2>5
  <2>7. EntryOf(i) = [id |-> i, scans |-> RowsOf(g, h, i),
                     then |-> IF Boundary(i) THEN "mark" ELSE "nothing"]
    BY <1>g, <2>1 DEF EntryOf
  <2> QED BY <2>1, <2>2, <2>3, <2>6, <2>7
<1>11. Advance(l, c, rows) \in Seq(QueueEntry \cup {EntryOf(l + j) : j \in 1..(c - l)}) /\ Len(Advance(l, c, rows)) = c - l
  <2>1. c - l \in Nat
    BY <1>6
  <2> DEFINE n == c - l
             A == Advance(l, c, rows)
             T == QueueEntry \cup {EntryOf(l + j) : j \in 1..n}
  <2>2. A = [k \in 1..n |-> A[k]]
    BY DEF Advance
  <2>3. \A k \in 1..n : A[k] \in T
    BY <1>10
  <2> HIDE DEF A, T, n
  <2>4. A \in Seq(T) /\ Len(A) = n
    <3>1. n \in Nat
      BY <2>1 DEF n
    <3> QED BY <2>2, <2>3, <3>1
  <2> QED BY <2>4 DEF A, T, n
<1>12. Queued(base)'
  <2>1. PICK n \in Nat, m \in Nat : n = l - base /\ m = c - l
    BY <1>5, <1>6
  <2>A. PICK A, T : A = Advance(l, c, rows) /\ A \in Seq(T) /\ Len(A) = m /\ q1 \in Seq(T)
    <3>1. q1 \in Seq(QueueEntry \cup {EntryOf(l + j) : j \in 1..(c - l)})
      BY <1>7
    <3> QED BY <1>11, <2>1, <3>1
  <2>2. /\ Len(q1 \o A) = n + m /\ \A k \in 1..n : (q1 \o A)[k] = q1[k]
        /\ \A k \in (n + 1)..(n + m) : (q1 \o A)[k] = A[k - n]
    <3>1. PICK s \in Seq(T) : s = q1 /\ n = Len(s)
      BY <1>7, <2>1, <2>A
    <3>a. A \in Seq(T) /\ m = Len(A)
      BY <2>A
    <3>2. /\ Len(s \o A) = n + m /\ \A k \in 1..n : (s \o A)[k] = s[k]
          /\ \A k \in (n + 1)..(n + m) : (s \o A)[k] = A[k - n]
      BY <3>1, <3>a, Joined
    <3> QED BY <3>1, <3>2
  <2>d. n + m = c - base
    BY <1>5, <1>6, <2>1
  <2>3. Len(q1') = c - base
    BY <1>6, <2>2, <2>A, <2>d
  <2>4. ASSUME NEW k \in 1..(c - base) PROVE q1'[k] = EntryOf(base + k)
    <3>1. CASE k \in 1..n
      BY <1>6, <1>7, <2>1, <2>2, <2>A, <3>1
    <3>2. CASE k \in (n + 1)..(n + m)
      <4>1. k - n \in 1..(c - l) /\ l + (k - n) = base + k
        BY <1>5, <1>6, <2>1, <3>2
      <4>2. A[k - n] = EntryOf(base + k)
        BY <1>10, <2>A, <4>1
      <4> QED BY <1>6, <2>2, <2>A, <3>2, <4>2
    <3>3. \A x \in 1..(n + m) : x \in 1..n \/ x \in (n + 1)..(n + m)
      BY <2>1
    <3> QED BY <2>d, <3>1, <3>2, <3>3
  <2> QED BY <1>6, <1>9, <2>3, <2>4 DEF Queued
<1>13. Filtered(low, base)'
  <2>1. RowsOf(tail.of, low, base)' = RowsOf(tail.of, low, base)
        /\ TrueCounts(tail.of, low, boundary)' = TrueCounts(tail.of, low, boundary)
    BY <1>1, <1>g, <1>6, SameStream
  <2> QED BY <1>1, <1>4, <1>6, <1>8, <2>1 DEF Filtered
<1>14. (boundary < tail.first \/ Boundary(boundary))' /\ ~ slot'.closed
  BY <1>1, <1>6 DEF FiltersInv, Boundary, PipelineRuns
<1>15. low \in 0..boundary' /\ base \in boundary'..tail'.last
  BY <1>1, <1>5, <1>6
<1> QED BY <1>12, <1>13, <1>14, <1>15 DEF FiltersInv

LEMMA FiltersStopStep ==
  ASSUME TypeInv, FiltersInv, Stop
  PROVE  FiltersInv'
<1>1. /\ sup = "running" /\ sup' = "stopping" /\ q1' = Append(q1, End)
      /\ UNCHANGED <<stream, tail, slot, buffer, boundary, counts>>
  BY DEF Stop
<1>g. PICK l \in Nat : l = tail.last
  BY <1>1, Constants DEF TypeInv, TailTypes
<1>2. PICK low \in 0..boundary, base \in boundary..l : Queued(base) /\ Filtered(low, base)
  BY <1>1, <1>g DEF FiltersInv, PipelineRuns
<1>3. boundary \in Nat /\ low \in Nat /\ base \in Nat /\ base <= l /\ boundary <= base
  BY <1>g, <1>2, Constants DEF TypeInv, FilterTypes
<1>4. Len(q1) = l - base /\ q1 \in Seq(QueueEntry) /\ \A k \in 1..(l - base) : q1[k] = EntryOf(base + k)
  BY <1>1, <1>g, <1>2 DEF Queued, TypeInv, TailTypes
<1>5. \A i : Boundary(i)' = Boundary(i)
  BY <1>1 DEF Boundary
<1>6. \A i : EntryOf(i)' = EntryOf(i)
  <2>1. \A i : RowsOf(tail.of, i - 1, i)' = RowsOf(tail.of, i - 1, i)
    BY <1>1, SameStream
  <2> QED BY <1>1, <1>5, <2>1 DEF EntryOf
<1>7. Queued(base)'
  <2>1. PICK n \in Nat : n = l - base
    BY <1>3
  <2>2. Len(q1') = n + 1 /\ q1'[n + 1] = End /\ \A k \in 1..n : q1'[k] = q1[k]
    BY <1>1, <1>4, <2>1
  <2> QED BY <1>1, <1>g, <1>4, <1>6, <2>1, <2>2 DEF Queued
<1>8. Filtered(low, base)'
  <2>1. RowsOf(tail.of, low, base)' = RowsOf(tail.of, low, base)
        /\ TrueCounts(tail.of, low, boundary)' = TrueCounts(tail.of, low, boundary)
    BY <1>1, SameStream
  <2> QED BY <1>1, <1>2, <1>5, <2>1 DEF Filtered
<1>9. (boundary < tail.first \/ Boundary(boundary))' /\ ~ slot'.closed
  BY <1>1 DEF FiltersInv, Boundary, PipelineRuns
<1>10. low \in 0..boundary' /\ base \in boundary'..tail'.last
  BY <1>1, <1>g, <1>3
<1> QED BY <1>7, <1>8, <1>9, <1>10 DEF FiltersInv

LEMMA Rest ==
  ASSUME NEW T, NEW s \in Seq(T), NEW n \in 1..Len(s), NEW m \in Nat, m = Len(s) - n
  PROVE  /\ Len(SubSeq(s, n + 1, Len(s))) = m
         /\ \A k \in 1..m : SubSeq(s, n + 1, Len(s))[k] = s[n + k]
OBVIOUS

\* The scans of the first entries of the queue.
LEMMA ScansAre ==
  ASSUME TypeInv, NEW g \in Logs, g = tail.of, NEW base \in Nat, NEW n \in Nat, base + n <= tail.last,
         Queued(base)
  PROVE  Scans(n) = RowsOf(g, base, base + n)
<1>1. \A k \in 1..n : k \in 1..(tail.last - base)
  BY Constants DEF TypeInv, TailTypes
<1>2. ASSUME NEW k \in 1..n
      PROVE  q1[k].scans = {r \in RowsOf(g, base, base + n) : r.id = base + k}
  <2>1. PICK i \in Nat, h \in Nat, b \in Nat : /\ i = base + k /\ h = i - 1 /\ b = base + n
                                              /\ base <= h /\ h <= i /\ i <= b
    OBVIOUS
  <2>a. q1[k] = EntryOf(i)
    BY <1>1, <2>1 DEF Queued
  <2>b. EntryOf(i) = [id |-> i, scans |-> RowsOf(g, h, i),
                     then |-> IF Boundary(i) THEN "mark" ELSE "nothing"]
    BY <2>1 DEF EntryOf
  <2>2. q1[k].scans = RowsOf(g, h, i)
    BY <2>a, <2>b
  <2>3. RowsOf(g, h, i) = {r \in RowsOf(g, base, b) : h < r.id /\ r.id <= i}
    BY <2>1, RowsOfIs
  <2>4. \A r \in RowsOf(g, base, b) : r.id \in Nat
    BY RowsOfIs
  <2>5. RowsOf(g, h, i) = {r \in RowsOf(g, base, b) : r.id = i}
    BY <2>1, <2>3, <2>4
  <2> QED BY <2>1, <2>2, <2>5
<1>b. PICK b \in Nat : b = base + n
  OBVIOUS
<1>3. \A r \in RowsOf(g, base, b) : r.id \in Nat /\ base < r.id /\ r.id <= b
  BY RowsOfIs
<1>R. PICK R : R = RowsOf(g, base, b)
  OBVIOUS
<1>4. ASSUME NEW r \in R PROVE \E k \in 1..n : r \in q1[k].scans
  <2>1. r.id - base \in 1..n /\ base + (r.id - base) = r.id
    BY <1>b, <1>3, <1>R
  <2>2. PICK k \in 1..n : base + k = r.id
    BY <2>1
  <2> QED BY <1>2, <1>b, <1>R, <2>2
<1>5. \A k \in 1..n : q1[k].scans \subseteq R
  BY <1>2, <1>b, <1>R
<1>6. Scans(n) = R
  BY <1>4, <1>5 DEF Scans
<1> QED BY <1>b, <1>R, <1>6

\* What enters and what leaves at boundary b leaves the counts of the window before it.
LEMMA CountedIs ==
  ASSUME TypeInv, NEW g \in Logs, NEW low \in Nat, NEW a \in Nat, NEW b \in Nat, NEW d \in Nat,
         low <= a, a < b, d = Above(low, b - Window),
         boundary = a, counts = TrueCounts(g, low, a)
  PROVE  /\ Counted(RowsOf(g, low, b), b) = TrueCounts(g, d, b)
         /\ RowsOf(g, low, b) \ Evicted(RowsOf(g, low, b), b) = RowsOf(g, d, b)
<1>0. Window \in Nat \ {0} /\ low <= d /\ d <= b /\ low <= b /\ (d = low \/ d = b - Window) /\ b - Window <= d
  BY Constants DEF Above
<1>B. PICK B : B = RowsOf(g, low, b)
  OBVIOUS
<1>1. \A r \in B : r.id \in Nat /\ low < r.id /\ r.id <= b
  BY <1>B, RowsOfIs
<1>2. Added(B, b) = RowsOf(g, a, b)
  <2>1. RowsOf(g, a, b) = {r \in B : a < r.id /\ r.id <= b}
    BY <1>0, <1>B, RowsOfIs
  <2> QED BY <2>1 DEF Added
<1>3. Evicted(B, b) = RowsOf(g, low, d)
  <2>1. RowsOf(g, low, d) = {r \in B : low < r.id /\ r.id <= d}
    BY <1>0, <1>B, RowsOfIs
  <2>2. \A r \in B : r.id <= b - Window <=> low < r.id /\ r.id <= d
    BY <1>0, <1>1
  <2> QED BY <2>1, <2>2 DEF Evicted
<1>4. B \ Evicted(B, b) = RowsOf(g, d, b)
  <2>1. RowsOf(g, d, b) = {r \in B : d < r.id /\ r.id <= b}
    BY <1>0, <1>B, RowsOfIs
  <2>2. \A r \in B : ~ (r.id <= b - Window) <=> d < r.id /\ r.id <= b
    BY <1>0, <1>1
  <2> QED BY <2>1, <2>2 DEF Evicted
<1>5. ASSUME NEW s \in Skus
      PROVE  Above(0, counts[s] + Tally(Added(B, b))[s] - Tally(Evicted(B, b))[s]) = TrueCounts(g, d, b)[s]
  <2>1. TrueCounts(g, low, b)[s] = TrueCounts(g, low, a)[s] + TrueCounts(g, a, b)[s]
    BY <1>0, CountsAdd
  <2>a. low <= d /\ d <= b
    BY <1>0
  <2>2. TrueCounts(g, low, b)[s] = TrueCounts(g, low, d)[s] + TrueCounts(g, d, b)[s]
    BY <2>a, CountsAdd
  <2>3. /\ Tally(Added(B, b)) = TrueCounts(g, a, b)
        /\ Tally(Evicted(B, b)) = TrueCounts(g, low, d)
    BY <1>2, <1>3, TallyIs
  <2>b. \A x, y \in Nat : TrueCounts(g, x, y) \in [Skus -> Nat]
    BY CountsAre
  <2>4. TrueCounts(g, low, a)[s] \in Nat /\ TrueCounts(g, a, b)[s] \in Nat
        /\ TrueCounts(g, low, d)[s] \in Nat /\ TrueCounts(g, d, b)[s] \in Nat
    BY <2>b
  <2>5. PICK x \in Nat, y \in Nat, z \in Nat, w \in Nat :
          /\ x = TrueCounts(g, low, a)[s] /\ y = TrueCounts(g, a, b)[s]
          /\ z = TrueCounts(g, low, d)[s] /\ w = TrueCounts(g, d, b)[s]
    BY <2>4
  <2>6. x + y = z + w
    BY <2>1, <2>2, <2>5
  <2>7. Above(0, x + y - z) = w
    BY <2>6 DEF Above
  <2> QED BY <2>3, <2>5, <2>7
<1>6. TrueCounts(g, d, b) = [s \in Skus |-> TrueCounts(g, d, b)[s]]
  BY CountsAre
<1>7. Counted(B, b) = TrueCounts(g, d, b)
  BY <1>5, <1>6 DEF Counted
<1> QED BY <1>B, <1>4, <1>7

\* The filters leave alone what they are to find.
LEMMA SameEntries ==
  ASSUME UNCHANGED stream, tail'.of = tail.of, tail'.first = tail.first
  PROVE  /\ \A i : Boundary(i)' = Boundary(i) /\ EntryOf(i)' = EntryOf(i)
         /\ \A a, b : RowsOf(tail.of, a, b)' = RowsOf(tail.of, a, b)
         /\ \A a, b : TrueCounts(tail.of, a, b)' = TrueCounts(tail.of, a, b)
<1>g. PICK g : g = tail.of
  OBVIOUS
<1>1. \A a, b : RowsOf(g, a, b)' = RowsOf(g, a, b) /\ TrueCounts(g, a, b)' = TrueCounts(g, a, b)
  BY SameStream
<1>2. \A i : Boundary(i)' = Boundary(i)
  BY DEF Boundary
<1>3. \A a, b : /\ RowsOf(tail.of, a, b) = RowsOf(g, a, b)
                /\ RowsOf(tail.of, a, b)' = RowsOf(g, a, b)'
                /\ TrueCounts(tail.of, a, b) = TrueCounts(g, a, b)
                /\ TrueCounts(tail.of, a, b)' = TrueCounts(g, a, b)'
  BY <1>g
<1>4. ASSUME NEW i PROVE EntryOf(i)' = EntryOf(i)
  <2>1. RowsOf(tail.of, i - 1, i)' = RowsOf(tail.of, i - 1, i)
    BY <1>1, <1>3
  <2> QED BY <1>2, <2>1 DEF EntryOf
<1> QED BY <1>1, <1>2, <1>3, <1>4

LEMMA SlotTakes ==
  ASSUME NEW S, NEW s \in [item : S, closed : BOOLEAN], NEW x
  PROVE  [s EXCEPT !.item = x] = [item |-> x, closed |-> s.closed]
OBVIOUS

LEMMA OneMore ==
  ASSUME NEW base \in Nat, NEW l \in Nat, NEW n \in Nat, NEW k \in Nat, NEW m \in Nat, NEW b \in Nat,
         m = k - n /\ b = base + n /\ b <= l /\ k = l - base + 1
  PROVE  m = l - b + 1 /\ m \in 1..m /\ n + m = k
OBVIOUS

\* A queue without its first entries.
LEMMA QueueMoves ==
  ASSUME TypeInv, NEW base \in Nat, NEW l \in Nat, NEW n \in Nat, l = tail.last, base <= l,
         Queued(base), 1 <= n, n <= l - base,
         q1' = SubSeq(q1, n + 1, Len(q1)), UNCHANGED <<stream, tail, sup>>
  PROVE  Queued(base + n)'
<1>s. PICK s \in Seq(QueueEntry), k \in Nat : s = q1 /\ k = Len(s)
  BY DEF TypeInv, TailTypes
<1>k. k = l - base \/ (k = l - base + 1 /\ s[k] = End /\ sup = "stopping")
  BY <1>s DEF Queued
<1>1. PICK m \in Nat, b \in Nat : /\ m = k - n /\ b = base + n /\ n \in 1..k /\ b <= l
                                  /\ l - b = (l - base) - n
  <2>1. k - n \in Nat /\ n \in 1..k
    BY <1>k
  <2>2. base + n \in Nat /\ base + n <= l /\ l - (base + n) = (l - base) - n
    OBVIOUS
  <2> QED BY <2>1, <2>2
<1>2. Len(q1') = m /\ \A j \in 1..m : q1'[j] = s[n + j]
  BY <1>s, <1>1, Rest
<1>3. \A i : EntryOf(i)' = EntryOf(i)
  BY SameEntries
<1>4. ASSUME NEW j \in 1..(l - b) PROVE q1'[j] = EntryOf(b + j)
  <2>0. l - base <= k
    BY <1>k
  <2>1. n + j \in 1..(l - base) /\ base + (n + j) = b + j /\ j \in 1..m
    BY <1>1, <2>0
  <2>2. s[n + j] = EntryOf(base + (n + j))
    BY <1>s, <2>1 DEF Queued
  <2> QED BY <1>2, <2>1, <2>2
<1>5. \/ Len(q1') = l - b
      \/ Len(q1') = l - b + 1 /\ q1'[Len(q1')] = End /\ sup' = "stopping"
  <2>1. CASE k = l - base
    <3>1. m = l - b
      BY <1>1, <2>1
    <3> QED BY <1>2, <3>1
  <2>2. CASE k = l - base + 1 /\ s[k] = End /\ sup = "stopping"
    <3>1. m = l - b + 1 /\ m \in 1..m /\ n + m = k
      <4>1. m = k - n /\ b = base + n /\ b <= l /\ k = l - base + 1
        BY <1>1, <2>2
      <4> QED BY ONLY <4>1, OneMore, m \in Nat, k \in Nat, n \in Nat, base \in Nat, b \in Nat, l \in Nat
    <3>2. q1'[m] = End
      BY <1>2, <2>2, <3>1
    <3> QED BY <1>2, <2>2, <3>1, <3>2
  <2> QED BY <1>k, <2>1, <2>2
<1>6. Queued(b)'
  BY <1>3, <1>4, <1>5 DEF Queued
<1> QED BY <1>1, <1>6

\* One item of the filters: the next window, or the end.
FiltersDo ==
  \/ boundary' = boundary /\ slot' = [item |-> slot.item, closed |-> TRUE]
  \/ \E b \in Nat :
       /\ boundary < b /\ b <= tail.last /\ boundary' = b /\ Boundary(b)
       /\ \A i \in (boundary + 1)..(b - 1) : ~ Boundary(i)
       /\ slot' = [item |-> [end |-> b, counts |-> TrueCounts(tail.of, Above(0, b - Window), b)],
                   closed |-> FALSE]

\* A marked entry: the window that ends there is counted and handed on.
LEMMA FiltersMark ==
  ASSUME TypeInv, PipelineRuns, FiltersInv, Filters,
         NEW g \in Logs, NEW l \in Nat, NEW a \in Nat, NEW low \in 0..a, NEW base \in a..l,
         NEW n \in Nat, NEW b \in Nat,
         g = tail.of, l = tail.last, a = boundary, Queued(base), Filtered(low, base),
         n = NextMark, b = base + n, n <= l - base
  PROVE  FiltersInv' /\ FiltersDo
<1>1. /\ n \in 1..Len(q1) /\ \A k \in 1..(n - 1) : q1[k].then = "nothing"
      /\ q1[n].then # "nothing"
  BY MarkIs DEF Filters
<1>2. /\ UNCHANGED <<stream, tail, sup>>
      /\ q1' = SubSeq(q1, n + 1, Len(q1)) /\ ~ slot.closed
  <2>1. UNCHANGED <<stream, tail, sup>> /\ q1' = SubSeq(q1, n + 1, Len(q1))
    BY DEF Filters
  <2>2. q1 # <<>>
    BY <1>1
  <2> QED BY <2>1, <2>2 DEF FiltersInv
<1>0. low \in Nat /\ base \in Nat /\ low <= a /\ a <= base /\ base <= l /\ base < b /\ b <= l
      /\ Window \in Nat \ {0} /\ tail.first \in Nat
  <2>1. n >= 1
    BY <1>1
  <2>2. low \in Nat /\ base \in Nat /\ low <= a /\ a <= base /\ base <= l
    OBVIOUS
  <2>3. base < b /\ b <= l
    BY <2>1, <2>2
  <2>4. Window \in Nat \ {0} /\ tail.first \in Nat
    BY Constants DEF TypeInv, TailTypes
  <2> QED BY <2>2, <2>3, <2>4
<1>3. \A k \in 1..n : q1[k] = EntryOf(base + k)
  BY <1>0 DEF Queued
<1>4. q1[n] = EntryOf(b)
  BY <1>1, <1>3
<1>5. Boundary(b) /\ q1[n].id = b /\ q1[n].then = "mark"
  BY <1>1, <1>4 DEF EntryOf
<1>6. ASSUME NEW i \in (a + 1)..(b - 1) PROVE ~ Boundary(i)
  <2>1. CASE i <= base
    BY <1>0, <2>1 DEF Filtered
  <2>2. CASE base < i
    <3>1. PICK k \in 1..(n - 1) : i = base + k
      <4>1. i - base \in 1..(n - 1) /\ i = base + (i - base)
        BY <1>0, <2>2
      <4> QED BY <4>1
    <3>2. q1[k] = EntryOf(i) /\ q1[k].then = "nothing"
      <4>1. q1[k].then = "nothing"
        BY <1>1
      <4>2. k \in 1..n
        OBVIOUS
      <4>3. q1[k] = EntryOf(base + k)
        BY <1>3, <4>2
      <4> QED BY <3>1, <4>1, <4>3
    <3> QED BY <3>2 DEF EntryOf
  <2> QED BY <1>0, <2>1, <2>2
<1>7. buffer \cup Scans(n) = RowsOf(g, low, b)
  <2>1. Scans(n) = RowsOf(g, base, b)
    BY <1>0, ScansAre
  <2>2. buffer = RowsOf(g, low, base)
    BY DEF Filtered
  <2>3. low <= base /\ base <= b
    BY <1>0
  <2>4. RowsOf(g, low, b) = RowsOf(g, low, base) \cup RowsOf(g, base, b)
    BY <1>0, <2>3, RowsOfIs
  <2> QED BY <2>1, <2>2, <2>4
<1>8. PICK d \in Nat : /\ d = Above(low, b - Window) /\ d = Above(0, b - Window) /\ d <= b
                       /\ d = 0 \/ d <= Above(tail.first, b) - Window
  <2>1. low = 0 \/ low <= b - Window
    BY <1>0, <1>5 DEF Filtered, Boundary, Above
  <2>2. Above(tail.first, b) = b
    BY <1>0, <1>5 DEF Boundary, Above
  <2> QED BY <1>0, <2>1, <2>2 DEF Above
<1>B. PICK B : B = RowsOf(g, low, b)
  OBVIOUS
<1>9. Counted(B, b) = TrueCounts(g, d, b) /\ B \ Evicted(B, b) = RowsOf(g, d, b)
  <2>1. low <= a /\ a < b /\ counts = TrueCounts(g, low, a)
    BY <1>0 DEF Filtered
  <2>2. /\ Counted(RowsOf(g, low, b), b) = TrueCounts(g, d, b)
        /\ RowsOf(g, low, b) \ Evicted(RowsOf(g, low, b), b) = RowsOf(g, d, b)
    BY <1>0, <1>8, <2>1, CountedIs
  <2> QED BY <1>B, <2>2
<1>10. /\ counts' = Counted(B, b) /\ slot' = [slot EXCEPT !.item = [end |-> b, counts |-> counts']]
       /\ buffer' = B \ Evicted(B, b) /\ boundary' = b
  <2>1. q1[n] = q1[NextMark] /\ buffer \cup Scans(NextMark) = B
    BY <1>7, <1>B
  <2> QED BY <1>5, <2>1 DEF Filters
<1>11. slot' = [item |-> [end |-> b, counts |-> TrueCounts(g, d, b)], closed |-> FALSE]
  <2>1. slot \in [item : {None} \cup Ranked, closed : BOOLEAN] /\ slot.closed = FALSE
    BY <1>2 DEF TypeInv, FilterTypes
  <2>x. PICK x : x = [end |-> b, counts |-> counts']
    OBVIOUS
  <2>2. [slot EXCEPT !.item = x] = [item |-> x, closed |-> slot.closed]
    BY <2>1, SlotTakes, Zenon
  <2>3. slot' = [item |-> x, closed |-> FALSE]
    BY <1>10, <2>x, <2>1, <2>2
  <2> QED BY <1>9, <1>10, <2>x, <2>3
<1>12. Queued(b)'
  <2>1. base \in Nat /\ base <= l /\ 1 <= n /\ n <= l - base
    BY <1>0, <1>1
  <2>2. q1' = SubSeq(q1, n + 1, Len(q1)) /\ UNCHANGED <<stream, tail, sup>>
    BY <1>2
  <2>3. Queued(base + n)'
    BY <2>1, <2>2, QueueMoves
  <2> QED BY <2>3
<1>13. Filtered(d, b)'
  <2>1. \A i : Boundary(i)' = Boundary(i)
    BY <1>2, SameEntries
  <2>2. RowsOf(g, d, b)' = RowsOf(g, d, b) /\ TrueCounts(g, d, b)' = TrueCounts(g, d, b)
    BY <1>2, SameStream
  <2>3. RowsOf(tail.of, d, b)' = RowsOf(g, d, b)' /\ TrueCounts(tail.of, d, boundary)' = TrueCounts(g, d, b)'
    BY <1>2, <1>10
  <2>4. (b + 1)..b = {}
    BY <1>0
  <2> QED BY <1>2, <1>8, <1>9, <1>10, <2>2, <2>3, <2>4 DEF Filtered
<1>14. d \in 0..boundary' /\ b \in boundary'..tail'.last
  BY <1>0, <1>2, <1>8, <1>10
<1>15. Boundary(boundary)' /\ ~ slot'.closed
  BY <1>2, <1>5, <1>10, <1>11 DEF Boundary
<1>16. FiltersInv'
  BY <1>12, <1>13, <1>14, <1>15 DEF FiltersInv
<1>17. slot' = [item |-> [end |-> b, counts |-> TrueCounts(g, Above(0, b - Window), b)],
                closed |-> FALSE]
  BY <1>8, <1>11
<1>18. a < b /\ b <= l
  BY <1>0
<1>19. /\ boundary < b /\ b <= tail.last /\ boundary' = b /\ Boundary(b)
       /\ \A i \in (boundary + 1)..(b - 1) : ~ Boundary(i)
       /\ slot' = [item |-> [end |-> b, counts |-> TrueCounts(tail.of, Above(0, b - Window), b)],
                   closed |-> FALSE]
  BY <1>5, <1>6, <1>10, <1>17, <1>18
<1> QED BY <1>16, <1>19 DEF FiltersDo

\* The end: what is left in the queue only fills the buffer.
LEMMA FiltersEnd ==
  ASSUME TypeInv, PipelineRuns, FiltersInv, Filters,
         NEW g \in Logs, NEW l \in Nat, NEW a \in Nat, NEW low \in 0..a, NEW base \in a..l,
         NEW n \in Nat, g = tail.of, l = tail.last, a = boundary, Queued(base), Filtered(low, base),
         n = NextMark, l - base < n
  PROVE  FiltersInv' /\ FiltersDo
<1>1. /\ n \in 1..Len(q1) /\ \A k \in 1..(n - 1) : q1[k].then = "nothing"
      /\ UNCHANGED <<stream, tail, sup>> /\ q1' = SubSeq(q1, n + 1, Len(q1))
  BY MarkIs DEF Filters
<1>0. low \in Nat /\ base \in Nat /\ low <= a /\ a <= base /\ base <= l
  OBVIOUS
<1>m. PICK m \in Nat : m = l - base
  BY <1>0
<1>s. Len(q1) \in Nat /\ q1 \in Seq(QueueEntry)
  BY DEF TypeInv, TailTypes
<1>2. Len(q1) = n /\ n = m + 1 /\ q1[n] = End /\ sup = "stopping"
  BY <1>1, <1>m, <1>s DEF Queued
<1>3. q1' = <<>>
  BY <1>1, <1>2, <1>s
<1>4. \A k \in 1..m : q1[k] = EntryOf(base + k)
  BY <1>m DEF Queued
<1>5. ASSUME NEW i \in (a + 1)..l PROVE ~ Boundary(i)
  <2>1. CASE i <= base
    BY <1>0, <2>1 DEF Filtered
  <2>2. CASE base < i
    <3>1. PICK k \in 1..m : i = base + k
      <4>1. i - base \in 1..m /\ i = base + (i - base)
        BY <1>0, <1>m, <2>2
      <4> QED BY <4>1
    <3>2. q1[k] = EntryOf(i) /\ q1[k].then = "nothing"
      <4>1. k \in 1..(n - 1)
        BY <1>2, <1>m
      <4> QED BY <1>1, <1>4, <3>1, <4>1
    <3> QED BY <3>2 DEF EntryOf
  <2> QED BY <1>0, <2>1, <2>2
<1>6. buffer \cup Scans(n) = RowsOf(g, low, l)
  <2>1. Scans(m) = RowsOf(g, base, l)
    <3>1. base + m = l
      BY <1>0, <1>m
    <3> QED BY <1>0, <3>1, ScansAre
  <2>2. Scans(n) = Scans(m)
    <3>1. n = m + 1
      BY <1>2
    <3>2. 1..n = (1..m) \cup {n}
      BY <3>1
    <3>3. q1[n].scans = {}
      BY <1>2 DEF End
    <3>4. Scans(n) = UNION {q1[k].scans : k \in (1..m) \cup {n}}
      BY <3>2 DEF Scans
    <3>5. {q1[k].scans : k \in (1..m) \cup {n}} = {q1[k].scans : k \in 1..m} \cup {{}}
      BY <3>3
    <3> QED BY <3>4, <3>5 DEF Scans
  <2>3. buffer = RowsOf(g, low, base)
    BY DEF Filtered
  <2>4. low <= base
    BY <1>0
  <2>5. RowsOf(g, low, l) = RowsOf(g, low, base) \cup RowsOf(g, base, l)
    BY <1>0, <2>4, RowsOfIs
  <2> QED BY <2>1, <2>2, <2>3, <2>5
<1>7. slot' = Ended /\ buffer' = RowsOf(g, low, l) /\ boundary' = a /\ counts' = counts
  <2>1. q1[n] = q1[NextMark] /\ buffer \cup Scans(NextMark) = RowsOf(g, low, l) /\ q1[n].then = "end"
    BY <1>2, <1>6 DEF End
  <2> QED BY <2>1 DEF Filters
<1>8. slot' = [item |-> slot.item, closed |-> TRUE]
  <2>1. slot = [item |-> slot.item, closed |-> slot.closed]
    BY DEF TypeInv, FilterTypes
  <2> QED BY <1>7, <2>1 DEF Ended
<1>9. Queued(l)'
  <2>1. Len(q1') = l - l /\ 1..(l - l) = {}
    BY <1>3
  <2> QED BY <1>1, <2>1 DEF Queued
<1>10. Filtered(low, l)'
  <2>1. RowsOf(g, low, l)' = RowsOf(g, low, l) /\ TrueCounts(g, low, a)' = TrueCounts(g, low, a)
    BY <1>1, SameStream
  <2>2. RowsOf(tail.of, low, l)' = RowsOf(g, low, l)' /\ TrueCounts(tail.of, low, boundary)' = TrueCounts(g, low, a)'
    BY <1>1, <1>7
  <2>3. \A i : Boundary(i)' = Boundary(i)
    BY <1>1, SameEntries
  <2>4. counts = TrueCounts(g, low, a) /\ (low = 0 \/ low <= Above(tail.first, a) - Window)
    BY DEF Filtered
  <2> QED BY <1>1, <1>5, <1>7, <2>1, <2>2, <2>3, <2>4 DEF Filtered
<1>11. low \in 0..boundary' /\ l \in boundary'..tail'.last
  BY <1>0, <1>1, <1>7
<1>12. (boundary < tail.first \/ Boundary(boundary))' /\ (slot'.closed => q1' = <<>> /\ sup' # "running")
  BY <1>1, <1>2, <1>3, <1>7 DEF FiltersInv, Boundary
<1>13. FiltersInv'
  BY <1>9, <1>10, <1>11, <1>12 DEF FiltersInv
<1> QED BY <1>7, <1>8, <1>13 DEF FiltersDo

LEMMA FiltersRunStep ==
  ASSUME TypeInv, FiltersInv, Filters
  PROVE  PipelineRuns /\ FiltersInv' /\ FiltersDo
<1>1. PipelineRuns
  <2>1. q1 # <<>>
    BY MarkIs DEF Filters
  <2> QED BY <2>1 DEF TypeInv, NothingRuns
<1>2. PICK g \in Logs, l \in Nat, a \in Nat : g = tail.of /\ l = tail.last /\ a = boundary
  BY <1>1, Constants DEF TypeInv, TailTypes, FilterTypes, LogsAgree
<1>3. PICK low \in 0..a, base \in a..l : Queued(base) /\ Filtered(low, base)
  BY <1>1, <1>2 DEF FiltersInv
<1>4. PICK n \in Nat : n = NextMark
  <2>1. NextMark \in 1..Len(q1) /\ Len(q1) \in Nat
    BY MarkIs DEF Filters, TypeInv, TailTypes
  <2> QED BY <2>1
<1>5. base \in Nat /\ base <= l
  BY <1>3
<1>6. CASE n <= l - base
  <2>1. PICK b \in Nat : b = base + n
    BY <1>5
  <2>2. FiltersInv' /\ FiltersDo
    BY <1>1, <1>2, <1>3, <1>4, <1>6, <2>1, FiltersMark
  <2> QED BY <1>1, <2>2
<1>7. CASE l - base < n
  <2>1. FiltersInv' /\ FiltersDo
    BY <1>1, <1>2, <1>3, <1>4, <1>7, FiltersEnd
  <2> QED BY <1>1, <2>1
<1> QED BY <1>4, <1>5, <1>6, <1>7

LEMMA FiltersSame ==
  ASSUME TypeInv, FiltersInv, PipelineRuns, UNCHANGED <<stream, tail, q1, buffer, boundary, counts>>,
         slot'.closed = slot.closed,
         sup' = sup \/ (q1 = <<>> /\ sup' # "running")
  PROVE  FiltersInv'
<1>l. PICK l \in Nat, a \in Nat : l = tail.last /\ a = boundary
  BY Constants DEF TypeInv, TailTypes, FilterTypes
<1>1. PICK low \in 0..boundary, base \in boundary..tail.last : Queued(base) /\ Filtered(low, base)
  BY DEF FiltersInv
<1>b. base \in Nat /\ base <= l
  BY <1>l, <1>1
<1>2. /\ \A i : Boundary(i)' = Boundary(i) /\ EntryOf(i)' = EntryOf(i)
      /\ \A x, y : RowsOf(tail.of, x, y)' = RowsOf(tail.of, x, y)
      /\ \A x, y : TrueCounts(tail.of, x, y)' = TrueCounts(tail.of, x, y)
  BY SameEntries
<1>3. Queued(base)'
  <2>1. \/ Len(q1) = tail.last - base
        \/ Len(q1) = tail.last - base + 1 /\ q1[Len(q1)] = End /\ sup' = "stopping"
    <3>1. CASE sup' = sup
      BY <1>1, <3>1 DEF Queued
    <3>2. CASE q1 = <<>>
      <4>1. Len(q1) = 0 /\ tail.last - base \in Nat
        BY <1>l, <1>b, <3>2
      <4>2. Len(q1) = tail.last - base \/ Len(q1) = tail.last - base + 1
        BY <1>1 DEF Queued
      <4>3. Len(q1) = tail.last - base
        BY <4>1, <4>2
      <4> QED BY <4>3
    <3> QED BY <3>1, <3>2
  <2>2. \A k \in 1..(tail.last - base) : q1[k] = EntryOf(base + k)
    BY <1>1 DEF Queued
  <2>3. \A k : EntryOf(base + k)' = EntryOf(base + k)
    BY <1>2
  <2> QED BY <2>1, <2>2, <2>3 DEF Queued
<1>4. Filtered(low, base)'
  <2>1. RowsOf(tail.of, low, base)' = RowsOf(tail.of, low, base)
        /\ TrueCounts(tail.of, low, boundary)' = TrueCounts(tail.of, low, boundary)
    BY <1>2
  <2> QED BY <1>1, <1>2, <2>1 DEF Filtered
<1>5. (boundary < tail.first \/ Boundary(boundary))' /\ (slot'.closed => q1' = <<>> /\ sup' # "running")
  BY <1>2 DEF FiltersInv
<1> QED BY <1>1, <1>3, <1>4, <1>5 DEF FiltersInv

LEMMA FiltersInvStep ==
  ASSUME TypeInv, SaidInOrder, SourceInv, TailInv, NextInv, FiltersInv, WindowsNext
  PROVE  FiltersInv'
<1>1. CASE ~ PipelineRuns'
  BY <1>1 DEF FiltersInv
<1>2. CASE LogReplaced \/ \E i \in Ids : ScanArrives(i)
  BY <1>2, FiltersStayStep
<1>3. CASE SourceApplies \/ SourceCatchesUp
  <2>1. UNCHANGED <<stream, sup, tail, q1, slot, buffer, boundary, counts>>
    BY <1>3 DEF SourceApplies, SourceCatchesUp, pipeVars
  <2>2. CASE PipelineRuns
    BY <2>1, <2>2, FiltersSame
  <2> QED BY <1>1, <2>1, <2>2 DEF PipelineRuns
<1>4. CASE Bootstrap
  BY <1>4, FiltersStartStep
<1>5. CASE TailPass \/ TailSkips
  BY <1>5, FiltersPassStep
<1>6. CASE Stop
  BY <1>6, FiltersStopStep
<1>7. CASE Filters
  BY <1>7, FiltersRunStep
<1>8. CASE OutputFilter
  <2>1. UNCHANGED <<stream, sup, tail, q1, buffer, boundary, counts>>
    BY <1>8 DEF OutputFilter
  <2>2. slot'.closed = slot.closed
    BY <1>8 DEF OutputFilter, TypeInv, FilterTypes
  <2>3. CASE PipelineRuns
    BY <2>1, <2>2, <2>3, FiltersSame
  <2> QED BY <1>1, <2>1, <2>3 DEF PipelineRuns
<1>9. CASE Drain
  <2>1. /\ UNCHANGED <<stream, tail, q1, slot, buffer, boundary, counts>>
        /\ sup = "stopping" /\ sup' = "drained" /\ slot.closed
    BY <1>9 DEF Drain, pipeVars
  <2>2. PipelineRuns /\ q1 = <<>>
    BY <2>1 DEF PipelineRuns, FiltersInv
  <2> QED BY <2>1, <2>2, FiltersSame
<1>10. CASE StartsOver \/ BackoffEnds \/ PipelineFails \/ ProcessStarts
  BY <1>1, <1>10 DEF StartsOver, BackoffEnds, PipelineFails, ProcessStarts, PipelineRuns
<1> QED BY <1>2, <1>3, <1>4, <1>5, <1>6, <1>7, <1>8, <1>9, <1>10 DEF WindowsNext, Works

-----------------------------------------------------------------------------
(* The last item *)

\* What waits in the slot is the window at the last boundary; without one, that
\* window is published.
SlotInv ==
  PipelineRuns =>
    /\ slot.item # None =>
         /\ slot.item.end = boundary /\ Boundary(boundary) /\ written < boundary
         /\ slot.item.counts = TrueCounts(tail.of, Above(0, boundary - Window), boundary)
    /\ slot.item = None /\ Boundary(boundary) => written = boundary
    /\ written <= boundary
    /\ sup = "drained" => slot.closed /\ slot.item = None
    /\ written # 0 => latest # None /\ latest.end = written /\ latest.of = tail.of

LEMMA SlotSame ==
  ASSUME SlotInv, PipelineRuns, tail'.of = tail.of, tail'.first = tail.first,
         UNCHANGED <<slot, boundary, written, latest>>, sup' = sup \/ sup' # "drained",
         TrueCounts(tail.of, Above(0, boundary - Window), boundary)'
           = TrueCounts(tail.of, Above(0, boundary - Window), boundary)
  PROVE  SlotInv'
<1>1. Boundary(boundary)' = Boundary(boundary)
  BY DEF Boundary
<1>2. TrueCounts(tail.of, Above(0, boundary - Window), boundary)' =
        slot'.item.counts \/ slot'.item = None
  BY DEF SlotInv
<1>3. slot'.item # None =>
         /\ slot'.item.end = boundary' /\ Boundary(boundary)' /\ written' < boundary'
  BY <1>1 DEF SlotInv
<1>4. /\ slot'.item = None /\ Boundary(boundary)' => written' = boundary'
      /\ written' <= boundary'
      /\ sup' = "drained" => slot'.closed /\ slot'.item = None
      /\ written' # 0 => latest' # None /\ latest'.end = written' /\ latest'.of = tail'.of
  BY <1>1 DEF SlotInv
<1> QED BY <1>2, <1>3, <1>4 DEF SlotInv

\* An item that is not empty.
LEMMA ItemsAre ==
  ASSUME TypeInv
  PROVE  /\ slot.item # None => slot.item \in Ranked /\ slot.item.end \in 1..MaxScans
         /\ boundary \in Nat /\ written \in Nat
         /\ \A b \in Nat \ {0} : \A c : [end |-> b, counts |-> c] # None
         /\ \A b \in Nat \ {0} : \A c, g : [end |-> b, counts |-> c, of |-> g] # None
<1>1. slot.item # None => slot.item \in Ranked /\ slot.item.end \in 1..MaxScans
  BY DEF TypeInv, FilterTypes, Ranked
<1>2. boundary \in Nat /\ written \in Nat
  BY Constants DEF TypeInv, FilterTypes
<1>3. \A b \in Nat \ {0} : \A c : [end |-> b, counts |-> c] # None
  <2>1. ASSUME NEW b \in Nat \ {0}, NEW c, [end |-> b, counts |-> c] = None PROVE FALSE
    <3>1. [end |-> b, counts |-> c].end = None.end
      BY <2>1
    <3> QED BY <3>1 DEF None
  <2> QED BY <2>1
<1>4. \A b \in Nat \ {0} : \A c, g : [end |-> b, counts |-> c, of |-> g] # None
  <2>1. ASSUME NEW b \in Nat \ {0}, NEW c, NEW g, [end |-> b, counts |-> c, of |-> g] = None PROVE FALSE
    <3>1. [end |-> b, counts |-> c, of |-> g].end = None.end
      BY <2>1
    <3> QED BY <3>1 DEF None
  <2> QED BY <2>1
<1> QED BY <1>1, <1>2, <1>3, <1>4

\* The last boundary lies behind the tail.
LEMMA BoundaryPassed ==
  ASSUME TypeInv, TailInv, FiltersInv, PipelineRuns
  PROVE  /\ boundary <= tail.last /\ tail.of \in Nat /\ tail.of <= SourceLog /\ SourceLog \in Nat
         /\ Passed(tail.of, boundary)
<1>0. boundary \in Nat /\ tail.last \in Nat /\ tail.of \in Nat
  <2>1. boundary \in 0..MaxScans
    BY DEF TypeInv, FilterTypes
  <2>2. tail.last \in 0..MaxScans /\ tail.of \in 0..MaxLogs
    BY DEF TypeInv, TailTypes
  <2> QED BY <2>1, <2>2, Constants
<1>1. PICK b \in Nat, l \in Nat, g \in Nat : b = boundary /\ l = tail.last /\ g = tail.of
  BY <1>0
<1>2. b <= l
  <2>1. PICK base \in b..l : TRUE
    BY <1>1 DEF FiltersInv
  <2> QED BY <2>1
<1>3. Passed(g, l)
  BY <1>1 DEF TailInv
<1>4. Passed(g, b)
  BY <1>2, <1>3, PassedBelow
<1>5. SourceLog \in Nat /\ g <= SourceLog
  BY <1>1, SourceFollows DEF TypeInv, LogsAgree
<1> QED BY <1>1, <1>2, <1>4, <1>5

LEMMA SlotInvStep ==
  ASSUME TypeInv, SaidInOrder, SourceInv, TailInv, NextInv, FiltersInv, SlotInv, WindowsNext
  PROVE  SlotInv'
<1> DEFINE true == TrueCounts(tail.of, Above(0, boundary - Window), boundary)
<1>0. Window \in Nat \ {0}
  BY Constants
<1>1. CASE ~ PipelineRuns'
  BY <1>1 DEF SlotInv
<1>2. CASE PipelineRuns /\ UNCHANGED <<stream, slot, boundary, written, latest>> /\ tail'.of = tail.of
           /\ tail'.first = tail.first /\ (sup' = sup \/ sup' # "drained")
  <2>1. true' = true
    <3>1. PICK g, a, b : g = tail.of /\ a = Above(0, boundary - Window) /\ b = boundary
      OBVIOUS
    <3>2. TrueCounts(g, a, b)' = TrueCounts(g, a, b)
      BY <1>2, SameStream
    <3>3. true' = TrueCounts(g, a, b)'
      BY <1>2, <3>1
    <3> QED BY <3>1, <3>2, <3>3
  <2> QED BY <1>2, <2>1, SlotSame
<1>3. CASE LogReplaced \/ \E i \in Ids : ScanArrives(i)
  <2>1. UNCHANGED <<sup, tail, slot, boundary, written, latest>>
    BY <1>3 DEF LogReplaced, ScanArrives, Arrives, pipeVars, stateVars
  <2>2. CASE PipelineRuns
    <3>1. PICK b \in Nat, g \in Nat, a \in Nat :
            b = boundary /\ g = tail.of /\ a = Above(0, boundary - Window)
      <4>1. boundary \in Nat /\ tail.of \in Nat
        BY <2>2, BoundaryPassed, ItemsAre
      <4>2. Above(0, boundary - Window) \in Nat
        BY <1>0, <4>1 DEF Above
      <4> QED BY <4>1, <4>2
    <3>2. Passed(g, b)
      BY <2>2, <3>1, BoundaryPassed
    <3>3. TrueCounts(g, a, b)' = TrueCounts(g, a, b)
      BY <1>3, <3>2, CountsStay
    <3>4. true' = TrueCounts(g, a, b)'
      BY <2>1, <3>1
    <3>5. true' = true
      BY <3>1, <3>3, <3>4
    <3> QED BY <2>1, <2>2, <3>5, SlotSame
  <2> QED BY <1>1, <2>1, <2>2 DEF PipelineRuns
<1>4. CASE SourceApplies \/ SourceCatchesUp
  <2>1. UNCHANGED <<stream, sup, tail, slot, boundary, written, latest>>
    BY <1>4 DEF SourceApplies, SourceCatchesUp, pipeVars, stateVars
  <2> QED BY <1>1, <1>2, <2>1 DEF PipelineRuns
<1>5. CASE Bootstrap
  <2>1. ~ PipelineRuns /\ sup' = "running" /\ UNCHANGED <<slot, written>>
    BY <1>5 DEF Bootstrap, PipelineRuns
  <2>2. slot.item = None /\ written = 0
    BY <2>1 DEF TypeInv, NothingRuns
  <2>3. boundary' = StartAfter /\ tail'.last = StartAfter /\ StartAfter \in Nat
    <3>1. boundary' = StartAfter /\ StartAfter \in 0..MaxScans
      BY <1>5, Bootstraps DEF TypeInv
    <3>2. tail' = [last |-> StartAfter, first |-> FirstBoundary(LastBoundary, StartAfter),
                     next |-> FirstBoundary(LastBoundary, StartAfter), pending |-> {},
                     hole |-> FALSE, upto |-> 0, log |-> source.log, of |-> SourceLog]
      BY <1>5, Bootstraps DEF TypeInv
    <3> QED BY <3>1, <3>2, Constants
  <2>4. ~ Boundary(boundary)'
    <3>1. tail'.last < tail'.next /\ tail'.next = tail'.first
      <4>1. NextInv' /\ PipelineRuns'
        BY <1>5, <2>1, NextInvStep DEF WindowsNext, Works, PipelineRuns
      <4>2. tail'.next = tail'.first
        <5>1. tail' = [last |-> StartAfter, first |-> FirstBoundary(LastBoundary, StartAfter),
                     next |-> FirstBoundary(LastBoundary, StartAfter), pending |-> {},
                     hole |-> FALSE, upto |-> 0, log |-> source.log, of |-> SourceLog]
          BY <1>5, Bootstraps DEF TypeInv
        <5> QED BY <5>1
      <4> QED BY <4>1, <4>2 DEF NextInv, NextIsNext
    <3>2. FirstBoundary(LastBoundary, StartAfter) \in Nat /\ tail'.first = FirstBoundary(LastBoundary, StartAfter)
      <4>1. tail' = [last |-> StartAfter, first |-> FirstBoundary(LastBoundary, StartAfter),
                     next |-> FirstBoundary(LastBoundary, StartAfter), pending |-> {},
                     hole |-> FALSE, upto |-> 0, log |-> source.log, of |-> SourceLog]
          /\ FirstBoundary(LastBoundary, StartAfter) \in Nat
        BY <1>5, Bootstraps DEF TypeInv
      <4> QED BY <4>1
    <3> QED BY <2>3, <3>1, <3>2 DEF Boundary
  <2>5. written' <= boundary' /\ slot'.item = None /\ written' = 0 /\ sup' # "drained"
    BY <2>1, <2>2, <2>3
  <2> QED BY <2>4, <2>5 DEF SlotInv
<1>6. CASE TailPass \/ TailSkips
  <2>1. /\ sup = "running" /\ PipelineRuns /\ SourceLog = tail.of
        /\ UNCHANGED <<stream, sup, slot, boundary, written, latest>>
    BY <1>6, ReadsAre DEF TailPass, TailSkips, MayPass, Passes, PipelineRuns
  <2>2. TailReads
    BY <2>1 DEF TailInv
  <2>3. tail'.of = tail.of /\ tail'.first = tail.first
    <3>1. PICK c, rows : PassTakes(c, rows)
      BY <1>6, <2>2, PassTakesAll
    <3> QED BY <3>1 DEF PassTakes
  <2> QED BY <1>2, <2>1, <2>3
<1>7. CASE Stop
  BY <1>2, <1>7 DEF Stop, PipelineRuns, stateVars
<1>8. CASE Drain
  <2>1. /\ UNCHANGED <<stream, tail, slot, boundary, written, latest>>
        /\ sup = "stopping" /\ sup' = "drained" /\ slot.closed /\ slot.item = None
    BY <1>8 DEF Drain, pipeVars, stateVars
  <2>2. PipelineRuns /\ (Boundary(boundary)' <=> Boundary(boundary))
    BY <2>1 DEF PipelineRuns, Boundary
  <2> QED BY <2>1, <2>2 DEF SlotInv
<1>9. CASE Filters
  <2>1. PipelineRuns /\ FiltersDo
    BY <1>9, FiltersRunStep
  <2>2. UNCHANGED <<stream, sup, tail, written, latest>>
    BY <1>9 DEF Filters, stateVars
  <2>3. sup # "drained"
    <3>1. q1 # <<>>
      BY <1>9, MarkIs DEF Filters
    <3> QED BY <2>1, <3>1 DEF FiltersInv, SlotInv
  <2>4. CASE boundary' = boundary /\ slot' = [item |-> slot.item, closed |-> TRUE]
    <3>1. slot'.item = slot.item
      BY <2>4
    <3>2. true' = true
      <4>1. PICK g, a, b : g = tail.of /\ a = Above(0, boundary - Window) /\ b = boundary
        OBVIOUS
      <4>2. TrueCounts(g, a, b)' = TrueCounts(g, a, b)
        BY <2>2, SameStream
      <4>3. true' = TrueCounts(g, a, b)'
        BY <2>2, <2>4, <4>1
      <4> QED BY <4>1, <4>2, <4>3
    <3>3. Boundary(boundary)' = Boundary(boundary)
      BY <2>2, <2>4 DEF Boundary
    <3> QED BY <2>1, <2>2, <2>3, <2>4, <3>1, <3>2, <3>3 DEF SlotInv
  <2>5. CASE \E b \in Nat :
               /\ boundary < b /\ b <= tail.last /\ boundary' = b /\ Boundary(b)
               /\ \A i \in (boundary + 1)..(b - 1) : ~ Boundary(i)
               /\ slot' = [item |-> [end |-> b, counts |-> TrueCounts(tail.of, Above(0, b - Window), b)],
                           closed |-> FALSE]
    <3>1. PICK b \in Nat :
               /\ boundary < b /\ boundary' = b /\ Boundary(b)
               /\ slot' = [item |-> [end |-> b, counts |-> TrueCounts(tail.of, Above(0, b - Window), b)],
                           closed |-> FALSE]
      BY <2>5
    <3>2. written < b /\ b # 0
      BY <2>1, <3>1, ItemsAre DEF SlotInv
    <3>3. slot'.item.end = b /\ slot'.item # None
      BY <3>1, <3>2, ItemsAre
    <3>4. slot'.item.counts = true'
      <4>1. PICK g, a : g = tail.of /\ a = Above(0, b - Window)
        OBVIOUS
      <4>2. TrueCounts(g, a, b)' = TrueCounts(g, a, b)
        BY <2>2, SameStream
      <4>3. true' = TrueCounts(g, a, b)'
        BY <2>2, <3>1, <4>1
      <4> QED BY <3>1, <4>1, <4>2, <4>3
    <3>5. Boundary(boundary)'
      BY <2>2, <3>1 DEF Boundary
    <3>6. written' # 0 => latest' # None /\ latest'.end = written' /\ latest'.of = tail'.of
      BY <2>1, <2>2 DEF SlotInv
    <3>7. written' < boundary' /\ written' <= boundary' /\ slot'.item.end = boundary'
      <4>1. written \in Nat /\ written' = written /\ boundary' = b
        BY <2>2, <3>1, ItemsAre
      <4> QED BY <3>2, <3>3, <4>1
    <3>8. sup' # "drained" /\ slot'.item # None
      BY <2>2, <2>3, <3>3
    <3> QED BY <3>4, <3>5, <3>6, <3>7, <3>8 DEF SlotInv
  <2> QED BY <2>1, <2>4, <2>5 DEF FiltersDo
<1>10. CASE OutputFilter
  <2>1. slot.item # None /\ PipelineRuns
    BY <1>10 DEF OutputFilter, TypeInv, NothingRuns
  <2>2. slot.item.end = boundary /\ written < boundary /\ sup # "drained" /\ boundary \in Nat /\ written \in Nat
    BY <2>1, ItemsAre DEF SlotInv
  <2>3. /\ slot'.item = None /\ UNCHANGED <<sup, tail, boundary>>
        /\ written' = boundary
        /\ latest' = [end |-> boundary, counts |-> slot.item.counts, of |-> tail.of]
    BY <1>10, <2>2 DEF OutputFilter, TypeInv, FilterTypes
  <2>4. latest' # None /\ latest'.end = written' /\ latest'.of = tail'.of
    BY <2>2, <2>3, ItemsAre
  <2> QED BY <2>2, <2>3, <2>4 DEF SlotInv
<1>11. CASE StartsOver \/ BackoffEnds \/ PipelineFails \/ ProcessStarts
  BY <1>1, <1>11 DEF StartsOver, BackoffEnds, PipelineFails, ProcessStarts, PipelineRuns
<1> QED BY <1>3, <1>4, <1>5, <1>6, <1>7, <1>8, <1>9, <1>10, <1>11 DEF WindowsNext, Works

-----------------------------------------------------------------------------
(* What is published *)

\* A published window is complete, within what the source has applied, and not
\* above the first boundary of a pipeline that has not replaced it.
LatestInv ==
  latest # None =>
    /\ latest.end % Slide = 0
    /\ latest.counts = TrueCounts(latest.of, Above(0, latest.end - Window), latest.end)
    /\ Passed(latest.of, latest.end) /\ latest.of <= SourceLog
    /\ latest.of = SourceLog => latest.end <= source.max
    /\ PipelineRuns /\ latest.of = tail.of => latest.end <= tail.first \/ latest.end = written

LEMMA LatestTypes ==
  ASSUME TypeInv, latest # None
  PROVE  latest.of \in Nat /\ latest.end \in Nat \ {0}
<1>1. latest \in [end : 1..MaxScans, counts : [Skus -> Nat], of : Logs]
  BY DEF TypeInv, ReadTypes
<1>2. latest.end \in 1..MaxScans /\ latest.of \in Logs
  BY <1>1
<1>3. \A i \in 1..MaxScans : i \in Nat \ {0}
  BY Constants
<1>4. \A g \in Logs : g \in Nat
  BY Constants
<1> QED BY <1>2, <1>3, <1>4

\* Only a new process moves the source back.
LEMMA SourceMoves ==
  ASSUME TypeInv, WindowsNext, ~ ProcessStarts
  PROVE  /\ SourceLog \in Nat /\ SourceLog' \in Nat /\ source.max \in Nat /\ source'.max \in Nat
         /\ SourceLog <= SourceLog' /\ (SourceLog' = SourceLog => source.max <= source'.max)
<1>0. SourceLog \in Nat /\ source.max \in Nat /\ source.pos \in Nat
  BY SourceFollows, Constants DEF TypeInv, SourceTypes
<1>1. CASE SourceApplies
  <2>p. PICK p \in Nat, q \in Nat : p = source.pos /\ q = p + 1 /\ q \in 1..Len(stream)
    BY <1>0, <1>1, Applies DEF TypeInv
  <2>e. PICK e \in Event : e = NextEvent /\ e = stream[q]
    BY <1>1, <2>p, Applies DEF TypeInv, NextEvent
  <2>1. SourceLog' = e.log
    <3>1. UNCHANGED stream /\ source'.pos = q
      BY <1>1, <2>p, Applies DEF SourceApplies, TypeInv
    <3> QED BY <2>p, <2>e, <3>1 DEF SourceLog, LogAt
  <2>2. e.log \in Nat /\ (e.type = "scan-log-reset" => SourceLog < e.log)
        /\ (e.type = "scan-recorded" => e.log = SourceLog /\ e.id \in Nat)
    BY <2>p, <2>e, NextFollows, Constants
  <2>3. CASE e.type = "scan-log-reset"
    <3>1. source'.max = 0
      BY <1>1, <2>e, <2>3, Applies DEF TypeInv
    <3> QED BY <1>0, <2>1, <2>2, <2>3, <3>1
  <2>4. CASE e.type = "scan-recorded"
    <3>1. source'.max = Above(source.max, e.id) \/ source'.max = source.max
      BY <1>1, <2>e, <2>4, Applies DEF TypeInv
    <3>2. source'.max \in Nat /\ source.max <= source'.max
      BY <1>0, <2>2, <2>4, <3>1 DEF Above
    <3> QED BY <1>0, <2>1, <2>2, <2>4, <3>2
  <2> QED BY <1>1, <2>e, <2>3, <2>4, Applies DEF TypeInv
<1>2. CASE SourceCatchesUp
  <2>1. source'.pos = source.pos /\ source'.max = source.max /\ UNCHANGED stream
    BY <1>2 DEF SourceCatchesUp, TypeInv, SourceTypes
  <2>2. SourceLog' = SourceLog
    BY <2>1 DEF SourceLog, LogAt
  <2> QED BY <1>0, <2>1, <2>2
<1>3. CASE LogReplaced \/ \E i \in Ids : ScanArrives(i)
  <2>1. UNCHANGED source /\ \E e \in Event : Stored(e)
    <3>1. ASSUME NEW i \in Ids PROVE Recorded(i, relay.log) \in Event
      BY Bounds DEF Recorded, Event, TypeInv, StreamTypes
    <3>2. ASSUME LogReplaced PROVE LogReset(relay.log + 1) \in Event
      BY <3>2, Bounds DEF LogReplaced, LogReset, Event, TypeInv, StreamTypes
    <3> QED BY <1>3, <3>1, <3>2 DEF LogReplaced, ScanArrives, Arrives
  <2>2. PICK e \in Event : Stored(e)
    BY <2>1
  <2>3. PICK n \in Nat : n = Len(stream) /\ stream \in Seq(Event) /\ source.pos \in 0..n
    BY DEF TypeInv, StreamTypes, SourceTypes
  <2>4. \A k \in 1..n : stream'[k] = stream[k]
    BY <2>2, <2>3, Joins
  <2>5. SourceLog' = SourceLog
    BY <2>1, <2>3, <2>4 DEF SourceLog, LogAt
  <2> QED BY <1>0, <2>1, <2>5
<1>4. CASE UNCHANGED <<stream, source>>
  BY <1>0, <1>4 DEF SourceLog, LogAt
<1> QED BY <1>1, <1>2, <1>3, <1>4
      DEF WindowsNext, Works, Bootstrap, StartsOver, BackoffEnds, Drain, TailPass, TailSkips, Passes,
          Filters, OutputFilter, PipelineFails, Stop

\* The published window stays what it is.
LEMMA LatestStays ==
  ASSUME TypeInv, SaidInOrder, LatestInv, WindowsNext, latest # None, UNCHANGED latest
  PROVE  /\ latest'.counts = TrueCounts(latest.of, Above(0, latest.end - Window), latest.end)'
         /\ Passed(latest.of, latest.end)'
<1>1. PICK g \in Nat, b \in Nat, a \in Nat :
        g = latest.of /\ b = latest.end /\ a = Above(0, latest.end - Window)
  <2>1. latest.of \in Nat /\ latest.end \in Nat
    BY LatestTypes
  <2>2. Above(0, latest.end - Window) \in Nat
    BY <2>1, Constants DEF Above
  <2> QED BY <2>1, <2>2
<1>2. Passed(g, b) /\ latest.counts = TrueCounts(g, a, b)
  BY <1>1 DEF LatestInv
<1>3. TrueCounts(g, a, b)' = TrueCounts(g, a, b) /\ Passed(g, b)'
  <2>1. CASE LogReplaced \/ \E i \in Ids : ScanArrives(i)
    BY <1>2, <2>1, CountsStay, PastStays
  <2>2. CASE UNCHANGED <<stream, relay>>
    <3>1. TrueCounts(g, a, b)' = TrueCounts(g, a, b)
      BY <2>2, SameStream
    <3> QED BY <1>2, <2>2, <3>1 DEF Passed
  <2> QED BY <2>1, <2>2
        DEF WindowsNext, Works, SourceApplies, SourceCatchesUp, Bootstrap, StartsOver, BackoffEnds, Drain,
            TailPass, TailSkips, Passes, Filters, OutputFilter, PipelineFails, Stop, ProcessStarts
<1>4. TrueCounts(latest.of, Above(0, latest.end - Window), latest.end)' = TrueCounts(g, a, b)'
      /\ Passed(latest.of, latest.end)' = Passed(g, b)'
  BY <1>1
<1> QED BY <1>2, <1>3, <1>4

\* What the output filter publishes.
LEMMA Publishes ==
  ASSUME TypeInv, TailInv, NextInv, FiltersInv, SlotInv, OutputFilter
  PROVE  /\ PipelineRuns /\ UNCHANGED <<stream, relay, source, sup, tail>>
         /\ written' = boundary /\ Boundary(boundary) /\ boundary \in Nat \ {0} /\ written < boundary
         /\ latest' = [end |-> boundary,
                       counts |-> TrueCounts(tail.of, Above(0, boundary - Window), boundary),
                       of |-> tail.of]
         /\ latest' # None
<1>1. slot.item # None /\ PipelineRuns
  BY DEF OutputFilter, TypeInv, NothingRuns
<1>2. /\ slot.item.end = boundary /\ written < boundary /\ Boundary(boundary)
      /\ slot.item.counts = TrueCounts(tail.of, Above(0, boundary - Window), boundary)
      /\ boundary \in Nat /\ written \in Nat /\ boundary # 0
  BY <1>1, ItemsAre DEF SlotInv
<1>3. /\ UNCHANGED <<stream, relay, source, sup, tail>> /\ written' = boundary
      /\ latest' = [end |-> boundary, counts |-> slot.item.counts, of |-> tail.of]
  BY <1>2 DEF OutputFilter
<1>4. latest' # None
  BY <1>2, <1>3, ItemsAre
<1> QED BY <1>1, <1>2, <1>3, <1>4

LEMMA LatestInvStep ==
  ASSUME TypeInv, SaidInOrder, SourceInv, TailInv, NextInv, FiltersInv, SlotInv, LatestInv, WindowsNext
  PROVE  LatestInv'
<1>0. Slide \in Nat \ {0}
  BY Constants
<1>1. CASE latest' = None
  BY <1>1 DEF LatestInv
<1>2. CASE OutputFilter
  <2>1. /\ PipelineRuns /\ UNCHANGED <<stream, relay, source, sup, tail>>
        /\ written' = boundary /\ Boundary(boundary) /\ boundary \in Nat \ {0}
        /\ latest' = [end |-> boundary,
                      counts |-> TrueCounts(tail.of, Above(0, boundary - Window), boundary),
                      of |-> tail.of]
    BY <1>2, Publishes
  <2>2. PICK g, b, a : g = tail.of /\ b = boundary /\ a = Above(0, boundary - Window)
    OBVIOUS
  <2>3. latest'.end = b /\ latest'.of = g /\ latest'.counts = TrueCounts(g, a, b)
    BY <2>1, <2>2
  <2>4. TrueCounts(latest.of, Above(0, latest.end - Window), latest.end)' = TrueCounts(g, a, b)
    <3>1. TrueCounts(latest.of, Above(0, latest.end - Window), latest.end)' = TrueCounts(g, a, b)'
      BY <2>2, <2>3 DEF Above
    <3>2. TrueCounts(g, a, b)' = TrueCounts(g, a, b)
      BY <2>1, SameStream
    <3> QED BY <3>1, <3>2
  <2>5. b % Slide = 0
    BY <2>1, <2>2 DEF Boundary
  <2>6. Passed(g, b) /\ g <= SourceLog
    BY <2>1, <2>2, BoundaryPassed
  <2>7. Passed(latest.of, latest.end)' /\ SourceLog' = SourceLog
    BY <2>1, <2>3, <2>6 DEF Passed, SourceLog, LogAt
  <2>8. g = SourceLog => b <= source.max
    <3>1. boundary <= tail.last
      BY <2>1, BoundaryPassed
    <3>2. SourceLog = tail.of => tail.last <= source.max
      BY <2>1 DEF TailInv
    <3>3. boundary \in Nat /\ tail.last \in Nat /\ source.max \in Nat
      BY <2>1, Constants DEF TypeInv, TailTypes, SourceTypes
    <3> QED BY <2>2, <3>1, <3>2, <3>3
  <2> QED BY <2>1, <2>2, <2>3, <2>4, <2>5, <2>6, <2>7, <2>8 DEF LatestInv
<1>3. ASSUME latest # None, UNCHANGED latest,
             PipelineRuns' /\ latest.of = tail'.of => latest.end <= tail'.first \/ latest.end = written'
      PROVE  LatestInv'
  <2>1. /\ latest'.counts = TrueCounts(latest.of, Above(0, latest.end - Window), latest.end)'
        /\ Passed(latest.of, latest.end)'
    BY <1>3, LatestStays
  <2>2. PICK g \in Nat, b \in Nat : g = latest.of /\ b = latest.end
    BY <1>3, LatestTypes
  <2>3. b % Slide = 0 /\ g <= SourceLog /\ (g = SourceLog => b <= source.max)
    BY <1>3, <2>2 DEF LatestInv
  <2>4. /\ SourceLog \in Nat /\ SourceLog' \in Nat /\ source.max \in Nat /\ source'.max \in Nat
        /\ SourceLog <= SourceLog' /\ (SourceLog' = SourceLog => source.max <= source'.max)
    <3>1. ~ ProcessStarts
      BY <1>3 DEF ProcessStarts
    <3> QED BY <3>1, SourceMoves
  <2>5. g <= SourceLog' /\ (g = SourceLog' => b <= source'.max)
    BY <2>3, <2>4
  <2> QED BY <1>3, <2>1, <2>2, <2>3, <2>5 DEF LatestInv
<1>4. ASSUME latest # None, UNCHANGED <<latest, written>>, PipelineRuns, tail'.of = tail.of,
             tail'.first = tail.first
      PROVE  LatestInv'
  BY <1>3, <1>4 DEF LatestInv
<1>5. ASSUME latest # None, Bootstrap PROVE LatestInv'
  <2>1. tail' = [last |-> StartAfter, first |-> FirstBoundary(LastBoundary, StartAfter),
                 next |-> FirstBoundary(LastBoundary, StartAfter), pending |-> {},
                 hole |-> FALSE, upto |-> 0, log |-> source.log, of |-> SourceLog]
    BY <1>5, Bootstraps DEF TypeInv
  <2>2. tail'.of = SourceLog /\ tail'.first = FirstBoundary(LastBoundary, StartAfter)
    BY <2>1
  <2>3. UNCHANGED latest
    BY <1>5 DEF Bootstrap
  <2>4. PICK b \in Nat, m \in Nat : b = latest.end /\ m = source.max
    BY <1>5, Constants DEF TypeInv, ReadTypes, SourceTypes
  <2>5. ASSUME latest.of = SourceLog PROVE b <= FirstBoundary(LastBoundary, StartAfter)
    <3>1. b \in 0..m /\ b % Slide = 0
      BY <1>5, <2>4, <2>5 DEF LatestInv
    <3>2. b <= LastBoundary /\ LastBoundary \in Nat
      BY <1>0, <2>4, <3>1, MultipleBelow, StartIs DEF LastBoundary
    <3> QED BY <1>0, <2>4, <3>2 DEF FirstBoundary
  <2> QED BY <1>3, <1>5, <2>2, <2>3, <2>4, <2>5
<1>6. ASSUME latest # None, UNCHANGED latest, ~ PipelineRuns' PROVE LatestInv'
  BY <1>3, <1>6
<1>7. CASE TailPass \/ TailSkips
  <2>1. /\ sup = "running" /\ PipelineRuns
        /\ UNCHANGED <<latest, written>> /\ SourceLog = tail.of
    BY <1>7, ReadsAre DEF TailPass, TailSkips, MayPass, Passes, PipelineRuns
  <2>2. TailReads
    BY <2>1 DEF TailInv
  <2>3. tail'.of = tail.of /\ tail'.first = tail.first
    <3>1. PICK c, rows : PassTakes(c, rows)
      BY <1>7, <2>2, PassTakesAll
    <3> QED BY <3>1 DEF PassTakes
  <2> QED BY <1>1, <1>4, <2>1, <2>3
<1>8. CASE LogReplaced \/ (\E i \in Ids : ScanArrives(i)) \/ SourceApplies \/ SourceCatchesUp
           \/ Stop \/ Drain \/ Filters
  <2>1. UNCHANGED <<latest, written, tail>> /\ (PipelineRuns' => PipelineRuns)
    BY <1>8 DEF LogReplaced, ScanArrives, Arrives, SourceApplies, SourceCatchesUp, Stop, Drain, Filters,
                pipeVars, stateVars, PipelineRuns
  <2> QED BY <1>1, <1>4, <1>6, <2>1
<1>9. CASE BackoffEnds \/ PipelineFails
  <2>1. UNCHANGED latest /\ ~ PipelineRuns'
    BY <1>9 DEF BackoffEnds, PipelineFails, stateVars, PipelineRuns
  <2> QED BY <1>1, <1>6, <2>1
<1>10. CASE StartsOver \/ ProcessStarts
  BY <1>1, <1>10 DEF StartsOver, ProcessStarts
<1>11. CASE Bootstrap
  BY <1>1, <1>5, <1>11 DEF Bootstrap
<1> QED BY <1>2, <1>7, <1>8, <1>9, <1>10, <1>11 DEF WindowsNext, Works

-----------------------------------------------------------------------------
(* The pipeline *)

\* What holds of the topic, the source, the tail, the filters and what they publish.
PipelineInv ==
  /\ TypeInv /\ SaidInOrder /\ FewEvents /\ SourceInv /\ TailInv
  /\ NextInv /\ FiltersInv /\ SlotInv /\ LatestInv

LEMMA PipelineInit == WindowsInit => PipelineInv
<1> SUFFICES ASSUME WindowsInit PROVE PipelineInv
  OBVIOUS
<1>1. TypeInv
  BY TypesInit
<1>2. /\ stream = <<>> /\ relay.newest = 0 /\ sup = "start" /\ latest = None /\ source.pos = 0
      /\ source.rows = <<>> /\ source.max = 0 /\ ~ source.caughtUp
  BY DEF WindowsInit
<1>3. \A g, n : n \in Nat /\ n <= 0 => Records(g, n) = {} /\ Said(g, n) = {}
  <2>1. \A g, n : n \in Nat /\ n <= 0 => Records(g, n) = {}
    <3>1. \A n \in Nat : n <= 0 => 1..n = {}
      OBVIOUS
    <3> QED BY <3>1 DEF Records
  <2> QED BY <2>1 DEF Said
<1>4. SaidInOrder /\ FewEvents
  <2>1. Len(stream) = 0 /\ 1..Len(stream) = {}
    BY <1>2
  <2> QED BY <1>2, <1>3, <2>1 DEF SaidInOrder, FewEvents
<1>5. SourceInv
  <2>1. Len(source.rows) = 0 /\ 1..Len(source.rows) = {} /\ 0 \in 0..source.pos
    BY <1>2
  <2>2. AppliedFrom(0)
    BY <1>2, <1>3 DEF AppliedFrom
  <2> QED BY <1>2, <2>1, <2>2 DEF SourceInv, RowsAreRecords, StartsEarly
<1>6. ~ PipelineRuns
  BY <1>2 DEF PipelineRuns
<1> QED BY <1>1, <1>2, <1>4, <1>5, <1>6 DEF PipelineInv, TailInv, NextInv, FiltersInv, SlotInv, LatestInv

LEMMA PipelineStep ==
  ASSUME ~ EmptyPollsLie, PipelineInv, [WindowsNext]_windowsVars
  PROVE  PipelineInv'
<1>1. CASE WindowsNext
  <2>1. TypeInv' /\ SaidInOrder' /\ FewEvents' /\ SourceInv' /\ TailInv'
    BY <1>1, TypesStep, SaidInOrderStep, FewEventsStep, SourceInvStep, TailInvStep DEF PipelineInv
  <2>2. NextInv' /\ FiltersInv' /\ SlotInv' /\ LatestInv'
    BY <1>1, NextInvStep, FiltersInvStep, SlotInvStep, LatestInvStep DEF PipelineInv
  <2> QED BY <2>1, <2>2 DEF PipelineInv
<1>2. CASE UNCHANGED windowsVars
  <2>0. UNCHANGED <<stream, relay, source, sup, tail, q1, slot, buffer, boundary, counts, written,
                    window, latest, cursor>>
    BY <1>2 DEF windowsVars, pipeVars, stateVars
  <2>1. TypeInv'
    BY <1>2, TypesStep DEF PipelineInv
  <2>2. /\ \A g, n : Records(g, n)' = Records(g, n)
        /\ \A g, n : Said(g, n)' = Said(g, n)
        /\ \A n : LogAt(n)' = LogAt(n)
    BY <2>0 DEF Said, Records, LogAt
  <2>3. SaidInOrder' /\ FewEvents'
    BY <2>0, <2>2 DEF PipelineInv, SaidInOrder, FewEvents, FewSince
  <2>4. /\ SourceLog' = SourceLog /\ StartsEarly' = StartsEarly
        /\ RowsAreRecords' = RowsAreRecords /\ AppliedFrom(0)' = AppliedFrom(0)
        /\ Said(SourceLog, source.pos)' = Said(SourceLog, source.pos)
    BY <2>0, SameSource
  <2>5. SourceInv'
    BY <2>0, <2>4 DEF PipelineInv, SourceInv
  <2>6. TailInv'
    <3>1. Passed(tail.of, tail.last)' = Passed(tail.of, tail.last)
      BY <2>0 DEF Passed
    <3>2. Said(tail.of, source.pos)' = Said(tail.of, source.pos)
      BY <2>0 DEF Said, Records
    <3>3. TailReads' = TailReads
      BY <2>0, <3>2 DEF TailReads, Known
    <3> QED BY <2>0, <2>4, <3>1, <3>3 DEF PipelineInv, TailInv, PipelineRuns
  <2>7. NextInv'
    BY <2>0 DEF PipelineInv, NextInv, NextIsNext, Boundary, PipelineRuns
  <2>8. FiltersInv'
    <3>1. CASE PipelineRuns
      BY <2>0, <3>1, FiltersSame DEF PipelineInv
    <3> QED BY <2>0, <3>1 DEF FiltersInv, PipelineRuns
  <2>9. SlotInv'
    <3>1. CASE PipelineRuns
      <4>1. PICK g, a, b : g = tail.of /\ a = Above(0, boundary - Window) /\ b = boundary
        OBVIOUS
      <4>2. TrueCounts(g, a, b)' = TrueCounts(g, a, b)
        BY <2>0, SameStream
      <4>3. TrueCounts(tail.of, Above(0, boundary - Window), boundary)' = TrueCounts(g, a, b)'
        BY <2>0, <4>1
      <4> QED BY <2>0, <3>1, <4>1, <4>2, <4>3, SlotSame DEF PipelineInv
    <3> QED BY <2>0, <3>1 DEF SlotInv, PipelineRuns
  <2>10. LatestInv'
    <3>1. PICK g, a, b : g = latest.of /\ a = Above(0, latest.end - Window) /\ b = latest.end
      OBVIOUS
    <3>2. TrueCounts(g, a, b)' = TrueCounts(g, a, b)
      BY <2>0, SameStream
    <3>3. TrueCounts(latest.of, Above(0, latest.end - Window), latest.end)' = TrueCounts(g, a, b)'
      BY <2>0, <3>1
    <3>4. Passed(latest.of, latest.end)' = Passed(latest.of, latest.end)
      BY <2>0 DEF Passed
    <3> QED BY <2>0, <2>4, <3>1, <3>2, <3>3, <3>4 DEF PipelineInv, LatestInv, PipelineRuns
  <2> QED BY <2>1, <2>3, <2>5, <2>6, <2>7, <2>8, <2>9, <2>10 DEF PipelineInv
<1> QED BY <1>1, <1>2

LEMMA PipelineHolds == ASSUME ~ EmptyPollsLie PROVE WindowsSpec => []PipelineInv
<1>1. PipelineInv /\ [WindowsNext]_windowsVars => PipelineInv'
  BY PipelineStep
<1> QED BY <1>1, PipelineInit, PTL DEF WindowsSpec

\* Where no poll is empty before the end of the topic, a window that is published, or was
\* published before a restart, counts each scan of its ids once and no other.
THEOREM PublishedCountsAreTrue ==
  ASSUME ~ EmptyPollsLie
  PROVE  WindowsSpec => []PublishedIsComplete
<1>1. PipelineInv => PublishedIsComplete
  BY DEF PipelineInv, LatestInv, PublishedIsComplete
<1> QED BY <1>1, PipelineHolds, PTL

\* Where no poll is empty before the end of the topic, a pipeline that was started again
\* publishes no window of the same log that is older than the last one.
THEOREM WindowsOnlyGetNewer ==
  ASSUME ~ EmptyPollsLie
  PROVE  WindowsSpec => NeverOlder
<1>1. ASSUME PipelineInv, [WindowsNext]_windowsVars, latest # None, latest' # None, latest.of = latest'.of
      PROVE  latest.end <= latest'.end
  <2>1. latest.end \in Nat
    BY <1>1, LatestTypes DEF PipelineInv
  <2>2. CASE UNCHANGED latest
    BY <2>1, <2>2
  <2>3. CASE OutputFilter
    <3>1. /\ PipelineRuns /\ Boundary(boundary) /\ boundary \in Nat \ {0} /\ written < boundary
          /\ latest' = [end |-> boundary,
                        counts |-> TrueCounts(tail.of, Above(0, boundary - Window), boundary),
                        of |-> tail.of]
      BY <1>1, <2>3, Publishes DEF PipelineInv
    <3>2. latest'.end = boundary /\ latest'.of = tail.of
      BY <3>1
    <3>3. latest.end <= tail.first \/ latest.end = written
      BY <1>1, <3>1, <3>2 DEF PipelineInv, LatestInv
    <3>4. tail.first <= boundary /\ tail.first \in Nat /\ written \in Nat
      BY <1>1, <3>1, ItemsAre DEF Boundary, PipelineInv, TypeInv, TailTypes
    <3> QED BY <2>1, <3>1, <3>2, <3>3, <3>4
  <2> QED BY <1>1, <2>2, <2>3
        DEF WindowsNext, Works, ScanArrives, LogReplaced, Arrives, SourceApplies, SourceCatchesUp, Bootstrap,
            StartsOver, BackoffEnds, Drain, TailPass, TailSkips, Passes, Filters, PipelineFails, Stop,
            ProcessStarts, windowsVars, stateVars
<1>2. PipelineInv /\ [WindowsNext]_windowsVars
        => [latest # None /\ latest' # None /\ latest.of = latest'.of
              => latest.end <= latest'.end]_windowsVars
  BY <1>1
<1> QED BY <1>2, PipelineHolds, PTL DEF WindowsSpec, NeverOlder

\* Where no poll is empty before the end of the topic, a pipeline that has drained has
\* published the window at the last boundary that its tail marked.
THEOREM StopsPublishTheLastWindow ==
  ASSUME ~ EmptyPollsLie
  PROVE  WindowsSpec => []DrainedIsPublished
<1>1. ASSUME PipelineInv, sup = "drained", tail.next > tail.first
      PROVE  latest.end + Slide = tail.next
  <2>0. Slide \in Nat \ {0}
    BY Constants
  <2>1. PipelineRuns /\ slot.closed /\ slot.item = None
    BY <1>1 DEF PipelineInv, SlotInv, PipelineRuns
  <2>2. PICK b \in Nat, l \in Nat, x \in Nat, f \in Nat :
          b = boundary /\ l = tail.last /\ x = tail.next /\ f = tail.first
    <3>1. tail.last \in 0..MaxScans /\ tail.next \in Nat /\ tail.first \in Nat
      BY <1>1 DEF PipelineInv, TypeInv, TailTypes
    <3> QED BY <1>1, <3>1, Constants, ItemsAre DEF PipelineInv
  <2>3. b <= l /\ \A i \in (b + 1)..l : ~ Boundary(i)
    <3>1. PICK low \in 0..b, base \in b..l : Queued(base) /\ Filtered(low, base)
      BY <1>1, <2>1, <2>2 DEF PipelineInv, FiltersInv
    <3>2. q1 = <<>>
      BY <1>1, <2>1 DEF PipelineInv, FiltersInv
    <3>3. base = l
      <4>1. Len(q1) = 0 /\ Len(q1) = l - base
        BY <1>1, <2>2, <3>1, <3>2 DEF Queued
      <4> QED BY <4>1
    <3> QED BY <2>2, <3>1, <3>3 DEF Filtered
  <2>4. NextIsNext
    BY <1>1, <2>1 DEF PipelineInv, NextInv
  <2>5. PICK p \in Nat : p = x - Slide /\ Boundary(p) /\ p <= l /\ f <= p /\ l < p + Slide /\ 0 < p
    <3>1. /\ 0 < f /\ Boundary(x) /\ l < x /\ Boundary(x - Slide) /\ x - Slide <= l
      BY <1>1, <2>2, <2>4 DEF NextIsNext
    <3>2. f <= x - Slide /\ x - Slide \in Nat
      BY <2>0, <2>2, <3>1 DEF Boundary
    <3> QED BY <2>0, <3>1, <3>2
  <2>6. p <= b
    BY <2>3, <2>5
  <2>7. Boundary(b)
    BY <1>1, <2>1, <2>2, <2>5, <2>6 DEF PipelineInv, FiltersInv
  <2>8. b = p
    <3>1. p % Slide = 0 /\ b % Slide = 0
      BY <2>5, <2>7 DEF Boundary
    <3>2. p < b => p + Slide <= b
      BY <2>0, <3>1, MultiplesApart
    <3> QED BY <2>0, <2>3, <2>5, <2>6, <3>2
  <2>9. written = b /\ latest.end = b
    BY <1>1, <2>1, <2>2, <2>5, <2>7, <2>8 DEF PipelineInv, SlotInv
  <2> QED BY <2>0, <2>2, <2>5, <2>8, <2>9
<1>2. PipelineInv => DrainedIsPublished
  BY <1>1 DEF DrainedIsPublished
<1> QED BY <1>2, PipelineHolds, PTL

-----------------------------------------------------------------------------
(* What is in memory *)

\* The rows above one of them.
AboveRow(rows, r) == {x \in rows : x.id > r.id}

\* A deque to which higher rows were added holds the newest of all rows.
LEMMA NewestJoins ==
  ASSUME NEW n \in Nat, NEW R \in SUBSET Row, NEW A \in SUBSET Row,
         \A r \in R, x \in A : r.id < x.id
  PROVE  Newest(n, Newest(n, R) \cup A) = Newest(n, R \cup A)
<1> DEFINE N == Newest(n, R)
<1>0. \A r \in Row : r.id \in Nat
  BY Constants DEF Row
<1>1. N \subseteq R /\ \A r \in R : r \in N <=> Cardinality(AboveRow(R, r)) < n
  BY DEF Newest, AboveRow
<1>f. \A S \in SUBSET Row : IsFiniteSet(S) /\ Cardinality(S) \in Nat
  BY RowsFinite, FS_CardinalityType
<1>2. \A S, T \in SUBSET Row : S \subseteq T => Cardinality(S) <= Cardinality(T)
  BY <1>f, FS_Subset
<1>3. \A S \in SUBSET Row : \A r : AboveRow(S, r) \in SUBSET Row
  BY DEF AboveRow
<1>4. \A S \in SUBSET Row : \A r \in S : r \in Newest(n, S) <=> Cardinality(AboveRow(S, r)) < n
  BY DEF Newest, AboveRow
<1>5. N \cup A \in SUBSET Row /\ R \cup A \in SUBSET Row
  BY <1>1
<1>6. ASSUME NEW r \in A PROVE AboveRow(N \cup A, r) = AboveRow(R \cup A, r)
  <2>1. \A x \in R : ~ (x.id > r.id)
    BY <1>0
  <2> QED BY <1>1, <2>1 DEF AboveRow
<1>7. ASSUME NEW r \in N PROVE AboveRow(N \cup A, r) = AboveRow(R \cup A, r)
  <2>1. ASSUME NEW x \in R, x.id > r.id PROVE x \in N
    <3>1. AboveRow(R, x) \subseteq AboveRow(R, r)
      <4>1. r \in R /\ \A y \in R : y.id > x.id => y.id > r.id
        BY <1>0, <1>1, <2>1
      <4> QED BY <4>1 DEF AboveRow
    <3>2. Cardinality(AboveRow(R, x)) <= Cardinality(AboveRow(R, r))
      BY <1>2, <1>3, <3>1
    <3>3. Cardinality(AboveRow(R, r)) < n
      BY <1>1
    <3>4. Cardinality(AboveRow(R, x)) \in Nat /\ Cardinality(AboveRow(R, r)) \in Nat
      BY <1>f, <1>3
    <3> QED BY <1>1, <2>1, <3>2, <3>3, <3>4
  <2> QED BY <1>1, <2>1 DEF AboveRow
<1>8. ASSUME NEW r \in R, Cardinality(AboveRow(R \cup A, r)) < n PROVE r \in N
  <2>1. AboveRow(R, r) \subseteq AboveRow(R \cup A, r)
    BY DEF AboveRow
  <2>2. Cardinality(AboveRow(R, r)) <= Cardinality(AboveRow(R \cup A, r))
    BY <1>2, <1>3, <1>5, <2>1
  <2>3. Cardinality(AboveRow(R, r)) \in Nat /\ Cardinality(AboveRow(R \cup A, r)) \in Nat
    BY <1>f, <1>3, <1>5
  <2> QED BY <1>1, <1>8, <2>2, <2>3
<1>9. \A r \in N \cup A : r \in Newest(n, N \cup A) <=> r \in Newest(n, R \cup A)
  <2> TAKE r \in N \cup A
  <2>1. AboveRow(N \cup A, r) = AboveRow(R \cup A, r)
    BY <1>6, <1>7
  <2>2. r \in R \cup A
    BY <1>1
  <2> QED BY <1>4, <1>5, <2>1, <2>2
<1>10. Newest(n, N \cup A) \subseteq N \cup A
  BY DEF Newest
<1>11. Newest(n, R \cup A) \subseteq N \cup A
  <2>1. ASSUME NEW r \in Newest(n, R \cup A) PROVE r \in N \cup A
    <3>1. r \in R \cup A /\ Cardinality(AboveRow(R \cup A, r)) < n
      BY <2>1 DEF Newest, AboveRow
    <3> QED BY <1>8, <3>1
  <2> QED BY <2>1
<1> HIDE DEF N
<1> QED BY <1>9, <1>10, <1>11 DEF N

\* A range of ids has no more rows than ids.
LEMMA FewInRange ==
  ASSUME TypeInv, NEW g \in Logs, NEW a \in Nat, NEW b \in Nat, a <= b
  PROVE  Cardinality(RowsOf(g, a, b)) \in Nat /\ Cardinality(RowsOf(g, a, b)) <= b - a
<1> DEFINE f == [r \in RowsOf(g, a, b) |-> r.id]
<1>1. RowsOf(g, a, b) \in SUBSET Row /\ \A r \in RowsOf(g, a, b) : r.id \in (a + 1)..b /\ r.log = g
  <2>1. RowsOf(g, a, b) \in SUBSET Row
        /\ \A r \in RowsOf(g, a, b) : r.id \in Nat /\ a < r.id /\ r.id <= b /\ r.log = g
    BY RowsOfIs
  <2> QED BY <2>1
<1>2. f \in Injection(RowsOf(g, a, b), (a + 1)..b)
  <2>1. f \in [RowsOf(g, a, b) -> (a + 1)..b]
    BY <1>1
  <2>2. \A r, x \in RowsOf(g, a, b) : r.id = x.id => r = x
    BY <1>1 DEF Row
  <2> QED BY <2>1, <2>2 DEF Injection, IsInjective
<1>3. IsFiniteSet((a + 1)..b) /\ Cardinality((a + 1)..b) = b - a
  <2>1. a + 1 \in Int /\ b \in Int
    OBVIOUS
  <2>2. /\ IsFiniteSet((a + 1)..b)
        /\ Cardinality((a + 1)..b) = IF a + 1 > b THEN 0 ELSE b - (a + 1) + 1
    BY <2>1, FS_Interval
  <2> QED BY <2>2
<1>4. Cardinality(RowsOf(g, a, b)) <= Cardinality((a + 1)..b) /\ IsFiniteSet(RowsOf(g, a, b))
  <2> HIDE DEF f
  <2> QED BY <1>2, <1>3, FS_Injection
<1> QED BY <1>3, <1>4, FS_CardinalityType

\* What is in memory, of all rows since the start, reaches down n ids.
LEMMA NewestReach ==
  ASSUME TypeInv, NEW g \in Logs, NEW low \in Nat, NEW l \in Nat, low <= l, NEW n \in Nat
  PROVE  /\ Newest(n, RowsOf(g, low, l)) \subseteq RowsOf(g, low, l)
         /\ \A r \in RowsOf(g, low, l) : l - n < r.id => r \in Newest(n, RowsOf(g, low, l))
<1> DEFINE R == RowsOf(g, low, l)
<1>1. Newest(n, R) \subseteq R
  BY DEF Newest
<1>2. ASSUME NEW r \in R, l - n < r.id PROVE r \in Newest(n, R)
  <2>1. PICK i \in Nat : i = r.id /\ low < i /\ i <= l
    BY RowsOfIs
  <2>2. {x \in R : x.id > r.id} = RowsOf(g, i, l)
    <3>1. RowsOf(g, i, l) = {x \in R : i < x.id /\ x.id <= l}
      BY <2>1, RowsOfIs
    <3>2. \A x \in R : x.id \in Nat /\ x.id <= l
      BY RowsOfIs
    <3> QED BY <2>1, <3>1, <3>2
  <2>3. Cardinality(RowsOf(g, i, l)) \in Nat /\ Cardinality(RowsOf(g, i, l)) <= l - i
    BY <2>1, FewInRange
  <2>4. Cardinality({x \in R : x.id > r.id}) < n
    <3>1. PICK c \in Nat : c = Cardinality(RowsOf(g, i, l)) /\ c <= l - i
      BY <2>3
    <3>2. l - n < i
      BY <1>2, <2>1
    <3>3. c < n
      BY <2>1, <3>1, <3>2
    <3> QED BY <2>2, <3>1, <3>3
  <2> QED BY <2>4 DEF Newest
<1> QED BY <1>1, <1>2

\* The rows in memory are the newest of all scans since the start, and the tail stands
\* at the last of these.
InMemory(low) ==
  /\ window = Newest(Window + Slide, RowsOf(tail.of, low, tail.last))
  /\ SourceLog = tail.of => low = 0 \/ low <= LastBoundary - Window
  /\ tail.last = low \/ tail.last \in ScansIn(tail.of, low, tail.last)

WindowInv ==
  sup = "running" =>
    /\ cursor = tail.last
    /\ \E low \in 0..tail.last : InMemory(low)

\* The tail's log is not ahead of the source's.
LEMMA TailIs ==
  ASSUME TypeInv, PipelineRuns
  PROVE  tail.of \in Nat /\ tail.last \in Nat /\ tail.of <= SourceLog
<1>1. tail.last \in 0..MaxScans /\ tail.of \in 0..MaxLogs
  BY DEF TypeInv, TailTypes
<1>2. tail.last \in Nat /\ tail.of \in Nat
  BY <1>1, Constants
<1> QED BY <1>2 DEF TypeInv, LogsAgree

LEMMA WindowGoesOn ==
  ASSUME TypeInv, SaidInOrder, TailInv, WindowInv, WindowsNext, sup = "running", sup' = "running",
         UNCHANGED <<tail, cursor, window>>
  PROVE  WindowInv'
<1>0. ~ ProcessStarts /\ PipelineRuns
  BY DEF ProcessStarts, PipelineRuns
<1>1. PICK g \in Nat, l \in Nat : g = tail.of /\ l = tail.last /\ g <= SourceLog
  BY <1>0, TailIs
<1>2. PICK low \in 0..l : InMemory(low)
  BY <1>1 DEF WindowInv
<1>3. ScansIn(g, low, l)' = ScansIn(g, low, l)
  <2>1. CASE LogReplaced \/ \E i \in Ids : ScanArrives(i)
    <3>1. Passed(g, l)
      BY <1>0, <1>1 DEF TailInv
    <3> QED BY <2>1, <3>1, PastStays
  <2>2. CASE UNCHANGED stream
    BY <2>2 DEF ScansIn, Said, Records
  <2> QED BY <1>0, <2>1, <2>2
        DEF WindowsNext, Works, SourceApplies, SourceCatchesUp, Bootstrap, StartsOver, BackoffEnds, Drain,
            TailPass, TailSkips, Passes, Filters, OutputFilter, PipelineFails, Stop
<1>4. RowsOf(g, low, l)' = RowsOf(g, low, l)
  BY <1>3 DEF RowsOf
<1>5. SourceLog' = g => low = 0 \/ low <= LastBoundary' - Window
  <2>1. /\ SourceLog \in Nat /\ SourceLog' \in Nat /\ source.max \in Nat /\ source'.max \in Nat
        /\ SourceLog <= SourceLog' /\ (SourceLog' = SourceLog => source.max <= source'.max)
    BY <1>0, SourceMoves
  <2>2. ASSUME SourceLog' = g, low # 0 PROVE low <= LastBoundary' - Window
    <3>1. SourceLog = g /\ source.max <= source'.max
      BY <1>1, <2>1, <2>2
    <3>2. low <= LastBoundary - Window
      BY <1>1, <1>2, <2>2, <3>1 DEF InMemory
    <3>3. LastBoundary <= LastBoundary' /\ LastBoundary \in Int /\ LastBoundary' \in Int
      <4>1. PICK m \in Nat, x \in Nat, n \in Nat \ {0} : m = source.max /\ x = source'.max /\ n = Slide
        BY <2>1, Constants
      <4>2. m - (m % n) <= x - (x % n) /\ m - (m % n) \in 0..m /\ x - (x % n) \in 0..x
        BY <3>1, <4>1, SmallerBelow, MultipleBelow
      <4> QED BY <4>1, <4>2 DEF LastBoundary
    <3>4. low \in Int /\ Window \in Int
      BY <1>2, Constants
    <3>5. PICK x \in Int, y \in Int, w \in Int : x = LastBoundary /\ y = LastBoundary' /\ w = Window
      BY <3>3, <3>4
    <3>6. low <= x - w /\ x <= y
      BY <3>2, <3>3, <3>5
    <3>7. low <= y - w
      BY <3>6
    <3> QED BY <3>5, <3>7
  <2> QED BY <2>2
<1>6. InMemory(low)'
  <2>1. /\ RowsOf(tail.of, low, tail.last)' = RowsOf(g, low, l)'
        /\ ScansIn(tail.of, low, tail.last)' = ScansIn(g, low, l)'
    BY <1>1
  <2>2. window = Newest(Window + Slide, RowsOf(g, low, l)) /\ (l = low \/ l \in ScansIn(g, low, l))
    BY <1>1, <1>2 DEF InMemory
  <2> QED BY <1>1, <1>3, <1>4, <1>5, <2>1, <2>2 DEF InMemory
<1>7. cursor' = tail'.last
  BY DEF WindowInv
<1> QED BY <1>1, <1>2, <1>6, <1>7 DEF WindowInv

LEMMA WindowStarts ==
  ASSUME TypeInv, SourceInv, Bootstrap
  PROVE  WindowInv'
<1>f. PICK f, a \in Nat, g \in Logs : f = FirstBoundary(LastBoundary, StartAfter) /\ a = StartAfter /\ g = SourceLog
  BY Bootstraps, StartIs DEF TypeInv
<1>1. tail' = [last |-> a, first |-> f, next |-> f, pending |-> {},
               hole |-> FALSE, upto |-> 0, log |-> source.log, of |-> g]
  BY <1>f, Bootstraps DEF TypeInv
<1>2. tail'.last = a /\ tail'.of = g /\ cursor' = a /\ window' = {}
  <2>1. tail'.last = a /\ tail'.of = g
    BY <1>1
  <2>2. cursor' = a
    BY <1>f, Bootstraps DEF TypeInv
  <2>3. window' = {}
    BY DEF Bootstrap
  <2> QED BY <2>1, <2>2, <2>3
<1>3. UNCHANGED <<stream, source>>
  BY DEF Bootstrap
<1>4. SourceLog' = SourceLog /\ LastBoundary' = LastBoundary
  BY <1>3 DEF SourceLog, LogAt, LastBoundary
<1>5. a = 0 \/ a <= LastBoundary - Window
  BY <1>f, StartIs
<1>6. RowsOf(tail.of, a, tail.last)' = {}
  <2>1. RowsOf(g, a, a) = {}
    BY CountsNone
  <2>2. RowsOf(g, a, a)' = {}
    BY <1>3, <2>1, SameStream
  <2>3. RowsOf(tail.of, a, tail.last)' = RowsOf(g, a, a)'
    BY <1>2
  <2> QED BY <2>2, <2>3
<1>7. Newest(Window + Slide, {}) = {}
  BY DEF Newest
<1>8. InMemory(a)'
  BY <1>2, <1>4, <1>5, <1>6, <1>7 DEF InMemory
<1>9. a \in 0..tail'.last
  BY <1>2
<1> QED BY <1>2, <1>8, <1>9 DEF WindowInv

LEMMA WindowPasses ==
  ASSUME TypeInv, SaidInOrder, SourceInv, TailInv, WindowInv, TailPass \/ TailSkips
  PROVE  WindowInv'
<1>1. /\ sup = "running" /\ SourceLog = tail.of /\ PipelineRuns
      /\ UNCHANGED <<stream, source, sup>>
  BY ReadsAre DEF TailPass, TailSkips, MayPass, Passes, PipelineRuns
<1>2. TailReads
  BY <1>1 DEF TailInv
<1>3. PICK c, rows : PassTakes(c, rows)
  BY <1>2, PassTakesAll
<1>g. PICK g \in Logs, l \in Nat, p \in Nat, n \in Nat :
        g = tail.of /\ l = tail.last /\ p = source.pos /\ n = Len(stream) /\ p <= n
  <2>1. tail.of \in Logs
    BY <1>1 DEF TypeInv, LogsAgree
  <2>2. tail.last \in Nat
    BY Constants DEF TypeInv, TailTypes
  <2>3. Len(stream) \in Nat /\ source.pos \in 0..Len(stream)
    BY DEF TypeInv, StreamTypes, SourceTypes
  <2> QED BY <2>1, <2>2, <2>3
<1>4. PICK low \in 0..l : InMemory(low)
  BY <1>1, <1>g DEF WindowInv
<1>5. /\ c \in Nat /\ l <= c /\ rows = RowsOf(g, l, c)
      /\ window' = Newest(Window + Slide, window \cup rows)
      /\ cursor' = c /\ tail'.last = c /\ tail'.of = g
      /\ c = l \/ c \in Said(g, p)
  BY <1>3, <1>g, Constants DEF PassTakes
<1>6. low \in Nat /\ low <= l /\ Window + Slide \in Nat
  BY <1>4, Constants
<1>7. window' = Newest(Window + Slide, RowsOf(g, low, c))
  <2>1. PICK R, A : R = RowsOf(g, low, l) /\ A = RowsOf(g, l, c)
    OBVIOUS
  <2>2. /\ R \in SUBSET Row /\ A \in SUBSET Row
        /\ \A r \in R : r.id \in Nat /\ r.id <= l
        /\ \A x \in A : x.id \in Nat /\ l < x.id
    BY <1>5, <1>6, <2>1, RowsOfIs
  <2>3. \A r \in R, x \in A : r.id < x.id
    BY <2>2
  <2>4. RowsOf(g, low, c) = R \cup A
    BY <1>5, <1>6, <2>1, RowsOfIs
  <2>5. window = Newest(Window + Slide, R)
    BY <1>4, <1>g, <2>1 DEF InMemory
  <2>6. Newest(Window + Slide, Newest(Window + Slide, R) \cup A) = Newest(Window + Slide, R \cup A)
    <3>1. PICK k \in Nat : k = Window + Slide
      BY <1>6
    <3>2. Newest(k, Newest(k, R) \cup A) = Newest(k, R \cup A)
      <4>1. R \in SUBSET Row /\ A \in SUBSET Row
        BY <2>2
      <4> QED BY <2>3, <4>1, NewestJoins, ZenonT(30)
    <3> QED BY <3>1, <3>2
  <2> QED BY <1>5, <2>1, <2>4, <2>5, <2>6
<1>8. c = low \/ c \in ScansIn(g, low, c)
  <2>1. CASE c = l
    BY <1>4, <1>g, <2>1 DEF InMemory
  <2>2. CASE c # l
    <3>1. c \in Said(g, n)
      BY <1>g, <1>5, <2>2, SaidMore
    <3>2. low < c
      BY <1>5, <1>6, <2>2
    <3> QED BY <1>g, <1>5, <3>1, <3>2 DEF ScansIn
  <2> QED BY <2>1, <2>2
<1>9. RowsOf(g, low, c)' = RowsOf(g, low, c) /\ ScansIn(g, low, c)' = ScansIn(g, low, c)
  <2>1. ScansIn(g, low, c)' = ScansIn(g, low, c)
    BY <1>1 DEF ScansIn, Said, Records
  <2> QED BY <2>1 DEF RowsOf
<1>10. SourceLog' = SourceLog /\ LastBoundary' = LastBoundary
  BY <1>1 DEF SourceLog, LogAt, LastBoundary
<1>11. InMemory(low)'
  <2>1. /\ RowsOf(tail.of, low, tail.last)' = RowsOf(g, low, c)'
        /\ ScansIn(tail.of, low, tail.last)' = ScansIn(g, low, c)'
    BY <1>5
  <2>2. low = 0 \/ low <= LastBoundary - Window
    BY <1>1, <1>4 DEF InMemory
  <2> QED BY <1>5, <1>7, <1>8, <1>9, <1>10, <2>1, <2>2 DEF InMemory
<1>12. low \in 0..tail'.last /\ cursor' = tail'.last
  BY <1>5, <1>6
<1> QED BY <1>11, <1>12 DEF WindowInv

LEMMA WindowInvStep ==
  ASSUME TypeInv, SaidInOrder, SourceInv, TailInv, WindowInv, [WindowsNext]_windowsVars
  PROVE  WindowInv'
<1>1. CASE sup' # "running"
  BY <1>1 DEF WindowInv
<1>2. CASE Bootstrap
  BY <1>2, WindowStarts
<1>3. CASE TailPass \/ TailSkips
  BY <1>3, WindowPasses
<1>4. ASSUME WindowsNext, UNCHANGED <<sup, tail, cursor, window>> PROVE WindowInv'
  BY <1>1, <1>4, WindowGoesOn
<1>5. CASE UNCHANGED windowsVars
  <2>1. UNCHANGED <<stream, source, sup, tail, cursor, window>>
    BY <1>5 DEF windowsVars, pipeVars, stateVars
  <2>2. \A g, a, b : ScansIn(g, a, b)' = ScansIn(g, a, b) /\ RowsOf(g, a, b)' = RowsOf(g, a, b)
    <3>1. \A g, a, b : ScansIn(g, a, b)' = ScansIn(g, a, b)
      BY <2>1 DEF ScansIn, Said, Records
    <3> QED BY <3>1 DEF RowsOf
  <2>3. SourceLog' = SourceLog /\ LastBoundary' = LastBoundary
    BY <2>1 DEF SourceLog, LogAt, LastBoundary
  <2>4. \A low : InMemory(low)' = InMemory(low)
    <3> TAKE low
    <3>1. PICK g, l : g = tail.of /\ l = tail.last
      OBVIOUS
    <3>2. /\ RowsOf(tail.of, low, tail.last)' = RowsOf(g, low, l)'
          /\ ScansIn(tail.of, low, tail.last)' = ScansIn(g, low, l)'
      BY <2>1, <3>1
    <3> QED BY <2>1, <2>2, <2>3, <3>1, <3>2 DEF InMemory
  <2> QED BY <2>1, <2>4 DEF WindowInv
<1>6. CASE Stop \/ Drain \/ StartsOver \/ BackoffEnds \/ PipelineFails \/ ProcessStarts
  BY <1>1, <1>6 DEF Stop, Drain, StartsOver, BackoffEnds, PipelineFails, ProcessStarts
<1> QED BY <1>2, <1>3, <1>4, <1>5, <1>6
      DEF WindowsNext, Works, ScanArrives, LogReplaced, Arrives, SourceApplies, SourceCatchesUp,
          Filters, OutputFilter, pipeVars, stateVars

LEMMA WindowHolds == ASSUME ~ EmptyPollsLie PROVE WindowsSpec => [](PipelineInv /\ WindowInv)
<1>1. WindowsInit => WindowInv
  BY DEF WindowsInit, WindowInv
<1>2. PipelineInv /\ WindowInv /\ [WindowsNext]_windowsVars => PipelineInv' /\ WindowInv'
  BY PipelineStep, WindowInvStep DEF PipelineInv
<1> QED BY <1>1, <1>2, PipelineInit, PTL DEF WindowsSpec

\* Where no poll is empty before the end of the topic, the answer on demand counts all
\* scans of its ids, though the rows before the start of the tail, and those that the
\* deque has forgotten, are not in memory.
THEOREM AnswersAreTrue ==
  ASSUME ~ EmptyPollsLie
  PROVE  WindowsSpec => []AnswersOnDemand
<1>1. ASSUME PipelineInv, WindowInv, sup = "running", tail.of = relay.log, cursor >= LastBoundary
      PROVE  OnDemand.counts = TrueCounts(relay.log, OnDemand.start, OnDemand.end)
  <2>0. TypeInv /\ SaidInOrder /\ PipelineRuns
    BY <1>1 DEF PipelineInv, PipelineRuns
  <2>1. PICK g \in Logs, l \in Nat : g = tail.of /\ l = tail.last
    BY <2>0, TailIs DEF TypeInv, LogsAgree
  <2>2. SourceLog = g
    <3>1. g <= SourceLog /\ SourceLog <= relay.log /\ SourceLog \in Nat /\ g \in Nat /\ g = relay.log
      BY <1>1, <2>0, <2>1, TailIs, SourceFollows
    <3> QED BY <3>1
  <2>3. PICK low \in 0..l : InMemory(low)
    BY <1>1, <2>1 DEF WindowInv
  <2>w. PICK W \in Nat \ {0}, n \in Nat : W = Window /\ n = Window + Slide /\ W <= n
    BY Constants
  <2>4. low \in Nat /\ low <= l /\ (low = 0 \/ low <= l - W)
    <3>1. l >= LastBoundary /\ LastBoundary \in Nat
      BY <1>1, <2>0, <2>1, StartIs DEF WindowInv
    <3>2. low = 0 \/ low <= LastBoundary - W
      BY <2>1, <2>2, <2>3, <2>w DEF InMemory
    <3> QED BY <2>w, <3>1, <3>2
  <2>R. PICK R : R = RowsOf(g, low, l)
    OBVIOUS
  <2>5. window = Newest(n, R) /\ (l = low \/ l \in ScansIn(g, low, l))
    BY <2>1, <2>3, <2>w, <2>R DEF InMemory
  <2>6. /\ \A r \in R : r.id \in Nat /\ low < r.id /\ r.id <= l
        /\ window \subseteq R
        /\ \A r \in R : l - n < r.id => r \in window
    <3>1. \A r \in R : r.id \in Nat /\ low < r.id /\ r.id <= l
      BY <2>0, <2>4, <2>R, RowsOfIs
    <3>2. /\ Newest(n, R) \subseteq R
          /\ \A r \in R : l - n < r.id => r \in Newest(n, R)
      BY <2>0, <2>4, <2>w, <2>R, NewestReach
    <3> QED BY <2>5, <3>1, <3>2
  <2> DEFINE ids == {0} \cup {r.id : r \in window}
             start == Above(0, NewestId - Window)
             rows == {x \in window : start < x.id /\ x.id <= NewestId}
  <2>7. ids \in SUBSET Nat /\ ids # {} /\ \A i \in ids : i <= l
    BY <2>6
  <2>8. NewestId \in ids /\ \A i \in ids : i <= NewestId
    <3> HIDE DEF ids
    <3>1. Highest(ids) \in ids /\ \A i \in ids : i <= Highest(ids)
      BY <2>7, HighestNumber
    <3> QED BY <3>1 DEF NewestId, ids
  <2>9. PICK e \in Nat, s \in Nat : e = NewestId /\ s = start /\ s = Above(0, e - W)
    <3>1. NewestId \in Nat
      BY <2>7, <2>8
    <3>2. start \in Nat
      BY <2>w, <3>1 DEF Above
    <3> QED BY <2>w, <3>1, <3>2
  <2>10. Tally(rows) = TrueCounts(g, s, e)
    <3>1. CASE l = low
      <4>1. R = {} /\ window = {}
        BY <2>0, <2>R, <2>6, <3>1, CountsNone
      <4>2. e = 0 /\ s = 0
        BY <2>8, <2>9, <2>w, <4>1 DEF Above
      <4>3. rows = {} /\ TrueCounts(g, 0, 0) = Tally({})
        BY <2>0, <4>1, CountsNone
      <4> QED BY <4>2, <4>3
    <3>2. CASE l \in ScansIn(g, low, l)
      <4>1. PICK r \in R : r.id = l
        <5>1. [id |-> l, log |-> g] \in RowsOf(g, low, l)
          BY <3>2 DEF RowsOf
        <5>2. [id |-> l, log |-> g].id = l
          OBVIOUS
        <5> QED BY <2>R, <5>1, <5>2
      <4>2. r \in window
        BY <2>6, <2>w, <4>1
      <4>3. e = l
        <5>1. l \in ids
          BY <4>1, <4>2
        <5>2. l <= e /\ e <= l
          BY <2>7, <2>8, <2>9, <5>1
        <5> QED BY <5>2
      <4>4. low <= s /\ s <= l /\ l - n < s + 1
        BY <2>4, <2>9, <2>w, <4>3 DEF Above
      <4>5. rows = {x \in R : s < x.id /\ x.id <= l}
        <5>1. \A x \in R : s < x.id => x \in window
          BY <2>6, <2>w, <4>4
        <5> QED BY <2>6, <2>9, <4>3, <5>1
      <4>6. RowsOf(g, s, l) = {x \in R : s < x.id /\ x.id <= l}
        BY <2>0, <2>4, <2>R, <4>4, RowsOfIs
      <4>7. Tally(RowsOf(g, s, l)) = TrueCounts(g, s, l)
        BY <2>0, TallyIs
      <4> QED BY <4>3, <4>5, <4>6, <4>7
    <3> QED BY <2>5, <3>1, <3>2
  <2>11. OnDemand = [start |-> s, end |-> e, counts |-> Tally(rows)]
    <3> HIDE DEF rows
    <3>1. OnDemand = [start |-> start, end |-> NewestId,
                      counts |-> Tally({x \in window : start < x.id /\ x.id <= NewestId})]
      BY DEF OnDemand
    <3> QED BY <2>9, <3>1 DEF rows
  <2>12. OnDemand.counts = Tally(rows) /\ OnDemand.start = s /\ OnDemand.end = e
    <3> HIDE DEF rows
    <3> QED BY <2>11
  <2> QED BY <1>1, <2>1, <2>10, <2>12
<1>2. PipelineInv /\ WindowInv => AnswersOnDemand
  BY <1>1 DEF AnswersOnDemand, LastBoundary
<1> QED BY <1>2, WindowHolds, PTL
=============================================================================
