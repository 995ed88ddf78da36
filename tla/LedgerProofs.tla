----------------------------- MODULE LedgerProofs -----------------------------
(* Proofs about Inventory's stock ledger, under any sender.  First, sums: the *)
(* operator SumFunction of the community modules adds up a function over its  *)
(* domain in an order it chooses; here, that the order does not matter.       *)
EXTENDS StockLedger, FiniteSetTheorems, TLAPS

-----------------------------------------------------------------------------
(* Sums *)

\* Induction over a finite set, on the set of its subsets that are right.
LEMMA FromSubsets ==
  ASSUME NEW S, IsFiniteSet(S), NEW Right,
         \A s \in SUBSET S : (\A r \in SUBSET s : r # s => r \in Right) => s \in Right
  PROVE  SUBSET S \subseteq Right
<1>1. IsWellFoundedOn(StrictSubsetOrdering(S), SUBSET S)
  BY FS_StrictSubsetOrderingWellFounded, FS_FiniteSubsetsOfFinite, Zenon
<1> SUFFICES ASSUME NEW t \in SUBSET S, t \notin Right PROVE FALSE
  OBVIOUS
<1> DEFINE Wrong == {s \in SUBSET S : s \notin Right}
<1>2. Wrong \subseteq SUBSET S /\ t \in Wrong
  OBVIOUS
<1> HIDE DEF Wrong
<1>3. PICK s \in Wrong : \A r \in Wrong : <<r, s>> \notin StrictSubsetOrdering(S)
  BY <1>1, <1>2, WFMin
<1> USE DEF Wrong
<1>4. \A r \in SUBSET s : r # s => r \in Right
  BY <1>3 DEF StrictSubsetOrdering
<1> QED BY <1>3, <1>4

LEMMA GrowsUp ==
  ASSUME NEW S, IsFiniteSet(S), NEW Right, {} \in Right,
         \A s \in SUBSET S : \A x \in S \ s : s \in Right => s \union {x} \in Right
  PROVE  S \in Right
<1>1. ASSUME NEW s \in SUBSET S, \A r \in SUBSET s : r # s => r \in Right PROVE s \in Right
  <2>1. CASE s = {}
    BY <2>1
  <2>2. ASSUME NEW x \in s PROVE s \in Right
    <3>1. s \ {x} \in SUBSET S /\ x \in S \ (s \ {x}) /\ (s \ {x}) \union {x} = s
      BY <2>2
    <3>2. s \ {x} \in Right
      BY <1>1, <2>2
    <3> QED BY <3>1, <3>2
  <2> QED BY <2>1, <2>2
<1> QED BY <1>1, FromSubsets

\* Induction over numbers, on the set of those that are right.
LEMMA CountsUp ==
  ASSUME NEW Right, 0 \in Right, \A n \in Nat : n \in Right => n + 1 \in Right
  PROVE  Nat \subseteq Right
<1> SUFFICES ASSUME NEW m \in Nat, m \notin Right PROVE FALSE
  OBVIOUS
<1> DEFINE S == 1..m
           Wrong == {s \in SUBSET S : \E k \in 0..m : s = 1..k /\ k \notin Right}
<1>1. IsWellFoundedOn(StrictSubsetOrdering(S), SUBSET S)
  <2>1. IsFiniteSet(S)
    BY FS_Interval
  <2> HIDE DEF S
  <2> QED BY <2>1, FS_StrictSubsetOrderingWellFounded, FS_FiniteSubsetsOfFinite
<1>2. Wrong \subseteq SUBSET S /\ S \in Wrong
  OBVIOUS
<1> HIDE DEF Wrong
<1>3. PICK s \in Wrong : \A r \in Wrong : <<r, s>> \notin StrictSubsetOrdering(S)
  BY <1>1, <1>2, WFMin
<1> USE DEF Wrong
<1>4. PICK k \in 0..m : s = 1..k /\ k \notin Right
  BY <1>3
<1>5. k - 1 \in 0..m /\ k - 1 \notin Right
  <2>1. k # 0 /\ k - 1 \in Nat /\ k = (k - 1) + 1
    BY <1>4
  <2> QED BY <1>4, <2>1
<1>6. 1..(k - 1) \in Wrong
  BY <1>5
<1>7. 1..(k - 1) \subseteq s /\ k \in s /\ k \notin 1..(k - 1)
  BY <1>4, <1>5
<1>8. <<1..(k - 1), s>> \in StrictSubsetOrdering(S)
  BY <1>3, <1>6, <1>7 DEF StrictSubsetOrdering
<1> QED BY <1>3, <1>6, <1>8

\* g adds up f, on the sets of D.
First(s) == CHOOSE x \in s : TRUE
Adds(f, g, D) ==
  g = [s \in D |-> IF s = {} THEN 0 ELSE f[First(s)] + g[s \ {First(s)}]]

\* For every finite set there is such a g, and its sum is what g says of it.
LEMMA AddsExists ==
  ASSUME NEW S, IsFiniteSet(S), NEW f
  PROVE  \E g : Adds(f, g, SUBSET S)
<1> DEFINE Upto(n) == {s \in SUBSET S : Cardinality(s) <= n}
           Right == {n \in Nat : \E g : Adds(f, g, Upto(n))}
<1>0. \A s \in SUBSET S : IsFiniteSet(s) /\ Cardinality(s) \in Nat
  BY FS_Subset, FS_CardinalityType
<1>1. 0 \in Right
  <2>1. \A s \in Upto(0) : s = {}
    BY <1>0, FS_EmptySet
  <2> HIDE DEF Upto
  <2>2. Adds(f, [s \in Upto(0) |-> 0], Upto(0))
    BY <2>1 DEF Adds
  <2> QED BY <2>2
<1>2. ASSUME NEW n \in Nat, NEW g, Adds(f, g, Upto(n))
      PROVE  \E h : Adds(f, h, Upto(n + 1))
  <2> DEFINE h == [s \in Upto(n + 1) |-> IF s = {} THEN 0 ELSE f[First(s)] + g[s \ {First(s)}]]
  <2>1. ASSUME NEW s \in Upto(n + 1), s # {}
        PROVE  s \ {First(s)} \in Upto(n)
    <3>1. First(s) \in s
      BY <2>1 DEF First
    <3>2. Cardinality(s \ {First(s)}) = Cardinality(s) - 1
      BY <1>0, <3>1, FS_RemoveElement
    <3> QED BY <1>0, <3>2
  <2>2. Upto(n) \subseteq Upto(n + 1)
    BY <1>0
  <2> HIDE DEF Upto
  <2>3. \A s \in Upto(n) : h[s] = g[s]
    BY <1>2, <2>2 DEF Adds
  <2>4. \A s \in Upto(n + 1) : s # {} =>
          h[s \ {First(s)}] = g[s \ {First(s)}]
    BY <2>1, <2>3
  <2>5. h = [s \in Upto(n + 1) |-> IF s = {} THEN 0 ELSE f[First(s)] + h[s \ {First(s)}]]
    <3> DEFINE k == [s \in Upto(n + 1) |-> IF s = {} THEN 0 ELSE f[First(s)] + h[s \ {First(s)}]]
    <3>1. \A s \in Upto(n + 1) : h[s] = k[s]
      BY <2>4
    <3> QED BY <3>1
  <2>6. Adds(f, h, Upto(n + 1))
    BY <2>5 DEF Adds
  <2> QED BY <2>6
<1>3. Cardinality(S) \in Right
  <2> HIDE DEF Upto
  <2>1. \A n \in Nat : n \in Right => n + 1 \in Right
    BY <1>2
  <2> HIDE DEF Right
  <2> QED BY <1>0, <1>1, <2>1, CountsUp
<1>4. Upto(Cardinality(S)) = SUBSET S
  BY FS_Subset
<1> QED BY <1>3, <1>4

LEMMA SumAdds ==
  ASSUME NEW S, IsFiniteSet(S), NEW f
  PROVE  \E g : Adds(f, g, SUBSET S) /\ SumFunctionOnSet(f, S) = g[S]
<1> DEFINE G == CHOOSE g : Adds(f, g, SUBSET S)
<1>1. Adds(f, G, SUBSET S)
  BY AddsExists
<1>2. SumFunctionOnSet(f, S) = G[S]
  BY DEF SumFunctionOnSet, FoldFunctionOnSet, MapThenFoldSet, Adds, First
<1> QED BY <1>1, <1>2

\* g takes any index of s out as it takes out the first.
Splits(f, g, s) == g[s] \in Int /\ \A x \in s : g[s] = f[x] + g[s \ {x}]

LEMMA AddsStart ==
  ASSUME NEW S, NEW f, NEW g, Adds(f, g, SUBSET S)
  PROVE  g[{}] = 0 /\ \A s \in SUBSET S : s # {} => g[s] = f[First(s)] + g[s \ {First(s)}]
<1>1. ASSUME NEW s \in SUBSET S
      PROVE  g[s] = IF s = {} THEN 0 ELSE f[First(s)] + g[s \ {First(s)}]
  BY DEF Adds
<1> QED BY <1>1

LEMMA AddsSplit ==
  ASSUME NEW S, IsFiniteSet(S), NEW f, \A x \in S : f[x] \in Int,
         NEW g, Adds(f, g, SUBSET S)
  PROVE  \A s \in SUBSET S : Splits(f, g, s)
<1> DEFINE Right == {s \in SUBSET S : Splits(f, g, s)}
<1>1. ASSUME NEW s \in SUBSET S, \A r \in SUBSET s : r # s => r \in Right
      PROVE  Splits(f, g, s)
  <2>1. CASE s = {}
    <3>1. g[{}] = 0
      BY AddsStart
    <3> QED BY <2>1, <3>1 DEF Splits
  <2>2. CASE s # {}
    <3> DEFINE y == First(s)
    <3>1. y \in s /\ g[s] = f[y] + g[s \ {y}]
      BY <2>2, AddsStart DEF First
    <3> HIDE DEF y
    <3>2. ASSUME NEW x \in s PROVE Splits(f, g, s \ {x})
      BY <1>1
    <3>3. g[s \ {y}] \in Int /\ f[y] \in Int
      BY <3>1, <3>2 DEF Splits
    <3>4. ASSUME NEW x \in s, x # y PROVE g[s] = f[x] + g[s \ {x}]
      <4> DEFINE rest == (s \ {x}) \ {y}
      <4>1. rest = (s \ {y}) \ {x} /\ rest \in SUBSET s /\ rest # s
        BY <3>1
      <4>2. Splits(f, g, rest)
        BY <1>1, <4>1
      <4> HIDE DEF rest
      <4>3. x \in s \ {y} /\ y \in s \ {x}
        BY <3>1, <3>4
      <4>4. g[s \ {y}] = f[x] + g[rest]
        BY <3>1, <3>2, <4>1, <4>3 DEF Splits
      <4>5. g[s \ {x}] = f[y] + g[rest]
        BY <3>2, <4>3 DEF Splits, rest
      <4>6. f[x] \in Int /\ g[rest] \in Int
        BY <4>2 DEF Splits
      <4> QED BY <3>1, <3>3, <4>4, <4>5, <4>6
    <3>5. \A x \in s : g[s] = f[x] + g[s \ {x}]
      BY <3>1, <3>4
    <3>6. g[s] \in Int
      BY <3>1, <3>3
    <3> QED BY <3>5, <3>6 DEF Splits
  <2> QED BY <2>1, <2>2
<1>2. SUBSET S \subseteq Right
  <2>1. \A s \in SUBSET S : (\A r \in SUBSET s : r # s => r \in Right) => s \in Right
    BY <1>1
  <2> HIDE DEF Right
  <2> QED BY <2>1, FromSubsets
<1> QED BY <1>2 DEF Right

\* Sums, an index at a time: of none, of one more, and their type.
LEMMA SumEmpty == ASSUME NEW f PROVE SumFunctionOnSet(f, {}) = 0
<1>1. PICK g : Adds(f, g, SUBSET {}) /\ SumFunctionOnSet(f, {}) = g[{}]
  BY SumAdds, FS_EmptySet
<1> QED BY <1>1 DEF Adds

LEMMA SumPlus ==
  ASSUME NEW S, IsFiniteSet(S), NEW x, x \notin S, NEW f,
         \A y \in S \union {x} : f[y] \in Int
  PROVE  /\ SumFunctionOnSet(f, S) \in Int
         /\ SumFunctionOnSet(f, S \union {x}) = f[x] + SumFunctionOnSet(f, S)
<1> DEFINE T == S \union {x}
<1>0. IsFiniteSet(T) /\ S \in SUBSET T /\ x \in T /\ T \ {x} = S
  BY FS_AddElement
<1> HIDE DEF T
<1>1. PICK g : Adds(f, g, SUBSET S) /\ SumFunctionOnSet(f, S) = g[S]
  BY SumAdds
<1>2. PICK h : Adds(f, h, SUBSET T) /\ SumFunctionOnSet(f, T) = h[T]
  BY <1>0, SumAdds
<1>3. \A s \in SUBSET S : Splits(f, g, s)
  BY <1>1, AddsSplit
<1>4. \A s \in SUBSET T : Splits(f, h, s)
  <2>1. \A y \in T : f[y] \in Int
    BY DEF T
  <2> QED BY <1>0, <1>2, <2>1, AddsSplit
<1>5. g[S] = h[S]
  <2> DEFINE Right == {s \in SUBSET S : g[s] = h[s]}
  <2>1. {} \in Right
    BY <1>1, <1>2 DEF Adds
  <2>2. ASSUME NEW s \in SUBSET S, NEW y \in S \ s, s \in Right PROVE s \union {y} \in Right
    <3>1. s \union {y} \in SUBSET S /\ (s \union {y}) \ {y} = s /\ s \union {y} \in SUBSET T
      BY <1>0, <2>2
    <3>2. Splits(f, g, s \union {y}) /\ Splits(f, h, s \union {y})
      BY <1>3, <1>4, <3>1
    <3>3. g[s \union {y}] = f[y] + g[s] /\ h[s \union {y}] = f[y] + h[s]
      BY <3>1, <3>2 DEF Splits
    <3> QED BY <2>2, <3>1, <3>3
  <2> HIDE DEF Right
  <2>3. S \in Right
    BY <2>1, <2>2, GrowsUp
  <2> QED BY <2>3 DEF Right
<1> QED BY <1>0, <1>1, <1>2, <1>3, <1>4, <1>5 DEF T, Splits

LEMMA SumType ==
  ASSUME NEW S, IsFiniteSet(S), NEW f, \A x \in S : f[x] \in Int
  PROVE  SumFunctionOnSet(f, S) \in Int
<1>1. PICK g : Adds(f, g, SUBSET S) /\ SumFunctionOnSet(f, S) = g[S]
  BY SumAdds
<1>2. Splits(f, g, S)
  BY <1>1, AddsSplit
<1> QED BY <1>1, <1>2 DEF Splits

\* Two functions that agree on the indices have the same sum.
LEMMA SumSame ==
  ASSUME NEW S, IsFiniteSet(S), NEW f, NEW h, \A x \in S : f[x] \in Int /\ h[x] = f[x]
  PROVE  SumFunctionOnSet(h, S) = SumFunctionOnSet(f, S)
<1> DEFINE Right == {s \in SUBSET S : SumFunctionOnSet(h, s) = SumFunctionOnSet(f, s)}
<1>1. {} \in Right
  BY SumEmpty
<1>2. ASSUME NEW s \in SUBSET S, NEW x \in S \ s, s \in Right PROVE s \union {x} \in Right
  <2>1. IsFiniteSet(s) /\ s \union {x} \in SUBSET S
    BY FS_Subset
  <2>2. SumFunctionOnSet(f, s \union {x}) = f[x] + SumFunctionOnSet(f, s)
    BY <2>1, SumPlus
  <2>3. SumFunctionOnSet(h, s \union {x}) = h[x] + SumFunctionOnSet(h, s)
    BY <2>1, SumPlus
  <2> QED BY <1>2, <2>1, <2>2, <2>3
<1> HIDE DEF Right
<1>3. S \in Right
  BY <1>1, <1>2, GrowsUp
<1> QED BY <1>3 DEF Right

\* A change at one index leaves the sum of the others.
LEMMA SumChange ==
  ASSUME NEW S, IsFiniteSet(S), NEW f, NEW h, NEW x \in S,
         \A y \in S : f[y] \in Int /\ h[y] \in Int /\ (y # x => h[y] = f[y])
  PROVE  \E rest \in Int : /\ SumFunctionOnSet(f, S) = f[x] + rest
                           /\ SumFunctionOnSet(h, S) = h[x] + rest
<1> DEFINE T == S \ {x}
<1>1. IsFiniteSet(T) /\ x \notin T /\ T \union {x} = S
  BY FS_RemoveElement
<1>2. \A y \in T : f[y] \in Int /\ h[y] \in Int /\ h[y] = f[y]
  OBVIOUS
<1> HIDE DEF T
<1>3. SumFunctionOnSet(f, T) \in Int /\ SumFunctionOnSet(f, S) = f[x] + SumFunctionOnSet(f, T)
  BY <1>1, SumPlus
<1>4. SumFunctionOnSet(h, S) = h[x] + SumFunctionOnSet(h, T)
  BY <1>1, SumPlus
<1>5. SumFunctionOnSet(h, T) = SumFunctionOnSet(f, T)
  BY <1>1, <1>2, SumSame
<1> QED BY <1>3, <1>4, <1>5

LEMMA SumOfZeros ==
  ASSUME NEW S, IsFiniteSet(S), NEW f, \A x \in S : f[x] = 0
  PROVE  SumFunctionOnSet(f, S) = 0
<1> DEFINE Right == {s \in SUBSET S : SumFunctionOnSet(f, s) = 0}
<1>1. {} \in Right
  BY SumEmpty
<1>2. ASSUME NEW s \in SUBSET S, NEW x \in S \ s, s \in Right PROVE s \union {x} \in Right
  <2>1. IsFiniteSet(s) /\ s \union {x} \in SUBSET S
    BY FS_Subset
  <2>2. \A y \in s \union {x} : f[y] \in Int
    BY <2>1
  <2>3. SumFunctionOnSet(f, s \union {x}) = f[x] + SumFunctionOnSet(f, s)
    BY <2>1, <2>2, SumPlus
  <2> QED BY <1>2, <2>1, <2>3
<1> HIDE DEF Right
<1>3. S \in Right
  BY <1>1, <1>2, GrowsUp
<1> QED BY <1>3 DEF Right

-----------------------------------------------------------------------------
(* The ledger, one step at a time *)

\* Handling a request keeps the types.  Stock never goes below zero: a reserve
\* takes only what is on the shelf of every SKU it asks for.
LEMMA LedgerTypeStep ==
  ASSUME LedgerTypeOK, NEW m \in requests, HandleReservation(m) \/ HandleRelease(m)
  PROVE  LedgerTypeOK'
<1> USE OpeningAssumption, MaxEpochAssumption
<1>0. CASE HandleReservation(m)
  <2>1. m \in ReserveRequest /\ m.tx \in Tx /\ m.epoch \in Epochs /\ m.lines \in Lines
    BY <1>0 DEF LedgerTypeOK, ReserveRequest, ReleaseRequest, HandleReservation
  <2>2. CASE ReserveApplied(m)
    <3>1. stock' \in Lines
      BY <2>1, <2>2 DEF ReserveApplied, Take, Covered, Lines, LedgerTypeOK
    <3>2. alerts' \in [Skus -> Nat]
      BY <2>2 DEF ReserveApplied, Take, LedgerTypeOK
    <3>3. record' \in [Tx -> [Epochs -> [state : RecordState, lines : Lines]]]
      BY <2>1, <2>2 DEF ReserveApplied, SetRecord, LedgerTypeOK, RecordState
    <3>4. replies' \subseteq Reply
      BY <2>1, <2>2 DEF ReserveApplied, ReplyTo, Reply, LedgerTypeOK
    <3> QED BY <1>0, <3>1, <3>2, <3>3, <3>4 DEF HandleReservation, LedgerTypeOK
  <2>3. CASE ReserveShort(m)
    <3>3. record' \in [Tx -> [Epochs -> [state : RecordState, lines : Lines]]]
      BY <2>1, <2>3 DEF ReserveShort, SetRecord, LedgerTypeOK, RecordState, Nothing, Lines
    <3>4. replies' \subseteq Reply
      BY <2>1, <2>3 DEF ReserveShort, ReplyTo, Reply, LedgerTypeOK
    <3> QED BY <1>0, <2>3, <3>3, <3>4 DEF HandleReservation, ReserveShort, LedgerTypeOK
  <2>4. CASE ReserveReplayed(m)
    <3>4. replies' \subseteq Reply
      BY <2>1, <2>4 DEF ReserveReplayed, ReplyTo, Reply, LedgerTypeOK, RecordedAnswer
    <3> QED BY <1>0, <2>4, <3>4 DEF HandleReservation, ReserveReplayed, LedgerTypeOK, ledger
  <2> QED BY <1>0, <2>2, <2>3, <2>4 DEF HandleReservation
<1>1. CASE HandleRelease(m)
  <2>1. m.tx \in Tx /\ m.epoch \in Epochs
    BY <1>1 DEF LedgerTypeOK, ReserveRequest, ReleaseRequest, HandleRelease
  <2>2. replies' \subseteq Reply
    BY <1>1, <2>1 DEF HandleRelease, ReplyTo, Reply, LedgerTypeOK
  <2>3. stock' \in Lines /\ record' \in [Tx -> [Epochs -> [state : RecordState, lines : Lines]]]
    <3>1. CASE ReleaseApplied(m)
      <4>1. record[m.tx][m.epoch].lines \in Lines
        BY <2>1 DEF LedgerTypeOK
      <4>2. stock' \in Lines
        BY <3>1, <4>1 DEF ReleaseApplied, Lines, LedgerTypeOK
      <4> QED BY <2>1, <3>1, <4>1, <4>2 DEF ReleaseApplied, SetRecord, LedgerTypeOK, RecordState
    <3>2. CASE ReleaseNothing(m)
      BY <2>1, <3>2 DEF ReleaseNothing, SetRecord, LedgerTypeOK, RecordState, Nothing, Lines
    <3>3. CASE ReleaseAgain(m)
      BY <3>3 DEF ReleaseAgain, LedgerTypeOK
    <3> QED BY <1>1, <3>1, <3>2, <3>3 DEF HandleRelease
  <2> QED BY <1>1, <2>2, <2>3 DEF HandleRelease, LedgerTypeOK
<1> QED BY <1>0, <1>1

\* What handling m does to the record of (t, e): nothing, unless m is of that
\* attempt, and then the record only moves forward.
LEMMA LedgerStep ==
  ASSUME LedgerTypeOK, NEW m \in requests, HandleReservation(m) \/ HandleRelease(m),
         NEW t \in Tx, NEW e \in Epochs
  PROVE  \/ record'[t][e] = record[t][e]
         \/ /\ m.tx = t /\ m.epoch = e /\ m.type = "reserve"
            /\ StateOf(t, e) = "NONE"
            /\ \/ StateOf(t, e)' = "APPLIED" /\ record'[t][e].lines = m.lines
               \/ StateOf(t, e)' = "REJECTED"
         \/ /\ m.tx = t /\ m.epoch = e /\ m.type = "release"
            /\ StateOf(t, e)' = "RELEASED"
<1> USE DEF StateOf, SetRecord, LedgerTypeOK
<1>1. m.tx \in Tx /\ m.epoch \in Epochs
  BY DEF ReserveRequest, ReleaseRequest
<1>2. CASE HandleReservation(m)
  <2>1. CASE ReserveApplied(m)
    BY <1>1, <1>2, <2>1 DEF ReserveApplied, HandleReservation
  <2>2. CASE ReserveShort(m)
    BY <1>1, <1>2, <2>2 DEF ReserveShort, HandleReservation
  <2>3. CASE ReserveReplayed(m)
    BY <2>3 DEF ReserveReplayed, ledger
  <2> QED BY <1>2, <2>1, <2>2, <2>3 DEF HandleReservation
<1>3. CASE HandleRelease(m)
  <2>1. CASE ReleaseApplied(m)
    BY <1>1, <1>3, <2>1 DEF ReleaseApplied, HandleRelease
  <2>2. CASE ReleaseNothing(m)
    BY <1>1, <1>3, <2>2 DEF ReleaseNothing, HandleRelease
  <2>3. CASE ReleaseAgain(m)
    BY <2>3 DEF ReleaseAgain
  <2> QED BY <1>3, <2>1, <2>2, <2>3 DEF HandleRelease
<1> QED BY <1>2, <1>3

\* A handler keeps the topic and adds one reply, which is about m's own attempt
\* and reports the state its record has after the handler.
LEMMA LedgerReply ==
  ASSUME LedgerTypeOK, NEW m \in requests, HandleReservation(m) \/ HandleRelease(m)
  PROVE  /\ requests' = requests
         /\ \E p \in Reply :
              /\ replies' = replies \union {p}
              /\ p.tx = m.tx /\ p.epoch = m.epoch
              /\ p.type = "reserved" => StateOf(p.tx, p.epoch)' = "APPLIED"
              /\ p.type = "rejected" => StateOf(p.tx, p.epoch)' = "REJECTED"
              /\ p.type \in {"refused", "released"} => StateOf(p.tx, p.epoch)' = "RELEASED"
<1> USE DEF StateOf, SetRecord, LedgerTypeOK
<1>1. m.tx \in Tx /\ m.epoch \in Epochs
  BY DEF ReserveRequest, ReleaseRequest
<1>2. CASE HandleReservation(m)
  <2>1. CASE ReserveApplied(m)
    <3>1. ReplyTo(m, "reserved") \in Reply
      BY <1>1 DEF ReplyTo, Reply
    <3> QED BY <1>1, <1>2, <2>1, <3>1 DEF ReserveApplied, HandleReservation, ReplyTo
  <2>2. CASE ReserveShort(m)
    <3>1. ReplyTo(m, "rejected") \in Reply
      BY <1>1 DEF ReplyTo, Reply
    <3> QED BY <1>1, <1>2, <2>2, <3>1 DEF ReserveShort, HandleReservation, ReplyTo
  <2>3. CASE ReserveReplayed(m)
    <3> DEFINE a == RecordedAnswer(StateOf(m.tx, m.epoch))
    <3>1. /\ a = "reserved" => StateOf(m.tx, m.epoch) = "APPLIED"
          /\ a = "rejected" => StateOf(m.tx, m.epoch) = "REJECTED"
          /\ a = "refused" => StateOf(m.tx, m.epoch) = "RELEASED"
          /\ a \in {"reserved", "rejected", "refused"}
      BY <1>1, <2>3 DEF RecordedAnswer, ReserveReplayed, RecordState
    <3>2. ReplyTo(m, a) \in Reply
      BY <1>1, <3>1 DEF ReplyTo, Reply
    <3>3. replies' = replies \union {ReplyTo(m, a)} /\ record' = record
      BY <2>3 DEF ReserveReplayed, ledger
    <3> HIDE DEF a
    <3> QED BY <1>1, <1>2, <3>1, <3>2, <3>3 DEF HandleReservation, ReplyTo
  <2> QED BY <1>2, <2>1, <2>2, <2>3 DEF HandleReservation
<1>3. CASE HandleRelease(m)
  <2>1. ReplyTo(m, "released") \in Reply
    BY <1>1 DEF ReplyTo, Reply
  <2>2. StateOf(m.tx, m.epoch)' = "RELEASED"
    BY <1>1, <1>3 DEF HandleRelease, ReleaseApplied, ReleaseNothing, ReleaseAgain
  <2> QED BY <1>1, <1>3, <2>1, <2>2 DEF HandleRelease, ReplyTo
<1> QED BY <1>2, <1>3

\* Handling keeps replies true to the records: a record that moves on moves to
\* a state its earlier replies allow.
LEMMA RepliesStep ==
  ASSUME LedgerTypeOK, RepliesReportRecords,
         NEW m \in requests, HandleReservation(m) \/ HandleRelease(m)
  PROVE  RepliesReportRecords'
<1>1. SUFFICES ASSUME NEW q \in replies'
      PROVE  /\ q.type = "reserved" => StateOf(q.tx, q.epoch)' \in {"APPLIED", "RELEASED"}
             /\ q.type = "rejected" => StateOf(q.tx, q.epoch)' \in {"REJECTED", "RELEASED"}
             /\ q.type \in {"refused", "released"} => StateOf(q.tx, q.epoch)' = "RELEASED"
  BY DEF RepliesReportRecords, StateOf
<1>2. CASE q \in replies
  <2>1. q.tx \in Tx /\ q.epoch \in Epochs
    BY <1>2 DEF LedgerTypeOK, Reply
  <2>2. \/ StateOf(q.tx, q.epoch)' = StateOf(q.tx, q.epoch)
        \/ StateOf(q.tx, q.epoch) = "NONE"
        \/ StateOf(q.tx, q.epoch)' = "RELEASED"
    BY <2>1, LedgerStep DEF StateOf
  <2> QED BY <1>2, <2>2 DEF RepliesReportRecords
<1>3. CASE q \notin replies
  BY <1>1, <1>3, LedgerReply DEF Reply
<1> QED BY <1>2, <1>3

LEMMA OneVerdictStep ==
  ASSUME LedgerTypeOK, RepliesReportRecords, OneVerdict,
         NEW m \in requests, HandleReservation(m) \/ HandleRelease(m)
  PROVE  OneVerdict'
<1>1. SUFFICES ASSUME NEW p \in replies', NEW q \in replies',
                      p.tx = q.tx, p.epoch = q.epoch, p.type = "reserved", q.type = "rejected"
               PROVE  FALSE
  BY DEF OneVerdict
<1>2. PICK r \in Reply :
        /\ replies' = replies \union {r}
        /\ r.tx = m.tx /\ r.epoch = m.epoch
        /\ r.type = "reserved" => StateOf(r.tx, r.epoch)' = "APPLIED"
        /\ r.type = "rejected" => StateOf(r.tx, r.epoch)' = "REJECTED"
  BY LedgerReply
<1>3. StateOf(p.tx, p.epoch)' \in {"APPLIED", "RELEASED"} /\ StateOf(q.tx, q.epoch)' \in {"REJECTED", "RELEASED"}
  BY <1>1, RepliesStep DEF RepliesReportRecords, StateOf
<1>4. p # r /\ q # r
  BY <1>1, <1>2, <1>3
<1> QED BY <1>1, <1>2, <1>4 DEF OneVerdict

LEMMA AttemptsFinite == IsFiniteSet(Epochs) /\ IsFiniteSet(Tx \X Epochs)
<1>1. IsFiniteSet(Epochs)
  BY MaxEpochAssumption, FS_Interval DEF Epochs
<1> QED BY <1>1, TxAssumption, FS_Product

LEMMA HeldUnitsType ==
  ASSUME LedgerTypeOK, NEW s \in Skus
  PROVE  HeldUnits(s) \in Int
<1> DEFINE K == Tx \X Epochs
           f == [k \in K |-> Holds(k[1], k[2], s)]
<1>1. ASSUME NEW k \in K PROVE f[k] \in Int
  BY DEF Holds, LedgerTypeOK, Lines
<1>2. HeldUnits(s) = SumFunctionOnSet(f, K)
  BY DEF HeldUnits, SumFunction
<1> HIDE DEF f
<1> QED BY <1>1, <1>2, AttemptsFinite, SumType

\* Units held when the record of one attempt changes.
LEMMA HeldUnitsStep ==
  ASSUME LedgerTypeOK, LedgerTypeOK', NEW s \in Skus, NEW t \in Tx, NEW e \in Epochs,
         \A u \in Tx, i \in Epochs : <<u, i>> # <<t, e>> => record'[u][i] = record[u][i]
  PROVE  /\ HeldUnits(s) \in Int
         /\ HeldUnits(s)' = HeldUnits(s) + (Holds(t, e, s)' - Holds(t, e, s))
<1> DEFINE K == Tx \X Epochs
           f == [k \in K |-> Holds(k[1], k[2], s)]
           h == [k \in K |-> Holds(k[1], k[2], s)']
           x == <<t, e>>
<1>1. IsFiniteSet(K)
  BY AttemptsFinite
<1>2. ASSUME NEW k \in K
      PROVE  /\ f[k] \in Int /\ h[k] \in Int
             /\ k # x => h[k] = f[k]
  <2>1. PICK u \in Tx, i \in Epochs : k = <<u, i>>
    OBVIOUS
  <2>2. Holds(u, i, s) \in Int /\ Holds(u, i, s)' \in Int
    BY DEF Holds, LedgerTypeOK, Lines
  <2>3. k # x => Holds(u, i, s)' = Holds(u, i, s)
    BY <2>1 DEF Holds, StateOf
  <2> QED BY <2>1, <2>2, <2>3
<1>3. x \in K /\ f[x] = Holds(t, e, s) /\ h[x] = Holds(t, e, s)'
  OBVIOUS
<1>4. HeldUnits(s) = SumFunctionOnSet(f, K) /\ HeldUnits(s)' = SumFunctionOnSet(h, K)
  BY DEF HeldUnits, SumFunction
<1> HIDE DEF f, h, x, K
<1>5. SumFunctionOnSet(f, K) \in Int
  BY <1>1, <1>2, SumType
<1>6. SumFunctionOnSet(h, K) = SumFunctionOnSet(f, K) + (h[x] - f[x])
  <2>1. x \in K /\ \A y \in K : f[y] \in Int /\ h[y] \in Int /\ (y # x => h[y] = f[y])
    BY <1>2, <1>3
  <2>2. \E rest \in Int : /\ SumFunctionOnSet(f, K) = f[x] + rest
                         /\ SumFunctionOnSet(h, K) = h[x] + rest
    BY <1>1, <2>1, SumChange
  <2> QED BY <2>1, <2>2
<1> QED BY <1>3, <1>4, <1>5, <1>6

\* What a reserve takes from the shelf its record holds from then on; what a
\* release puts back its record no longer holds.
LEMMA ConservedStep ==
  ASSUME LedgerTypeOK, StockConserved,
         NEW m \in requests, HandleReservation(m) \/ HandleRelease(m)
  PROVE  StockConserved'
<1> SUFFICES ASSUME NEW s \in Skus PROVE stock'[s] + HeldUnits(s)' = Opening[s]
  BY DEF StockConserved
<1> DEFINE t == m.tx
           e == m.epoch
<1>1. t \in Tx /\ e \in Epochs /\ (m.type = "reserve" => m.lines \in Lines)
  BY DEF LedgerTypeOK, ReserveRequest, ReleaseRequest
<1>2. LedgerTypeOK'
  BY LedgerTypeStep
<1>3. \A u \in Tx, i \in Epochs : <<u, i>> # <<t, e>> => record'[u][i] = record[u][i]
  BY LedgerStep
<1>4. stock'[s] - stock[s] = Holds(t, e, s) - Holds(t, e, s)'
  <2> USE DEF Holds, StateOf, LedgerTypeOK, Lines
  <2>1. CASE HandleReservation(m)
    <3>1. CASE ReserveApplied(m)
      BY <1>1, <2>1, <3>1 DEF HandleReservation, ReserveApplied, Take, SetRecord
    <3>2. CASE ReserveShort(m)
      BY <1>1, <2>1, <3>2 DEF HandleReservation, ReserveShort, SetRecord
    <3>3. CASE ReserveReplayed(m)
      BY <1>1, <3>3 DEF ReserveReplayed, ledger
    <3> QED BY <2>1, <3>1, <3>2, <3>3 DEF HandleReservation
  <2>2. CASE HandleRelease(m)
    <3>1. CASE ReleaseApplied(m)
      BY <1>1, <3>1 DEF ReleaseApplied, SetRecord
    <3>2. CASE ReleaseNothing(m)
      BY <1>1, <3>2 DEF ReleaseNothing, SetRecord
    <3>3. CASE ReleaseAgain(m)
      BY <1>1, <3>3 DEF ReleaseAgain
    <3> QED BY <2>2, <3>1, <3>2, <3>3 DEF HandleRelease
  <2> QED BY <2>1, <2>2
<1> HIDE DEF t, e
<1>5. HeldUnits(s) \in Int /\ HeldUnits(s)' = HeldUnits(s) + (Holds(t, e, s)' - Holds(t, e, s))
  BY <1>1, <1>2, <1>3, HeldUnitsStep
<1>6. /\ stock[s] \in Int /\ stock'[s] \in Int
      /\ Holds(t, e, s) \in Int /\ Holds(t, e, s)' \in Int
      /\ stock[s] + HeldUnits(s) = Opening[s]
  BY <1>1, <1>2 DEF LedgerTypeOK, Lines, Holds, StockConserved
<1> QED BY <1>4, <1>5, <1>6

\* A SKU passes the threshold downwards only by a reserve that announces it.
LEMMA AnnouncedStep ==
  ASSUME LedgerTypeOK, LowStockAnnounced,
         NEW m \in requests, HandleReservation(m) \/ HandleRelease(m)
  PROVE  LowStockAnnounced'
<1> SUFFICES ASSUME NEW s \in Skus, stock'[s] < Threshold, Threshold <= Opening[s]
             PROVE  alerts'[s] > 0
  BY DEF LowStockAnnounced, LowStock
<1> USE ThresholdAssumption DEF LedgerTypeOK, Lines
<1>1. stock[s] < Threshold => alerts[s] > 0
  BY DEF LowStockAnnounced, LowStock
<1>2. CASE HandleReservation(m)
  BY <1>1, <1>2 DEF HandleReservation, ReserveApplied, ReserveShort, ReserveReplayed, Take, ledger
<1>3. CASE HandleRelease(m)
  <2>1. alerts' = alerts
    BY <1>3 DEF HandleRelease
  <2>2. stock'[s] = stock[s] \/ \E n \in Nat : stock'[s] = stock[s] + n
    BY <1>3 DEF HandleRelease, ReleaseApplied, ReleaseNothing, ReleaseAgain,
                ReserveRequest, ReleaseRequest
  <2> QED BY <1>1, <2>1, <2>2
<1> QED BY <1>2, <1>3

-----------------------------------------------------------------------------

LedgerInv == LedgerTypeOK /\ RepliesReportRecords /\ OneVerdict
             /\ StockConserved /\ LowStockAnnounced

LEMMA InitConserved == LedgerInit => StockConserved
<1> SUFFICES ASSUME LedgerInit, NEW s \in Skus PROVE stock[s] + HeldUnits(s) = Opening[s]
  BY DEF StockConserved
<1> DEFINE f == [k \in Tx \X Epochs |-> Holds(k[1], k[2], s)]
<1>1. IsFiniteSet(Tx \X Epochs)
  BY AttemptsFinite
<1>2. \A k \in Tx \X Epochs : f[k] = 0
  BY DEF Holds, StateOf, LedgerInit
<1>3. HeldUnits(s) = SumFunctionOnSet(f, Tx \X Epochs)
  BY DEF HeldUnits, SumFunction
<1> HIDE DEF f
<1>4. HeldUnits(s) = 0
  BY <1>1, <1>2, <1>3, SumOfZeros
<1> QED BY <1>4, OpeningAssumption DEF LedgerInit, Lines

LEMMA LedgerInitInv == LedgerInit => LedgerInv
<1> SUFFICES ASSUME LedgerInit PROVE LedgerInv
  OBVIOUS
<1>1. LedgerTypeOK /\ RepliesReportRecords /\ OneVerdict
  BY OpeningAssumption, ThresholdAssumption, MaxEpochAssumption
     DEF LedgerInit, LedgerTypeOK, RepliesReportRecords, OneVerdict, Lines,
         Nothing, RecordState
<1>2. LowStockAnnounced
  BY OpeningAssumption, ThresholdAssumption DEF LedgerInit, LowStockAnnounced, LowStock, Lines
<1> QED BY <1>1, <1>2, InitConserved DEF LedgerInv

LEMMA SameRecordSameUnits ==
  ASSUME record' = record, NEW s \in Skus
  PROVE  HeldUnits(s)' = HeldUnits(s)
BY DEF HeldUnits, Holds, StateOf

\* A sender only adds to the topic.
LEMMA AskTypes ==
  ASSUME LedgerTypeOK, Ask
  PROVE  /\ LedgerTypeOK' /\ requests \subseteq requests'
         /\ UNCHANGED <<stock, record, alerts, replies>>
<1>1. UNCHANGED <<stock, record, alerts, replies>>
  BY DEF Ask, ledger
<1>2. PICK t \in Tx, e \in Epochs :
        \/ \E lines \in Baskets : requests' = requests \union {Reservation(t, e, lines)}
        \/ requests' = requests \union {Release(t, e)}
  BY DEF Ask
<1>3. Release(t, e) \in ReleaseRequest
  BY DEF Release, ReleaseRequest
<1>4. \A lines \in Baskets : Reservation(t, e, lines) \in ReserveRequest
  BY BasketsAssumption DEF Reservation, ReserveRequest
<1> QED BY <1>1, <1>2, <1>3, <1>4 DEF LedgerTypeOK

LEMMA AskInv == LedgerInv /\ Ask => LedgerInv'
<1> SUFFICES ASSUME LedgerInv, Ask PROVE LedgerInv'
  OBVIOUS
<1>1. LedgerTypeOK' /\ UNCHANGED <<stock, record, alerts, replies>>
  BY AskTypes DEF LedgerInv
<1>2. StockConserved'
  BY <1>1, SameRecordSameUnits DEF LedgerInv, StockConserved
<1> QED BY <1>1, <1>2
        DEF LedgerInv, RepliesReportRecords, OneVerdict, StateOf, LowStockAnnounced, LowStock

LEMMA LedgerInvStep == LedgerInv /\ [LedgerNext \/ Ask]_ledgerVars => LedgerInv'
<1> SUFFICES ASSUME LedgerInv, [LedgerNext \/ Ask]_ledgerVars PROVE LedgerInv'
  OBVIOUS
<1>1. CASE LedgerNext
  BY <1>1, LedgerTypeStep, RepliesStep, OneVerdictStep, ConservedStep, AnnouncedStep
     DEF LedgerNext, LedgerInv
<1>2. CASE Ask
  BY <1>2, AskInv
<1>3. CASE UNCHANGED ledgerVars
  <2>1. StockConserved'
    BY <1>3, SameRecordSameUnits DEF ledgerVars, LedgerInv, StockConserved
  <2> QED BY <1>3, <2>1
          DEF ledgerVars, LedgerInv, LedgerTypeOK, RepliesReportRecords, OneVerdict, StateOf,
              LowStockAnnounced, LowStock
<1> QED BY <1>1, <1>2, <1>3

\* Inventory's types; in particular no SKU's stock is ever negative.
THEOREM LedgerTypeCorrect == LedgerSpec => []LedgerTypeOK
<1>1. LedgerInv => LedgerTypeOK
  BY DEF LedgerInv
<1> QED BY <1>1, LedgerInitInv, LedgerInvStep, PTL DEF LedgerSpec

\* Replies report the records they were made from, for any sender: what
\* Checkout concludes from a late reply is still true of the ledger.
THEOREM RepliesReport == LedgerSpec => []RepliesReportRecords
<1>1. LedgerInv => RepliesReportRecords
  BY DEF LedgerInv
<1> QED BY <1>1, LedgerInitInv, LedgerInvStep, PTL DEF LedgerSpec

\* No attempt is ever told both "reserved" and "rejected".
THEOREM NoTwoVerdicts == LedgerSpec => []OneVerdict
<1>1. LedgerInv => OneVerdict
  BY DEF LedgerInv
<1> QED BY <1>1, LedgerInitInv, LedgerInvStep, PTL DEF LedgerSpec

\* Every unit is on the shelf or held by exactly one applied reservation, for any
\* number of transactions, attempts and SKUs.
THEOREM UnitsConserved == LedgerSpec => []StockConserved
<1>1. LedgerInv => StockConserved
  BY DEF LedgerInv
<1> QED BY <1>1, LedgerInitInv, LedgerInvStep, PTL DEF LedgerSpec

\* Every SKU that went below the threshold has been announced.
THEOREM LowStockIsAnnounced == LedgerSpec => []LowStockAnnounced
<1>1. LedgerInv => LowStockAnnounced
  BY DEF LedgerInv
<1> QED BY <1>1, LedgerInitInv, LedgerInvStep, PTL DEF LedgerSpec

\* A released attempt never takes stock, a refused one never gets it, and an
\* applied one is only ever released.
THEOREM RecordsAdvance == LedgerSpec => RecordsOnlyAdvance
<1> DEFINE Advances ==
      \A t \in Tx, e \in Epochs :
        /\ StateOf(t, e) = "RELEASED" => StateOf(t, e)' = "RELEASED"
        /\ StateOf(t, e) = "REJECTED" => StateOf(t, e)' \in {"REJECTED", "RELEASED"}
        /\ StateOf(t, e) = "APPLIED"  => StateOf(t, e)' \in {"APPLIED", "RELEASED"}
<1>1. LedgerInv /\ [LedgerNext \/ Ask]_ledgerVars => [Advances]_ledgerVars
  <2> SUFFICES ASSUME LedgerInv, LedgerNext \/ Ask PROVE Advances
    OBVIOUS
  <2>1. CASE LedgerNext
    <3>1. PICK m \in requests : HandleReservation(m) \/ HandleRelease(m)
      BY <2>1 DEF LedgerNext
    <3> SUFFICES ASSUME NEW t \in Tx, NEW e \in Epochs
                 PROVE  \/ StateOf(t, e)' = StateOf(t, e)
                        \/ StateOf(t, e) = "NONE"
                        \/ StateOf(t, e)' = "RELEASED"
      OBVIOUS
    <3> QED BY <3>1, LedgerStep DEF LedgerInv, StateOf
  <2>2. CASE Ask
    BY <2>2 DEF Ask, ledger, StateOf
  <2> QED BY <2>1, <2>2
<1> HIDE DEF Advances
<1>2. LedgerSpec => [][Advances]_ledgerVars
  BY <1>1, LedgerInitInv, LedgerInvStep, PTL DEF LedgerSpec
<1> QED BY <1>2 DEF RecordsOnlyAdvance, Advances
=============================================================================
