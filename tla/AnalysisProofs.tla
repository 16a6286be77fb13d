---------------------------- MODULE AnalysisProofs ---------------------------
(***************************************************************************)
(* What Analysis guarantees for every sequence of input files: that every  *)
(* measurement is accounted for, that headings govern what is printed      *)
(* below them and that effect sizes are shown with the right summaries.    *)
(***************************************************************************)
EXTENDS Analysis, FiniteSetTheorems, WellFoundedInduction, TLAPS

(***************************************************************************)
(* Numbers.  A set of numbers that is not empty has a least member; what   *)
(* holds of 0 and with each number of the next one holds of all.           *)
(***************************************************************************)
Smaller == {p \in Nat \X Nat : p[1] < p[2]}

LEMMA LeastMember ==
  ASSUME NEW T \in SUBSET Nat, T # {}
  PROVE  \E m \in T : \A k \in T : m <= k
<1>1. Smaller = OpToRel(<, Nat)
  BY DEF OpToRel, Smaller
<1>2. IsWellFoundedOn(Smaller, Nat)
  BY <1>1, NatLessThanWellFounded
<1>3. PICK m \in T : \A k \in T : ~(<<k, m>> \in Smaller)
  BY <1>2, WFMin
<1>4. \A k \in T : m \in Nat /\ k \in Nat /\ ~(k < m)
  BY <1>3 DEF Smaller
<1>5. \A k \in T : m <= k
  BY <1>4
<1> QED BY <1>5

LEMMA Induction ==
  ASSUME NEW P \in SUBSET Nat, 0 \in P, \A n \in P : n + 1 \in P
  PROVE  P = Nat
<1> SUFFICES ASSUME Nat \ P # {} PROVE FALSE
  OBVIOUS
<1>1. PICK m \in Nat \ P : \A k \in Nat \ P : m <= k
  BY LeastMember
<1>2. m # 0 /\ m - 1 \in Nat
  BY <1>1
<1>3. m - 1 \in P
  BY <1>1, <1>2
<1> QED BY <1>1, <1>2, <1>3

LEMMA MaxIs ==
  ASSUME NEW S \in SUBSET Nat, NEW m \in S, \A k \in S : k <= m
  PROVE  Max(S) = m
<1>1. \A k \in S : m >= k
  OBVIOUS
<1>2. ASSUME NEW x \in S, \A k \in S : x >= k
      PROVE  x = m
  BY <1>2
<1> QED BY <1>1, <1>2 DEF Max

-----------------------------------------------------------------------------
(***************************************************************************)
(* The order of tuples of n numbers.                                       *)
(***************************************************************************)
Tuples(n) == [1..n -> Nat]

LEMMA LessIrreflexive ==
  ASSUME NEW n \in Nat, NEW s \in Tuples(n)
  PROVE  ~Less(s, s)
BY DEF Less, Tuples

LEMMA LessTotal ==
  ASSUME NEW n \in Nat, NEW s \in Tuples(n), NEW t \in Tuples(n), s # t
  PROVE  Less(s, t) \/ Less(t, s)
<1> DEFINE different == {i \in 1..n : s[i] # t[i]}
<1>1. different \in SUBSET Nat /\ different # {}
  BY DEF Tuples
<1>2. PICK i \in different : \A j \in different : i <= j
  BY <1>1, LeastMember
<1>3. i \in 1..n /\ s[i] # t[i] /\ s[i] \in Nat /\ t[i] \in Nat
  BY <1>2 DEF Tuples
<1>4. \A j \in 1..(i - 1) : s[j] = t[j]
  BY <1>2, <1>3
<1>5. s[i] < t[i] \/ t[i] < s[i]
  BY <1>3
<1>6. DOMAIN s = 1..n /\ DOMAIN t = 1..n
  BY DEF Tuples
<1> HIDE DEF different
<1> QED BY <1>3, <1>4, <1>5, <1>6 DEF Less

LEMMA LessTransitive ==
  ASSUME NEW n \in Nat, NEW s \in Tuples(n), NEW t \in Tuples(n), NEW u \in Tuples(n),
         Less(s, t), Less(t, u)
  PROVE  Less(s, u)
<1>1. PICK i \in 1..n : s[i] < t[i] /\ \A j \in 1..(i - 1) : s[j] = t[j]
  BY DEF Less, Tuples
<1>2. PICK k \in 1..n : t[k] < u[k] /\ \A j \in 1..(k - 1) : t[j] = u[j]
  BY DEF Less, Tuples
<1>3. \A j \in 1..n : s[j] \in Nat /\ t[j] \in Nat /\ u[j] \in Nat
  BY DEF Tuples
<1>4. DOMAIN s = 1..n
  BY DEF Tuples
<1>5. CASE i <= k
  <2>1. s[i] < u[i] /\ \A j \in 1..(i - 1) : s[j] = u[j]
    BY <1>1, <1>2, <1>3, <1>5
  <2> QED BY <1>4, <2>1 DEF Less
<1>6. CASE k < i
  <2>1. s[k] < u[k] /\ \A j \in 1..(k - 1) : s[j] = u[j]
    BY <1>1, <1>2, <1>3, <1>6
  <2> QED BY <1>4, <2>1 DEF Less
<1> QED BY <1>5, <1>6

(***************************************************************************)
(* Sorting.  A finite set that is ordered by tuples, no two members by the *)
(* same, has each member in exactly one place, those with lesser tuples    *)
(* before it.                                                              *)
(***************************************************************************)
LEMMA PrecedingGrows ==
  ASSUME NEW n \in Nat, NEW D, IsFiniteSet(D), NEW order \in [D -> Tuples(n)],
         NEW s \in D, NEW t \in D, Less(order[s], order[t])
  PROVE  Cardinality(Preceding(order, s)) < Cardinality(Preceding(order, t))
<1>1. Preceding(order, s) \in SUBSET D /\ Preceding(order, t) \in SUBSET D
  BY DEF Preceding
<1>2. Preceding(order, s) \in SUBSET Preceding(order, t)
  BY LessTransitive DEF Preceding
<1>3. s \in Preceding(order, t) /\ s \notin Preceding(order, s)
  BY LessIrreflexive DEF Preceding
<1>4. IsFiniteSet(Preceding(order, t)) /\ IsFiniteSet(Preceding(order, s))
  BY <1>1, FS_Subset
<1>5. /\ Cardinality(Preceding(order, s)) <= Cardinality(Preceding(order, t))
      /\ Cardinality(Preceding(order, s)) # Cardinality(Preceding(order, t))
  BY <1>2, <1>3, <1>4, FS_Subset
<1>6. /\ Cardinality(Preceding(order, s)) \in Nat
      /\ Cardinality(Preceding(order, t)) \in Nat
  BY <1>4, FS_CardinalityType
<1> QED BY <1>5, <1>6

LEMMA SortedSound ==
  ASSUME NEW n \in Nat, NEW D, IsFiniteSet(D), NEW order \in [D -> Tuples(n)],
         \A s, t \in D : s # t => order[s] # order[t]
  PROVE  /\ Cardinality(D) \in Nat
         /\ Sorted(order) \in [1..Cardinality(D) -> D]
         /\ \A s \in D : \E i \in 1..Cardinality(D) : Sorted(order)[i] = s
         /\ \A i, j \in 1..Cardinality(D) : i # j => Sorted(order)[i] # Sorted(order)[j]
         /\ \A i, j \in 1..Cardinality(D) :
              i < j => Less(order[Sorted(order)[i]], order[Sorted(order)[j]])
<1> DEFINE card == Cardinality(D)
           place == [s \in D |-> Cardinality(Preceding(order, s)) + 1]
<1>1. card \in Nat /\ DOMAIN order = D
  BY FS_CardinalityType
<1>2. ASSUME NEW s \in D
      PROVE  /\ Cardinality(Preceding(order, s)) \in Nat
             /\ place[s] = Cardinality(Preceding(order, s)) + 1
             /\ place[s] \in 1..card
  <2>1. Preceding(order, s) \in SUBSET (D \ {s})
    BY <1>1, LessIrreflexive DEF Preceding
  <2>2. IsFiniteSet(D \ {s}) /\ Cardinality(D \ {s}) = card - 1
    BY FS_RemoveElement
  <2>3. IsFiniteSet(Preceding(order, s)) /\ Cardinality(Preceding(order, s)) <= card - 1
    BY <2>1, <2>2, FS_Subset
  <2>4. Cardinality(Preceding(order, s)) \in Nat
    BY <2>3, FS_CardinalityType
  <2> QED BY <1>1, <2>3, <2>4
<1>3. ASSUME NEW s \in D, NEW t \in D, Less(order[s], order[t])
      PROVE  place[s] < place[t]
  <2>1. Cardinality(Preceding(order, s)) < Cardinality(Preceding(order, t))
    BY <1>3, PrecedingGrows
  <2> HIDE DEF place
  <2> QED BY <1>2, <2>1
<1>4. \A s, t \in D : s # t => Less(order[s], order[t]) \/ Less(order[t], order[s])
  BY LessTotal
<1>5. \A s, t \in D : place[s] < place[t] => Less(order[s], order[t])
  BY <1>2, <1>3, <1>4
<1>6. \A s, t \in D : place[s] = place[t] => s = t
  BY <1>2, <1>3, <1>4
<1>7. \A i \in 1..card : \E s \in D : place[s] = i
  <2>1. place \in Injection(D, 1..card)
    BY <1>2, <1>6 DEF Injection, IsInjective
  <2>2. IsFiniteSet(1..card) /\ Cardinality(1..card) = card
    BY <1>1, FS_Interval
  <2>3. place \in Surjection(D, 1..card)
    BY <2>1, <2>2, FS_Injection
  <2> QED BY <2>3 DEF Surjection
<1>8. Sorted(order) = [i \in 1..card |->
                         CHOOSE s \in D : Cardinality(Preceding(order, s)) = i - 1]
  BY <1>1 DEF Sorted
<1>9. ASSUME NEW i \in 1..card
      PROVE  Sorted(order)[i] \in D /\ place[Sorted(order)[i]] = i
  <2>1. \A s \in D : place[s] = i <=> Cardinality(Preceding(order, s)) = i - 1
    <3> HIDE DEF place
    <3> QED BY <1>2
  <2> HIDE DEF place
  <2> QED BY <1>7, <1>8, <2>1
<1> HIDE DEF place
<1>10. ASSUME NEW s \in D PROVE Sorted(order)[place[s]] = s
  <2>1. place[s] \in 1..card
    BY <1>2
  <2>2. /\ Sorted(order)[place[s]] \in D
        /\ place[Sorted(order)[place[s]]] = place[s]
    BY <1>9, <2>1
  <2> QED BY <1>6, <2>2
<1>11. Sorted(order) \in [1..card -> D]
  BY <1>8, <1>9
<1>12. \A s \in D : \E i \in 1..card : Sorted(order)[i] = s
  BY <1>2, <1>10
<1>13. \A i, j \in 1..card : i # j => Sorted(order)[i] # Sorted(order)[j]
  BY <1>9
<1>14. \A i, j \in 1..card : i < j => Less(order[Sorted(order)[i]], order[Sorted(order)[j]])
  BY <1>5, <1>9
<1> QED BY <1>1, <1>11, <1>12, <1>13, <1>14
-----------------------------------------------------------------------------
(***************************************************************************)
(* Keys and summaries.                                                     *)
(***************************************************************************)
KeyTypes(k) ==
  /\ DOMAIN k = Fields /\ k = [f \in Fields |-> k[f]]
  /\ k.arch \in Names /\ k.engine \in Names \X Nat
  /\ k.wasm \in Names /\ k.phase \in Names /\ k.event \in Names

LEMMA RowKey ==
  ASSUME NEW r \in Rows
  PROVE  /\ KeyTypes(Key(r, Fields))
         /\ \A f \in Fields : Key(r, Fields)[f] = r[f]
BY DEF Key, KeyTypes, Rows, Fields

LEMMA SameKey ==
  ASSUME NEW k, KeyTypes(k), NEW l, KeyTypes(l), \A f \in Fields : k[f] = l[f]
  PROVE  k = l
<1>1. [f \in Fields |-> k[f]] = [f \in Fields |-> l[f]]
  OBVIOUS
<1> QED BY <1>1 DEF KeyTypes

LEMMA OrdersAreTuples ==
  ASSUME NEW k, KeyTypes(k)
  PROVE  KeyOrder(k) \in Tuples(6) /\ PrintOrder(k) \in Tuples(6)
BY DEF KeyTypes, KeyOrder, PrintOrder, Tuples, Names

LEMMA OrdersTellApart ==
  ASSUME NEW k, KeyTypes(k), NEW l, KeyTypes(l),
         KeyOrder(k) = KeyOrder(l) \/ PrintOrder(k) = PrintOrder(l)
  PROVE  k = l
<1>1. /\ k.arch = l.arch /\ k.wasm = l.wasm /\ k.phase = l.phase /\ k.event = l.event
      /\ k.engine[1] = l.engine[1] /\ k.engine[2] = l.engine[2]
  BY DEF KeyOrder, PrintOrder
<1>2. k.engine = l.engine
  BY <1>1 DEF KeyTypes
<1>3. \A f \in Fields : k[f] = l[f]
  BY <1>1, <1>2 DEF Fields
<1> QED BY <1>3, SameKey

LEMMA ArchitectureFirst ==
  ASSUME NEW k, KeyTypes(k), NEW l, KeyTypes(l), Less(KeyOrder(k), KeyOrder(l))
  PROVE  k.arch <= l.arch
<1>1. PICK i \in 1..6 : /\ KeyOrder(k)[i] < KeyOrder(l)[i]
                        /\ \A j \in 1..(i - 1) : KeyOrder(k)[j] = KeyOrder(l)[j]
  BY DEF Less, KeyOrder
<1>2. KeyOrder(k)[1] = k.arch /\ KeyOrder(l)[1] = l.arch /\ k.arch \in Nat /\ l.arch \in Nat
  BY DEF KeyOrder, KeyTypes, Names
<1>3. i = 1 \/ 1 \in 1..(i - 1)
  OBVIOUS
<1> QED BY <1>1, <1>2, <1>3

(* Each measurement is in the summary that has its key.                    *)
LEMMA SummaryMembers ==
  ASSUME NEW ms \in Seq(Rows)
  PROVE  /\ \A s \in Summaries(ms) : /\ KeyTypes(s.key) /\ s.group = Matching(ms, s.key)
                                     /\ s.group \in (SUBSET DOMAIN ms) \ {{}}
                                     /\ \E i \in DOMAIN ms : s.key = Key(ms[i], Fields)
         /\ \A s, t \in Summaries(ms) : s.key = t.key => s = t
         /\ \A i \in DOMAIN ms : \E s \in Summaries(ms) : s.key = Key(ms[i], Fields)
         /\ \A s \in Summaries(ms) : \A i \in DOMAIN ms :
              i \in s.group <=> s.key = Key(ms[i], Fields)
<1>1. \A i \in DOMAIN ms : ms[i] \in Rows
  OBVIOUS
<1>2. Keys(ms, SummaryFields) = {Key(ms[i], Fields) : i \in DOMAIN ms}
  BY DEF Keys, SummaryFields
<1>3. ASSUME NEW i \in DOMAIN ms, NEW j \in DOMAIN ms
      PROVE  j \in Matching(ms, Key(ms[i], Fields)) <=> Key(ms[i], Fields) = Key(ms[j], Fields)
  <2>1. DOMAIN Key(ms[i], Fields) = Fields
    BY DEF Key
  <2>2. j \in Matching(ms, Key(ms[i], Fields)) <=>
          \A f \in Fields : ms[j][f] = Key(ms[i], Fields)[f]
    BY <2>1 DEF Matching
  <2>3. \A f \in Fields : Key(ms[j], Fields)[f] = ms[j][f]
    BY <1>1, RowKey
  <2>4. KeyTypes(Key(ms[i], Fields)) /\ KeyTypes(Key(ms[j], Fields))
    BY <1>1, RowKey
  <2> QED BY <2>2, <2>3, <2>4, SameKey
<1>4. ASSUME NEW s \in Summaries(ms)
      PROVE  \E i \in DOMAIN ms : /\ s.key = Key(ms[i], Fields)
                                 /\ s = [key |-> s.key, group |-> Matching(ms, s.key)]
  BY <1>2 DEF Summaries
<1>5. ASSUME NEW s \in Summaries(ms)
      PROVE  /\ KeyTypes(s.key) /\ s.group = Matching(ms, s.key)
             /\ s.group \in (SUBSET DOMAIN ms) \ {{}}
             /\ \A i \in DOMAIN ms : i \in s.group <=> s.key = Key(ms[i], Fields)
  <2>1. PICK i \in DOMAIN ms : /\ s.key = Key(ms[i], Fields)
                               /\ s = [key |-> s.key, group |-> Matching(ms, s.key)]
    BY <1>4
  <2>2. s.group = Matching(ms, s.key)
    BY <2>1
  <2>3. s.group \subseteq DOMAIN ms
    BY <2>2 DEF Matching
  <2>4. i \in s.group
    BY <1>3, <2>1, <2>2
  <2> QED BY <1>1, <1>3, <2>1, <2>2, <2>3, <2>4, RowKey
<1>6. \A i \in DOMAIN ms : \E s \in Summaries(ms) : s.key = Key(ms[i], Fields)
  <2>1. ASSUME NEW i \in DOMAIN ms
        PROVE  [key |-> Key(ms[i], Fields), group |-> Matching(ms, Key(ms[i], Fields))]
                 \in Summaries(ms)
    BY <1>2 DEF Summaries
  <2> QED BY <2>1
<1>7. \A s, t \in Summaries(ms) : s.key = t.key => s = t
  BY <1>4
<1> QED BY <1>4, <1>5, <1>6, <1>7

LEMMA SummariesFinite ==
  ASSUME NEW ms \in Seq(Rows)
  PROVE  IsFiniteSet(Summaries(ms))
<1> DEFINE summary(i) == [key |-> Key(ms[i], Fields),
                          group |-> Matching(ms, Key(ms[i], Fields))]
           f == [i \in DOMAIN ms |-> summary(i)]
<1>1. Summaries(ms) = {summary(i) : i \in DOMAIN ms}
  BY DEF Summaries, Keys, SummaryFields
<1>2. f \in Surjection(DOMAIN ms, Summaries(ms))
  <2> HIDE DEF summary
  <2> QED BY <1>1 DEF Surjection
<1>3. Len(ms) \in Nat /\ DOMAIN ms = 1..Len(ms)
  OBVIOUS
<1>4. IsFiniteSet(DOMAIN ms)
  BY <1>3, FS_Interval
<1> QED BY <1>2, <1>4, FS_Surjection

LEMMA SortedSummaries ==
  ASSUME NEW ms \in Seq(Rows)
  PROVE  LET n == Cardinality(Summaries(ms))
             byKey == Sorted(ByKey(ms))
             byHeading == Sorted(ByHeading(ms))
         IN  /\ n \in Nat
             /\ byKey \in [1..n -> Summaries(ms)] /\ byHeading \in [1..n -> Summaries(ms)]
             /\ \A s \in Summaries(ms) : \E i \in 1..n : byKey[i] = s
             /\ \A i, j \in 1..n : i # j => byKey[i] # byKey[j]
             /\ \A i, j \in 1..n :
                  i < j => Less(KeyOrder(byKey[i].key), KeyOrder(byKey[j].key))
             /\ \A i, j \in 1..n :
                  i < j => Less(PrintOrder(byHeading[i].key), PrintOrder(byHeading[j].key))
<1> DEFINE n == Cardinality(Summaries(ms))
           byKey == Sorted(ByKey(ms))
           byHeading == Sorted(ByHeading(ms))
<1>1. IsFiniteSet(Summaries(ms)) /\ 6 \in Nat
  BY SummariesFinite
<1>2. /\ ByKey(ms) \in [Summaries(ms) -> Tuples(6)]
      /\ ByHeading(ms) \in [Summaries(ms) -> Tuples(6)]
  BY SummaryMembers, OrdersAreTuples DEF ByKey, ByHeading
<1>3. /\ \A s \in Summaries(ms) : ByKey(ms)[s] = KeyOrder(s.key)
      /\ \A s \in Summaries(ms) : ByHeading(ms)[s] = PrintOrder(s.key)
  BY DEF ByKey, ByHeading
<1>4. \A s, t \in Summaries(ms) : s # t => ByKey(ms)[s] # ByKey(ms)[t]
  BY <1>3, SummaryMembers, OrdersTellApart
<1>5. \A s, t \in Summaries(ms) : s # t => ByHeading(ms)[s] # ByHeading(ms)[t]
  BY <1>3, SummaryMembers, OrdersTellApart
<1>6. /\ n \in Nat /\ byKey \in [1..n -> Summaries(ms)]
      /\ \A s \in Summaries(ms) : \E i \in 1..n : byKey[i] = s
      /\ \A i, j \in 1..n : i # j => byKey[i] # byKey[j]
      /\ \A i, j \in 1..n : i < j => Less(ByKey(ms)[byKey[i]], ByKey(ms)[byKey[j]])
  BY <1>1, <1>2, <1>4, SortedSound
<1>7. /\ byHeading \in [1..n -> Summaries(ms)]
      /\ \A i, j \in 1..n : i < j => Less(ByHeading(ms)[byHeading[i]], ByHeading(ms)[byHeading[j]])
  BY <1>1, <1>2, <1>5, SortedSound
<1>8. /\ \A i \in 1..n : ByKey(ms)[byKey[i]] = KeyOrder(byKey[i].key)
      /\ \A i \in 1..n : ByHeading(ms)[byHeading[i]] = PrintOrder(byHeading[i].key)
  BY <1>3, <1>6, <1>7
<1> HIDE DEF n, byKey, byHeading
<1>9. \A i, j \in 1..n : i < j => Less(KeyOrder(byKey[i].key), KeyOrder(byKey[j].key))
  BY <1>6, <1>8
<1>10. \A i, j \in 1..n :
         i < j => Less(PrintOrder(byHeading[i].key), PrintOrder(byHeading[j].key))
  BY <1>7, <1>8
<1> QED BY <1>6, <1>7, <1>9, <1>10 DEF n, byKey, byHeading

-----------------------------------------------------------------------------
(***************************************************************************)
(* Totals exist: by induction there is a function that satisfies their     *)
(* definition up to every file.                                            *)
(***************************************************************************)
LEMMA TotalsAdd ==
  ASSUME files \in Seq(Seq(Rows))
  PROVE  /\ Totals \in [0..Len(files) -> Nat]
         /\ Totals[0] = 0
         /\ \A f \in 1..Len(files) : Totals[f] = Totals[f - 1] + Len(files[f])
<1> DEFINE n == Len(files)
           Sum(g, f) == IF f = 0 THEN 0 ELSE g[f - 1] + Len(files[f])
           Adds(g, k) == \A f \in 0..k : g[f] = Sum(g, f)
           Exists(k) == \E g \in [0..k -> Nat] : Adds(g, k)
           P == {k \in Nat : k <= n => Exists(k)}
           Q == {k \in Nat : k <= n => Totals[k] \in Nat}
<1>1. n \in Nat /\ \A f \in 1..n : Len(files[f]) \in Nat
  OBVIOUS
<1>2. 0 \in P
  <2>1. [f \in 0..0 |-> 0] \in [0..0 -> Nat] /\ Adds([f \in 0..0 |-> 0], 0)
    OBVIOUS
  <2> QED BY <2>1
<1>3. ASSUME NEW k \in P, k + 1 <= n
      PROVE  Exists(k + 1)
  <2>1. k \in Nat /\ Exists(k)
    <3> HIDE DEF Exists
    <3> QED BY <1>1, <1>3
  <2>2. PICK g \in [0..k -> Nat] : Adds(g, k)
    BY <2>1
  <2>3. Len(files[k + 1]) \in Nat
    BY <1>1, <1>3, <2>1
  <2> DEFINE size == Len(files[k + 1])
             h == [f \in 0..(k + 1) |-> IF f = k + 1 THEN g[k] + size ELSE g[f]]
  <2>4. h \in [0..(k + 1) -> Nat]
    <3>1. size \in Nat /\ g[k] \in Nat
      BY <2>1, <2>3
    <3>2. \A f \in 0..(k + 1) : f = k + 1 \/ g[f] \in Nat
      BY <2>1
    <3> HIDE DEF size
    <3> QED BY <2>1, <3>1, <3>2
  <2>5. ASSUME NEW f \in 0..(k + 1) PROVE h[f] = Sum(h, f)
    <3>1. CASE f = k + 1
      BY <2>1, <3>1
    <3>2. CASE f # k + 1
      <4>1. f \in 0..k
        BY <2>1, <3>2
      <4>2. h[f] = g[f] /\ g[f] = Sum(g, f)
        BY <2>2, <3>2, <4>1
      <4>3. CASE f = 0
        BY <4>2, <4>3
      <4>4. CASE f # 0
        <5>1. f - 1 \in 0..(k + 1) /\ f - 1 # k + 1
          BY <2>1, <4>1, <4>4
        <5>2. h[f - 1] = g[f - 1]
          BY <5>1
        <5> QED BY <4>2, <4>4, <5>2
      <4> QED BY <4>3, <4>4
    <3> QED BY <3>1, <3>2
  <2> HIDE DEF h, Sum
  <2>6. Adds(h, k + 1)
    BY <2>5
  <2> QED BY <2>4, <2>6
<1>4. n \in P
  <2> HIDE DEF Exists
  <2>1. \A k \in P : k + 1 \in P
    BY <1>3
  <2>2. P \in SUBSET Nat
    OBVIOUS
  <2> HIDE DEF P
  <2>3. P = Nat
    BY <1>2, <2>1, <2>2, Induction
  <2> QED BY <1>1, <2>3
<1>5. PICK g \in [0..n -> Nat] : Adds(g, n)
  <2>1. Exists(n)
    <3> HIDE DEF Exists
    <3> QED BY <1>1, <1>4
  <2> QED BY <2>1
<1>6. g = [f \in 0..n |-> Sum(g, f)]
  <2> HIDE DEF Sum
  <2> QED BY <1>5
<1>7. Totals = [f \in 0..n |-> Sum(Totals, f)]
  <2>1. Totals = CHOOSE t : t = [f \in 0..n |-> Sum(t, f)]
    BY DEF Totals
  <2> HIDE DEF Sum
  <2> QED BY <1>6, <2>1
<1>8. Totals[0] = 0 /\ \A f \in 1..n : Totals[f] = Totals[f - 1] + Len(files[f])
  <2>1. \A f \in 0..n : Totals[f] = Sum(Totals, f)
    <3> HIDE DEF Sum
    <3> QED BY <1>7
  <2> QED BY <1>1, <2>1
<1>9. \A f \in 0..n : Totals[f] \in Nat
  <2>1. \A k \in Q : k + 1 \in Q
    <3>1. ASSUME NEW k \in Q, k + 1 <= n PROVE Totals[k + 1] \in Nat
      <4>1. Totals[k] \in Nat /\ k + 1 \in 1..n /\ (k + 1) - 1 = k
        BY <1>1, <3>1
      <4>2. Totals[k + 1] = Totals[k] + Len(files[k + 1])
        BY <1>8, <4>1
      <4>3. Len(files[k + 1]) \in Nat
        BY <1>1, <4>1
      <4> QED BY <4>1, <4>2, <4>3
    <3> QED BY <3>1
  <2>2. Q \in SUBSET Nat /\ 0 \in Q
    BY <1>8
  <2>3. Q = Nat
    <3> HIDE DEF Q
    <3> QED BY <2>1, <2>2, Induction
  <2> QED BY <1>1, <2>3
<1>10. Totals \in [0..n -> Nat]
  <2> HIDE DEF Sum
  <2> QED BY <1>7, <1>9
<1> HIDE DEF Sum
<1> QED BY <1>8, <1>10

-----------------------------------------------------------------------------
(***************************************************************************)
(* Effect sizes.                                                           *)
(***************************************************************************)
AllEffects == {Effect(measurements, k) : k \in Keys(measurements, EffectFields)}

GroupOf(key, engine) == {i \in Matching(measurements, key) : measurements[i].engine = engine}

LEMMA EnginesAreTuples == Names \X Nat \subseteq Tuples(2)
BY DEF Names, Tuples

(* A key of two engines is that of a comparison of the lesser one with the *)
(* other one.                                                              *)
LEMMA TwoEngines ==
  ASSUME measurements \in Seq(Rows), Comparable(measurements),
         NEW k \in Keys(measurements, EffectFields)
  PROVE  LET e == Effect(measurements, k)
         IN  /\ e.key = k
             /\ e.a # e.b /\ EnginesOf(measurements, k) = {e.a, e.b}
             /\ e.aGroup = GroupOf(k, e.a) /\ e.bGroup = GroupOf(k, e.b)
<1> DEFINE engines == EnginesOf(measurements, k)
           group == Matching(measurements, k)
           f == [i \in group |-> measurements[i].engine]
<1>1. group \in SUBSET DOMAIN measurements
  BY DEF Matching
<1>2. engines \subseteq Names \X Nat
  <2>1. \A i \in DOMAIN measurements : measurements[i] \in Rows
    OBVIOUS
  <2>2. \A i \in group : measurements[i].engine \in Names \X Nat
    BY <1>1, <2>1 DEF Rows
  <2> QED BY <2>2 DEF EnginesOf
<1>3. IsFiniteSet(engines) /\ Cardinality(engines) = 2
  <2>1. Len(measurements) \in Nat /\ DOMAIN measurements = 1..Len(measurements)
    OBVIOUS
  <2>2. IsFiniteSet(group)
    <3>1. IsFiniteSet(DOMAIN measurements)
      BY <2>1, FS_Interval
    <3> HIDE DEF group
    <3> QED BY <1>1, <3>1, FS_Subset
  <2>3. f \in Surjection(group, engines)
    BY DEF Surjection, EnginesOf
  <2> QED BY <2>2, <2>3, FS_Surjection DEF Comparable
<1>4. PICK x, y \in engines : x # y /\ engines = {x, y}
  <2> HIDE DEF engines
  <2>1. PICK x \in engines : TRUE
    BY <1>3, FS_EmptySet
  <2>2. IsFiniteSet(engines \ {x}) /\ Cardinality(engines \ {x}) = 1
    BY <1>3, <2>1, FS_RemoveElement
  <2>3. PICK y \in engines \ {x} : engines \ {x} = {y}
    BY <2>2, FS_Singleton
  <2> QED BY <2>1, <2>3
<1>5. Less(x, y) \/ Less(y, x)
  <2>1. 2 \in Nat /\ x \in Tuples(2) /\ y \in Tuples(2)
    BY <1>2, EnginesAreTuples
  <2> QED BY <1>4, <2>1, LessTotal
<1>6. PICK a \in engines : \A g \in engines : g # a => Less(a, g)
  <2> HIDE DEF engines
  <2> QED BY <1>4, <1>5
<1> DEFINE e == Effect(measurements, k)
<1>7. e.a \in engines
  <2> HIDE DEF engines
  <2> QED BY <1>6 DEF Effect, engines
<1>8. e.b \in engines /\ e.b # e.a
  <2>1. \E g \in engines : g # e.a
    <3> HIDE DEF engines, e
    <3> QED BY <1>4
  <2>2. e.b = CHOOSE g \in engines : g # e.a
    BY DEF Effect
  <2> HIDE DEF e, engines
  <2> QED BY <2>1, <2>2
<1>9. e.key = k /\ e.aGroup = GroupOf(k, e.a) /\ e.bGroup = GroupOf(k, e.b)
  BY DEF Effect, GroupOf
<1>10. engines = {e.a, e.b}
  <2> HIDE DEF engines, e
  <2> QED BY <1>4, <1>7, <1>8
<1> QED BY <1>8, <1>9, <1>10

(* The engine, benchmark, phase and event of a compared measurement lead   *)
(* to a summary, and unless it is hidden by that of another architecture   *)
(* to its own.                                                             *)
LEMMA SummaryFound ==
  ASSUME measurements \in Seq(Rows), Comparable(measurements),
         summaries = Sorted(ByKey(measurements)),
         NEW k \in Keys(measurements, EffectFields),
         NEW engine \in EnginesOf(measurements, k)
  PROVE  LET e == Effect(measurements, k)
             s == FoundSummary(e, engine)
         IN  /\ s \in Summaries(measurements) /\ s.key.engine = engine
             /\ FirstArchitecture(k) => s.group = GroupOf(k, engine)
<1> DEFINE e == Effect(measurements, k)
           s == FoundSummary(e, engine)
           n == Cardinality(Summaries(measurements))
           described == {i \in 1..n : Describes(summaries[i], e, engine)}
<1>1. e.key = k
  BY TwoEngines
<1>2. /\ n \in Nat /\ summaries \in [1..n -> Summaries(measurements)]
      /\ \A t \in Summaries(measurements) : \E i \in 1..n : summaries[i] = t
      /\ \A i, j \in 1..n :
           i < j => Less(KeyOrder(summaries[i].key), KeyOrder(summaries[j].key))
  BY SortedSummaries
<1>3. PICK i \in DOMAIN measurements :
        i \in Matching(measurements, k) /\ measurements[i].engine = engine
  BY DEF EnginesOf, Matching
<1>4. PICK own \in 1..n : summaries[own].key = Key(measurements[i], Fields)
  BY <1>2, SummaryMembers
<1>5. /\ measurements[i] \in Rows /\ DOMAIN k = EffectFields
      /\ \A f \in EffectFields : measurements[i][f] = k[f]
  BY <1>3 DEF Keys, Key, Matching
<1>6. /\ summaries[own].key.engine = engine
      /\ summaries[own].key.arch = k.arch /\ summaries[own].key.wasm = k.wasm
      /\ summaries[own].key.phase = k.phase /\ summaries[own].key.event = k.event
  BY <1>3, <1>4, <1>5 DEF Key, Fields, EffectFields
<1>7. own \in described
  BY <1>1, <1>4, <1>6 DEF Describes
<1>8. PICK m \in described : \A j \in described : m <= j
  <2>1. described \in SUBSET Nat /\ described # {}
    BY <1>7
  <2> HIDE DEF described
  <2> QED BY <2>1, LeastMember
<1>9. PICK c \in 1..n : /\ s = summaries[c]
                        /\ Describes(summaries[c], e, engine)
                        /\ \A j \in 1..(c - 1) : ~Describes(summaries[j], e, engine)
  <2> HIDE DEF e
  <2>1. /\ m \in 1..n /\ Describes(summaries[m], e, engine)
        /\ \A j \in 1..(m - 1) : ~Describes(summaries[j], e, engine)
    BY <1>2, <1>8
  <2>2. DOMAIN summaries = 1..n
    BY <1>2
  <2> QED BY <2>1, <2>2 DEF FoundSummary
<1> HIDE DEF e, s
<1>s. s \in Summaries(measurements) /\ summaries[own] \in Summaries(measurements)
  BY <1>2, <1>9
<1>10. /\ s.key.engine = engine /\ s.key.wasm = k.wasm
       /\ s.key.phase = k.phase /\ s.key.event = k.event
  BY <1>1, <1>9 DEF Describes
<1>11. ASSUME FirstArchitecture(k)
       PROVE  s.key = summaries[own].key
  <2>1. KeyTypes(s.key) /\ KeyTypes(summaries[own].key)
    BY <1>s, SummaryMembers
  <2>2. s.key.arch <= k.arch
    <3>1. c <= own
      BY <1>2, <1>7, <1>9
    <3>2. CASE c = own
      BY <1>6, <1>9, <2>1, <3>2 DEF KeyTypes, Names
    <3>3. CASE c < own
      BY <1>2, <1>6, <1>9, <2>1, <3>3, ArchitectureFirst
    <3> QED BY <1>2, <3>1, <3>2, <3>3
  <2>3. k.arch <= s.key.arch
    <3>1. PICK j \in DOMAIN measurements : s.key = Key(measurements[j], Fields)
      BY <1>s, SummaryMembers
    <3>2. \A f \in Fields : s.key[f] = measurements[j][f]
      BY <3>1 DEF Key
    <3>3. \A f \in {"wasm", "phase", "event"} : measurements[j][f] = k[f]
      BY <1>10, <3>2 DEF Fields
    <3>4. k.arch <= measurements[j].arch
      BY <1>11, <3>3 DEF FirstArchitecture
    <3> QED BY <3>2, <3>4 DEF Fields
  <2>4. s.key.arch = summaries[own].key.arch
    <3>1. s.key.arch \in Nat /\ k.arch \in Nat
      BY <1>6, <2>1 DEF KeyTypes, Names
    <3> QED BY <1>6, <2>2, <2>3, <3>1
  <2>5. \A f \in Fields : s.key[f] = summaries[own].key[f]
    BY <1>6, <1>10, <2>4 DEF Fields
  <2> QED BY <2>1, <2>5, SameKey
<1>12. ASSUME FirstArchitecture(k)
       PROVE  s.group = GroupOf(k, engine)
  <2>1. s.group = Matching(measurements, s.key)
    BY <1>s, SummaryMembers
  <2>2. DOMAIN s.key = Fields
    BY <1>s, SummaryMembers DEF KeyTypes
  <2>3. \A f \in EffectFields : s.key[f] = k[f]
    BY <1>6, <1>11, <1>12 DEF EffectFields, Fields
  <2>4. \A f : f \in Fields <=> f \in EffectFields \/ f = "engine"
    BY DEF EffectFields, Fields
  <2>5. ASSUME NEW j \in DOMAIN measurements
        PROVE  j \in Matching(measurements, s.key) <=> j \in GroupOf(k, engine)
    <3>1. j \in Matching(measurements, s.key) <=>
            \A f \in Fields : measurements[j][f] = s.key[f]
      BY <2>2 DEF Matching
    <3>2. j \in GroupOf(k, engine) <=>
            /\ \A f \in EffectFields : measurements[j][f] = k[f]
            /\ measurements[j].engine = engine
      BY <1>5 DEF GroupOf, Matching
    <3> QED BY <1>10, <2>3, <2>4, <3>1, <3>2
  <2> QED BY <2>1, <2>5 DEF Matching, GroupOf
<1>13. s \in Summaries(measurements)
  BY <1>2, <1>9
<1> QED BY <1>10, <1>12, <1>13 DEF e, s
-----------------------------------------------------------------------------
(***************************************************************************)
(* The inductive invariant.  Reading: measurements are the rows of the     *)
(* files that have been read, one file after the other.                    *)
(***************************************************************************)
FilesRead ==
  /\ cmd \in Commands /\ files \in Inputs
  /\ fi \in 1..(Len(files) + 1) /\ headers \in BOOLEAN
  /\ measurements \in Seq(Rows)
  /\ Len(measurements) = Totals[fi - 1]
  /\ \A f \in 1..(fi - 1) : \A r \in DOMAIN files[f] :
       /\ Totals[f - 1] + r \in DOMAIN measurements
       /\ measurements[Totals[f - 1] + r] = files[f][r]

(* Which command is where, and when there are summaries.                   *)
Stages ==
  /\ pc \in Terminal \union {"read", "sort", "print-summaries", "print-effects"}
  /\ pc = "read" => /\ summaries = <<>> /\ effects = {} /\ pending = <<>>
                    /\ last = NoHeading /\ lines = <<>>
  /\ pc = "print-summaries" => cmd.name = "summarize"
  /\ pc \in {"sort", "print-effects"} => cmd.name = "effect-size" /\ cmd.human
  /\ summaries \in {<<>>, Sorted(ByKey(measurements))}
  /\ pc \in {"sort", "print-summaries", "print-effects", "done"} =>
       /\ fi = Len(files) + 1
       /\ cmd.name = "summarize" \/ cmd.human => summaries = Sorted(ByKey(measurements))

(* Comparing: every effect size is printed once or has yet to be printed,  *)
(* each with summaries as EffectSummariesMatch demands.                    *)
EffectLines ==
  [level : {"effect"}, effect : AllEffects,
   a : Summaries(measurements), b : Summaries(measurements)]

Comparisons ==
  /\ effects # {} => /\ cmd.name = "effect-size" /\ Comparable(measurements)
                     /\ effects \subseteq AllEffects
  /\ cmd.name = "effect-size" =>
       /\ lines \in Seq(EffectLines)
       /\ \A i \in DOMAIN lines : lines[i].effect \notin effects
       /\ \A i, j \in DOMAIN lines : i # j => lines[i].effect # lines[j].effect
       /\ pc \in {"sort", "print-effects", "done"} /\ cmd.human =>
            /\ Comparable(measurements)
            /\ AllEffects = effects \union {lines[i].effect : i \in DOMAIN lines}
       /\ pc = "done" /\ cmd.human => effects = {}
       /\ EffectSummariesMatch

(* Printing summaries: those that are pending come in the order in which   *)
(* they are printed, and no heading is less than the one before it.        *)
Levels == {"phase", "wasm", "event"}

SummaryLines ==
  [level : Levels, value : Names] \union [level : {"summary"}, summary : Summaries(measurements)]

Headings(k) == <<k.phase, k.wasm, k.event>>

(* The headings that an event is printed below, and its own.               *)
EventAt(printed, i) ==
  <<Context(printed, i, "phase"), Context(printed, i, "wasm"), printed[i].value>>

Governed(printed, i, k) ==
  /\ \A level \in Levels : Context(printed, i, level) = k[level]
  /\ Above(printed, i, "phase") < Above(printed, i, "wasm")
  /\ Above(printed, i, "wasm") < Above(printed, i, "event")

InOrder(printed, l) ==
  /\ \A i, j \in DOMAIN printed :
       i < j /\ printed[i].level = "event" /\ printed[j].level = "event" =>
         Less(EventAt(printed, i), EventAt(printed, j))
  /\ \A i \in DOMAIN printed : printed[i].level = "event" => ~Less(Headings(l), EventAt(printed, i))

Printing ==
  cmd.name = "summarize" =>
    /\ lines \in Seq(SummaryLines)
    /\ last \in [Levels -> Nat]
    /\ IF lines = <<>> THEN last = NoHeading ELSE Governed(lines, Len(lines) + 1, last)
    /\ \A i \in DOMAIN lines : lines[i].level = "summary" => Governed(lines, i, lines[i].summary.key)
    /\ InOrder(lines, last)
    /\ pending \in Seq(Summaries(measurements))
    /\ \A i, j \in DOMAIN pending :
         i < j => Less(PrintOrder(pending[i].key), PrintOrder(pending[j].key))
    /\ \A i \in DOMAIN pending : ~Less(Headings(pending[i].key), Headings(last))

Inv == FilesRead /\ Stages /\ Comparisons /\ Printing

-----------------------------------------------------------------------------
(***************************************************************************)
(* What is printed above a line.                                           *)
(***************************************************************************)
LEMMA GreatestMember ==
  ASSUME NEW n \in Nat, NEW T \in SUBSET (0..n), T # {}
  PROVE  Max(T) \in T /\ \A k \in T : k <= Max(T)
<1> DEFINE mirrored == {k \in 0..n : n - k \in T}
<1>1. \A k \in T : n - k \in mirrored
  <2>1. \A k \in T : n - k \in 0..n /\ n - (n - k) = k
    OBVIOUS
  <2> QED BY <2>1
<1>2. PICK m \in mirrored : \A k \in mirrored : m <= k
  <2>1. mirrored \in SUBSET Nat /\ mirrored # {}
    <3>1. mirrored \in SUBSET Nat
      OBVIOUS
    <3> HIDE DEF mirrored
    <3> QED BY <1>1, <3>1
  <2> HIDE DEF mirrored
  <2> QED BY <2>1, LeastMember
<1>3. \A k \in T : k <= n - m
  <2>1. \A k \in T : m <= n - k
    <3> HIDE DEF mirrored
    <3> QED BY <1>1, <1>2
  <2>2. m \in 0..n
    OBVIOUS
  <2> HIDE DEF mirrored
  <2> QED BY <2>1, <2>2
<1>4. n - m \in T /\ T \in SUBSET Nat
  BY <1>2
<1>5. Max(T) = n - m
  BY <1>3, <1>4, MaxIs
<1> QED BY <1>3, <1>4, <1>5

LEMMA AboveIs ==
  ASSUME NEW p, NEW i \in Nat \ {0}, NEW level
  PROVE  /\ Above(p, i, level) \in 0..(i - 1)
         /\ Above(p, i, level) = 0 \/ p[Above(p, i, level)].level = level
<1> DEFINE T == {0} \union {j \in 1..(i - 1) : p[j].level = level}
<1>1. i - 1 \in Nat /\ T \in SUBSET (0..(i - 1)) /\ T # {}
  OBVIOUS
<1>2. Max(T) \in T
  <2> HIDE DEF T
  <2> QED BY <1>1, GreatestMember
<1> QED BY <1>1, <1>2 DEF Above

(* The lines of q begin with those of p.                                   *)
Begins(p, q) ==
  /\ Len(p) <= Len(q)
  /\ \A i \in 1..Len(p) : q[i] = p[i]
  /\ \A i \in 1..(Len(p) + 1) : \A level :
       Above(q, i, level) = Above(p, i, level) /\ Context(q, i, level) = Context(p, i, level)

LEMMA Beginning ==
  ASSUME NEW S, NEW p \in Seq(S), NEW x \in S
  PROVE  Begins(p, Append(p, x))
<1> DEFINE q == Append(p, x)
<1>1. /\ Len(p) \in Nat /\ Len(q) = Len(p) + 1
      /\ \A i \in 1..Len(p) : q[i] = p[i]
  OBVIOUS
<1>2. ASSUME NEW i \in 1..(Len(p) + 1), NEW level
      PROVE  Above(q, i, level) = Above(p, i, level)
  <2>1. {j \in 1..(i - 1) : q[j].level = level} = {j \in 1..(i - 1) : p[j].level = level}
    BY <1>1
  <2> QED BY <2>1 DEF Above
<1>3. ASSUME NEW i \in 1..(Len(p) + 1), NEW level
      PROVE  Context(q, i, level) = Context(p, i, level)
  <2>1. Above(p, i, level) \in 0..(i - 1)
    BY <1>1, AboveIs
  <2>2. Above(p, i, level) = 0 \/ q[Above(p, i, level)] = p[Above(p, i, level)]
    BY <1>1, <2>1
  <2> QED BY <1>2, <2>2 DEF Context
<1> HIDE DEF q
<1>4. Len(p) <= Len(q)
  BY <1>1
<1> QED BY <1>1, <1>2, <1>3, <1>4 DEF Begins, q

LEMMA BeginsTransitive ==
  ASSUME NEW p, NEW q, NEW r, Begins(p, q), Begins(q, r),
         Len(p) \in Nat, Len(q) \in Nat, Len(r) \in Nat
  PROVE  Begins(p, r)
<1>1. Len(p) <= Len(r)
  BY DEF Begins
<1>2. 1..Len(p) \subseteq 1..Len(q) /\ 1..(Len(p) + 1) \subseteq 1..(Len(q) + 1)
  BY DEF Begins
<1>3. \A i \in 1..Len(p) : r[i] = p[i]
  BY <1>2 DEF Begins
<1>4. \A i \in 1..(Len(p) + 1) : \A level :
        Above(r, i, level) = Above(p, i, level) /\ Context(r, i, level) = Context(p, i, level)
  BY <1>2 DEF Begins
<1> QED BY <1>1, <1>3, <1>4 DEF Begins

(* A line is above what comes after it, on its level in place of those     *)
(* before it.                                                              *)
LEMMA LineAbove ==
  ASSUME NEW S, NEW p \in Seq(S), NEW x \in S, NEW level
  PROVE  LET q == Append(p, x)
             n == Len(p) + 1
         IN  IF x.level = level
               THEN Above(q, n + 1, level) = n /\ Context(q, n + 1, level) = x.value
               ELSE /\ Above(q, n + 1, level) = Above(p, n, level)
                    /\ Context(q, n + 1, level) = Context(p, n, level)
<1> DEFINE q == Append(p, x)
           n == Len(p) + 1
           T == {0} \union {j \in 1..n : q[j].level = level}
<1>1. n \in Nat \ {0} /\ q[n] = x /\ \A i \in 1..(n - 1) : q[i] = p[i]
  OBVIOUS
<1>2. Above(q, n + 1, level) = Max(T)
  <2>1. (n + 1) - 1 = n
    OBVIOUS
  <2> QED BY <2>1 DEF Above
<1>3. CASE x.level = level
  <2>1. Max(T) = n
    <3>1. T \in SUBSET Nat /\ n \in T /\ \A k \in T : k <= n
      BY <1>1, <1>3
    <3> HIDE DEF T
    <3> QED BY <3>1, MaxIs
  <2> QED BY <1>1, <1>2, <1>3, <2>1 DEF Context
<1>4. CASE x.level # level
  <2>1. T = {0} \union {j \in 1..(n - 1) : p[j].level = level}
    BY <1>1, <1>4
  <2>2. Above(q, n + 1, level) = Above(p, n, level)
    BY <1>2, <2>1 DEF Above
  <2>3. Above(p, n, level) \in 0..(n - 1)
    BY <1>1, AboveIs
  <2>4. Above(p, n, level) = 0 \/ q[Above(p, n, level)] = p[Above(p, n, level)]
    BY <1>1, <2>3
  <2> HIDE DEF q, n
  <2> QED BY <1>4, <2>2, <2>4 DEF Context, q, n
<1> QED BY <1>3, <1>4

HeadingWritten(p, q, level, value, new) ==
  LET n == Len(p) + 1
      m == Len(q) + 1
  IN  /\ Begins(p, q) /\ m = IF new THEN n + 1 ELSE n
      /\ new => q[n] = [level |-> level, value |-> value]
      /\ Above(q, m, level) = IF new THEN n ELSE Above(p, n, level)
      /\ Context(q, m, level) = IF new THEN value ELSE Context(p, n, level)
      /\ \A l : l # level => /\ Above(q, m, l) = Above(p, n, l)
                             /\ Context(q, m, l) = Context(p, n, l)

LEMMA HeadingAbove ==
  ASSUME NEW S, NEW p \in Seq(S), NEW level, NEW value, NEW new \in BOOLEAN,
         [level |-> level, value |-> value] \in S
  PROVE  /\ p \o Heading(level, value, new) \in Seq(S)
         /\ HeadingWritten(p, p \o Heading(level, value, new), level, value, new)
<1> DEFINE q == p \o Heading(level, value, new)
           x == [level |-> level, value |-> value]
<1>1. CASE new
  <2>1. q = Append(p, x)
    <3>1. Heading(level, value, new) = <<x>>
      BY <1>1 DEF Heading
    <3> HIDE DEF x
    <3> QED BY <3>1
  <2>2. /\ q \in Seq(S) /\ Len(q) = Len(p) + 1 /\ Len(p) \in Nat /\ q[Len(p) + 1] = x
    <3> HIDE DEF x, q
    <3> QED BY <2>1 DEF x
  <2>3. Begins(p, q)
    <3> HIDE DEF x, q
    <3> QED BY <2>1, Beginning DEF x
  <2>4. x.level = level /\ x.value = value
    OBVIOUS
  <2>5. \A l : IF x.level = l
               THEN /\ Above(q, Len(p) + 1 + 1, l) = Len(p) + 1
                    /\ Context(q, Len(p) + 1 + 1, l) = x.value
               ELSE /\ Above(q, Len(p) + 1 + 1, l) = Above(p, Len(p) + 1, l)
                    /\ Context(q, Len(p) + 1 + 1, l) = Context(p, Len(p) + 1, l)
    <3> HIDE DEF x, q
    <3> QED BY <2>1, LineAbove DEF x
  <2> HIDE DEF q
  <2> QED BY <1>1, <2>2, <2>3, <2>4, <2>5 DEF q, HeadingWritten
<1>2. CASE ~new
  <2>1. q = p
    BY <1>2 DEF Heading
  <2>2. Begins(p, p)
    BY DEF Begins
  <2> HIDE DEF q
  <2> QED BY <1>2, <2>1, <2>2 DEF q, HeadingWritten
<1> QED BY <1>1, <1>2

-----------------------------------------------------------------------------
(***************************************************************************)
(* Reading preserves the invariant; measurements stay after it.            *)
(***************************************************************************)
LEMMA TotalsStay ==
  ASSUME files' = files
  PROVE  Totals' = Totals
BY DEF Totals

LEMMA ReadingOnly ==
  ASSUME FilesRead, [Next]_vars
  PROVE  /\ cmd' = cmd /\ files' = files
         /\ ReadFile \/ UNCHANGED <<fi, headers, measurements>>
BY DEF Next, vars, ReadFile, OpenFails, Summarize, Compare, CompareFails, SortEffects,
       PrintEffect, PrintSummary, AllPrinted, PrintFails, Exited

LEMMA FilesReadInit ==
  ASSUME Init
  PROVE  FilesRead
<1>1. files \in Seq(Seq(Rows)) /\ cmd \in Commands /\ files \in Inputs
  BY AnalysisAssumption DEF Init
<1>2. Len(files) \in Nat /\ Totals[0] = 0
  BY <1>1, TotalsAdd
<1>3. /\ fi = 1 /\ measurements = <<>> /\ headers \in BOOLEAN
      /\ fi \in 1..(Len(files) + 1) /\ fi - 1 = 0 /\ 1..(fi - 1) = {}
  BY <1>2 DEF Init
<1>4. measurements \in Seq(Rows) /\ Len(measurements) = 0
  BY <1>3
<1> QED BY <1>1, <1>2, <1>3, <1>4 DEF FilesRead

LEMMA FilesReadStep ==
  ASSUME FilesRead, [Next]_vars
  PROVE  FilesRead'
<1>1. cmd' = cmd /\ files' = files /\ Totals' = Totals
  BY ReadingOnly, TotalsStay
<1>2. /\ files \in Seq(Seq(Rows)) /\ measurements \in Seq(Rows)
      /\ Len(files) \in Nat /\ fi \in 1..(Len(files) + 1)
      /\ \A f \in 1..Len(files) : files[f] \in Seq(Rows)
  BY AnalysisAssumption DEF FilesRead
<1>3. /\ Totals \in [0..Len(files) -> Nat]
      /\ \A f \in 1..Len(files) : Totals[f] = Totals[f - 1] + Len(files[f])
  BY <1>2, TotalsAdd
<1>4. CASE ReadFile /\ fi' = fi + 1
  <2>1. /\ fi <= Len(files) /\ headers' = FALSE /\ fi' = fi + 1
        /\ measurements' = measurements \o files[fi]
    BY <1>2, <1>4 DEF ReadFile, Appended
  <2>2. /\ fi \in 1..Len(files) /\ files[fi] \in Seq(Rows)
        /\ fi' \in 1..(Len(files) + 1) /\ fi' - 1 = fi /\ fi \in Nat
    BY <1>2, <2>1
  <2>3. /\ measurements' \in Seq(Rows)
        /\ Len(measurements') = Len(measurements) + Len(files[fi])
        /\ \A i \in DOMAIN measurements :
             i \in DOMAIN measurements' /\ measurements'[i] = measurements[i]
        /\ \A r \in DOMAIN files[fi] : /\ Len(measurements) + r \in DOMAIN measurements'
                                       /\ measurements'[Len(measurements) + r] = files[fi][r]
    <3> DEFINE rows == files[fi]
    <3>1. rows \in Seq(Rows) /\ measurements' = measurements \o rows
      BY <2>1, <2>2
    <3> HIDE DEF rows
    <3>2. measurements' \in Seq(Rows) /\ Len(measurements') = Len(measurements) + Len(rows)
      BY <1>2, <3>1
    <3>3. /\ \A i \in 1..Len(measurements) : measurements'[i] = measurements[i]
          /\ \A r \in 1..Len(rows) : measurements'[Len(measurements) + r] = rows[r]
      BY <1>2, <3>1
    <3>4. /\ \A i \in 1..Len(measurements) : i \in 1..Len(measurements')
          /\ \A r \in 1..Len(rows) : Len(measurements) + r \in 1..Len(measurements')
      <4>1. Len(measurements) \in Nat /\ Len(rows) \in Nat
        BY <1>2, <3>1
      <4> QED BY <3>2, <4>1
    <3>5. /\ DOMAIN measurements = 1..Len(measurements) /\ DOMAIN rows = 1..Len(rows)
          /\ DOMAIN measurements' = 1..Len(measurements')
      BY <1>2, <3>1, <3>2
    <3> QED BY <3>2, <3>3, <3>4, <3>5 DEF rows
  <2>4. Len(measurements) = Totals[fi - 1] /\ Totals[fi] = Totals[fi - 1] + Len(files[fi])
    BY <1>3, <2>2 DEF FilesRead
  <2>5. ASSUME NEW f \in 1..(fi' - 1), NEW r \in DOMAIN files[f]
        PROVE  /\ Totals[f - 1] + r \in DOMAIN measurements'
               /\ measurements'[Totals[f - 1] + r] = files[f][r]
    <3>1. CASE f = fi
      <4>1. Totals[f - 1] = Len(measurements) /\ r \in DOMAIN files[fi]
        BY <2>4, <3>1
      <4> QED BY <2>3, <3>1, <4>1
    <3>2. CASE f # fi
      <4>1. fi' - 1 = fi /\ fi \in Nat
        BY <2>2
      <4>2. f \in 1..(fi - 1)
        BY <3>2, <4>1
      <4> QED BY <2>3, <4>2 DEF FilesRead
    <3> QED BY <3>1, <3>2
  <2> QED BY <1>1, <2>1, <2>2, <2>3, <2>4, <2>5 DEF FilesRead
<1>5. CASE UNCHANGED <<fi, measurements>> /\ headers' \in BOOLEAN
  BY <1>1, <1>5 DEF FilesRead
<1>6. headers' \in BOOLEAN /\ ((fi' = fi + 1 /\ ReadFile) \/ UNCHANGED <<fi, measurements>>)
  BY ReadingOnly DEF ReadFile, FilesRead
<1> QED BY <1>4, <1>5, <1>6

LEMMA StagesInit ==
  ASSUME Init
  PROVE  Stages
BY DEF Init, Stages, Terminal

LEMMA StagesStep ==
  ASSUME FilesRead, Stages, [Next]_vars
  PROVE  Stages'
<1> DEFINE sorted == Sorted(ByKey(measurements))
<1>1. /\ files \in Seq(Seq(Rows)) /\ Len(files) \in Nat /\ fi \in 1..(Len(files) + 1)
      /\ cmd.name \in {"summarize", "effect-size"} /\ cmd.human \in BOOLEAN
  BY AnalysisAssumption DEF FilesRead
<1>2. fi > Len(files) => fi = Len(files) + 1
  BY <1>1
<1>3. CASE ReadFile
  <2>1. /\ pc = "read" /\ pc' \in {"read", "panicked"}
        /\ UNCHANGED <<cmd, files, summaries, effects, pending, last, lines>>
    BY <1>3 DEF ReadFile
  <2> QED BY <2>1 DEF Stages, Terminal
<1>4. CASE ~ReadFile
  <2>1. UNCHANGED <<cmd, files, fi, measurements>> /\ sorted' = sorted
    BY <1>4, ReadingOnly
  <2> HIDE DEF sorted
  <2>2. CASE OpenFails \/ CompareFails \/ PrintFails
    BY <2>1, <2>2 DEF Stages, OpenFails, CompareFails, PrintFails, AllRead, Terminal, sorted
  <2>3. CASE Summarize
    BY <1>1, <1>2, <2>1, <2>3 DEF Stages, Summarize, AllRead, sorted
  <2>4. CASE Compare
    BY <1>1, <1>2, <2>1, <2>4 DEF Stages, Compare, AllRead, Terminal, sorted
  <2>5. CASE SortEffects
    <3>1. /\ pc = "sort" /\ pc' \in {"print-effects", "panicked"}
          /\ UNCHANGED <<summaries, effects, pending, last, lines>>
      BY <2>5 DEF SortEffects
    <3> QED BY <2>1, <3>1 DEF Stages, Terminal, sorted
  <2>6. CASE PrintSummary \/ \E e \in effects : PrintEffect(e)
    BY <2>1, <2>6 DEF Stages, PrintSummary, PrintEffect, sorted
  <2>7. CASE AllPrinted
    BY <2>1, <2>7 DEF Stages, AllPrinted, Terminal, sorted
  <2>8. CASE UNCHANGED vars
    BY <2>1, <2>8 DEF Stages, vars, sorted
  <2> QED BY <1>4, <2>2, <2>3, <2>4, <2>5, <2>6, <2>7, <2>8 DEF Next, Exited
<1> QED BY <1>3, <1>4

(***************************************************************************)
(* Comparing preserves it: what is printed was to be printed.              *)
(***************************************************************************)
LEMMA ComparisonsInit ==
  ASSUME Init
  PROVE  Comparisons
BY DEF Init, Comparisons, EffectSummariesMatch

(* With the measurements stay the effect sizes and what is said of them.   *)
LEMMA EffectsStay ==
  ASSUME measurements' = measurements
  PROVE  /\ AllEffects' = AllEffects /\ EffectLines' = EffectLines
         /\ \A k : FirstArchitecture(k)' <=> FirstArchitecture(k)
         /\ Comparable(measurements') <=> Comparable(measurements)
BY DEF AllEffects, EffectLines, FirstArchitecture

LEMMA PrintEffectStep ==
  ASSUME FilesRead, Stages, Comparisons, NEW e \in effects, PrintEffect(e)
  PROVE  Comparisons'
<1>1. /\ pc = "print-effects" /\ effects' = effects \ {e}
      /\ UNCHANGED <<cmd, files, pc, fi, headers, measurements, summaries, pending, last>>
  BY DEF PrintEffect
<1>2. /\ cmd.name = "effect-size" /\ cmd.human /\ Comparable(measurements)
      /\ measurements \in Seq(Rows) /\ summaries = Sorted(ByKey(measurements))
      /\ effects \subseteq AllEffects /\ lines \in Seq(EffectLines)
  BY <1>1 DEF Stages, Comparisons, FilesRead
<1> DEFINE x == [level |-> "effect", effect |-> e,
                 a |-> FoundSummary(e, e.a), b |-> FoundSummary(e, e.b)]
<1>3. PICK k \in Keys(measurements, EffectFields) : e = Effect(measurements, k)
  BY <1>2 DEF AllEffects
<1>4. /\ e.key = k /\ e.a \in EnginesOf(measurements, k) /\ e.b \in EnginesOf(measurements, k)
      /\ e.aGroup = GroupOf(k, e.a) /\ e.bGroup = GroupOf(k, e.b)
  BY <1>2, <1>3, TwoEngines
<1>5. /\ x.a \in Summaries(measurements) /\ x.a.key.engine = e.a
      /\ FirstArchitecture(e.key) => x.a.group = e.aGroup
  BY <1>2, <1>3, <1>4, SummaryFound
<1>6. /\ x.b \in Summaries(measurements) /\ x.b.key.engine = e.b
      /\ FirstArchitecture(e.key) => x.b.group = e.bGroup
  BY <1>2, <1>3, <1>4, SummaryFound
<1>7. x \in EffectLines
  BY <1>2, <1>5, <1>6 DEF EffectLines
<1>8. lines' = Append(lines, x)
  BY DEF PrintEffect
<1>9. /\ lines' \in Seq(EffectLines) /\ DOMAIN lines = 1..Len(lines) /\ Len(lines) \in Nat
      /\ DOMAIN lines' = 1..(Len(lines) + 1) /\ lines'[Len(lines) + 1] = x
      /\ \A i \in DOMAIN lines : lines'[i] = lines[i]
  <2> HIDE DEF x
  <2> QED BY <1>2, <1>7, <1>8
<1>10. /\ \A i \in DOMAIN lines' : i \in DOMAIN lines \/ i = Len(lines) + 1
       /\ \A i \in DOMAIN lines : i \in DOMAIN lines' /\ i # Len(lines) + 1
       /\ Len(lines) + 1 \in DOMAIN lines'
  BY <1>9
<1>11. x.effect = e /\ x.level = "effect"
  OBVIOUS
<1> HIDE DEF x
<1>12. \A i \in DOMAIN lines : lines[i].effect \notin effects
  BY <1>2 DEF Comparisons
<1>13. \A i \in DOMAIN lines' : lines'[i].effect \notin effects'
  BY <1>1, <1>9, <1>10, <1>11, <1>12
<1>14. \A i, j \in DOMAIN lines' : i # j => lines'[i].effect # lines'[j].effect
  <2>1. \A i, j \in DOMAIN lines : i # j => lines[i].effect # lines[j].effect
    BY <1>2 DEF Comparisons
  <2> QED BY <1>9, <1>10, <1>11, <1>12, <2>1
<1>15. AllEffects' = effects' \union {lines'[i].effect : i \in DOMAIN lines'}
  <2>1. AllEffects = effects \union {lines[i].effect : i \in DOMAIN lines}
    BY <1>1, <1>2 DEF Comparisons
  <2>2. AllEffects' = AllEffects
    BY <1>1, EffectsStay
  <2>3. {lines'[i].effect : i \in DOMAIN lines'} = {lines[i].effect : i \in DOMAIN lines} \union {e}
    BY <1>9, <1>10, <1>11
  <2> QED BY <1>1, <2>1, <2>2, <2>3
<1>16. EffectSummariesMatch'
  <2>1. ASSUME NEW i \in DOMAIN lines', lines'[i].level = "effect"
        PROVE  LET f == lines'[i].effect
               IN  /\ lines'[i].a.key.engine = f.a /\ lines'[i].b.key.engine = f.b
                   /\ FirstArchitecture(f.key) =>
                        lines'[i].a.group = f.aGroup /\ lines'[i].b.group = f.bGroup
    <3>1. CASE i \in DOMAIN lines
      <4>1. lines'[i] = lines[i] /\ EffectSummariesMatch
        BY <1>2, <1>9, <3>1 DEF Comparisons
      <4> QED BY <2>1, <3>1, <4>1 DEF EffectSummariesMatch
    <3>2. CASE i = Len(lines) + 1
      <4>1. lines'[i] = x
        BY <1>9, <3>2
      <4> QED BY <1>5, <1>6, <1>11, <4>1
    <3> QED BY <1>10, <3>1, <3>2
  <2> QED BY <1>1, <2>1 DEF EffectSummariesMatch, FirstArchitecture
<1>17. EffectLines' = EffectLines /\ AllEffects' = AllEffects
  BY <1>1, EffectsStay
<1> QED BY <1>1, <1>2, <1>9, <1>13, <1>14, <1>15, <1>16, <1>17 DEF Comparisons

LEMMA ComparisonsStep ==
  ASSUME FilesRead, Stages, Comparisons, [Next]_vars
  PROVE  Comparisons'
<1>1. cmd' = cmd
  BY ReadingOnly
<1>2. CASE ReadFile
  <2>1. pc' \in {"read", "panicked"} /\ effects' = {} /\ lines' = <<>>
    BY <1>2 DEF ReadFile, Stages
  <2> QED BY <1>1, <2>1 DEF Comparisons, EffectSummariesMatch
<1>3. CASE Compare
  <2>1. /\ measurements' = measurements /\ Comparable(measurements)
        /\ effects' = AllEffects /\ lines' = <<>> /\ cmd.name = "effect-size"
        /\ pc' = IF cmd.human THEN "sort" ELSE "done"
    BY <1>3 DEF Compare, AllRead, Stages, AllEffects
  <2>2. AllEffects' = AllEffects /\ Comparable(measurements')
    BY <2>1, EffectsStay
  <2> QED BY <1>1, <2>1, <2>2 DEF Comparisons, EffectSummariesMatch
<1>4. ASSUME NEW e \in effects, PrintEffect(e)
      PROVE  Comparisons'
  BY <1>4, PrintEffectStep
<1>5. CASE PrintSummary
  <2>1. cmd.name = "summarize" /\ effects' = effects
    BY <1>5 DEF PrintSummary, Stages
  <2> QED BY <1>1, <2>1 DEF Comparisons
<1>6. ASSUME UNCHANGED <<measurements, effects, lines>>,
             cmd.name = "effect-size" /\ pc' \in {"sort", "print-effects", "done"} =>
               /\ pc \in {"sort", "print-effects", "done"}
               /\ pc' = "done" => pc = "done" \/ effects = {}
      PROVE  Comparisons'
  <2>1. /\ AllEffects' = AllEffects /\ EffectLines' = EffectLines
        /\ \A k : FirstArchitecture(k)' <=> FirstArchitecture(k)
        /\ Comparable(measurements') <=> Comparable(measurements)
    BY <1>6, EffectsStay
  <2>2. EffectSummariesMatch' <=> EffectSummariesMatch
    BY <1>6, <2>1 DEF EffectSummariesMatch
  <2> QED BY <1>1, <1>6, <2>1, <2>2 DEF Comparisons
<1>7. CASE OpenFails \/ CompareFails \/ PrintFails
  BY <1>6, <1>7 DEF OpenFails, CompareFails, PrintFails
<1>8. CASE Summarize
  BY <1>6, <1>8 DEF Summarize
<1>9. CASE SortEffects
  <2>1. pc' \in {"print-effects", "panicked"} /\ pc = "sort"
        /\ UNCHANGED <<measurements, effects, lines>>
    BY <1>9 DEF SortEffects
  <2> QED BY <1>6, <2>1
<1>10. CASE AllPrinted
  <2>1. cmd.name = "effect-size" => pc = "print-effects" /\ effects = {}
    BY <1>10 DEF AllPrinted, Stages
  <2> QED BY <1>6, <1>10, <2>1 DEF AllPrinted
<1>11. CASE UNCHANGED vars
  BY <1>6, <1>11 DEF vars
<1> QED BY <1>2, <1>3, <1>4, <1>5, <1>7, <1>8, <1>9, <1>10, <1>11 DEF Next, Exited

(***************************************************************************)
(* Printing summaries preserves it.                                        *)
(***************************************************************************)
LEMMA HeadingsAreTuples ==
  /\ \A l \in [Levels -> Nat] : Headings(l) \in Tuples(3)
  /\ \A k : KeyTypes(k) => Headings(k) \in Tuples(3)
  /\ \A l \in [Levels -> Nat] : \A k :
       KeyTypes(k) /\ Headings(k) = Headings(l) => \A level \in Levels : k[level] = l[level]
<1>1. ASSUME NEW l, l.phase \in Nat, l.wasm \in Nat, l.event \in Nat
      PROVE  Headings(l) \in Tuples(3)
  BY <1>1 DEF Headings, Tuples
<1>2. \A l \in [Levels -> Nat] : l.phase \in Nat /\ l.wasm \in Nat /\ l.event \in Nat
  BY DEF Levels
<1>3. \A k : KeyTypes(k) => k.phase \in Nat /\ k.wasm \in Nat /\ k.event \in Nat
  BY DEF KeyTypes, Names
<1>4. \A l, k : Headings(k) = Headings(l) =>
        k.phase = l.phase /\ k.wasm = l.wasm /\ k.event = l.event
  BY DEF Headings
<1>5. \A level \in Levels : level = "phase" \/ level = "wasm" \/ level = "event"
  BY DEF Levels
<1> QED BY <1>1, <1>2, <1>3, <1>4, <1>5

LEMMA HeadingsInOrder ==
  ASSUME NEW k, KeyTypes(k), NEW l, KeyTypes(l), Less(PrintOrder(k), PrintOrder(l))
  PROVE  ~Less(Headings(l), Headings(k))
<1> SUFFICES ASSUME Less(Headings(l), Headings(k)) PROVE FALSE
  OBVIOUS
<1>1. PICK i \in 1..6 : /\ PrintOrder(k)[i] < PrintOrder(l)[i]
                        /\ \A j \in 1..(i - 1) : PrintOrder(k)[j] = PrintOrder(l)[j]
  BY DEF Less, PrintOrder
<1>2. PICK m \in 1..3 : /\ Headings(l)[m] < Headings(k)[m]
                        /\ \A j \in 1..(m - 1) : Headings(l)[j] = Headings(k)[j]
  BY DEF Less, Headings
<1>3. \A j \in 1..3 : PrintOrder(k)[j] = Headings(k)[j] /\ PrintOrder(l)[j] = Headings(l)[j]
  BY DEF PrintOrder, Headings
<1>4. \A j \in 1..3 : Headings(k)[j] \in Nat /\ Headings(l)[j] \in Nat
  BY HeadingsAreTuples DEF Tuples
<1>5. CASE i < m
  <2>1. i \in 1..3 /\ i \in 1..(m - 1)
    BY <1>5
  <2> QED BY <1>1, <1>2, <1>3, <1>4, <2>1
<1>6. CASE i = m
  BY <1>1, <1>2, <1>3, <1>4, <1>6
<1>7. CASE m < i
  <2>1. m \in 1..(i - 1)
    BY <1>7
  <2> QED BY <1>1, <1>2, <1>3, <1>4, <2>1
<1> QED BY <1>5, <1>6, <1>7

LEMMA EventsAreTuples ==
  ASSUME NEW M, NEW p \in Seq([level : Levels, value : Names] \union [level : {"summary"}, summary : M])
  PROVE  /\ \A i \in 1..(Len(p) + 1) : \A level \in Levels : Context(p, i, level) \in Nat
         /\ \A i \in DOMAIN p : p[i].level = "event" => EventAt(p, i) \in Tuples(3)
<1>1. /\ Len(p) \in Nat /\ DOMAIN p = 1..Len(p)
      /\ \A i \in 1..Len(p) : p[i].level \in Levels => p[i].value \in Nat
  <2>1. \A x \in [level : Levels, value : Names] \union [level : {"summary"}, summary : M] :
          x.level \in Levels => x.value \in Nat
    BY DEF Levels, Names
  <2> QED BY <2>1
<1>2. ASSUME NEW i \in 1..(Len(p) + 1), NEW level \in Levels
      PROVE  Context(p, i, level) \in Nat
  <2>1. /\ Above(p, i, level) \in 0..(i - 1)
        /\ Above(p, i, level) = 0 \/ p[Above(p, i, level)].level = level
    BY <1>1, AboveIs
  <2>2. Above(p, i, level) = 0 \/ Above(p, i, level) \in 1..Len(p)
    BY <1>1, <2>1
  <2> QED BY <1>1, <2>1, <2>2 DEF Context
<1>3. ASSUME NEW i \in DOMAIN p, p[i].level = "event"
      PROVE  EventAt(p, i) \in Tuples(3)
  <2>1. Context(p, i, "phase") \in Nat /\ Context(p, i, "wasm") \in Nat /\ p[i].value \in Nat
    BY <1>1, <1>2, <1>3 DEF Levels
  <2> QED BY <2>1 DEF EventAt, Tuples
<1> QED BY <1>2, <1>3

LEMMA PrintingInit ==
  ASSUME Init
  PROVE  Printing
<1>1. lines = <<>> /\ pending = <<>> /\ last = NoHeading
  BY DEF Init
<1>2. NoHeading \in [Levels -> Nat]
  BY DEF NoHeading, Levels
<1> QED BY <1>1, <1>2 DEF Printing, InOrder

(* The headings that are printed for a key govern the line that follows.   *)
WithHeadings(p, k) ==
  p \o Heading("phase", k.phase, NewPhase(k)) \o Heading("wasm", k.wasm, NewWasm(k))
    \o Heading("event", k.event, NewEvent(k))

LEMMA HeadingsPrinted ==
  ASSUME NEW S, NEW p \in Seq(S), NEW k, KeyTypes(k),
         \A level \in Levels : \A value \in Names : [level |-> level, value |-> value] \in S,
         last \in [Levels -> Nat],
         IF p = <<>> THEN last = NoHeading ELSE Governed(p, Len(p) + 1, last)
  PROVE  LET q == WithHeadings(p, k)
         IN  /\ q \in Seq(S) /\ Begins(p, q) /\ Governed(q, Len(q) + 1, k)
             /\ \A i \in (Len(p) + 1)..Len(q) :
                  /\ q[i].level \in Levels
                  /\ q[i].level = "event" =>
                       i = Len(q) /\ NewEvent(k) /\ EventAt(q, i) = Headings(k)
<1>a. PICK newPhase \in BOOLEAN : newPhase <=> NewPhase(k)
  OBVIOUS
<1>b. PICK newWasm \in BOOLEAN : newWasm <=> NewWasm(k)
  OBVIOUS
<1>c. PICK newEvent \in BOOLEAN : newEvent <=> NewEvent(k)
  OBVIOUS
<1> DEFINE q1 == p \o Heading("phase", k.phase, newPhase)
           q2 == q1 \o Heading("wasm", k.wasm, newWasm)
           q3 == q2 \o Heading("event", k.event, newEvent)
           n0 == Len(p) + 1
           n1 == Len(q1) + 1
           n2 == Len(q2) + 1
           n3 == Len(q3) + 1
<1>1. /\ [level |-> "phase", value |-> k.phase] \in S
      /\ [level |-> "wasm", value |-> k.wasm] \in S
      /\ [level |-> "event", value |-> k.event] \in S
      /\ Len(p) \in Nat
  BY DEF KeyTypes, Levels
<1>2. /\ q1 \in Seq(S) /\ Begins(p, q1) /\ n1 = IF newPhase THEN n0 + 1 ELSE n0
      /\ newPhase => q1[n0] = [level |-> "phase", value |-> k.phase]
      /\ Above(q1, n1, "phase") = IF newPhase THEN n0 ELSE Above(p, n0, "phase")
      /\ Context(q1, n1, "phase") = IF newPhase THEN k.phase ELSE Context(p, n0, "phase")
      /\ \A l : l # "phase" => /\ Above(q1, n1, l) = Above(p, n0, l)
                               /\ Context(q1, n1, l) = Context(p, n0, l)
  <2>1. q1 \in Seq(S) /\ HeadingWritten(p, q1, "phase", k.phase, newPhase)
    BY <1>1, HeadingAbove
  <2> HIDE DEF q1
  <2> QED BY <2>1 DEF HeadingWritten
<1> HIDE DEF q1
<1>3. /\ q2 \in Seq(S) /\ Begins(q1, q2) /\ n2 = IF newWasm THEN n1 + 1 ELSE n1
      /\ newWasm => q2[n1] = [level |-> "wasm", value |-> k.wasm]
      /\ Above(q2, n2, "wasm") = IF newWasm THEN n1 ELSE Above(q1, n1, "wasm")
      /\ Context(q2, n2, "wasm") = IF newWasm THEN k.wasm ELSE Context(q1, n1, "wasm")
      /\ \A l : l # "wasm" => /\ Above(q2, n2, l) = Above(q1, n1, l)
                              /\ Context(q2, n2, l) = Context(q1, n1, l)
  <2>1. q2 \in Seq(S) /\ HeadingWritten(q1, q2, "wasm", k.wasm, newWasm)
    BY <1>1, <1>2, HeadingAbove
  <2> HIDE DEF q2
  <2> QED BY <2>1 DEF HeadingWritten
<1> HIDE DEF q2
<1>4. /\ q3 \in Seq(S) /\ Begins(q2, q3) /\ n3 = IF newEvent THEN n2 + 1 ELSE n2
      /\ newEvent => q3[n2] = [level |-> "event", value |-> k.event]
      /\ Above(q3, n3, "event") = IF newEvent THEN n2 ELSE Above(q2, n2, "event")
      /\ Context(q3, n3, "event") = IF newEvent THEN k.event ELSE Context(q2, n2, "event")
      /\ \A l : l # "event" => /\ Above(q3, n3, l) = Above(q2, n2, l)
                               /\ Context(q3, n3, l) = Context(q2, n2, l)
  <2>1. q3 \in Seq(S) /\ HeadingWritten(q2, q3, "event", k.event, newEvent)
    BY <1>1, <1>3, HeadingAbove
  <2> HIDE DEF q3
  <2> QED BY <2>1 DEF HeadingWritten
<1>5. q3 = WithHeadings(p, k)
  <2>1. /\ Heading("phase", k.phase, newPhase) = Heading("phase", k.phase, NewPhase(k))
        /\ Heading("wasm", k.wasm, newWasm) = Heading("wasm", k.wasm, NewWasm(k))
        /\ Heading("event", k.event, newEvent) = Heading("event", k.event, NewEvent(k))
    BY <1>a, <1>b, <1>c DEF Heading
  <2> QED BY <2>1 DEF WithHeadings, q1, q2, q3
<1> HIDE DEF q3
<1>6. Len(q1) \in Nat /\ Len(q2) \in Nat /\ Len(q3) \in Nat
  BY <1>2, <1>3, <1>4
<1>7. /\ Context(p, n0, "phase") = last.phase /\ Context(p, n0, "wasm") = last.wasm
      /\ Context(p, n0, "event") = last.event
      /\ newPhase \/ /\ Above(p, n0, "phase") < Above(p, n0, "wasm")
                        /\ Above(p, n0, "wasm") < Above(p, n0, "event")
  <2>1. CASE p = <<>>
    <3>1. n0 = 1 /\ last = NoHeading /\ 0..(1 - 1) = {0} /\ 1 \in Nat \ {0}
      BY <2>1
    <3>2. \A level : Above(p, n0, level) = 0
      BY <3>1, AboveIs
    <3>3. newPhase
      BY <1>a, <3>1 DEF NewPhase, NoHeading, KeyTypes, Names
    <3> HIDE DEF n0
    <3> QED BY <3>1, <3>2, <3>3 DEF Context, NoHeading
  <2>2. CASE p # <<>>
    BY <2>2 DEF Governed, Levels
  <2> QED BY <2>1, <2>2
<1>8. /\ newWasm <=> (newPhase \/ last.wasm # k.wasm)
      /\ newEvent <=> (newWasm \/ last.event # k.event)
      /\ newPhase <=> last.phase # k.phase
  BY <1>a, <1>b, <1>c DEF NewPhase, NewWasm, NewEvent
<1> HIDE DEF n0, n1, n2, n3
<1>9. /\ Context(q2, n2, "phase") = k.phase /\ Context(q2, n2, "wasm") = k.wasm
      /\ Context(q3, n3, "phase") = k.phase /\ Context(q3, n3, "wasm") = k.wasm
      /\ Context(q3, n3, "event") = k.event
  <2>1. /\ Context(q1, n1, "phase") = k.phase
        /\ newWasm \/ Context(q1, n1, "wasm") = k.wasm
        /\ newEvent \/ Context(q1, n1, "event") = k.event
    BY <1>2, <1>7, <1>8
  <2>2. /\ Context(q2, n2, "phase") = k.phase /\ Context(q2, n2, "wasm") = k.wasm
        /\ newEvent \/ Context(q2, n2, "event") = k.event
    BY <1>3, <1>8, <2>1
  <2> QED BY <1>4, <2>2
<1>10. /\ Above(p, n0, "phase") \in 0..(n0 - 1) /\ Above(p, n0, "wasm") \in 0..(n0 - 1)
       /\ Above(p, n0, "event") \in 0..(n0 - 1)
       /\ n0 \in Nat \ {0}
  <2>1. n0 \in Nat \ {0}
    BY <1>1 DEF n0
  <2> QED BY <2>1, AboveIs
<1>11. /\ Above(q3, n3, "phase") < Above(q3, n3, "wasm")
       /\ Above(q3, n3, "wasm") < Above(q3, n3, "event")
  <2>1. /\ Above(q3, n3, "phase") = IF newPhase THEN n0 ELSE Above(p, n0, "phase")
        /\ Above(q3, n3, "wasm") = IF newWasm THEN n1 ELSE Above(p, n0, "wasm")
        /\ Above(q3, n3, "event") = IF newEvent THEN n2 ELSE Above(p, n0, "event")
    <3>1. Above(q1, n1, "wasm") = Above(p, n0, "wasm") /\ Above(q1, n1, "event") = Above(p, n0, "event")
      BY <1>2
    <3>2. Above(q2, n2, "phase") = Above(q1, n1, "phase") /\ Above(q2, n2, "event") = Above(q1, n1, "event")
      BY <1>3
    <3>3. Above(q3, n3, "phase") = Above(q2, n2, "phase") /\ Above(q3, n3, "wasm") = Above(q2, n2, "wasm")
      BY <1>4
    <3>4. /\ Above(q1, n1, "phase") = IF newPhase THEN n0 ELSE Above(p, n0, "phase")
          /\ Above(q2, n2, "wasm") = IF newWasm THEN n1 ELSE Above(q1, n1, "wasm")
          /\ Above(q3, n3, "event") = IF newEvent THEN n2 ELSE Above(q2, n2, "event")
      BY <1>2, <1>3, <1>4
    <3> QED BY <3>1, <3>2, <3>3, <3>4
  <2>2. /\ n1 = IF newPhase THEN n0 + 1 ELSE n0
        /\ n2 = IF newWasm THEN n1 + 1 ELSE n1
    BY <1>2, <1>3
  <2>3. newPhase => newWasm /\ newEvent
    BY <1>8
  <2>4. newWasm => newEvent
    BY <1>8
  <2>5. CASE newPhase
    BY <1>10, <2>1, <2>2, <2>3, <2>5
  <2>6. CASE ~newPhase
    BY <1>7, <1>10, <2>1, <2>2, <2>4, <2>6
  <2> QED BY <2>5, <2>6
<1>12. Governed(q3, Len(q3) + 1, k)
  BY <1>9, <1>11 DEF Governed, Levels, n3
<1>13. Begins(p, q2) /\ Begins(p, q3) /\ Begins(q1, q3)
  BY <1>1, <1>2, <1>3, <1>4, <1>6, BeginsTransitive
<1>14. ASSUME NEW i \in (Len(p) + 1)..Len(q3)
       PROVE  \/ i = n0 /\ newPhase /\ q3[i].level = "phase"
              \/ i = n1 /\ newWasm /\ q3[i].level = "wasm"
              \/ i = n2 /\ newEvent /\ i = Len(q3) /\ q3[i].level = "event"
                   /\ q3[i].value = k.event
  <2>1. \/ i = n0 /\ newPhase /\ i \in 1..Len(q1)
        \/ i = n1 /\ newWasm /\ i \in 1..Len(q2)
        \/ i = n2 /\ newEvent /\ i = Len(q3)
    BY <1>1, <1>2, <1>3, <1>4, <1>6 DEF n0, n1, n2, n3
  <2>2. /\ \A j \in 1..Len(q1) : q3[j] = q1[j]
        /\ \A j \in 1..Len(q2) : q3[j] = q2[j]
    BY <1>4, <1>13 DEF Begins
  <2>3. CASE i = n0 /\ newPhase /\ i \in 1..Len(q1)
    BY <1>2, <2>2, <2>3
  <2>4. CASE i = n1 /\ newWasm /\ i \in 1..Len(q2)
    BY <1>3, <2>2, <2>4
  <2>5. CASE i = n2 /\ newEvent /\ i = Len(q3)
    BY <1>4, <2>5
  <2> QED BY <2>1, <2>3, <2>4, <2>5
<1>15. ASSUME NEW i \in (Len(p) + 1)..Len(q3), q3[i].level = "event"
       PROVE  i = Len(q3) /\ newEvent /\ EventAt(q3, i) = Headings(k)
  <2>1. i = n2 /\ newEvent /\ i = Len(q3) /\ q3[i].value = k.event
    BY <1>14, <1>15
  <2>2. Context(q3, n2, "phase") = k.phase /\ Context(q3, n2, "wasm") = k.wasm
    BY <1>4, <1>6, <1>9 DEF Begins, n2
  <2> QED BY <2>1, <2>2 DEF EventAt, Headings
<1>16. \A i \in (Len(p) + 1)..Len(q3) : q3[i].level \in Levels
  BY <1>14 DEF Levels
<1> QED BY <1>c, <1>4, <1>5, <1>12, <1>13, <1>15, <1>16

LEMMA PrintSummaryStep ==
  ASSUME FilesRead, Stages, Printing, PrintSummary
  PROVE  Printing'
<1> DEFINE summary == Head(pending)
           k == summary.key
           q == WithHeadings(lines, k)
           x == [level |-> "summary", summary |-> summary]
<1>1. /\ pending # <<>> /\ pending' = Tail(pending)
      /\ UNCHANGED <<cmd, measurements>> /\ cmd.name = "summarize"
      /\ last' = [phase |-> k.phase, wasm |-> k.wasm, event |-> k.event]
  BY DEF PrintSummary, Stages
<1>2. lines' = q \o <<x>>
  BY DEF PrintSummary, WithHeadings
<1>3. /\ lines \in Seq(SummaryLines) /\ last \in [Levels -> Nat]
      /\ pending \in Seq(Summaries(measurements)) /\ measurements \in Seq(Rows)
      /\ IF lines = <<>> THEN last = NoHeading ELSE Governed(lines, Len(lines) + 1, last)
  BY <1>1 DEF Printing, FilesRead
<1>4. /\ summary \in Summaries(measurements) /\ KeyTypes(k)
      /\ 1 \in DOMAIN pending /\ pending[1] = summary
  <2>1. 1 \in DOMAIN pending /\ summary = pending[1] /\ pending[1] \in Summaries(measurements)
    BY <1>1, <1>3
  <2> QED BY <1>3, <2>1, SummaryMembers
<1> HIDE DEF summary, k, q
<1>5. /\ last' \in [Levels -> Nat] /\ Headings(last') = Headings(k)
      /\ \A level \in Levels : last'[level] = k[level]
  BY <1>1, <1>4 DEF Levels, Headings, KeyTypes, Names
<1>6. /\ q \in Seq(SummaryLines) /\ Begins(lines, q) /\ Governed(q, Len(q) + 1, k)
      /\ \A i \in (Len(lines) + 1)..Len(q) :
           /\ q[i].level \in Levels
           /\ q[i].level = "event" =>
                i = Len(q) /\ NewEvent(k) /\ EventAt(q, i) = Headings(k)
  <2>1. \A level \in Levels : \A value \in Names : [level |-> level, value |-> value] \in SummaryLines
    BY DEF SummaryLines
  <2> QED BY <1>3, <1>4, <2>1, HeadingsPrinted DEF q
<1>7. x \in SummaryLines /\ x.level = "summary" /\ x.summary.key = k
  BY <1>4 DEF SummaryLines, k
<1> HIDE DEF x
<1>a. lines' = Append(q, x)
  BY <1>2, <1>6, <1>7
<1>8. /\ lines' \in Seq(SummaryLines) /\ Len(lines') = Len(q) + 1 /\ lines'[Len(q) + 1] = x
      /\ Begins(q, lines') /\ Len(q) \in Nat /\ Len(lines) \in Nat /\ Len(lines) <= Len(q)
  BY <1>a, <1>3, <1>6, <1>7, Beginning DEF Begins
<1>9. Begins(lines, lines')
  BY <1>6, <1>8, BeginsTransitive
<1>10. /\ DOMAIN lines = 1..Len(lines) /\ DOMAIN lines' = 1..(Len(q) + 1)
       /\ \A i \in DOMAIN lines' : \/ i \in DOMAIN lines
                                   \/ i \in (Len(lines) + 1)..Len(q)
                                   \/ i = Len(q) + 1
  BY <1>3, <1>8
<1>11. \A level \in Levels : level # "summary"
  BY DEF Levels
<1>12. Governed(lines', Len(q) + 1, k)
  BY <1>6, <1>8 DEF Governed, Begins
<1>13. Governed(lines', Len(lines') + 1, last')
  <2>1. \A level \in Levels :
          /\ Above(lines', Len(q) + 1 + 1, level) = Above(q, Len(q) + 1, level)
          /\ Context(lines', Len(q) + 1 + 1, level) = Context(q, Len(q) + 1, level)
    BY <1>a, <1>6, <1>7, <1>11, LineAbove
  <2> QED BY <1>5, <1>6, <1>8, <2>1 DEF Governed, Levels
<1>14. ASSUME NEW i \in DOMAIN lines', lines'[i].level = "summary"
       PROVE  Governed(lines', i, lines'[i].summary.key)
  <2>1. CASE i \in DOMAIN lines
    <3>1. lines'[i] = lines[i] /\ i \in 1..(Len(lines) + 1)
      BY <1>8, <1>9, <1>10, <2>1 DEF Begins
    <3>2. Governed(lines, i, lines[i].summary.key)
      BY <1>1, <1>14, <2>1, <3>1 DEF Printing
    <3> QED BY <1>9, <3>1, <3>2 DEF Governed, Begins
  <2>2. CASE i \in (Len(lines) + 1)..Len(q)
    <3>1. lines'[i] = q[i]
      BY <1>8, <2>2 DEF Begins
    <3> QED BY <1>6, <1>11, <1>14, <2>2, <3>1
  <2>3. CASE i = Len(q) + 1
    BY <1>7, <1>8, <1>12, <2>3
  <2> QED BY <1>10, <2>1, <2>2, <2>3
<1>15. InOrder(lines', last')
  <2>1. /\ 3 \in Nat /\ Headings(k) \in Tuples(3) /\ Headings(last) \in Tuples(3)
        /\ NewEvent(k) => Headings(k) # Headings(last)
    <3>1. Headings(k) = Headings(last) => \A level \in Levels : k[level] = last[level]
      BY <1>3, <1>4, HeadingsAreTuples
    <3> QED BY <1>3, <1>4, <3>1, HeadingsAreTuples DEF NewEvent, NewWasm, NewPhase, Levels
  <2>2. ~Less(Headings(k), Headings(last))
    BY <1>1, <1>4 DEF Printing, k
  <2>3. /\ \A i \in DOMAIN lines' : lines'[i].level = "event" => EventAt(lines', i) \in Tuples(3)
        /\ \A i \in DOMAIN lines : lines[i].level = "event" => EventAt(lines, i) \in Tuples(3)
    <3>1. \A p \in Seq(SummaryLines) :
            \A i \in DOMAIN p : p[i].level = "event" => EventAt(p, i) \in Tuples(3)
      BY EventsAreTuples DEF SummaryLines
    <3> QED BY <1>3, <1>8, <3>1
  <2>4. ASSUME NEW i \in DOMAIN lines
        PROVE  i \in DOMAIN lines' /\ lines'[i] = lines[i] /\ EventAt(lines', i) = EventAt(lines, i)
    <3>1. i \in 1..Len(lines) /\ i \in 1..(Len(lines) + 1) /\ i \in 1..(Len(q) + 1)
      BY <1>8, <1>10
    <3> QED BY <1>9, <1>10, <3>1 DEF Begins, EventAt
  <2>5. ASSUME NEW i \in DOMAIN lines, lines[i].level = "event"
        PROVE  /\ ~Less(Headings(k), EventAt(lines, i))
               /\ NewEvent(k) => Less(EventAt(lines, i), Headings(k))
    <3> DEFINE e == EventAt(lines, i)
    <3>1. e \in Tuples(3) /\ ~Less(Headings(last), e)
      BY <1>1, <2>3, <2>5 DEF Printing, InOrder
    <3> HIDE DEF e
    <3>2. e = Headings(last) \/ Less(e, Headings(last))
      BY <2>1, <3>1, LessTotal
    <3>3. Headings(k) = Headings(last) \/ Less(Headings(last), Headings(k))
      BY <2>1, <2>2, LessTotal
    <3>4. e = Headings(k) \/ Less(e, Headings(k))
      BY <2>1, <3>1, <3>2, <3>3, LessTransitive
    <3>5. ~Less(Headings(k), e)
      BY <2>1, <3>1, <3>4, LessTransitive, LessIrreflexive
    <3>6. NewEvent(k) => Less(e, Headings(k))
      BY <2>1, <3>1, <3>2, <3>3, LessTransitive
    <3> QED BY <3>5, <3>6 DEF e
  <2>6. ASSUME NEW i \in DOMAIN lines', lines'[i].level = "event", i \notin DOMAIN lines
        PROVE  i = Len(q) /\ NewEvent(k) /\ EventAt(lines', i) = Headings(k)
    <3>1. i \in (Len(lines) + 1)..Len(q)
      BY <1>7, <1>8, <1>10, <2>6
    <3>2. i \in 1..Len(q) /\ i \in 1..(Len(q) + 1)
      BY <1>8, <3>1
    <3>3. lines'[i] = q[i] /\ EventAt(lines', i) = EventAt(q, i)
      BY <1>8, <3>2 DEF Begins, EventAt
    <3> QED BY <1>6, <2>6, <3>1, <3>3
  <2>7. ASSUME NEW i \in DOMAIN lines', NEW j \in DOMAIN lines', i < j,
               lines'[i].level = "event", lines'[j].level = "event"
        PROVE  Less(EventAt(lines', i), EventAt(lines', j))
    <3>1. CASE i \in DOMAIN lines /\ j \in DOMAIN lines
      BY <1>1, <2>4, <2>7, <3>1 DEF Printing, InOrder
    <3>2. CASE i \in DOMAIN lines /\ j \notin DOMAIN lines
      BY <2>4, <2>5, <2>6, <2>7, <3>2
    <3>3. CASE i \notin DOMAIN lines
      <4>1. i = Len(q) /\ j \in (Len(lines) + 1)..(Len(q) + 1)
        BY <1>8, <1>10, <2>6, <2>7, <3>3
      <4>2. j = Len(q) + 1
        BY <1>8, <2>7, <4>1
      <4> QED BY <1>7, <1>8, <2>7, <4>2
    <3> QED BY <3>1, <3>2, <3>3
  <2>8. ASSUME NEW i \in DOMAIN lines', lines'[i].level = "event"
        PROVE  ~Less(Headings(last'), EventAt(lines', i))
    <3>1. CASE i \in DOMAIN lines
      BY <1>5, <2>4, <2>5, <2>8, <3>1
    <3>2. CASE i \notin DOMAIN lines
      BY <1>5, <2>1, <2>6, <2>8, <3>2, LessIrreflexive
    <3> QED BY <3>1, <3>2
  <2> QED BY <2>7, <2>8 DEF InOrder
<1>16. /\ pending' \in Seq(Summaries(measurements'))
       /\ \A i \in DOMAIN pending' : i + 1 \in DOMAIN pending /\ pending'[i] = pending[i + 1]
  BY <1>1, <1>3
<1>17. \A i, j \in DOMAIN pending' :
         i < j => Less(PrintOrder(pending'[i].key), PrintOrder(pending'[j].key))
  <2>1. \A i, j \in DOMAIN pending :
          i < j => Less(PrintOrder(pending[i].key), PrintOrder(pending[j].key))
    BY <1>1 DEF Printing
  <2>2. \A i, j \in DOMAIN pending' : i < j => i + 1 < j + 1
    BY <1>16
  <2> QED BY <1>16, <2>1, <2>2
<1>18. \A i \in DOMAIN pending' : ~Less(Headings(pending'[i].key), Headings(last'))
  <2>1. ASSUME NEW i \in DOMAIN pending'
        PROVE  ~Less(Headings(pending'[i].key), Headings(last'))
    <3>1. i + 1 \in DOMAIN pending /\ pending'[i] = pending[i + 1] /\ 1 < i + 1
      BY <1>16
    <3>2. Less(PrintOrder(k), PrintOrder(pending[i + 1].key))
      BY <1>1, <1>4, <3>1 DEF Printing, k
    <3>3. KeyTypes(pending[i + 1].key)
      <4>1. pending[i + 1] \in Summaries(measurements)
        BY <1>3, <3>1
      <4> QED BY <1>3, <4>1, SummaryMembers
    <3>4. ~Less(Headings(pending[i + 1].key), Headings(k))
      BY <1>4, <3>2, <3>3, HeadingsInOrder
    <3> QED BY <1>5, <3>1, <3>4
  <2> QED BY <2>1
<1>19. SummaryLines' = SummaryLines /\ lines' # <<>>
  BY <1>1, <1>8 DEF SummaryLines
<1> QED BY <1>5, <1>8, <1>13, <1>14, <1>15, <1>16, <1>17, <1>18, <1>19 DEF Printing

LEMMA PrintingStep ==
  ASSUME FilesRead, Stages, Printing, [Next]_vars
  PROVE  Printing'
<1>1. cmd' = cmd
  BY ReadingOnly
<1>2. NoHeading \in [Levels -> Nat]
  BY DEF NoHeading, Levels
<1>3. CASE ReadFile
  <2>1. lines' = <<>> /\ last' = NoHeading /\ pending' = <<>>
    BY <1>3 DEF ReadFile, Stages
  <2> QED BY <1>1, <1>2, <2>1 DEF Printing, InOrder
<1>4. CASE Summarize
  <2> DEFINE byHeading == Sorted(ByHeading(measurements))
             n == Cardinality(Summaries(measurements))
  <2>1. /\ lines' = <<>> /\ last' = NoHeading /\ measurements' = measurements
        /\ pending' = byHeading \/ pending' = <<>>
    BY <1>4 DEF Summarize, AllRead, Stages
  <2>2. measurements \in Seq(Rows)
    BY DEF FilesRead
  <2>3. /\ n \in Nat /\ byHeading \in [1..n -> Summaries(measurements)]
        /\ \A i, j \in 1..n :
             i < j => Less(PrintOrder(byHeading[i].key), PrintOrder(byHeading[j].key))
    BY <2>2, SortedSummaries
  <2> HIDE DEF byHeading, n
  <2>4. /\ pending' \in Seq(Summaries(measurements'))
        /\ \A i, j \in DOMAIN pending' :
             i < j => Less(PrintOrder(pending'[i].key), PrintOrder(pending'[j].key))
    <3>1. CASE pending' = <<>>
      BY <3>1
    <3>2. CASE pending' = byHeading
      BY <2>1, <2>3, <3>2
    <3> QED BY <2>1, <3>1, <3>2
  <2>5. ASSUME NEW i \in DOMAIN pending'
        PROVE  ~Less(Headings(pending'[i].key), Headings(NoHeading))
    <3>1. pending'[i] \in Summaries(measurements)
      BY <2>1, <2>4
    <3>2. Headings(pending'[i].key) \in Tuples(3)
      BY <2>2, <3>1, SummaryMembers, HeadingsAreTuples
    <3>3. Headings(NoHeading) = <<0, 0, 0>>
      BY DEF Headings, NoHeading
    <3> QED BY <3>2, <3>3 DEF Less, Tuples
  <2> QED BY <1>1, <1>2, <2>1, <2>4, <2>5 DEF Printing, InOrder
<1>5. CASE PrintSummary
  BY <1>5, PrintSummaryStep
<1>6. CASE UNCHANGED <<measurements, lines, pending, last>>
  <2>1. SummaryLines' = SummaryLines
    BY <1>6 DEF SummaryLines
  <2> QED BY <1>1, <1>6, <2>1 DEF Printing
<1>7. CASE Compare
  <2>1. cmd.name # "summarize"
    BY <1>7 DEF Compare
  <2> QED BY <1>1, <2>1 DEF Printing
<1>8. ASSUME NEW e \in effects, PrintEffect(e)
      PROVE  Printing'
  <2>1. cmd.name # "summarize"
    BY <1>8 DEF PrintEffect, Stages
  <2> QED BY <1>1, <2>1 DEF Printing
<1>9. CASE OpenFails \/ CompareFails \/ SortEffects \/ AllPrinted \/ PrintFails \/ UNCHANGED vars
  BY <1>6, <1>9 DEF OpenFails, CompareFails, SortEffects, AllPrinted, PrintFails, vars
<1> QED BY <1>3, <1>4, <1>5, <1>7, <1>8, <1>9 DEF Next, Exited

LEMMA Invariance == Spec => []Inv
<1>1. Init => Inv
  BY FilesReadInit, StagesInit, ComparisonsInit, PrintingInit DEF Inv
<1>2. Inv /\ [Next]_vars => Inv'
  BY FilesReadStep, StagesStep, ComparisonsStep, PrintingStep DEF Inv
<1> QED BY <1>1, <1>2, PTL DEF Spec

-----------------------------------------------------------------------------
(***************************************************************************)
(* What the invariant says.                                                *)
(***************************************************************************)
LEMMA SummariesAre ==
  ASSUME FilesRead, Stages, NEW i \in DOMAIN summaries
  PROVE  /\ summaries[i] \in Summaries(measurements)
         /\ \A j \in DOMAIN summaries : i # j => summaries[i] # summaries[j]
<1>1. measurements \in Seq(Rows) /\ summaries = Sorted(ByKey(measurements))
  BY DEF FilesRead, Stages
<1> QED BY <1>1, SortedSummaries

(* Summaries have complete keys and groups of measurements that are not    *)
(* empty, effect sizes are of measurements that were read: no `expect` and *)
(* no `unwrap` on a group or a key of summarize and effect-size fails.     *)
THEOREM TypeCorrect == Spec => []TypeOK
<1> SUFFICES ASSUME Inv PROVE TypeOK
  BY Invariance, PTL
<1>1. measurements \in Seq(Rows)
  BY DEF Inv, FilesRead
<1>2. ASSUME NEW i \in DOMAIN summaries
      PROVE  /\ DOMAIN summaries[i].key = Fields
             /\ summaries[i].group \in (SUBSET DOMAIN measurements) \ {{}}
  BY <1>1, SummariesAre, SummaryMembers DEF Inv, KeyTypes
<1>3. ASSUME NEW e \in effects
      PROVE  e.aGroup \union e.bGroup \subseteq DOMAIN measurements
  <2>1. PICK k \in Keys(measurements, EffectFields) : e = Effect(measurements, k)
    BY DEF Inv, Comparisons, AllEffects
  <2>2. Comparable(measurements)
    BY DEF Inv, Comparisons
  <2>3. e.aGroup = GroupOf(k, e.a) /\ e.bGroup = GroupOf(k, e.b)
    BY <1>1, <2>1, <2>2, TwoEngines
  <2> QED BY <2>3 DEF GroupOf, Matching
<1> QED BY <1>2, <1>3 DEF Inv, FilesRead, Stages, TypeOK

(* A command that succeeds has put every row of every input file in the    *)
(* summary of its key and in no other, and nothing else in any.            *)
THEOREM EveryRowSummarized == Spec => []NothingLost
<1> SUFFICES ASSUME Inv, pc = "done", cmd.name = "summarize" \/ cmd.human
             PROVE  NothingLost
  BY Invariance, PTL DEF NothingLost
<1>1. /\ measurements \in Seq(Rows) /\ summaries = Sorted(ByKey(measurements))
      /\ files \in Seq(Seq(Rows)) /\ fi = Len(files) + 1 /\ Len(files) \in Nat
  BY AnalysisAssumption DEF Inv, FilesRead, Stages
<1>2. fi - 1 = Len(files) /\ DOMAIN files = 1..Len(files)
  BY <1>1
<1>3. /\ Len(measurements) = Totals[Len(files)]
      /\ \A f \in DOMAIN files : \A r \in DOMAIN files[f] :
           /\ Totals[f - 1] + r \in DOMAIN measurements
           /\ measurements[Totals[f - 1] + r] = files[f][r]
  BY <1>2 DEF Inv, FilesRead
<1> DEFINE n == Cardinality(Summaries(measurements))
<1>4. /\ n \in Nat /\ summaries \in [1..n -> Summaries(measurements)]
      /\ \A s \in Summaries(measurements) : \E i \in 1..n : summaries[i] = s
      /\ \A i, j \in 1..n : i # j => summaries[i] # summaries[j]
  BY <1>1, SortedSummaries
<1>5. DOMAIN summaries = 1..n
  BY <1>4
<1> HIDE DEF n
<1>6. ASSUME NEW f \in DOMAIN files, NEW r \in DOMAIN files[f]
      PROVE  \E i \in DOMAIN summaries : /\ Totals[f - 1] + r \in summaries[i].group
                                        /\ summaries[i].key = Key(files[f][r], Fields)
  <2> DEFINE m == Totals[f - 1] + r
  <2>1. m \in DOMAIN measurements /\ measurements[m] = files[f][r]
    BY <1>3
  <2> HIDE DEF m
  <2>2. PICK s \in Summaries(measurements) : s.key = Key(measurements[m], Fields)
    BY <1>1, <2>1, SummaryMembers
  <2>3. m \in s.group
    BY <1>1, <2>1, <2>2, SummaryMembers
  <2> QED BY <1>4, <1>5, <2>1, <2>2, <2>3 DEF m
<1>7. ASSUME NEW i \in DOMAIN summaries, NEW j \in DOMAIN summaries, i # j
      PROVE  summaries[i].group \intersect summaries[j].group = {}
  <2>1. ASSUME NEW m \in summaries[i].group, m \in summaries[j].group PROVE FALSE
    <3>1. /\ summaries[i] \in Summaries(measurements) /\ summaries[j] \in Summaries(measurements)
          /\ summaries[i] # summaries[j]
      BY <1>4, <1>5, <1>7
    <3>2. m \in DOMAIN measurements
      BY <1>1, <3>1, SummaryMembers
    <3>3. \A s \in Summaries(measurements) : m \in s.group => s.key = Key(measurements[m], Fields)
      BY <1>1, <3>2, SummaryMembers
    <3>4. summaries[i].key = summaries[j].key
      BY <2>1, <3>1, <3>3
    <3> QED BY <1>1, <3>1, <3>4, SummaryMembers
  <2> QED BY <2>1
<1>8. \A i \in DOMAIN summaries : summaries[i].group \subseteq 1..Totals[Len(files)]
  <2>1. DOMAIN measurements = 1..Totals[Len(files)]
    BY <1>1, <1>3
  <2> QED BY <1>1, <1>4, <1>5, <2>1, SummaryMembers
<1> QED BY <1>6, <1>7, <1>8 DEF NothingLost

(* The last headings above a printed summary are its own and come in order *)
(* of their levels, and none is printed twice for the same event.          *)
THEOREM HeadingsAreRight == Spec => []HeadingsGovern
<1> SUFFICES ASSUME Inv, cmd.name = "summarize" PROVE HeadingsGovern
  BY Invariance, PTL DEF HeadingsGovern
<1>1. /\ lines \in Seq(SummaryLines) /\ InOrder(lines, last)
      /\ \A i \in DOMAIN lines : lines[i].level = "summary" =>
           Governed(lines, i, lines[i].summary.key)
  BY DEF Inv, Printing
<1>2. \A i \in DOMAIN lines : lines[i].level = "summary" =>
         /\ Context(lines, i, "phase") = lines[i].summary.key.phase
         /\ Context(lines, i, "wasm") = lines[i].summary.key.wasm
         /\ Context(lines, i, "event") = lines[i].summary.key.event
         /\ Above(lines, i, "phase") < Above(lines, i, "wasm")
         /\ Above(lines, i, "wasm") < Above(lines, i, "event")
  BY <1>1 DEF Governed, Levels
<1>3. ASSUME NEW i \in DOMAIN lines, NEW j \in DOMAIN lines, i < j,
             lines[i].level = "event", lines[j].level = "event"
      PROVE  EventAt(lines, i) # EventAt(lines, j)
  <2>1. Less(EventAt(lines, i), EventAt(lines, j))
    BY <1>1, <1>3 DEF InOrder
  <2>2. EventAt(lines, i) \in Tuples(3) /\ 3 \in Nat
    BY <1>1, <1>3, EventsAreTuples DEF SummaryLines
  <2> QED BY <2>1, <2>2, LessIrreflexive
<1>4. ASSUME NEW i \in DOMAIN lines, NEW j \in DOMAIN lines, i # j,
             lines[i].level = "event", lines[j].level = "event",
             lines[i].value = lines[j].value
      PROVE  \/ Context(lines, i, "wasm") # Context(lines, j, "wasm")
             \/ Context(lines, i, "phase") # Context(lines, j, "phase")
  <2>1. i < j \/ j < i
    BY <1>1, <1>4
  <2>2. EventAt(lines, i) # EventAt(lines, j)
    BY <1>3, <1>4, <2>1
  <2> QED BY <1>4, <2>2 DEF EventAt
<1> QED BY <1>2, <1>4 DEF HeadingsGovern

LEMMA GroupsAreApart ==
  ASSUME measurements \in Seq(Rows)
  PROVE  /\ \A k, l \in Keys(measurements, EffectFields) :
              k # l => Matching(measurements, k) \intersect Matching(measurements, l) = {}
         /\ DOMAIN measurements =
              UNION {Matching(measurements, k) : k \in Keys(measurements, EffectFields)}
<1>1. ASSUME NEW k \in Keys(measurements, EffectFields), NEW i \in Matching(measurements, k)
      PROVE  i \in DOMAIN measurements /\ k = Key(measurements[i], EffectFields)
  <2>1. PICK j \in DOMAIN measurements : k = Key(measurements[j], EffectFields)
    BY DEF Keys
  <2>2. DOMAIN k = EffectFields /\ k = [f \in EffectFields |-> k[f]]
    BY <2>1 DEF Key
  <2>3. \A f \in EffectFields : measurements[i][f] = k[f]
    BY <2>2 DEF Matching
  <2>4. [f \in EffectFields |-> k[f]] = [f \in EffectFields |-> measurements[i][f]]
    BY <2>3
  <2> QED BY <2>2, <2>4 DEF Key, Matching
<1>2. ASSUME NEW i \in DOMAIN measurements
      PROVE  /\ Key(measurements[i], EffectFields) \in Keys(measurements, EffectFields)
             /\ i \in Matching(measurements, Key(measurements[i], EffectFields))
  BY DEF Key, Keys, Matching
<1>3. ASSUME NEW k \in Keys(measurements, EffectFields), NEW l \in Keys(measurements, EffectFields),
             k # l
      PROVE  Matching(measurements, k) \intersect Matching(measurements, l) = {}
  BY <1>1, <1>3
<1>4. DOMAIN measurements =
        UNION {Matching(measurements, k) : k \in Keys(measurements, EffectFields)}
  <2>1. \A k \in Keys(measurements, EffectFields) :
          Matching(measurements, k) \subseteq DOMAIN measurements
    BY DEF Matching
  <2>2. \A i \in DOMAIN measurements : \E k \in Keys(measurements, EffectFields) :
          i \in Matching(measurements, k)
    BY <1>2
  <2> QED BY <2>1, <2>2
<1> QED BY <1>3, <1>4

(* Every measurement is a count of one of the two engines in exactly one   *)
(* of the effect sizes that are printed.                                   *)
THEOREM NothingLeftOut == Spec => []EverythingCompared
<1> SUFFICES ASSUME Inv, pc = "done", cmd.name = "effect-size", cmd.human
             PROVE  EverythingCompared
  BY Invariance, PTL DEF EverythingCompared
<1>1. /\ measurements \in Seq(Rows) /\ Comparable(measurements)
      /\ AllEffects = {lines[i].effect : i \in DOMAIN lines}
      /\ \A i, j \in DOMAIN lines : i # j => lines[i].effect # lines[j].effect
  BY DEF Inv, FilesRead, Comparisons
<1> DEFINE compared(i) == lines[i].effect.aGroup \union lines[i].effect.bGroup
<1>2. ASSUME NEW k \in Keys(measurements, EffectFields)
      PROVE  LET e == Effect(measurements, k)
             IN  /\ e.key = k /\ e.aGroup \intersect e.bGroup = {}
                 /\ e.aGroup \union e.bGroup = Matching(measurements, k)
  <2> DEFINE e == Effect(measurements, k)
  <2>1. /\ e.key = k /\ e.a # e.b /\ EnginesOf(measurements, k) = {e.a, e.b}
        /\ e.aGroup = GroupOf(k, e.a) /\ e.bGroup = GroupOf(k, e.b)
    BY <1>1, TwoEngines
  <2> HIDE DEF e
  <2>2. \A i \in Matching(measurements, k) :
          measurements[i].engine = e.a \/ measurements[i].engine = e.b
    BY <2>1 DEF EnginesOf
  <2> QED BY <2>1, <2>2 DEF GroupOf, e
<1>3. ASSUME NEW i \in DOMAIN lines
      PROVE  /\ lines[i].effect.key \in Keys(measurements, EffectFields)
             /\ lines[i].effect = Effect(measurements, lines[i].effect.key)
             /\ compared(i) = Matching(measurements, lines[i].effect.key)
             /\ lines[i].effect.aGroup \intersect lines[i].effect.bGroup = {}
  <2>1. PICK k \in Keys(measurements, EffectFields) : lines[i].effect = Effect(measurements, k)
    BY <1>1 DEF AllEffects
  <2> QED BY <1>2, <2>1
<1>4. ASSUME NEW k \in Keys(measurements, EffectFields)
      PROVE  \E i \in DOMAIN lines : compared(i) = Matching(measurements, k)
  <2>1. PICK i \in DOMAIN lines : lines[i].effect = Effect(measurements, k)
    BY <1>1 DEF AllEffects
  <2> QED BY <1>2, <1>3, <2>1
<1> HIDE DEF compared
<1>5. DOMAIN measurements = UNION {compared(i) : i \in DOMAIN lines}
  BY <1>1, <1>3, <1>4, GroupsAreApart
<1>6. \A i, j \in DOMAIN lines : i # j => compared(i) \intersect compared(j) = {}
  <2>1. \A i, j \in DOMAIN lines : i # j => lines[i].effect.key # lines[j].effect.key
    BY <1>1, <1>3
  <2> QED BY <1>1, <1>3, <2>1, GroupsAreApart
<1>7. \A i \in DOMAIN lines : lines[i].effect.aGroup \intersect lines[i].effect.bGroup = {}
  BY <1>3
<1> QED BY <1>5, <1>6, <1>7 DEF EverythingCompared, compared

(* The summaries below an effect size are of the engines that it compares, *)
(* and of the compared measurements unless those of an earlier             *)
(* architecture hide them.                                                 *)
THEOREM ShownIsCompared == Spec => []EffectSummariesMatch
<1>1. Inv => EffectSummariesMatch
  <2> SUFFICES ASSUME Inv PROVE EffectSummariesMatch
    OBVIOUS
  <2>1. cmd.name \in {"summarize", "effect-size"}
    BY AnalysisAssumption DEF Inv, FilesRead
  <2>2. CASE cmd.name = "effect-size"
    BY <2>2 DEF Inv, Comparisons
  <2>3. CASE cmd.name = "summarize"
    <3>1. lines \in Seq(SummaryLines)
      BY <2>3 DEF Inv, Printing
    <3>2. \A i \in DOMAIN lines : lines[i].level # "effect"
      BY <3>1 DEF SummaryLines, Levels
    <3> QED BY <3>2 DEF EffectSummariesMatch
  <2> QED BY <2>1, <2>2, <2>3
<1> QED BY <1>1, Invariance, PTL
=============================================================================
