----------------------------- MODULE GuestProofs -----------------------------
(***************************************************************************)
(* Proofs about Guest, for every benchmark whatever its length and its     *)
(* variables.                                                              *)
(*                                                                         *)
(* The inductive invariant is Order: two statements whose order can be     *)
(* observed are where the source puts them.  A step of the compiler only   *)
(* ever exchanges neighbours, so that a kernel leaves the measured region  *)
(* only past the mark itself; but the call that feeds it, or the one that  *)
(* uses it, stands between them.                                           *)
(***************************************************************************)
EXTENDS Guest, TLAPS

(* The compiler only rearranges the statements of the benchmark and leaves *)
(* each of them in one place.                                              *)
Rearranged ==
  /\ source \in Programs
  /\ at \in [Statements -> Statements]
  /\ \A i, j \in Statements : at[i] = at[j] => i = j
  /\ fate \in [Statements -> {"kept", "folded", "dropped"}]

Order ==
  \A i, j \in Statements :
     i < j /\ Conflict(source, fate, i, j) => at[i] < at[j]

CallsKept ==
  \A i \in Statements : source[i].callee # "none" => fate[i] = "kept"

IInv == Rearranged /\ Order /\ CallsKept

-----------------------------------------------------------------------------
(***************************************************************************)
(* What the header gives a program made with it.                           *)
(***************************************************************************)
LEMMA StatementShape ==
  ASSUME NEW p \in Programs, NEW i \in DOMAIN p
  PROVE  /\ i \in Nat
         /\ Opaque(p[i]) <=> p[i].callee # "none"
         /\ p[i].callee = "none" => p[i].named = {}
         /\ p[i].callee # "none" => p[i].address = p[i].named
<1>1. p \in Seq(Statement)
  BY ProgramsAssumption
<1>2. p[i] \in Statement /\ i \in Nat
  BY <1>1
<1> DEFINE Shape(s) ==
      /\ Opaque(s) <=> s.callee # "none"
      /\ s.callee = "none" => s.named = {}
      /\ s.callee # "none" => s.address = s.named
<1>3. ASSUME NEW s \in Statement PROVE Shape(s)
  <2>1. CASE \E v \in Vars, operands \in SUBSET Vars : s = Assign(v, operands)
    BY <2>1 DEF Opaque, Assign
  <2>2. CASE \E results, operands \in SUBSET Vars : s = Libc(results, operands)
    BY <2>2 DEF Opaque, Libc, CallOf
  <2>3. CASE s \in {bench_start, bench_end}
    BY <2>3 DEF Opaque, bench_start, bench_end, CallOf
  <2>4. CASE \E x \in Vars, overridden \in BOOLEAN : s = BLACK_BOX(x, overridden)
    BY <2>4 DEF Opaque, BLACK_BOX, black_box, CallOf
  <2>5. QED
    BY <2>1, <2>2, <2>3, <2>4 DEF Statement
<1>4. QED
  BY <1>2, <1>3

(* Calls see and change what the author counts on, and nothing else.       *)
LEMMA HiddenIsTouched ==
  ASSUME NEW p \in Programs, NEW i \in DOMAIN p
  PROVE  /\ MayRead(p, i) = p[i].reads \union Hidden(p, i)
         /\ MayWrite(p, i) = p[i].writes \union Hidden(p, i)
<1>1. p \in Seq(Statement)
  BY ProgramsAssumption
<1>2. \A j \in 1..i : j \in DOMAIN p
  BY <1>1
<1>3. UNION {p[j].address : j \in {j \in 1..i : Opaque(p[j])}} = UNION {p[j].named : j \in 1..i}
  BY <1>2, StatementShape
<1>4. Touched(p, i) = Hidden(p, i)
  BY <1>3, StatementShape DEF Touched, Hidden
<1>5. QED
  BY <1>4 DEF MayRead, MayWrite

-----------------------------------------------------------------------------
(***************************************************************************)
(* Steps of the compiler.                                                  *)
(***************************************************************************)
(* Two statements other than the exchanged ones stay in their order.       *)
LEMMA SwapKeepsOrder ==
  ASSUME Rearranged,
         NEW i \in Statements, NEW j \in Statements, Swap(i, j),
         NEW a \in Statements, NEW b \in Statements, at[a] < at[b], ~(a = i /\ b = j)
  PROVE  at'[a] < at'[b]
<1>1. \A x \in Statements : at[x] \in Nat
  BY StatementShape DEF Rearranged, Statements
<1>2. at' = [at EXCEPT ![i] = at[j], ![j] = at[i]] /\ at[j] = at[i] + 1
  BY DEF Swap
<1>3. DOMAIN at = Statements
  BY DEF Rearranged
<1>4. /\ at'[i] = at[j] /\ at'[j] = at[i]
      /\ \A x \in Statements \ {i, j} : at'[x] = at[x]
  BY <1>2, <1>3
<1>5. \A x, y \in Statements : at[x] = at[y] => x = y
  BY DEF Rearranged
<1>6. at[i] \in Nat /\ at[j] \in Nat /\ at[a] \in Nat /\ at[b] \in Nat /\ a # b
  BY <1>1
<1>7. at[j] = at[i] + 1
  BY <1>2
<1>8. CASE a = i
  <2>1. b \notin {i, j} /\ at[b] # at[j]
    BY <1>5, <1>6, <1>8
  <2>2. at'[a] = at[j] /\ at'[b] = at[b]
    BY <1>4, <1>8, <2>1
  <2>3. QED
    BY <1>6, <1>7, <1>8, <2>1, <2>2
<1>9. CASE a = j
  <2>1. b # i
    BY <1>6, <1>7, <1>9
  <2>2. at'[a] = at[i] /\ at'[b] = at[b]
    BY <1>4, <1>6, <1>9, <2>1
  <2>3. QED
    BY <1>6, <1>7, <1>9, <2>2
<1>10. CASE a \notin {i, j}
  <2>1. at[a] # at[i] /\ at'[a] = at[a]
    BY <1>4, <1>5, <1>10
  <2>2. at'[b] = at[b] \/ (b = i /\ at'[b] = at[j]) \/ (b = j /\ at'[b] = at[i])
    BY <1>4
  <2>3. QED
    BY <1>6, <1>7, <2>1, <2>2
<1>11. QED
  BY <1>8, <1>9, <1>10

(* A value that is used keeps the statement that gives it alive.           *)
LEMMA UsedIsNotDead ==
  ASSUME IInv,
         NEW i \in Statements, NEW r \in Statements, NEW v,
         fate[i] # "dropped", fate[r] = "kept", i < r,
         v \in MayWrite(source, i), v \in MayRead(source, r),
         \A w \in Statements : i < w /\ w < r => v \notin source[w].writes
  PROVE  ~Dead(i)
<1>1. v \in Writes(source, fate, i) /\ v \in Reads(source, fate, r)
  BY DEF Writes, Reads
<1>2. at[i] < at[r]
  BY <1>1 DEF IInv, Order, Conflict
<1>3. \A x \in Between(i, r) : ~(fate[x] # "dropped" /\ v \in source[x].writes)
  <2> SUFFICES ASSUME NEW x \in Statements, at[i] < at[x], at[x] < at[r],
                      fate[x] # "dropped", v \in source[x].writes
               PROVE  FALSE
    BY DEF Between
  <2>1. i \in Nat /\ r \in Nat /\ x \in Nat /\ at[i] \in Nat /\ at[r] \in Nat /\ at[x] \in Nat
    BY StatementShape DEF IInv, Rearranged, Statements
  <2>2. v \in Writes(source, fate, x)
    BY DEF Writes, MayWrite
  <2>3. ~(x < i)
    BY <1>1, <2>1, <2>2 DEF IInv, Order, Conflict
  <2>4. ~(r < x)
    BY <1>1, <2>1, <2>2 DEF IInv, Order, Conflict
  <2>5. x # i /\ x # r
    BY <2>1
  <2>6. QED
    BY <2>1, <2>3, <2>4, <2>5
<1>4. QED
  BY <1>1, <1>2, <1>3 DEF Dead

(* A value that a statement gives, and that is no constant, is not known.  *)
LEMMA FedIsNotKnown ==
  ASSUME IInv,
         NEW k \in Statements, NEW w \in Statements, NEW v,
         fate[k] = "kept", fate[w] = "kept", ~Constant(w), w < k,
         v \in MayWrite(source, w), v \in MayRead(source, k),
         \A x \in Statements : w < x /\ x < k => v \notin MayWrite(source, x)
  PROVE  ~Known(k)
<1>1. v \in Writes(source, fate, w) /\ v \in Reads(source, fate, k)
  BY DEF Writes, Reads
<1>2. at[w] < at[k]
  BY <1>1 DEF IInv, Order, Conflict
<1>3. ASSUME NEW c \in Statements, at[c] < at[k], v \in Writes(source, fate, c), Constant(c)
      PROVE  \E x \in Between(c, k) : v \in Writes(source, fate, x)
  <2>1. w \in Nat /\ k \in Nat /\ c \in Nat /\ at[w] \in Nat /\ at[k] \in Nat /\ at[c] \in Nat
    BY StatementShape DEF IInv, Rearranged, Statements
  <2>2. v \in MayWrite(source, c)
    BY <1>3 DEF Writes
  <2>3. ~(k < c)
    BY <1>1, <1>3, <2>1 DEF IInv, Order, Conflict
  <2>4. c # k /\ c # w
    BY <1>3, <2>1
  <2>5. ~(w < c)
    BY <2>1, <2>2, <2>3, <2>4
  <2>6. at[c] < at[w]
    BY <1>1, <1>3, <2>1, <2>4, <2>5 DEF IInv, Order, Conflict
  <2>7. QED
    BY <1>1, <1>2, <2>6 DEF Between
<1>4. QED
  BY <1>1, <1>3 DEF Known

-----------------------------------------------------------------------------
(***************************************************************************)
(* The inductive invariant.                                                *)
(***************************************************************************)
LEMMA InvInit == Init => IInv
<1> SUFFICES ASSUME Init PROVE IInv
  OBVIOUS
<1>1. \A i \in Statements : i \in Nat
  BY StatementShape DEF Init, Statements
<1>2. QED
  BY <1>1 DEF Init, IInv, Rearranged, Order, CallsKept

LEMMA SourceFixed == [Next]_vars => source' = source
  BY DEF Next, Swap, Drop, Fold, vars

LEMMA InvNext == IInv /\ [Next]_vars => IInv'
<1> SUFFICES ASSUME IInv, [Next]_vars PROVE IInv'
  OBVIOUS
<1>1. source' = source /\ Statements' = Statements
  BY DEF Next, Swap, Drop, Fold, vars, Statements
<1>2. ASSUME NEW i \in Statements, NEW j \in Statements, Swap(i, j) PROVE IInv'
  <2>1. fate' = fate
    BY <1>2 DEF Swap
  <2>2. Rearranged'
    BY <1>1, <1>2, <2>1 DEF IInv, Rearranged, Swap
  <2>3. ASSUME NEW a \in Statements, NEW b \in Statements, a < b, Conflict(source, fate, a, b)
        PROVE  at'[a] < at'[b]
    <3>1. at[a] < at[b]
      BY <2>3 DEF IInv, Order
    <3>2. ~(a = i /\ b = j)
      BY <1>2, <2>3 DEF Swap
    <3>3. QED
      BY <1>2, <3>1, <3>2, SwapKeepsOrder DEF IInv
  <2>4. QED
    BY <1>1, <2>1, <2>2, <2>3 DEF IInv, Order, CallsKept
<1>3. ASSUME NEW i \in Statements, ~Opaque(source[i]),
             at' = at, NEW f \in {"folded", "dropped"}, fate' = [fate EXCEPT ![i] = f],
             fate[i] # "dropped"
      PROVE  IInv'
  <2>1. Rearranged'
    BY <1>1, <1>3 DEF IInv, Rearranged
  <2>2. CallsKept'
    BY <1>1, <1>3, StatementShape DEF IInv, Rearranged, CallsKept, Statements
  <2>3. ASSUME NEW x \in Statements
        PROVE  /\ Reads(source, fate', x) \subseteq Reads(source, fate, x)
               /\ Writes(source, fate', x) \subseteq Writes(source, fate, x)
    <3>1. fate'[x] = IF x = i THEN f ELSE fate[x]
      BY <1>3 DEF IInv, Rearranged
    <3>2. QED
      BY <1>3, <3>1 DEF Reads, Writes
  <2>4. ASSUME NEW a \in Statements, NEW b \in Statements, Conflict(source, fate', a, b)
        PROVE  Conflict(source, fate, a, b)
    BY <2>3, <2>4 DEF Conflict
  <2>5. QED
    BY <1>1, <1>3, <2>1, <2>2, <2>4 DEF IInv, Order
<1>4. ASSUME NEW i \in Statements, Drop(i) PROVE IInv'
  BY <1>3, <1>4 DEF Drop
<1>5. ASSUME NEW i \in Statements, Fold(i) PROVE IInv'
  BY <1>3, <1>5 DEF Fold
<1>6. CASE UNCHANGED vars
  BY <1>6 DEF vars, IInv, Rearranged, Order, CallsKept, Statements
<1>7. QED
  BY <1>2, <1>4, <1>5, <1>6 DEF Next

THEOREM Invariance == Spec => []IInv
  BY InvInit, InvNext, PTL DEF Spec

(* A benchmark calls bench.start and bench.end as its source does, and is  *)
(* found valid exactly if its source calls both.                           *)
THEOREM CallsArePrescribed == Spec => []CallsAsPrescribed
<1>1. ASSUME IInv PROVE CallsAsPrescribed
  <2>1. ASSUME NEW i \in Statements, NEW j \in Statements,
               source[i].callee # "none", source[j].callee # "none", i < j
        PROVE  fate[i] = "kept" /\ fate[j] = "kept" /\ at[i] < at[j]
    <3>1. Opaque(source[i]) /\ Opaque(source[j])
      BY <1>1, <2>1, StatementShape DEF IInv, Rearranged, Statements
    <3>2. QED
      BY <1>1, <2>1, <3>1 DEF IInv, Order, CallsKept, Conflict
  <2>2. ASSUME NEW name \in {"bench.start", "bench.end"}
        PROVE  has_import_function(name) <=> name \in Unexecuted \/ Calls(source, name) # {}
    <3>1. \A i \in Statements : source[i].callee = name => fate[i] = "kept"
      BY <1>1, <2>2 DEF IInv, CallsKept
    <3>2. QED
      BY <3>1 DEF has_import_function, Calls, Statements
  <2>3. QED
    BY <2>1, <2>2 DEF CallsAsPrescribed, is_valid
<1>2. QED
  BY <1>1, Invariance, PTL

-----------------------------------------------------------------------------
(***************************************************************************)
(* The kernel.                                                             *)
(***************************************************************************)
(* A member of K that is fed and used cannot be dropped or folded while    *)
(* all of K is kept.                                                       *)
LEMMA FedIsKept ==
  ASSUME IInv, NEW K \in SUBSET Work(source), \A x \in K : fate[x] = "kept",
         NEW k \in K, NEW lo, Fed(source, K, k, lo)
  PROVE  ~Fold(k)
<1>1. PICK v \in source[k].reads, w \in Statements :
         Gives(source, w, v, k) /\ (w \in K \/ source[w].callee # "none")
  BY DEF Fed, Statements
<1>2. k \in Statements /\ source \in Programs
  BY DEF Work, Statements, IInv, Rearranged
<1>3. /\ w < k
      /\ v \in MayWrite(source, w) /\ v \in MayRead(source, k)
      /\ \A x \in Statements : w < x /\ x < k => v \notin MayWrite(source, x)
  BY <1>1, <1>2, HiddenIsTouched DEF Gives, Statements
<1>4. fate[w] = "kept" /\ fate[k] = "kept"
  BY <1>1 DEF IInv, CallsKept
<1>5. ~Constant(w)
  BY <1>1, <1>2, <1>4, StatementShape DEF Constant, Work, Statements
<1>6. ~Known(k)
  BY <1>1, <1>2, <1>3, <1>4, <1>5, FedIsNotKnown
<1>7. QED
  BY <1>6 DEF Fold

LEMMA UsedIsKept ==
  ASSUME IInv, NEW K \in SUBSET Work(source), \A x \in K : fate[x] = "kept",
         NEW k \in K, NEW hi, Used(source, K, k, hi)
  PROVE  ~Drop(k)
<1>1. PICK v \in source[k].writes, r \in Statements :
         Gives(source, k, v, r) /\ (r \in K \/ source[r].callee # "none")
  BY DEF Used, Statements
<1>2. k \in Statements /\ source \in Programs
  BY DEF Work, Statements, IInv, Rearranged
<1>3. /\ k < r
      /\ v \in MayWrite(source, k) /\ v \in MayRead(source, r)
      /\ \A w \in Statements : k < w /\ w < r => v \notin source[w].writes
  BY <1>1, <1>2, HiddenIsTouched DEF Gives, Statements
<1>4. fate[r] = "kept" /\ fate[k] = "kept"
  BY <1>1 DEF IInv, CallsKept
<1>5. ~Dead(k)
  BY <1>1, <1>2, <1>3, <1>4, UsedIsNotDead
<1>6. QED
  BY <1>5 DEF Drop

(* All of an anchored set of statements stays in the program.              *)
Kept(K) == \A k \in K : fate[k] = "kept"

LEMMA AnchoredIsKept ==
  ASSUME IInv, [Next]_vars, NEW K \in SUBSET Work(source), NEW lo, NEW hi,
         Anchored(source, K, lo, hi), Kept(K)
  PROVE  Kept(K)'
<1>1. \A k \in K : ~Fold(k) /\ ~Drop(k)
  BY FedIsKept, UsedIsKept DEF Anchored, Kept
<1>2. ASSUME NEW k \in K PROVE fate'[k] = "kept"
  <2>1. k \in Statements /\ fate[k] = "kept"
    BY DEF Work, Statements, Kept
  <2>2. ASSUME NEW i \in Statements, Drop(i) \/ Fold(i) PROVE fate'[k] = "kept"
    <3>1. i # k
      BY <1>1, <2>2
    <3>2. QED
      BY <2>1, <2>2, <3>1 DEF Drop, Fold, IInv, Rearranged
  <2>3. QED
    BY <2>1, <2>2 DEF Next, Swap, vars
<1>3. QED
  BY <1>2 DEF Kept

(* No swap takes k over a mark lo that comes before it: what k is fed with *)
(* is at the mark or behind it.                                            *)
LEMMA StaysBehind ==
  ASSUME IInv, NEW K \in SUBSET Work(source), Kept(K),
         NEW lo \in Statements, source[lo].callee # "none",
         NEW k \in Work(source), fate[k] = "kept",
         Fed(source, K, k, lo), \A x \in K : at[lo] < at[x]
  PROVE  ~Swap(lo, k)
<1>1. PICK v \in source[k].reads, w \in Statements :
         Gives(source, w, v, k) /\ (w \in K \/ (source[w].callee # "none" /\ lo <= w))
  BY DEF Fed, Statements
<1>2. k \in Statements /\ source \in Programs
  BY DEF Work, Statements, IInv, Rearranged
<1>3. w < k /\ v \in MayWrite(source, w) /\ v \in MayRead(source, k)
  BY <1>1, <1>2, HiddenIsTouched DEF Gives, Statements
<1>4. fate[w] = "kept" /\ fate[k] = "kept"
  BY <1>1 DEF IInv, CallsKept, Kept
<1>5. Conflict(source, fate, w, k)
  BY <1>3, <1>4 DEF Conflict, Reads, Writes
<1>6. at[w] < at[k]
  BY <1>2, <1>3, <1>5 DEF IInv, Order
<1>7. CASE w = lo
  BY <1>5, <1>7 DEF Swap
<1>8. CASE w # lo
  <2>1. at[lo] < at[w]
    <3>1. CASE w \in K
      BY <3>1
    <3>2. CASE source[w].callee # "none" /\ lo <= w
      <4>1. lo < w
        BY <1>2, <1>8, <3>2, StatementShape DEF Statements
      <4>2. Conflict(source, fate, lo, w)
        BY <1>2, <3>2, StatementShape DEF Conflict, Statements
      <4>3. QED
        BY <4>1, <4>2 DEF IInv, Order
    <3>3. QED
      BY <1>1, <3>1, <3>2
  <2>2. at[lo] \in Nat /\ at[w] \in Nat /\ at[k] \in Nat
    BY <1>2, StatementShape DEF IInv, Rearranged, Statements
  <2>3. at[k] # at[lo] + 1
    BY <1>6, <2>1, <2>2
  <2>4. QED
    BY <2>3 DEF Swap
<1>9. QED
  BY <1>7, <1>8

(* Nor over a mark hi that comes after it.                                 *)
LEMMA StaysBefore ==
  ASSUME IInv, NEW K \in SUBSET Work(source), Kept(K),
         NEW hi \in Statements, source[hi].callee # "none",
         NEW k \in Work(source), fate[k] = "kept",
         Used(source, K, k, hi), \A x \in K : at[x] < at[hi]
  PROVE  ~Swap(k, hi)
<1>1. PICK v \in source[k].writes, r \in Statements :
         Gives(source, k, v, r) /\ (r \in K \/ (source[r].callee # "none" /\ r <= hi))
  BY DEF Used, Statements
<1>2. k \in Statements /\ source \in Programs
  BY DEF Work, Statements, IInv, Rearranged
<1>3. k < r /\ v \in MayWrite(source, k) /\ v \in MayRead(source, r)
  BY <1>1, <1>2, HiddenIsTouched DEF Gives, Statements
<1>4. fate[r] = "kept"
  BY <1>1 DEF IInv, CallsKept, Kept
<1>5. Conflict(source, fate, k, r)
  BY <1>3, <1>4 DEF Conflict, Reads, Writes
<1>6. at[k] < at[r]
  BY <1>2, <1>3, <1>5 DEF IInv, Order
<1>7. CASE r = hi
  BY <1>5, <1>7 DEF Swap
<1>8. CASE r # hi
  <2>1. at[r] < at[hi]
    <3>1. CASE r \in K
      BY <3>1
    <3>2. CASE source[r].callee # "none" /\ r <= hi
      <4>1. r < hi
        BY <1>2, <1>8, <3>2, StatementShape DEF Statements
      <4>2. Conflict(source, fate, r, hi)
        BY <1>2, <3>2, StatementShape DEF Conflict, Statements
      <4>3. QED
        BY <4>1, <4>2 DEF IInv, Order
    <3>3. QED
      BY <1>1, <3>1, <3>2
  <2>2. at[hi] \in Nat /\ at[r] \in Nat /\ at[k] \in Nat
    BY <1>2, StatementShape DEF IInv, Rearranged, Statements
  <2>3. at[hi] # at[k] + 1
    BY <1>6, <2>1, <2>2
  <2>4. QED
    BY <2>3 DEF Swap
<1>9. QED
  BY <1>7, <1>8

(* Steps other than the swap of a and b itself keep a before b.            *)
LEMMA StepKeepsOrder ==
  ASSUME IInv, [Next]_vars, NEW a \in Statements, NEW b \in Statements,
         at[a] < at[b], ~Swap(a, b)
  PROVE  at'[a] < at'[b]
<1>1. ASSUME NEW i \in Statements, NEW j \in Statements, Swap(i, j) PROVE at'[a] < at'[b]
  BY <1>1, SwapKeepsOrder DEF IInv
<1>2. QED
  BY <1>1 DEF Next, Drop, Fold, vars

(* Hidden at bench_start or later and handed over by bench_end, the kernel *)
(* of a benchmark of any length is executed where it is measured.          *)
THEOREM KernelIsMeasured == Spec => []KernelMeasured
<1>1. Init => KernelMeasured
  <2> SUFFICES ASSUME Init, NEW m \in Marks(source),
                      NEW k \in Kernel(source, m[1], m[2])
               PROVE  k \in Measured(m[1], m[2])
    BY DEF KernelMeasured
  <2>1. m[1] \in Statements /\ m[2] \in Statements /\ k \in Statements
    BY DEF Marks, Calls, Kernel, Work, Statements
  <2>2. QED
    BY <2>1 DEF Init, Measured, Kernel
<1>2. IInv /\ KernelMeasured /\ [Next]_vars => KernelMeasured'
  <2> SUFFICES ASSUME IInv, KernelMeasured, [Next]_vars PROVE KernelMeasured'
    OBVIOUS
  <2>0. source' = source
    BY SourceFixed
  <2> SUFFICES ASSUME NEW m \in Marks(source),
                      Anchored(source, Kernel(source, m[1], m[2]), m[1], m[2])
               PROVE  Kernel(source, m[1], m[2]) \subseteq Measured(m[1], m[2])'
    BY <2>0 DEF KernelMeasured, Measured
  <2> DEFINE K == Kernel(source, m[1], m[2])
  <2>1. /\ m[1] \in Statements /\ source[m[1]].callee # "none"
        /\ m[2] \in Statements /\ source[m[2]].callee # "none"
        /\ K \subseteq Work(source) /\ K \subseteq Statements
    BY DEF Marks, Calls, Kernel, Work, Statements
  <2>2. \A k \in K : fate[k] = "kept" /\ at[m[1]] < at[k] /\ at[k] < at[m[2]]
    BY DEF KernelMeasured, Measured
  <2>3. \A k \in K : fate'[k] = "kept"
    BY <2>1, <2>2, AnchoredIsKept DEF Kept
  <2>4. ASSUME NEW k \in K PROVE at'[m[1]] < at'[k] /\ at'[k] < at'[m[2]]
    <3>1. Fed(source, K, k, m[1]) /\ Used(source, K, k, m[2])
      BY DEF Anchored
    <3>2. ~Swap(m[1], k)
      BY <2>1, <2>2, <3>1, StaysBehind DEF Kept
    <3>3. ~Swap(k, m[2])
      BY <2>1, <2>2, <3>1, StaysBefore DEF Kept
    <3>4. QED
      BY <2>1, <2>2, <3>2, <3>3, StepKeepsOrder
  <2>5. QED
    BY <2>0, <2>1, <2>3, <2>4 DEF Measured
<1>3. QED
  BY <1>1, <1>2, Invariance, PTL DEF Spec

(* Without the marks it may move, but it is executed.                      *)
THEOREM KernelIsComputed == Spec => []KernelComputed
<1>1. Init => KernelComputed
  BY DEF Init, KernelComputed, Kernel, Work, Statements
<1>2. IInv /\ KernelComputed /\ [Next]_vars => KernelComputed'
  <2> SUFFICES ASSUME IInv, KernelComputed, [Next]_vars PROVE KernelComputed'
    OBVIOUS
  <2>0. source' = source
    BY SourceFixed
  <2> SUFFICES ASSUME NEW m \in Marks(source),
                      Anchored(source, Kernel(source, m[1], m[2]), 1, Len(source))
               PROVE  Kept(Kernel(source, m[1], m[2]))'
    BY <2>0 DEF KernelComputed, Kept
  <2> DEFINE K == Kernel(source, m[1], m[2])
  <2>1. K \subseteq Work(source)
    BY DEF Kernel
  <2>2. Kept(K)
    BY DEF KernelComputed, Kept
  <2>3. \A k \in K : fate'[k] = "kept"
    BY <2>1, <2>2, AnchoredIsKept DEF Kept
  <2>4. QED
    BY <2>0, <2>3 DEF Kept
<1>3. QED
  BY <1>1, <1>2, Invariance, PTL DEF Spec

(* Work outside the marks, as long as it is executed, stays outside them.  *)
Outside ==
  \A m \in Marks(source) : Fenced(source, m[1], m[2]) =>
     \A k \in Work(source) : fate[k] = "kept" =>
        /\ k < m[1] => at[k] < at[m[1]]
        /\ m[2] < k => at[m[2]] < at[k]

(* Nothing but the kernel of a fenced benchmark is measured.               *)
THEOREM OnlyKernelIsMeasured == Spec => []NothingElseMeasured
<1>1. Init => Outside
  <2> SUFFICES ASSUME Init, NEW m \in Marks(source), NEW k \in Work(source)
               PROVE  (k < m[1] => at[k] < at[m[1]]) /\ (m[2] < k => at[m[2]] < at[k])
    BY DEF Outside
  <2>1. m[1] \in Statements /\ m[2] \in Statements /\ k \in Statements
    BY DEF Marks, Calls, Work, Statements
  <2>2. QED
    BY <2>1 DEF Init
<1>2. IInv /\ Outside /\ [Next]_vars => Outside'
  <2> SUFFICES ASSUME IInv, Outside, [Next]_vars PROVE Outside'
    OBVIOUS
  <2>0. source' = source
    BY SourceFixed
  <2> SUFFICES ASSUME NEW m \in Marks(source),
                      Fenced(source, m[1], m[2]),
                      NEW k \in Work(source), fate'[k] = "kept"
               PROVE  /\ k < m[1] => at'[k] < at'[m[1]]
                      /\ m[2] < k => at'[m[2]] < at'[k]
    BY <2>0 DEF Outside
  <2>1. /\ m[1] \in Statements /\ source[m[1]].callee # "none"
        /\ m[2] \in Statements /\ source[m[2]].callee # "none"
        /\ k \in Statements
    BY DEF Marks, Calls, Work, Statements
  <2>2. fate[k] = "kept"
    <3>1. ASSUME NEW i \in Statements, Drop(i) \/ Fold(i) PROVE fate[k] = "kept"
      BY <2>1, <3>1 DEF Drop, Fold, IInv, Rearranged
    <3>2. QED
      BY <2>1, <3>1 DEF Next, Swap, vars
  <2>3. CASE k < m[1]
    <3>1. at[k] < at[m[1]] /\ Used(source, {}, k, m[1])
      BY <2>2, <2>3 DEF Outside, Fenced
    <3>2. ~Swap(k, m[1])
      BY <2>1, <2>2, <3>1, StaysBefore DEF Kept
    <3>3. m[1] < m[2]
      BY DEF Marks
    <3>4. m[1] \in Nat /\ m[2] \in Nat /\ k \in Nat
      BY <2>1, StatementShape DEF Statements, IInv, Rearranged
    <3>5. QED
      BY <2>1, <2>3, <3>1, <3>2, <3>3, <3>4, StepKeepsOrder
  <2>4. CASE m[2] < k
    <3>1. at[m[2]] < at[k] /\ Fed(source, {}, k, m[2])
      BY <2>2, <2>4 DEF Outside, Fenced
    <3>2. ~Swap(m[2], k)
      BY <2>1, <2>2, <3>1, StaysBehind DEF Kept
    <3>3. m[1] < m[2]
      BY DEF Marks
    <3>4. m[1] \in Nat /\ m[2] \in Nat /\ k \in Nat
      BY <2>1, StatementShape DEF Statements, IInv, Rearranged
    <3>5. QED
      BY <2>1, <2>4, <3>1, <3>2, <3>3, <3>4, StepKeepsOrder
  <2>5. QED
    BY <2>3, <2>4
<1>3. IInv /\ Outside => NothingElseMeasured
  <2> SUFFICES ASSUME IInv, Outside, NEW m \in Marks(source),
                      Fenced(source, m[1], m[2]), NEW k \in Measured(m[1], m[2])
               PROVE  k \in Kernel(source, m[1], m[2])
    BY DEF NothingElseMeasured
  <2>1. /\ m[1] \in Statements /\ source[m[1]].callee # "none"
        /\ m[2] \in Statements /\ source[m[2]].callee # "none"
        /\ k \in Statements /\ source[k].callee = "none" /\ k \in Work(source)
    BY DEF Marks, Calls, Work, Statements, Measured
  <2>2. m[1] \in Nat /\ m[2] \in Nat /\ k \in Nat
    BY <2>1, StatementShape DEF Statements, IInv, Rearranged
  <2>3. at[k] \in Nat /\ at[m[1]] \in Nat /\ at[m[2]] \in Nat
    BY <2>1, StatementShape DEF Statements, IInv, Rearranged
  <2>4. fate[k] = "kept" /\ at[m[1]] < at[k] /\ at[k] < at[m[2]]
    BY DEF Measured
  <2>5. ~(k < m[1]) /\ ~(m[2] < k)
    BY <2>1, <2>3, <2>4 DEF Outside
  <2>6. QED
    BY <2>1, <2>2, <2>5 DEF Kernel
<1>4. QED
  BY <1>1, <1>2, <1>3, Invariance, PTL DEF Spec
=============================================================================
