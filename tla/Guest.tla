-------------------------------- MODULE Guest --------------------------------
(***************************************************************************)
(* include/sightglass.h and what it promises to a benchmark written in C.  *)
(* The author marks the code to measure with bench_start and bench_end and *)
(* hides values from the compiler with BLACK_BOX.  Between that source and *)
(* the Wasm file that Runner executes stands an optimising compiler, which *)
(* may do whatever the program cannot tell: move a statement over another  *)
(* that has nothing to do with it, leave out a result nobody reads,        *)
(* compute a known value itself.  The header is what stops it.             *)
(*                                                                         *)
(* A benchmark is its unrolled sequence of statements.  The compiler takes *)
(* one small step at a time and may stop after any of them.                *)
(***************************************************************************)
EXTENDS Naturals, Sequences

CONSTANTS
  Vars,           \* variables of the benchmarks
  Programs,       \* the benchmarks considered: the statements they execute
  Unexecuted      \* functions that they call in code that is not executed

(* A statement: the function it calls ("none": it calls none) with the     *)
(* variables named in the call, where the compiler finds the body of what  *)
(* is executed, the variables it assigns and reads, and those whose        *)
(* address it passes on.                                                   *)
Assign(v, operands) ==
  [callee |-> "none", named |-> {}, body |-> "here",
   writes |-> {v}, reads |-> operands, address |-> {}]

CallOf(callee, named, body, reads, address) ==
  [callee |-> callee, named |-> named, body |-> body,
   writes |-> {}, reads |-> reads, address |-> address]

(* A function of the C library that returns a value or prints one.         *)
Libc(results, operands) ==
  [CallOf("libc", {}, "elsewhere", operands, {}) EXCEPT !.writes = results]

(* Slip: bench_end is defined in the header instead of being imported.     *)
LocalEnd == CallOf("bench.end", {}, "here", {}, {})

(* Declared as imports: the engine or the recorder provides the bodies.    *)
bench_start == CallOf("bench.start", {}, "elsewhere", {}, {})

bench_end == CallOf("bench.end", {}, "elsewhere", {}, {})

(* Slip: the pointer is not volatile, so that its target is known.         *)
ConstantPointer(overridden) == IF overridden THEN "elsewhere" ELSE "here"

(* Where the body of black_box is found.  Unless the build defines a macro *)
(* black_box, and the function of that name elsewhere, it is a pointer     *)
(* that must be read anew for every call.                                  *)
black_box(overridden) == IF overridden THEN "elsewhere" ELSE "volatile"

(* Slip: the macro passes the value of the variable, not its address.      *)
BoxByValue(x, overridden) == CallOf("black_box", {x}, black_box(overridden), {x}, {})

(* The macro BLACK_BOX(x).                                                 *)
BLACK_BOX(x, overridden) == CallOf("black_box", {x}, black_box(overridden), {}, {x})

Statement ==
  {Assign(v, operands) : v \in Vars, operands \in SUBSET Vars}
    \union {Libc(results, operands) : results \in SUBSET Vars, operands \in SUBSET Vars}
    \union {bench_start, bench_end}
    \union {BLACK_BOX(x, overridden) : x \in Vars, overridden \in BOOLEAN}

ASSUME ProgramsAssumption == Programs \subseteq Seq(Statement)

-----------------------------------------------------------------------------
(***************************************************************************)
(* What the compiler knows of a program p.                                 *)
(***************************************************************************)
Opaque(s) == s.body # "here"

(* Variables a call may reach whose body is not known: every variable      *)
(* whose address an earlier such call, or this one, was given.  Opaque     *)
(* calls never change places, so "earlier" is the order of the source.     *)
Touched(p, i) ==
  IF Opaque(p[i])
  THEN UNION {p[j].address : j \in {j \in 1..i : Opaque(p[j])}}
  ELSE {}

MayRead(p, i)  == p[i].reads \union Touched(p, i)
MayWrite(p, i) == p[i].writes \union Touched(p, i)

(* What is left of statement i: a folded one stores a constant, a dropped  *)
(* one does nothing.                                                       *)
Reads(p, f, i) == IF f[i] = "kept" THEN MayRead(p, i) ELSE {}
Writes(p, f, i) == IF f[i] = "dropped" THEN {} ELSE MayWrite(p, i)

(* Two statements whose order the program can observe.                     *)
Conflict(p, f, i, j) ==
  \/ Opaque(p[i]) /\ Opaque(p[j])
  \/ Writes(p, f, i) \intersect (Reads(p, f, j) \union Writes(p, f, j)) # {}
  \/ Reads(p, f, i) \intersect Writes(p, f, j) # {}

-----------------------------------------------------------------------------
VARIABLES
  source,         \* the benchmark as it was written
  at,             \* at[i]: where the compiler has put statement i
  fate            \* fate[i]: whether i is kept, folded to a constant or dropped

vars == <<source, at, fate>>

Statements == DOMAIN source

Init ==
  /\ source \in Programs
  /\ at = [i \in Statements |-> i]
  /\ fate = [i \in Statements |-> "kept"]

(* Two neighbours that do not conflict change places.                      *)
Swap(i, j) ==
  /\ at[j] = at[i] + 1
  /\ ~Conflict(source, fate, i, j)
  /\ at' = [at EXCEPT ![i] = at[j], ![j] = at[i]]
  /\ UNCHANGED <<source, fate>>

(* The statements between i and j in the compiled program.                 *)
Between(i, j) == {x \in Statements : at[i] < at[x] /\ at[x] < at[j]}

(* What i assigns is assigned anew before it is read.                      *)
Dead(i) ==
  \A v \in Writes(source, fate, i), r \in Statements :
     at[i] < at[r] /\ v \in Reads(source, fate, r)
       => \E x \in Between(i, r) : fate[x] # "dropped" /\ v \in source[x].writes

Drop(i) ==
  /\ ~Opaque(source[i])
  /\ fate[i] # "dropped"
  /\ Dead(i)
  /\ fate' = [fate EXCEPT ![i] = "dropped"]
  /\ UNCHANGED <<source, at>>

Constant(i) ==
  fate[i] = "folded" \/ (~Opaque(source[i]) /\ source[i].reads = {})

(* Every operand of i was last assigned a constant.                        *)
Known(i) ==
  \A v \in Reads(source, fate, i) :
     \E w \in Statements :
        /\ at[w] < at[i]
        /\ v \in Writes(source, fate, w)
        /\ Constant(w)
        /\ \A x \in Between(w, i) : v \notin Writes(source, fate, x)

Fold(i) ==
  /\ ~Opaque(source[i])
  /\ fate[i] = "kept"
  /\ source[i].reads # {}
  /\ Known(i)
  /\ fate' = [fate EXCEPT ![i] = "folded"]
  /\ UNCHANGED <<source, at>>

Next ==
  \/ \E i, j \in Statements : Swap(i, j)
  \/ \E i \in Statements : Drop(i)
  \/ \E i \in Statements : Fold(i)

Spec == Init /\ [][Next]_vars

-----------------------------------------------------------------------------
(***************************************************************************)
(* The compiled benchmark.                                                 *)
(***************************************************************************)
(* WasmBenchmark::is_valid looks for both imports: the compiler emits one  *)
(* for an imported function that is still called, be it in code that this  *)
(* benchmark never gets to.                                                *)
has_import_function(name) ==
  \/ name \in Unexecuted
  \/ \E i \in Statements : source[i].callee = name /\ fate[i] = "kept"

is_valid == has_import_function("bench.start") /\ has_import_function("bench.end")

Calls(p, name) == {i \in DOMAIN p : p[i].callee = name}

(* A statement that computes something from variables.                     *)
Work(p) == {i \in DOMAIN p : p[i].callee = "none" /\ p[i].reads # {}}

(* The work the author put between s and e.                                *)
Kernel(p, s, e) == {k \in Work(p) : s < k /\ k < e}

(* The work executed while the recorder measures.                          *)
Measured(s, e) ==
  {k \in Work(source) : fate[k] = "kept" /\ at[s] < at[k] /\ at[k] < at[e]}

(* The variables the author counts as seen and changed by statement i: for *)
(* a call, also those that were given to BLACK_BOX by then.                *)
Hidden(p, i) ==
  IF p[i].callee = "none" THEN {} ELSE UNION {p[j].named : j \in 1..i}

(* j uses the value that i gives v, as far as the source tells.            *)
Gives(p, i, v, j) ==
  /\ i < j
  /\ v \in p[i].writes \union Hidden(p, i)
  /\ v \in p[j].reads \union Hidden(p, j)
  /\ \A w \in DOMAIN p : i < w /\ w < j => v \notin p[w].writes \union Hidden(p, w)

(* k works on a value that the compiler cannot know, for it comes from a   *)
(* call not before lo, or from the rest of K.                              *)
Fed(p, K, k, lo) ==
  \E v \in p[k].reads, w \in DOMAIN p :
     Gives(p, w, v, k) /\ (w \in K \/ (p[w].callee # "none" /\ lo <= w))

(* A call not after hi, or the rest of K, reads what k computes.           *)
Used(p, K, k, hi) ==
  \E v \in p[k].writes, r \in DOMAIN p :
     Gives(p, k, v, r) /\ (r \in K \/ (p[r].callee # "none" /\ r <= hi))

(* The kernel gets its input from lo on and leaves its result by hi.       *)
Anchored(p, K, lo, hi) == \A k \in K : Fed(p, K, k, lo) /\ Used(p, K, k, hi)

(* Everything before s is used by a call up to s, everything after e is    *)
(* fed by one from e on.                                                   *)
Fenced(p, s, e) ==
  \A k \in Work(p) :
     /\ k < s => Used(p, {}, k, s)
     /\ e < k => Fed(p, {}, k, e)

(* benchmarks/README.md: one bench.start, and one bench.end after it.      *)
Marks(p) ==
  {m \in Calls(p, "bench.start") \X Calls(p, "bench.end") :
     /\ m[1] < m[2]
     /\ Calls(p, "bench.start") = {m[1]}
     /\ Calls(p, "bench.end") = {m[2]}}

-----------------------------------------------------------------------------
(* Whatever the compiler does, a benchmark makes the calls of its source,  *)
(* all of them and in their order, and validation finds the imports the    *)
(* source has, whether or not it executes them.  This is what lets Runner  *)
(* assume that a benchmark whose source calls bench.start and bench.end    *)
(* once each calls them so.                                                *)
CallsAsPrescribed ==
  /\ \A i, j \in Statements :
        source[i].callee # "none" /\ source[j].callee # "none" /\ i < j
          => fate[i] = "kept" /\ fate[j] = "kept" /\ at[i] < at[j]
  /\ is_valid <=> \A name \in {"bench.start", "bench.end"} :
                     name \in Unexecuted \/ Calls(source, name) # {}

(* The header's use: when the input of the kernel is hidden at bench_start *)
(* or after it, and its result is handed over by bench_end, what is        *)
(* executed between the two calls includes the kernel, all of it.          *)
KernelMeasured ==
  \A m \in Marks(source) :
     LET K == Kernel(source, m[1], m[2])
     IN  Anchored(source, K, m[1], m[2]) => K \subseteq Measured(m[1], m[2])

(* When the work around the kernel is fenced in the same way, nothing else *)
(* is measured.                                                            *)
NothingElseMeasured ==
  \A m \in Marks(source) :
     Fenced(source, m[1], m[2])
       => Measured(m[1], m[2]) \subseteq Kernel(source, m[1], m[2])

(* benchmarks/README.md: a kernel whose input comes from I/O, or from a    *)
(* BLACK_BOX, and whose result goes there is not optimised away, even if   *)
(* nothing keeps it between the two calls.                                 *)
KernelComputed ==
  \A m \in Marks(source) :
     LET K == Kernel(source, m[1], m[2])
     IN  Anchored(source, K, 1, Len(source)) => \A k \in K : fate[k] = "kept"
=============================================================================
