------------------------------ MODULE MCUpload -------------------------------
(***************************************************************************)
(* A small instance of Upload for TLC.                                     *)
(*                                                                         *)
(* ann compares two engines built from the same build information, which   *)
(* therefore share their ID.  She packages her measurements with a dry run *)
(* and then uploads them, as bob does from her package.  bob has a third   *)
(* engine of that ID, and everyone's benchmark: with two tries whoever     *)
(* comes last finds no ID, and his own upload may meet hers.               *)
(***************************************************************************)
EXTENDS Upload

M(engine) == [engine |-> engine, wasm |-> "noop"]

MCMeasured ==
  [ann |-> <<M("new"), M("old")>>, bob |-> <<M("new")>>]

Built(path) ==
  [path |-> path, library |-> "bytes of " \o path,
   buildinfo |-> [text |-> "COMMIT=main", name |-> "wasmtime", datetime |-> "today"]]

On(machine, home, engines) ==
  [engines |-> engines,
   benchmarks |->
     [noop |-> [name |-> "noop", content |-> "(module)",
                path |-> [above |-> home, below |-> "benchmarks/noop/benchmark.wasm"]]],
   machine |-> machine]

MCFiles ==
  [ann |-> On("fast", "/ann", [new |-> Built("/ann/new"), old |-> Built("/ann/old")]),
   bob |-> On("slow", "/bob", [new |-> Built("/bob/new")])]

MCslug ==
  [c \in {"COMMIT=main", "(module)", "fast", "slow"} |-> IF c = "slow" THEN "s1" ELSE "s0"]

MCBatchSize == [ann |-> 1, bob |-> 2]

MCCommands ==
  [ann |-> <<{"--dry-run"}, {}>>, bob |-> <<{"--from-package"}, {}>>]
=============================================================================
