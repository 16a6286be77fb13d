---------------------------- MODULE MCNativeEngine ---------------------------
(***************************************************************************)
(* A small instance of NativeEngine for TLC: two benchmarks run one after  *)
(* the other, each any number of times, with the logs kept or removed.     *)
(***************************************************************************)
EXTENDS NativeEngine, TLC

(* Benchmarks and files are only compared with each other.                 *)
Symmetry == Permutations(Benchmarks) \union Permutations(Inodes)
=============================================================================
