------------------------------- MODULE Results -------------------------------
(***************************************************************************)
(* What `write_results` of crates/cli/src/benchmark.rs makes of the        *)
(* measurements a benchmarking process has collected, and under which name *)
(* an engine appears in them.  Shared by the in-process runner (Runner)    *)
(* and by the parent of many processes (Orchestrator).                     *)
(***************************************************************************)
EXTENDS Naturals, FiniteSets, Sequences

(* `--name` overrides the path of the engine at the same position.         *)
EngineName(names, paths, i) == IF i \in DOMAIN names THEN names[i] ELSE paths[i]

(* Two measurements fall into the same group of an effect-size analysis.   *)
SameKey(r, s) ==
  /\ r.wasm = s.wasm
  /\ r.phase = s.phase
  /\ r.event = s.event

(* The effect size is computed at a significance level between 0 and 1,    *)
(* and between exactly two engines in each group.                          *)
EffectSizeAccepts(level, records) ==
  /\ level = "valid"
  /\ \A r \in records :
       Cardinality({s.engine : s \in {t \in records : SameKey(r, t)}}) = 2

(* Raw output and summaries take any measurements, the effect size of a    *)
(* two-engine run only those it can compare.                               *)
WriteAccepts(command, engines, records) ==
  \/ command.raw
  \/ engines # 2
  \/ EffectSizeAccepts(command.level, records)

(* Effect sizes that are not significant are sorted by a ratio of means,   *)
(* which panics when no engine has counted anything of an event.  Counts   *)
(* are left out, so it may happen whenever there are two groups to sort.   *)
SortMayPanic(command, engines, records) ==
  /\ ~command.raw /\ engines = 2
  /\ \E r, s \in records : ~SameKey(r, s)

(* What the output file holds when `write_results` returns Ok.  Only the   *)
(* CSV writer flushes the buffer in front of the file; otherwise the       *)
(* buffer is flushed when it is dropped, which reports no error.           *)
WrittenOutputs(command) ==
  IF command.raw /\ command.format = "csv" THEN {"results"} ELSE {"results", "cut"}
=============================================================================
