------------------------------- MODULE Measure -------------------------------
(***************************************************************************)
(* The measuring mechanisms of crates/recorder/src/measure: what `start`   *)
(* and `end` do to a mechanism's state, which events `end` records and     *)
(* when either of them panics.  The clock values and counts themselves are *)
(* abstracted to their provenance: the phase and iteration of the `start`  *)
(* that a recorded count was measured from.                                *)
(***************************************************************************)
EXTENDS Naturals, FiniteSets

CONSTANT NeverStarted       \* the state of a mechanism with no start to close

Phases == {"compilation", "instantiation", "execution"}

MeasureTypes ==
  {"noop", "time", "cycles", "vtune", "perf-counters", "insts-retired"}

(* Where a count was measured from: the phase and iteration of the start.  *)
Starts == [phase : Phases, iteration : Nat]

(* The events one `end` adds to the Measurements.                          *)
Events(type) ==
  CASE type = "time"          -> {"nanoseconds"}
    [] type = "cycles"        -> {"cycles"}
    [] type = "insts-retired" -> {"instructions-retired"}
    [] type = "perf-counters" -> {"cpu-cycles", "instructions-retired",
                                  "cache-accesses", "cache-misses", "task-clocks"}
    [] OTHER                  -> {}

(* Mechanisms that hold their start in an Option and take it in `end`.     *)
TakesStart == {"time", "cycles", "vtune"}

StartPanics(type, state) == type = "vtune" /\ state # NeverStarted

AfterStart(type, state, start) == IF type = "noop" THEN state ELSE start

EndPanics(type, state) == type \in TakesStart /\ state = NeverStarted

(* A hardware counter is disabled and read, not taken: it keeps its count. *)
AfterEnd(type, state) == IF type \in TakesStart THEN NeverStarted ELSE state
=============================================================================
