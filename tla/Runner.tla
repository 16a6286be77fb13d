------------------------------- MODULE Runner --------------------------------
(***************************************************************************)
(* `sightglass-cli benchmark --processes 1`: execute_in_current_process of *)
(* crates/cli/src/benchmark.rs, with the bench API of crates/recorder that *)
(* it drives.  For every engine and every benchmark the runner creates an  *)
(* engine, calls it for the phases it was asked for, lets the engine call  *)
(* back to start and end the measures, compares the benchmark's output     *)
(* with what is expected and, at the very end, writes what it collected.   *)
(*                                                                         *)
(* One action is one call that leaves the runner: into the file system,    *)
(* into the engine's shared library, or back from it.                      *)
(***************************************************************************)
EXTENDS Measure, Results, Bags

CONSTANTS
  NEngines,       \* number of --engine arguments
  NWasms,         \* number of benchmark files
  Iterations,     \* --iterations-per-process
  Types,          \* the --measure types, each given once
  Paths,          \* Paths[i]: path of the i-th engine
  Commands,       \* the command lines considered
  GuestCalls,     \* sequences of bench.start / bench.end a benchmark may call
  NoCall          \* no call into the engine is in progress

Streams == {"stdout", "stderr"}

(* --benchmark-phase, "all" when it is omitted.                            *)
PhaseOptions == {"all"} \union Phases

ASSUME RunnerAssumption ==
  /\ NEngines \in Nat \ {0}
  /\ NWasms \in Nat
  /\ Iterations \in Nat \ {0}
  /\ Types \subseteq MeasureTypes
  /\ DOMAIN Paths = 1..NEngines
  /\ \A c \in Commands : c.phase \in PhaseOptions /\ c.keepLogs \in BOOLEAN
                         /\ c.raw \in BOOLEAN /\ c.format \in {"json", "csv"}
                         /\ c.level \in {"valid", "invalid"}
  /\ GuestCalls \subseteq Seq({"start", "end"})
  /\ NeverStarted \notin Starts
  /\ NoCall \notin [phase : Phases, script : Seq({"start", "end"})]

VARIABLES
  cmd,            \* the command line
  expected,       \* streams that have an `.expected` file beside the benchmark
  pc,             \* control point of the runner
  ei, wi,         \* indices of the current engine and benchmark
  n,              \* completed iterations for the current engine and benchmark
  held,           \* which of Engine, Module, Instance the runner owns
  todo,           \* phases still to be called before the output is checked
  callbacks,      \* the call in progress and the callbacks it has yet to make
  timers,         \* state of each measure
  iteration,      \* Measurements.iteration
  measurements,   \* Measurements.measurements, as a bag
  collected,      \* all_measurements, as a bag
  logs,           \* content of the log files of this process
  unremoved,      \* history: logs that are there because removing them failed
  output,         \* the output file (or pipe) that receives the results
  suspect         \* history: an execution printed something unexpected

counters == <<ei, wi, n>>
recorder == <<timers, iteration, measurements>>
vars == <<cmd, expected, pc, counters, held, todo, callbacks, recorder,
          collected, logs, unremoved, output, suspect>>

Terminal == {"done", "failed", "panicked"}

Engines == 1..NEngines
Wasms   == 1..NWasms

(* The two log files of a benchmark.                                       *)
LogsOf(w) == {w} \X Streams

-----------------------------------------------------------------------------
(***************************************************************************)
(* Phases of an iteration: benchmark::{all, compilation, instantiation,    *)
(* execution} of crates/recorder/src/benchmark.rs.                         *)
(***************************************************************************)
Calls(option) ==
  CASE option = "all"           -> <<"compilation", "instantiation", "execution">>
    [] option = "compilation"   -> <<"compilation">>
    [] option = "instantiation" -> <<"instantiation">>
    [] option = "execution"     -> <<"instantiation", "execution">>

(* Slip: the module is never compiled ahead of the loop.                   *)
NoEagerCalls(option) == <<>>

(* A later phase is measured on a module compiled once, before the loop.   *)
EagerCalls(option) ==
  IF option \in {"instantiation", "execution"} THEN <<"compilation">> ELSE <<>>

(* What a call consumes, and what it gives back.                           *)
Receiver(phase) ==
  CASE phase = "compilation"   -> "engine"
    [] phase = "instantiation" -> "module"
    [] phase = "execution"     -> "instance"

Returned(phase) ==
  CASE phase = "compilation"   -> "module"
    [] phase = "instantiation" -> "instance"
    [] phase = "execution"     -> "module"

(* into_engine / into_module at the end of an iteration.                   *)
Rested(option) == IF option \in {"all", "compilation"} THEN "engine" ELSE "module"

(* The callbacks an engine makes during a call: it times compilation and   *)
(* instantiation itself, the benchmark times its own execution.            *)
CallbackScripts(phase) ==
  IF phase = "execution" THEN GuestCalls ELSE {<<"start", "end">>}

(* What `end` adds for a phase, given the starts the measures hold: every   *)
(* measure adds its own events, also when two of them count the same one.  *)
RecordOf(phase, event, start) ==
  [engine |-> EngineName(cmd.names, Paths, ei), wasm |-> wi,
   iteration |-> iteration, phase |-> phase, event |-> event, began |-> start]

Added(phase, starts) ==
  LET by(t) == {RecordOf(phase, e, starts[t]) : e \in Events(t)}
  IN  [r \in UNION {by(t) : t \in Types} |->
         Cardinality({t \in Types : r \in by(t)})]

(* Slip: what was measured on the way to the phase asked for stays in.     *)
RetainedAll(bag, option) == bag

(* Measurements of every phase but the one asked for are filtered out.     *)
Retained(bag, option) ==
  LET keep == {r \in DOMAIN bag : option = "all" \/ r.phase = option}
  IN  [r \in keep |-> bag[r]]

(* Slip: a run restricted to the execution phase is not checked.           *)
ChecksFullRuns == cmd.phase = "all"

(* Only a benchmark that is executed prints something to check.            *)
ChecksOutput == cmd.phase \in {"all", "execution"}

-----------------------------------------------------------------------------
Init ==
  /\ cmd \in Commands
  /\ expected \in SUBSET Streams
  /\ pc = "create-output"
  /\ ei = 1 /\ wi = 1 /\ n = 0
  /\ held = "nothing"
  /\ todo = <<>>
  /\ callbacks = NoCall
  /\ timers = [t \in Types |-> NeverStarted]
  /\ iteration = 0
  /\ measurements = EmptyBag
  /\ collected = EmptyBag
  /\ logs = [w \in Wasms |-> [s \in Streams |-> "absent"]]
  /\ unremoved = {}
  /\ output = "previous"
  /\ suspect = FALSE

(* An error is returned or a panic unwinds: the engine, if there is one,   *)
(* is dropped and whatever was measured is lost.                           *)
Abort(how) ==
  /\ pc' = how
  /\ held' = "nothing"
  /\ callbacks' = NoCall
  /\ todo' = <<>>

(* The output file is created, and so emptied, before anything else; then  *)
(* the process may be pinned.                                              *)
CreateOutput ==
  /\ pc = "create-output"
  /\ \/ pc' = "engine" /\ output' = "empty"
     \/ pc' = "failed" /\ output' = "previous"
     \/ pc' = "failed" /\ output' = "empty"
  /\ UNCHANGED <<cmd, expected, counters, held, todo, callbacks, recorder,
                 collected, logs, unremoved, suspect>>

(* check_engine_path, Library::new and BenchApi::new.                      *)
LoadEngine ==
  /\ pc = "engine"
  /\ IF ei > NEngines
       THEN pc' = "filter"
       ELSE pc' \in {"wasm", "failed"}
  /\ UNCHANGED <<cmd, expected, counters, held, todo, callbacks, recorder,
                 collected, logs, unremoved, output, suspect>>

(* The last benchmark of an engine is done: the library is closed, and an  *)
(* error while closing it is only logged.                                  *)
CloseEngine ==
  /\ pc = "wasm" /\ wi > NWasms
  /\ pc' = "engine"
  /\ ei' = ei + 1 /\ wi' = 1
  /\ UNCHANGED <<cmd, expected, n, held, todo, callbacks, recorder,
                 collected, logs, unremoved, output, suspect>>

(* The benchmark is read, its measurements and measures are created anew,  *)
(* and so is the engine, which creates both log files.                     *)
CreateEngine ==
  /\ pc = "wasm" /\ wi <= NWasms
  /\ timers' = [t \in Types |-> NeverStarted]
  /\ iteration' = 0
  /\ measurements' = EmptyBag
  /\ pc' = "run"
  /\ held' = "engine"
  /\ todo' = EagerCalls(cmd.phase) \o Calls(cmd.phase)
  /\ callbacks' = NoCall
  /\ logs' = [logs EXCEPT ![wi] = [s \in Streams |-> "empty"]]
  /\ unremoved' = unremoved \ LogsOf(wi)
  /\ UNCHANGED <<cmd, expected, counters, suspect, collected, output>>

(* The benchmark cannot be read, or the engine reports an error.           *)
CreateEngineFails ==
  /\ pc = "wasm" /\ wi <= NWasms
  /\ \E how \in {"failed", "panicked"} : Abort(how)
  /\ UNCHANGED <<cmd, expected, counters, recorder, collected, logs, unremoved,
                 output, suspect>>

-----------------------------------------------------------------------------
(***************************************************************************)
(* Engine, Module and Instance of crates/recorder/src/bench_api.rs.        *)
(***************************************************************************)
CallApi ==
  /\ pc = "run" /\ callbacks = NoCall /\ todo # <<>>
  /\ \E script \in CallbackScripts(Head(todo)) :
       callbacks' = [phase |-> Head(todo), script |-> script]
  /\ IF Head(todo) = "execution"
       THEN /\ logs' = [logs EXCEPT ![wi] = [s \in Streams |-> "empty"]]
            /\ unremoved' = unremoved \ LogsOf(wi)
       ELSE UNCHANGED <<logs, unremoved>>
  /\ UNCHANGED <<cmd, expected, pc, counters, held, todo, recorder, collected,
                 output, suspect>>

CallbackDue(name) ==
  /\ pc = "run" /\ callbacks # NoCall
  /\ callbacks.script # <<>> /\ Head(callbacks.script) = name

(* compilation_start, instantiation_start, execution_start                 *)
OnStart ==
  /\ CallbackDue("start")
  /\ IF \E t \in Types : StartPanics(t, timers[t])
       THEN /\ Abort("panicked")
            /\ UNCHANGED timers
       ELSE /\ timers' = [t \in Types |->
                 AfterStart(t, timers[t],
                   [phase |-> callbacks.phase, iteration |-> iteration])]
            /\ callbacks' = [callbacks EXCEPT !.script = Tail(@)]
            /\ UNCHANGED <<pc, held, todo>>
  /\ UNCHANGED <<cmd, expected, counters, iteration, measurements, collected,
                 logs, unremoved, output, suspect>>

(* compilation_end, instantiation_end, execution_end                       *)
OnEnd ==
  /\ CallbackDue("end")
  /\ IF \E t \in Types : EndPanics(t, timers[t])
       THEN /\ Abort("panicked")
            /\ UNCHANGED <<timers, measurements>>
       ELSE /\ measurements' = measurements (+) Added(callbacks.phase, timers)
            /\ timers' = [t \in Types |-> AfterEnd(t, timers[t])]
            /\ callbacks' = [callbacks EXCEPT !.script = Tail(@)]
            /\ UNCHANGED <<pc, held, todo>>
  /\ UNCHANGED <<cmd, expected, counters, iteration, collected, logs, unremoved,
                 output, suspect>>

CallReturning == pc = "run" /\ callbacks # NoCall /\ callbacks.script = <<>>

(* What the log of a stream holds once the benchmark has run; a log that   *)
(* was unlinked in the meantime stays absent, the benchmark wrote to it    *)
(* all the same.                                                           *)
WrittenLog(old, good) ==
  CASE old = "absent"         -> "absent"
    [] old = "empty" /\ good -> "right"
    [] OTHER                  -> "wrong"

(* The engine answers 0.  The value that was called is consumed and the    *)
(* next one takes its place.                                               *)
CallReturns ==
  /\ CallReturning
  /\ callbacks' = NoCall
  /\ todo' = Tail(todo)
  /\ IF callbacks.phase = "execution"
       THEN \E good \in SUBSET Streams :
              /\ logs' = [logs EXCEPT ![wi] =
                            [s \in Streams |-> WrittenLog(logs[wi][s], s \in good)]]
              /\ suspect' = (suspect \/ ~(expected \subseteq good))
       ELSE UNCHANGED <<logs, suspect>>
  /\ IF Tail(todo) = <<>>
       THEN pc' = "check-stdout" /\ held' = Rested(cmd.phase)
       ELSE pc' = "run" /\ held' = Returned(callbacks.phase)
  /\ UNCHANGED <<cmd, expected, counters, recorder, collected, unremoved, output>>

(* The engine answers with an error, which is asserted not to happen.      *)
CallFails ==
  /\ CallReturning
  /\ Abort("panicked")
  /\ UNCHANGED <<cmd, expected, counters, recorder, collected, logs, unremoved,
                 output, suspect>>

-----------------------------------------------------------------------------
(***************************************************************************)
(* check_output and compare_output_file, one file read at a time.  A       *)
(* missing expectation only warns; a missing log is an error.              *)
(***************************************************************************)
Checking(s) == pc = IF s = "stdout" THEN "check-stdout" ELSE "check-stderr"

Compared(s) == ChecksOutput /\ s \in expected

(* Slip: a log that is not there has nothing wrong in it.                  *)
AcceptsMissing(s) == Compared(s) => logs[wi][s] \in {"right", "absent"}

Accepts(s) == Compared(s) => logs[wi][s] = "right"

CheckPasses(s) ==
  /\ Checking(s)
  /\ Accepts(s)
  /\ pc' = IF s = "stdout" THEN "check-stderr" ELSE "remove-stdout"
  /\ UNCHANGED <<cmd, expected, counters, held, todo, callbacks, recorder,
                 collected, logs, unremoved, output, suspect>>

(* The contents differ, or one of the two files cannot be read as text.    *)
(* The logs stay where they are and the error is returned.                 *)
CheckFails(s) ==
  /\ Checking(s)
  /\ Compared(s)
  /\ Abort("failed")
  /\ UNCHANGED <<cmd, expected, counters, recorder, collected, logs, unremoved,
                 output, suspect>>

(* Slip: only the log of stdout is cleaned up.                             *)
KeepsStderrLog(s) == cmd.keepLogs \/ s = "stderr"

KeepsLog(s) == cmd.keepLogs

(* Errors of remove_file are ignored, and the log stays where it is.       *)
RemoveLog(s) ==
  /\ pc = IF s = "stdout" THEN "remove-stdout" ELSE "remove-stderr"
  /\ pc' = IF s = "stdout" THEN "remove-stderr" ELSE "next"
  /\ \/ /\ KeepsLog(s)
        /\ UNCHANGED <<logs, unremoved>>
     \/ /\ ~KeepsLog(s)
        /\ logs' = [logs EXCEPT ![wi][s] = "absent"]
        /\ unremoved' = unremoved \ {<<wi, s>>}
     \/ /\ ~KeepsLog(s) /\ logs[wi][s] # "absent"
        /\ unremoved' = unremoved \union {<<wi, s>>}
        /\ UNCHANGED logs
  /\ UNCHANGED <<cmd, expected, counters, held, todo, callbacks, recorder,
                 collected, output, suspect>>

(* Slips: one pass of the loop too many, one too few.                      *)
PastLastIteration == n < Iterations
ShortOfLastIteration == n + 2 < Iterations

MoreIterations == n + 1 < Iterations

(* next_iteration, and another pass of the loop over the iterations.       *)
NextIteration ==
  /\ pc = "next" /\ MoreIterations
  /\ n' = n + 1
  /\ iteration' = iteration + 1
  /\ todo' = Calls(cmd.phase)
  /\ pc' = "run"
  /\ UNCHANGED <<cmd, expected, ei, wi, held, callbacks, timers, measurements,
                 collected, logs, unremoved, output, suspect>>

(* The last iteration: the engine is dropped, its measurements are taken   *)
(* over and the next benchmark follows.                                    *)
FinishBenchmark ==
  /\ pc = "next" /\ ~MoreIterations
  /\ n' = 0
  /\ iteration' = iteration + 1
  /\ held' = "nothing"
  /\ collected' = collected (+) measurements
  /\ wi' = wi + 1
  /\ pc' = "wasm"
  /\ UNCHANGED <<cmd, expected, ei, todo, callbacks, timers, measurements, logs,
                 unremoved, output, suspect>>

FilterPhase ==
  /\ pc = "filter"
  /\ collected' = Retained(collected, cmd.phase)
  /\ pc' = "write"
  /\ UNCHANGED <<cmd, expected, counters, held, todo, callbacks, recorder, logs,
                 unremoved, output, suspect>>

(* write_results: refused by the effect size, a panic before anything is   *)
(* written, an I/O error on the way, or accepted by the buffer in front of *)
(* the file.                                                               *)
WriteResults ==
  /\ pc = "write"
  /\ IF WriteAccepts(cmd, NEngines, DOMAIN collected)
       THEN \/ pc' = "done" /\ output' \in WrittenOutputs(cmd)
            \/ pc' = "failed" /\ output' = "cut"
            \/ /\ SortMayPanic(cmd, NEngines, DOMAIN collected)
               /\ pc' = "panicked" /\ output' = output
       ELSE pc' = "failed" /\ output' = output
  /\ UNCHANGED <<cmd, expected, counters, held, todo, callbacks, recorder,
                 collected, logs, unremoved, suspect>>

(* The process has exited.                                                 *)
Exited == pc \in Terminal /\ UNCHANGED vars

Step ==
  \/ CreateOutput \/ LoadEngine \/ CloseEngine
  \/ CreateEngine \/ CreateEngineFails
  \/ CallApi \/ OnStart \/ OnEnd \/ CallReturns \/ CallFails
  \/ \E s \in Streams : CheckPasses(s) \/ CheckFails(s) \/ RemoveLog(s)
  \/ NextIteration \/ FinishBenchmark \/ FilterPhase \/ WriteResults

Next == Step \/ Exited

(* The runner is a single thread that only ever waits for the engine,      *)
(* which is assumed to return.                                             *)
Spec == Init /\ [][Next]_vars /\ WF_vars(Step)

-----------------------------------------------------------------------------
TypeOK ==
  /\ cmd \in Commands
  /\ expected \subseteq Streams
  /\ pc \in Terminal \union
       {"create-output", "engine", "wasm", "run", "check-stdout", "check-stderr",
        "remove-stdout", "remove-stderr", "next", "filter", "write"}
  /\ ei \in 1..(NEngines + 1)
  /\ wi \in 1..(NWasms + 1)
  /\ n \in 0..(Iterations - 1)
  /\ held \in {"nothing", "engine", "module", "instance"}
  /\ todo \in Seq(Phases)
  /\ callbacks \in [phase : Phases, script : Seq({"start", "end"})] \union {NoCall}
  /\ timers \in [Types -> Starts \union {NeverStarted}]
  /\ iteration \in 0..Iterations
  /\ IsABag(measurements) /\ IsABag(collected)
  /\ logs \in [Wasms -> [Streams -> {"absent", "empty", "right", "wrong"}]]
  /\ unremoved \subseteq Wasms \X Streams
  /\ output \in {"previous", "empty", "cut", "results"}
  /\ suspect \in BOOLEAN

(* The runner takes the engine or module out of an Option before each      *)
(* call, and that Option is never empty: the eager compilation, the calls  *)
(* of an iteration and what each of them returns fit together for every    *)
(* --benchmark-phase (the `take().unwrap()`s of the iteration loop).       *)
ReceiverHeld ==
  pc = "run" /\ callbacks = NoCall /\ todo # <<>> => held = Receiver(Head(todo))

(* A benchmark whose output is not what was expected ends the run at the   *)
(* next comparison: no further call is made, nothing is written, and it    *)
(* does not matter which iteration or stream it was (check_output).        *)
WrongOutputStopsRun ==
  suspect => pc \in {"check-stdout", "check-stderr", "failed"}

(* The measurements that are written are those of every engine, benchmark, *)
(* iteration and requested phase, each exactly once for every measure that *)
(* counts its event, taken from a start in the same phase and iteration;   *)
(* the phases run only to get there are filtered out again.                *)
WrittenBag ==
  LET phases == IF cmd.phase = "all" THEN Phases ELSE {cmd.phase}
      name(e) == EngineName(cmd.names, Paths, e)
      events == UNION {Events(t) : t \in Types}
      records == [engine : {name(e) : e \in Engines}, wasm : Wasms,
                  iteration : 0..(Iterations - 1), phase : phases, event : events,
                  began : [phase : phases, iteration : 0..(Iterations - 1)]]
  IN  [r \in {x \in records : x.began = [phase |-> x.phase, iteration |-> x.iteration]} |->
         Cardinality({e \in Engines : name(e) = r.engine})
           * Cardinality({t \in Types : r.event \in Events(t)})]

ResultsExact == pc \in {"write", "done"} => collected = WrittenBag

(* Logs are removed after a successful iteration unless --keep-logs asks   *)
(* to keep them, and those of a benchmark that printed something wrong     *)
(* are there to be looked at ("By default, logs are only kept on           *)
(* failures").  What a successful run leaves all the same are logs whose   *)
(* last removal failed, whichever iteration or engine that was in.         *)
LogsPolicy ==
  /\ pc = "done" /\ ~cmd.keepLogs =>
       \A w \in Wasms, s \in Streams : logs[w][s] = "absent" \/ <<w, s>> \in unremoved
  /\ pc = "done" /\ cmd.keepLogs =>
       \A w \in Wasms, s \in Streams : logs[w][s] # "absent"
  /\ suspect /\ pc = "failed" => \A s \in Streams : logs[wi][s] # "absent"

(* The runner implements the plan of running each engine on each benchmark *)
(* for the requested number of iterations, and it ends.                    *)
Outcome ==
  CASE pc = "done"                 -> "succeeded"
    [] pc \in {"failed", "panicked"} -> "failed"
    [] OTHER                       -> "running"

IterationsDone(e, w) ==
  CASE e < ei \/ (e = ei /\ w < wi) -> Iterations
    [] e = ei /\ w = wi              -> n
    [] OTHER                         -> 0

Plan == INSTANCE BenchPlan WITH
  Jobs <- Engines \X Wasms, Times <- Iterations,
  runs <- [j \in Engines \X Wasms |-> IterationsDone(j[1], j[2])],
  outcome <- Outcome

RunsThePlan == Plan!Spec
=============================================================================
