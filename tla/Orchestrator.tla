---------------------------- MODULE Orchestrator -----------------------------
(***************************************************************************)
(* `sightglass-cli benchmark` with more than one process:                  *)
(* execute_in_multiple_processes of crates/cli/src/benchmark.rs.  The      *)
(* parent keeps a worklist of engine and benchmark pairs with the number   *)
(* of processes each still needs, spawns a child for a randomly picked     *)
(* entry, waits for it, takes over the measurements it printed, and writes *)
(* all of them when the worklist is empty.  A child is the program modelled *)
(* in Runner; here it only succeeds with parsable results, succeeds with   *)
(* results that cannot be parsed, or fails.                                *)
(***************************************************************************)
EXTENDS Results

CONSTANTS
  NEngines,       \* number of --engine arguments
  NWasms,         \* number of benchmark files
  Processes,      \* --processes
  Paths,          \* Paths[i]: path of the i-th engine
  Commands,       \* the command lines considered
  Groups,         \* phases and events that a child measures
  NotGiven,       \* an option that is left out
  NoChild         \* no child process is running

Engines == 1..NEngines
Wasms   == 1..NWasms
Pairs   == Engines \X Wasms

(* The arguments that the parent gives a child: one engine, by its path,   *)
(* one benchmark, and raw JSON as its output; --name and --working-dir are *)
(* not among them.                                                         *)
ChildCommands ==
  [engine : Engines, wasm : Wasms, raw : {TRUE}, format : {"json"},
   names : {<<>>}, workingDir : {NotGiven}]

ASSUME OrchestratorAssumption ==
  /\ NEngines \in Nat \ {0}
  /\ NWasms \in Nat
  /\ Processes \in Nat \ {0, 1}
  /\ Paths \in Seq(STRING) /\ DOMAIN Paths = Engines
  /\ \A c \in Commands : c.raw \in BOOLEAN /\ c.format \in {"json", "csv"}
                         /\ c.level \in {"valid", "invalid"}
  /\ NoChild \notin [index : Nat, command : ChildCommands]

VARIABLES
  cmd,            \* the command line
  pc,             \* control point of the parent
  ei,             \* engines checked and put on the worklist so far
  choices,        \* the worklist
  child,          \* index of its entry and command line of the running child
  i,              \* children that have exited successfully
  collected,      \* children of each pair whose measurements were taken over
  reported,       \* engine, benchmark, phase and event of those measurements
  output          \* the output file

vars == <<cmd, pc, ei, choices, child, i, collected, reported, output>>

Terminal == {"done", "failed"}

(* Slip: the total counts the entries of the worklist only.                *)
TotalEntries == NEngines * NWasms

(* `n`, the total the progress report is computed against.                 *)
TotalRuns == NEngines * NWasms * Processes

PairOf(choice) == <<choice.engine, choice.wasm>>

(* --working-dir, or else the parent directory of the benchmark.           *)
WorkingDirectory(command, wasm) ==
  IF command.workingDir # NotGiven THEN command.workingDir ELSE <<"parent of", wasm>>

ChildCommand(choice) ==
  [engine |-> choice.engine, wasm |-> choice.wasm, raw |-> TRUE,
   format |-> "json", names |-> <<>>, workingDir |-> NotGiven]

(* The child names its only engine in every measurement it prints.         *)
ChildReport(command) ==
  {[engine |-> EngineName(command.names, <<Paths[command.engine]>>, 1),
    wasm |-> command.wasm, phase |-> g.phase, event |-> g.event] : g \in Groups}

(* Slip: Vec::pop, the last entry goes, whichever was to be removed.       *)
PopLast(s, k) == [j \in 1..(Len(s) - 1) |-> s[j]]

(* Vec::swap_remove: the last entry takes the place of the removed one.    *)
SwapRemove(s, k) ==
  [j \in 1..(Len(s) - 1) |-> IF j = k THEN s[Len(s)] ELSE s[j]]

(* Slips: the last entry goes for a finished one; an entry is done    *)
(* after one process, never, or one too late.                              *)
ConsumedPop(s, k) ==
  IF s[k].left = 1 THEN PopLast(s, k) ELSE [s EXCEPT ![k].left = @ - 1]
ConsumedWhole(s, k) == SwapRemove(s, k)
NeverConsumed(s, k) == s
ConsumedLate(s, k) ==
  IF s[k].left = 0 THEN SwapRemove(s, k) ELSE [s EXCEPT ![k].left = @ - 1]

(* One process less to go for the k-th entry.                              *)
Consumed(s, k) ==
  IF s[k].left = 1 THEN SwapRemove(s, k) ELSE [s EXCEPT ![k].left = @ - 1]

-----------------------------------------------------------------------------
Init ==
  /\ cmd \in Commands
  /\ pc = "create-output"
  /\ ei = 0
  /\ choices = <<>>
  /\ child = NoChild
  /\ i = 0
  /\ collected = [p \in Pairs |-> 0]
  /\ reported = {}
  /\ output = "previous"

(* The output file is created, and so emptied, before anything else.       *)
CreateOutput ==
  /\ pc = "create-output"
  /\ \/ pc' = "check-engines" /\ output' = "empty"
     \/ pc' = "failed" /\ output' \in {"previous", "empty"}
  /\ UNCHANGED <<cmd, ei, choices, child, i, collected, reported>>

(* An engine that exists goes on the worklist with every benchmark.        *)
CheckEngine ==
  /\ pc = "check-engines" /\ ei < NEngines
  /\ ei' = ei + 1
  /\ choices' = choices \o
       [w \in Wasms |-> [engine |-> ei + 1, wasm |-> w, left |-> Processes]]
  /\ UNCHANGED <<cmd, pc, child, i, collected, reported, output>>

EngineMissing ==
  /\ pc = "check-engines" /\ ei < NEngines
  /\ pc' = "failed"
  /\ UNCHANGED <<cmd, ei, choices, child, i, collected, reported, output>>

EnginesChecked ==
  /\ pc = "check-engines" /\ ei = NEngines
  /\ pc' = "loop"
  /\ UNCHANGED <<cmd, ei, choices, child, i, collected, reported, output>>

SpawnChild(k) ==
  /\ pc = "loop"
  /\ child' = [index |-> k, command |-> ChildCommand(choices[k])]
  /\ pc' = "wait"
  /\ UNCHANGED <<cmd, ei, choices, i, collected, reported, output>>

(* A child that exits successfully is counted before its output is parsed. *)
ChildSucceeds ==
  /\ pc = "wait"
  /\ i' = i + 1
  /\ collected' = [collected EXCEPT ![PairOf(choices[child.index])] = @ + 1]
  /\ reported' = reported \union ChildReport(child.command)
  /\ choices' = Consumed(choices, child.index)
  /\ child' = NoChild
  /\ pc' = "loop"
  /\ UNCHANGED <<cmd, ei, output>>

ChildGarbled ==
  /\ pc = "wait"
  /\ i' = i + 1
  /\ child' = NoChild
  /\ pc' = "failed"
  /\ UNCHANGED <<cmd, ei, choices, collected, reported, output>>

(* The child cannot be run or does not exit successfully.                  *)
ChildFails ==
  /\ pc = "wait"
  /\ child' = NoChild
  /\ pc' = "failed"
  /\ UNCHANGED <<cmd, ei, choices, i, collected, reported, output>>

AllChildrenDone ==
  /\ pc = "loop" /\ choices = <<>>
  /\ pc' = "write"
  /\ UNCHANGED <<cmd, ei, choices, child, i, collected, reported, output>>

(* As in Runner: refused by the effect size or a panic before anything is  *)
(* written, an I/O error, or accepted.                                     *)
WriteResults ==
  /\ pc = "write"
  /\ \/ /\ WriteAccepts(cmd, NEngines, reported)
        /\ \/ pc' = "done" /\ output' \in WrittenOutputs(cmd)
           \/ pc' = "failed" /\ output' = "cut"
     \/ /\ \/ ~WriteAccepts(cmd, NEngines, reported)
           \/ SortMayPanic(cmd, NEngines, reported)
        /\ pc' = "failed" /\ output' = output
  /\ UNCHANGED <<cmd, ei, choices, child, i, collected, reported>>

(* The process has exited.                                                 *)
Exited == pc \in Terminal /\ UNCHANGED vars

Step ==
  \/ CreateOutput
  \/ CheckEngine \/ EngineMissing \/ EnginesChecked
  \/ \E k \in DOMAIN choices : SpawnChild(k)
  \/ ChildSucceeds \/ ChildGarbled \/ ChildFails
  \/ AllChildrenDone \/ WriteResults

Next == Step \/ Exited

(* The parent is a single thread that only ever waits for its child, which *)
(* is assumed to exit.                                                     *)
Spec == Init /\ [][Next]_vars /\ WF_vars(Step)

-----------------------------------------------------------------------------
Choices == [engine : Engines, wasm : Wasms, left : 1..Processes]

TypeOK ==
  /\ cmd \in Commands
  /\ pc \in Terminal \union {"create-output", "check-engines", "loop", "wait", "write"}
  /\ ei \in 0..NEngines
  /\ choices \in Seq(Choices)
  /\ pc = "wait" <=> child # NoChild
  /\ child # NoChild => /\ child.index \in DOMAIN choices
                        /\ child.command = ChildCommand(choices[child.index])
  /\ i \in Nat
  /\ collected \in [Pairs -> 0..Processes]
  /\ output \in {"previous", "empty", "cut", "results"}

(* The worklist and what has been collected account for every process: an  *)
(* entry is missing exactly as many as it has left to run, no pair has two *)
(* entries, and a pair that is not complete has one.  Swapping the last    *)
(* entry into the place of a finished one loses and repeats none.          *)
LeftToRun ==
  \A k \in DOMAIN choices :
     collected[PairOf(choices[k])] + choices[k].left = Processes

OneEntryPerPair ==
  \A k, l \in DOMAIN choices :
     PairOf(choices[k]) = PairOf(choices[l]) => k = l

UnfinishedListed ==
  \A p \in Pairs :
     p[1] <= ei /\ collected[p] < Processes =>
       \E k \in DOMAIN choices : PairOf(choices[k]) = p

WorklistAccounts == LeftToRun /\ OneEntryPerPair /\ UnfinishedListed

(* Results are written only for a complete set: every engine has run every *)
(* benchmark in exactly as many processes as were asked for.               *)
WrittenComplete ==
  pc \in {"write", "done"} => \A p \in Pairs : collected[p] = Processes

(* The counter of finished children stays within the total it is compared  *)
(* with and subtracted from (`debug_assert!(i <= n)`, `n - i`), and meets  *)
(* it at the end of the loop.                                              *)
ProgressWithinTotal ==
  /\ i <= TotalRuns
  /\ pc \in {"write", "done"} => i = TotalRuns

(* The options that a user gives hold in a child, too: it reports its      *)
(* engine under the name that --name "overrides", and runs its benchmark   *)
(* in the directory of --working-dir.                                      *)
OptionsReachChild ==
  child # NoChild =>
    LET engine == child.command.engine
        wasm == child.command.wasm
    IN  /\ EngineName(child.command.names, <<Paths[engine]>>, 1)
             = EngineName(cmd.names, Paths, engine)
        /\ WorkingDirectory(child.command, wasm) = WorkingDirectory(cmd, wasm)

(* The parent implements the plan of running each pair in the requested    *)
(* number of processes, and it ends.                                       *)
Outcome ==
  CASE pc = "done"   -> "succeeded"
    [] pc = "failed" -> "failed"
    [] OTHER         -> "running"

Plan == INSTANCE BenchPlan WITH
  Jobs <- Pairs, Times <- Processes, runs <- collected, outcome <- Outcome

RunsThePlan == Plan!Spec
=============================================================================
