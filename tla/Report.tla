------------------------------- MODULE Report --------------------------------
(***************************************************************************)
(* `sightglass-cli report` (crates/cli/src/report.rs and report.jinja,     *)
(* crates/analysis/src/report_stats.rs): it reads measurements from all    *)
(* its input files, compares for each benchmark every engine with a        *)
(* baseline engine and renders the statistics as an HTML table.  Groups    *)
(* are kept in hash maps, so benchmarks and engines are visited in any     *)
(* order.                                                                  *)
(*                                                                         *)
(* Consecutive measurements that only differ in their counts are one       *)
(* block.  A benchmark and an engine's label are abstracted to their ranks *)
(* in the order of names, and statistics to the blocks they come from.     *)
(***************************************************************************)
EXTENDS Naturals, SequencesExt

CONSTANTS
  Commands,       \* command lines: format, baseline, level
  Inputs,         \* the sequences of input files considered
  NotGiven        \* an option that is left out

(* A file holds blocks in one format, its name has a suffix; a block is of *)
(* an engine and the file of a benchmark, is `selected` when its event and *)
(* phase are those to be reported, and stands for `samples` measurements.  *)
ASSUME ReportAssumption ==
  LET wasms  == [form : STRING, benchmark : Nat]
      blocks == [engine : Nat, wasm : wasms, selected : BOOLEAN, samples : Nat \ {0}]
  IN  /\ Inputs \subseteq Seq([holds : {"json", "csv"}, suffix : STRING, blocks : Seq(blocks)])
      /\ \A c \in Commands : /\ c.format \in {"json", "csv", NotGiven}
                             /\ c.baseline \in Nat \union {NotGiven}
                             /\ c.level \in {"valid", "invalid"}
      /\ NotGiven \notin Nat \union {"json", "csv"}

VARIABLES
  cmd,            \* the command line
  files,          \* the input files
  pc,             \* control point
  fi,             \* the next file to read
  measurements,   \* what has been read: blocks, named by file and position
  left,           \* benchmarks whose statistics are yet to be calculated
  stats,          \* statistics of the others, by benchmark and engine
  output          \* the output file

vars == <<cmd, files, pc, fi, measurements, left, stats, output>>

Terminal == {"done", "failed", "rejected"}

-----------------------------------------------------------------------------
(* The path of a benchmark's Wasm file may begin and end in several ways   *)
(* (extract_benchmark_name).                                               *)
BenchmarkName(wasm) == wasm.benchmark

(* The format is the one given, or else inferred from the file name.       *)
FormatOf(file) ==
  CASE cmd.format # NotGiven  -> cmd.format
    [] file.suffix = "csv"    -> "csv"
    [] OTHER                  -> "json"

(* JSON on a single line is the row of headers of a CSV file without rows. *)
Parsed(f) ==
  IF FormatOf(files[f]) = files[f].holds
    THEN [i \in DOMAIN files[f].blocks |-> <<f, i>>]
    ELSE <<>>

Block(m) == files[m[1]].blocks[m[2]]

SelectedBlocks == {m \in ToSet(measurements) : Block(m).selected}

Benchmarks == {BenchmarkName(Block(m).wasm) : m \in SelectedBlocks}

(* Slip: events and phases are told apart for benchmarks only.             *)
GroupUnselected(b, e) ==
  {m \in ToSet(measurements) : BenchmarkName(Block(m).wasm) = b /\ Block(m).engine = e}

Group(b, e) ==
  {m \in SelectedBlocks : BenchmarkName(Block(m).wasm) = b /\ Block(m).engine = e}

Engines(b) == {e \in {Block(m).engine : m \in SelectedBlocks} : Group(b, e) # {}}

Samples(group) == MapThenSumSet(LAMBDA m : Block(m).samples, group)

(* determine_baseline_engine: the first engine of all measurements, also   *)
(* if none of its measurements is selected.                                *)
Baseline ==
  CASE cmd.baseline # NotGiven -> cmd.baseline
    [] measurements = <<>>     -> NotGiven
    [] OTHER                   -> Block(Head(measurements)).engine

(* Slip: an engine may make up for another one.                            *)
EnoughOnAverage(b) ==
  Samples(UNION {Group(b, e) : e \in Engines(b)}) >= 3 * Cardinality(Engines(b))

EnoughSamples(b) == \A e \in Engines(b) : Samples(Group(b, e)) >= 3

(* Slip: an engine is compared with itself, too.                           *)
VersusBaseline(b, e) == Group(b, Baseline)

(* relative_stats: what an engine other than the baseline is compared with.*)
Versus(b, e) == IF e = Baseline THEN {} ELSE Group(b, Baseline)

-----------------------------------------------------------------------------
Init ==
  /\ cmd \in Commands
  /\ files \in Inputs
  /\ pc = "read"
  /\ fi = 1
  /\ measurements = <<>>
  /\ left = {}
  /\ stats = <<>>
  /\ output = "previous"

(* parse_input works on a clone of the format, so that every CSV file is   *)
(* expected to have headers.                                               *)
ReadFile ==
  /\ pc = "read" /\ fi <= Len(files)
  /\ ~(FormatOf(files[fi]) = "json" /\ files[fi].holds = "csv")
  /\ measurements' = measurements \o Parsed(fi)
  /\ fi' = fi + 1
  /\ UNCHANGED <<cmd, files, pc, left, stats, output>>

(* A file cannot be opened, or is not JSON.                                *)
ReadFails ==
  /\ pc = "read" /\ fi <= Len(files)
  /\ pc' = "failed"
  /\ UNCHANGED <<cmd, files, fi, measurements, left, stats, output>>

(* Measurements of the event and phase are grouped by benchmark.           *)
GroupMeasurements ==
  /\ pc = "read" /\ fi > Len(files)
  /\ left' = Benchmarks
  /\ pc' = IF Benchmarks = {} THEN "rejected" ELSE "calculate"
  /\ UNCHANGED <<cmd, files, fi, measurements, stats, output>>

(* Slip: no baseline is needed.                                            *)
AcceptableAlone(b) == EnoughSamples(b) /\ cmd.level = "valid"

(* Any engine may be the first to be found wanting.                        *)
Acceptable(b) ==
  /\ Baseline \in Engines(b)
  /\ EnoughSamples(b)
  /\ cmd.level = "valid"

(* One benchmark, whichever the hash map has next.                         *)
CalculateBenchmark(b) ==
  /\ pc = "calculate" /\ Acceptable(b)
  /\ LET row == [e \in Engines(b) |-> [group |-> Group(b, e), versus |-> Versus(b, e)]]
     IN  stats' = [c \in DOMAIN stats \union {b} |-> IF c = b THEN row ELSE stats[c]]
  /\ left' = left \ {b}
  /\ UNCHANGED <<cmd, files, pc, fi, measurements, output>>

RejectBenchmark(b) ==
  /\ pc = "calculate" /\ ~Acceptable(b)
  /\ pc' = "rejected"
  /\ UNCHANGED <<cmd, files, fi, measurements, left, stats, output>>

(* The output file is created before the template is rendered.             *)
CreateOutput ==
  /\ pc = "calculate" /\ left = {}
  /\ \/ pc' = "render" /\ output' = "empty"
     \/ pc' = "failed" /\ output' = "previous"
  /\ UNCHANGED <<cmd, files, fi, measurements, left, stats>>

Render ==
  /\ pc = "render"
  /\ \/ pc' = "done" /\ output' = "report"
     \/ pc' = "failed" /\ output' \in {"empty", "cut"}
  /\ UNCHANGED <<cmd, files, fi, measurements, left, stats>>

(* The process has exited.                                                 *)
Exited == pc \in Terminal /\ UNCHANGED vars

Next ==
  \/ ReadFile \/ ReadFails \/ GroupMeasurements
  \/ \E b \in left : CalculateBenchmark(b) \/ RejectBenchmark(b)
  \/ CreateOutput \/ Render
  \/ Exited

Spec == Init /\ [][Next]_vars

-----------------------------------------------------------------------------
(***************************************************************************)
(* The table of report.jinja.  Benchmarks are sorted by name and so are    *)
(* the entries of a map in a template, whichever of them are shown.        *)
(***************************************************************************)
Sorted(set) == SetToSortSeq(set, <)

(* The columns after the baseline's: the engines of the first benchmark.   *)
Columns == Sorted(DOMAIN stats[Min(DOMAIN stats)] \ {Baseline})

(* The cells of a row: the engines of its own benchmark that are compared  *)
(* with the baseline.                                                      *)
Cells(b) == Sorted({e \in DOMAIN stats[b] : stats[b][e].versus # {}})

-----------------------------------------------------------------------------
TypeOK ==
  /\ pc \in Terminal \union {"read", "calculate", "render"}
  /\ fi \in 1..(Len(files) + 1)
  /\ left \subseteq Benchmarks
  /\ DOMAIN stats \subseteq Benchmarks
  /\ \A b \in DOMAIN stats : DOMAIN stats[b] = Engines(b) /\ Baseline \in Engines(b)
  /\ output \in {"previous", "empty", "cut", "report"}

(* What the input files hold of the event and phase to be reported, of the *)
(* files that are read in the format they are written in.                  *)
InputBlocks ==
  LET own == {f \in DOMAIN files : FormatOf(files[f]) = files[f].holds}
  IN  {m \in UNION {{f} \X DOMAIN files[f].blocks : f \in own} : Block(m).selected}

(* The order in which hash maps are visited has no influence on whether    *)
(* there is a report: there is one exactly if for every benchmark the      *)
(* baseline and every other engine have three samples or more in all files *)
(* taken together, wherever the benchmark lay, and the level is valid      *)
(* (calculate_benchmark_stats).                                            *)
Reportable ==
  LET of(n, e) == {m \in InputBlocks : Block(m).wasm.benchmark = n /\ Block(m).engine = e}
      names == {Block(m).wasm.benchmark : m \in InputBlocks}
      engines == {Block(m).engine : m \in InputBlocks}
  IN  /\ names # {} /\ cmd.level = "valid"
      /\ \A n \in names, e \in engines \union {Baseline} :
           of(n, e) # {} \/ e = Baseline => Samples(of(n, e)) >= 3

VerdictDetermined ==
  /\ pc \in {"render", "done"} => Reportable
  /\ pc = "rejected" => ~Reportable

(* A report has every benchmark and every engine that was measured, with   *)
(* statistics of all of its measurements in all files, and compares each   *)
(* engine but the baseline with all measurements of the baseline.          *)
ReportComplete ==
  pc = "done" =>
    LET of(n, e) == {m \in InputBlocks : Block(m).wasm.benchmark = n /\ Block(m).engine = e}
    IN  /\ DOMAIN stats = {Block(m).wasm.benchmark : m \in InputBlocks}
        /\ UNION {UNION {stats[b][e].group : e \in DOMAIN stats[b]} : b \in DOMAIN stats}
             = InputBlocks
        /\ \A b \in DOMAIN stats : \A e \in DOMAIN stats[b] :
             /\ stats[b][e].group = of(b, e)
             /\ stats[b][e].versus # {} => stats[b][e].versus = of(b, Baseline)
             /\ stats[b][e].versus = {} <=> e = Baseline

(* A cell that has a header above it stands below that of its own engine.  *)
CellsBelowHeaders ==
  pc = "done" =>
    \A b \in DOMAIN stats : \A j \in DOMAIN Cells(b) \intersect DOMAIN Columns :
       Cells(b)[j] = Columns[j]

(* When every benchmark was measured with the same engines, each row has   *)
(* one cell below each header, that of the engine it names.                *)
UniformTableAligned ==
  pc = "done" /\ (\A b, c \in DOMAIN stats : DOMAIN stats[b] = DOMAIN stats[c]) =>
    \A b \in DOMAIN stats : Cells(b) = Columns
=============================================================================
