------------------------------- MODULE Analysis ------------------------------
(***************************************************************************)
(* `sightglass-cli summarize` and `sightglass-cli effect-size`: they read  *)
(* one file of measurements after the other (crates/data/src/format.rs),   *)
(* group them by keys (crates/analysis/src/keys.rs) and print a summary of *)
(* each group or a comparison of the two engines in it (summarize.rs,      *)
(* effect_size.rs).                                                        *)
(*                                                                         *)
(* A name is abstracted to its rank in the order of names, an engine is    *)
(* its name and its flags, 0 when there are none.  Statistics are          *)
(* abstracted to the group of measurements they are computed from, and a   *)
(* count to whether it is zero, the one case that an order of ratios       *)
(* cannot deal with.                                                       *)
(***************************************************************************)
EXTENDS Naturals, FiniteSetsExt, Sequences

CONSTANTS
  Commands,       \* command lines: name, input format, human-readable or not, level
  Inputs          \* the sequences of input files considered, each a sequence of rows

Fields == {"arch", "engine", "wasm", "phase", "event"}

Names == Nat \ {0}

Rows == [arch : Names, engine : Names \X Nat, wasm : Names, phase : Names, event : Names,
         zero : BOOLEAN]

ASSUME AnalysisAssumption ==
  /\ \A c \in Commands : /\ c.name \in {"summarize", "effect-size"}
                         /\ c.format \in {"json", "csv"}
                         /\ c.human \in BOOLEAN /\ c.level \in {"valid", "invalid"}
  /\ Inputs \subseteq Seq(Seq(Rows))

VARIABLES
  cmd,            \* the command line
  files,          \* what the input files hold
  pc,             \* control point
  fi,             \* the next file to read
  headers,        \* the cell in the input format
  measurements,   \* what has been read
  summaries,      \* one for each group, in the order of the keys
  effects,        \* effect sizes that have yet to be printed
  pending,        \* summaries that have yet to be printed
  last,           \* last_phase, last_wasm, last_event
  lines           \* what has been printed

vars == <<cmd, files, pc, fi, headers, measurements, summaries, effects, pending,
          last, lines>>

Terminal == {"done", "failed", "panicked"}

NoHeading == [phase |-> 0, wasm |-> 0, event |-> 0]

-----------------------------------------------------------------------------
(***************************************************************************)
(* Keys.  A KeyBuilder is the set of the fields it tells apart.            *)
(***************************************************************************)
Key(m, by) == [f \in by |-> m[f]]

Keys(ms, by) == {Key(ms[i], by) : i \in DOMAIN ms}

(* Slip: flags are part of the keys but not looked at in measurements.     *)
MatchingFlagless(ms, key) ==
  {i \in DOMAIN ms : \A f \in DOMAIN key :
     IF f = "engine" THEN <<ms[i].engine[1], 0>> = key.engine ELSE ms[i][f] = key[f]}

Matching(ms, key) ==
  {i \in DOMAIN ms : \A f \in DOMAIN key : ms[i][f] = key[f]}

SummaryFields == Fields
EffectFields == Fields \ {"engine"}

Less(s, t) ==
  \E i \in DOMAIN s : s[i] < t[i] /\ \A j \in 1..(i - 1) : s[j] = t[j]

(* What `order` orders, sorted by it: as many come before each as its      *)
(* place in the sequence says.                                             *)
Preceding(order, s) == {t \in DOMAIN order : Less(order[t], order[s])}

Sorted(order) ==
  [n \in 1..Cardinality(DOMAIN order) |->
     CHOOSE s \in DOMAIN order : Cardinality(Preceding(order, s)) = n - 1]

(* The order of BTreeSet<Key>, and that in which summaries are printed: a  *)
(* stable sort of the former that does not look at `arch`.                 *)
KeyOrder(k) == <<k.arch, k.engine[1], k.engine[2], k.wasm, k.phase, k.event>>
PrintOrder(k) == <<k.phase, k.wasm, k.event, k.engine[1], k.engine[2], k.arch>>

(* summarize::calculate                                                    *)
Summaries(ms) ==
  {[key |-> k, group |-> Matching(ms, k)] : k \in Keys(ms, SummaryFields)}

ByKey(ms) == [s \in Summaries(ms) |-> KeyOrder(s.key)]
ByHeading(ms) == [s \in Summaries(ms) |-> PrintOrder(s.key)]

(* effect_size::calculate: `a` is the lesser engine of a group.            *)
EnginesOf(ms, key) == {ms[i].engine : i \in Matching(ms, key)}

(* Slip: an engine too many is not noticed.                                *)
ComparableAtLeast(ms) ==
  \A k \in Keys(ms, EffectFields) : Cardinality(EnginesOf(ms, k)) >= 2

Comparable(ms) ==
  \A k \in Keys(ms, EffectFields) : Cardinality(EnginesOf(ms, k)) = 2

Effect(ms, key) ==
  LET a == CHOOSE e \in EnginesOf(ms, key) :
             \A f \in EnginesOf(ms, key) : f # e => Less(e, f)
      b == CHOOSE e \in EnginesOf(ms, key) : e # a
      group(e) == {i \in Matching(ms, key) : ms[i].engine = e}
  IN  [key |-> key, a |-> a, aGroup |-> group(a), b |-> b, bGroup |-> group(b)]

(* Neither engine counted anything: the speed-up is 0 / 0.                 *)
NothingCounted(e) == \A i \in e.aGroup \union e.bGroup : measurements[i].zero

(* Effect sizes are sorted, the significant ones first and within each     *)
(* kind by the speed-up, with `partial_cmp(..).unwrap()`.                  *)
SortPanics(significant) ==
  \E d, e \in effects \ significant : d # e /\ NothingCounted(e)

(* Slip: the summary of another event is taken.                            *)
DescribesAnyEvent(s, e, engine) ==
  s.key.engine = engine /\ s.key.wasm = e.key.wasm /\ s.key.phase = e.key.phase

Describes(s, e, engine) ==
  /\ s.key.engine = engine
  /\ s.key.wasm = e.key.wasm
  /\ s.key.phase = e.key.phase
  /\ s.key.event = e.key.event

(* get_summary: the first one that has the engine, benchmark, phase and    *)
(* event; the architecture is not compared.                                *)
FoundSummary(e, engine) ==
  summaries[CHOOSE i \in DOMAIN summaries :
              /\ Describes(summaries[i], e, engine)
              /\ \A j \in 1..(i - 1) : ~Describes(summaries[j], e, engine)]

-----------------------------------------------------------------------------
Init ==
  /\ cmd \in Commands
  /\ files \in Inputs
  /\ pc = "read"
  /\ fi = 1
  /\ headers = (cmd.format = "csv")
  /\ measurements = <<>>
  /\ summaries = <<>>
  /\ effects = {}
  /\ pending = <<>>
  /\ last = NoHeading
  /\ lines = <<>>

(* Slip: what was read before is forgotten.                                *)
LastFileOnly(rows) == rows

Appended(rows) == measurements \o rows

(* A CSV file with measurements in it begins with their headers, and a row *)
(* of headers cannot be parsed as a measurement.                           *)
Parses(rows) == cmd.format = "csv" /\ rows # <<>> => headers

(* Format::read takes the flag out of its cell, so that only the first     *)
(* file is expected to have headers.  A row that cannot be parsed is       *)
(* unwrapped.                                                              *)
ReadFile ==
  /\ pc = "read" /\ fi <= Len(files)
  /\ headers' = FALSE
  /\ IF Parses(files[fi])
       THEN /\ measurements' = Appended(files[fi])
            /\ fi' = fi + 1
            /\ UNCHANGED pc
       ELSE /\ pc' = "panicked"
            /\ UNCHANGED <<measurements, fi>>
  /\ UNCHANGED <<cmd, files, summaries, effects, pending, last, lines>>

(* A file cannot be opened.                                                *)
OpenFails ==
  /\ pc = "read" /\ fi <= Len(files)
  /\ pc' = "failed"
  /\ UNCHANGED <<cmd, files, fi, headers, measurements, summaries, effects, pending,
                 last, lines>>

AllRead == pc = "read" /\ fi > Len(files)

(* Serialized output is written as it was calculated.                      *)
Summarize ==
  /\ AllRead /\ cmd.name = "summarize"
  /\ summaries' = Sorted(ByKey(measurements))
  /\ pending' = IF cmd.human THEN Sorted(ByHeading(measurements)) ELSE <<>>
  /\ pc' = "print-summaries"
  /\ UNCHANGED <<cmd, files, fi, headers, measurements, effects, last, lines>>

Compare ==
  /\ AllRead /\ cmd.name = "effect-size"
  /\ cmd.level = "valid" /\ Comparable(measurements)
  /\ effects' = {Effect(measurements, k) : k \in Keys(measurements, EffectFields)}
  /\ summaries' = IF cmd.human THEN Sorted(ByKey(measurements)) ELSE <<>>
  /\ pc' = IF cmd.human THEN "sort" ELSE "done"
  /\ UNCHANGED <<cmd, files, fi, headers, measurements, pending, last, lines>>

CompareFails ==
  /\ AllRead /\ cmd.name = "effect-size"
  /\ cmd.level = "invalid" \/ ~Comparable(measurements)
  /\ pc' = "failed"
  /\ UNCHANGED <<cmd, files, fi, headers, measurements, summaries, effects, pending,
                 last, lines>>

(* No difference is significant when nothing was counted.                  *)
SortEffects ==
  /\ pc = "sort"
  /\ \E significant \in SUBSET {e \in effects : ~NothingCounted(e)} :
       pc' = IF SortPanics(significant) THEN "panicked" ELSE "print-effects"
  /\ UNCHANGED <<cmd, files, fi, headers, measurements, summaries, effects, pending,
                 last, lines>>

(* The order among the effect sizes is left open.                          *)
PrintEffect(e) ==
  /\ pc = "print-effects"
  /\ lines' = Append(lines, [level |-> "effect", effect |-> e,
                             a |-> FoundSummary(e, e.a), b |-> FoundSummary(e, e.b)])
  /\ effects' = effects \ {e}
  /\ UNCHANGED <<cmd, files, pc, fi, headers, measurements, summaries, pending, last>>

(* summarize::write prints a heading when it differs from the last one.    *)
NewPhase(k) == last.phase # k.phase

(* Slip: a new phase does not reset the benchmark.                         *)
WasmNotReset(k) == last.wasm # k.wasm

NewWasm(k) == NewPhase(k) \/ last.wasm # k.wasm

NewEvent(k) == NewWasm(k) \/ last.event # k.event

Heading(level, value, new) ==
  IF new THEN <<[level |-> level, value |-> value]>> ELSE <<>>

PrintSummary ==
  /\ pc = "print-summaries" /\ pending # <<>>
  /\ LET k == Head(pending).key
     IN  /\ lines' = lines \o Heading("phase", k.phase, NewPhase(k))
                           \o Heading("wasm", k.wasm, NewWasm(k))
                           \o Heading("event", k.event, NewEvent(k))
                           \o <<[level |-> "summary", summary |-> Head(pending)]>>
         /\ last' = [phase |-> k.phase, wasm |-> k.wasm, event |-> k.event]
  /\ pending' = Tail(pending)
  /\ UNCHANGED <<cmd, files, pc, fi, headers, measurements, summaries, effects>>

AllPrinted ==
  /\ \/ pc = "print-summaries" /\ pending = <<>>
     \/ pc = "print-effects" /\ effects = {}
  /\ pc' = "done"
  /\ UNCHANGED <<cmd, files, fi, headers, measurements, summaries, effects, pending,
                 last, lines>>

(* Standard output cannot be written to.                                   *)
PrintFails ==
  /\ pc \in {"print-summaries", "print-effects"}
  /\ pc' = "failed"
  /\ UNCHANGED <<cmd, files, fi, headers, measurements, summaries, effects, pending,
                 last, lines>>

(* The process has exited.                                                 *)
Exited == pc \in Terminal /\ UNCHANGED vars

Next ==
  \/ ReadFile \/ OpenFails
  \/ Summarize \/ Compare \/ CompareFails \/ SortEffects
  \/ PrintSummary \/ \E e \in effects : PrintEffect(e)
  \/ AllPrinted \/ PrintFails
  \/ Exited

Spec == Init /\ [][Next]_vars

-----------------------------------------------------------------------------
(* Every summary has a complete key and a group that is not empty (what    *)
(* `expect("at least one element")` and the `unwrap`s of the key rely on). *)
TypeOK ==
  /\ pc \in Terminal \union
       {"read", "sort", "print-summaries", "print-effects"}
  /\ fi \in 1..(Len(files) + 1)
  /\ headers \in BOOLEAN
  /\ \A i \in DOMAIN summaries :
       /\ DOMAIN summaries[i].key = Fields
       /\ summaries[i].group \in (SUBSET DOMAIN measurements) \ {{}}
  /\ \A e \in effects : e.aGroup \union e.bGroup \subseteq DOMAIN measurements

(* The rows of the files up to each.                                       *)
Totals ==
  LET total[f \in 0..Len(files)] == IF f = 0 THEN 0 ELSE total[f - 1] + Len(files[f])
  IN  total

(* A command that succeeds has taken account of every row of every input   *)
(* file, in the summary that has its key and in no other; summaries stand  *)
(* for nothing else.                                                       *)
NothingLost ==
  pc = "done" /\ (cmd.name = "summarize" \/ cmd.human) =>
    /\ \A f \in DOMAIN files : \A r \in DOMAIN files[f] :
         \E i \in DOMAIN summaries : /\ Totals[f - 1] + r \in summaries[i].group
                                   /\ summaries[i].key = Key(files[f][r], Fields)
    /\ \A i, j \in DOMAIN summaries :
         i # j => summaries[i].group \intersect summaries[j].group = {}
    /\ \A i \in DOMAIN summaries : summaries[i].group \subseteq 1..Totals[Len(files)]

(* The headings of printed summaries are right: the last phase, benchmark  *)
(* and event printed above a summary are its own, each printed below the   *)
(* one of the level above, and no two of them are printed for the same     *)
(* phase, benchmark and event, though summaries of different architectures *)
(* come in between.                                                        *)
Above(printed, i, level) ==
  Max({0} \union {j \in 1..(i - 1) : printed[j].level = level})

Context(printed, i, level) ==
  LET j == Above(printed, i, level) IN IF j = 0 THEN 0 ELSE printed[j].value

HeadingsGovern ==
  cmd.name = "summarize" =>
    /\ \A i \in DOMAIN lines : lines[i].level = "summary" =>
         /\ Context(lines, i, "phase") = lines[i].summary.key.phase
         /\ Context(lines, i, "wasm") = lines[i].summary.key.wasm
         /\ Context(lines, i, "event") = lines[i].summary.key.event
         /\ Above(lines, i, "phase") < Above(lines, i, "wasm")
         /\ Above(lines, i, "wasm") < Above(lines, i, "event")
    /\ \A i, j \in DOMAIN lines :
         /\ i # j /\ lines[i].level = "event" /\ lines[j].level = "event"
         /\ lines[i].value = lines[j].value
         => \/ Context(lines, i, "wasm") # Context(lines, j, "wasm")
            \/ Context(lines, i, "phase") # Context(lines, j, "phase")

(* A comparison that is printed to the end leaves no measurement out and   *)
(* uses none twice: each is one of the counts of the lesser engine or of   *)
(* the other one in exactly one of the effect sizes.                       *)
EverythingCompared ==
  pc = "done" /\ cmd.name = "effect-size" /\ cmd.human =>
    LET compared(i) == lines[i].effect.aGroup \union lines[i].effect.bGroup
    IN  /\ DOMAIN measurements = UNION {compared(i) : i \in DOMAIN lines}
        /\ \A i, j \in DOMAIN lines : i # j => compared(i) \intersect compared(j) = {}
        /\ \A i \in DOMAIN lines :
             lines[i].effect.aGroup \intersect lines[i].effect.bGroup = {}

(* The minimum, mean and maximum that are printed below an effect size are *)
(* those of the same measurements that were compared, where these come     *)
(* from the first architecture that has any of the benchmark, phase and    *)
(* event; of the same engine they are everywhere.                          *)
FirstArchitecture(key) ==
  \A i \in DOMAIN measurements :
     (\A f \in {"wasm", "phase", "event"} : measurements[i][f] = key[f]) =>
       key.arch <= measurements[i].arch

EffectSummariesMatch ==
  \A i \in DOMAIN lines : lines[i].level = "effect" =>
    LET e == lines[i].effect
    IN  /\ lines[i].a.key.engine = e.a /\ lines[i].b.key.engine = e.b
        /\ FirstArchitecture(e.key) =>
             lines[i].a.group = e.aGroup /\ lines[i].b.group = e.bGroup

(* Measurements that the benchmark command has written can be analysed, or *)
(* an error says why not.                                                  *)
NeverPanics == pc # "panicked"
=============================================================================
