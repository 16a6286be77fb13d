# Sightglass in TLA+

Sightglass is a benchmarking suite and command for WebAssembly engines.  This
directory holds TLA+ models of the parts of it that decide which measurements
are taken, kept and published, the TLC configurations that check them, and the
TLAPS proofs of their main theorems.  All line numbers are those of the C and
Rust sources in this repository; `PROJECT.json` maps every definition to the lines
it stands for and lists the hazards of the code, each with the properties that
cover it.

* [The system](#the-system)
* [Modules and how they correspond to the code](#modules-and-how-they-correspond-to-the-code)
* [What the runs check](#what-the-runs-check)
* [Fairness](#fairness)
* [Where code and documentation disagree](#where-code-and-documentation-disagree)
* [What is proved](#what-is-proved)
* [What is only model-checked](#what-is-only-model-checked)
* [What is not modelled, and why](#what-is-not-modelled-and-why)
* [Plan](#plan)

## The system

    sightglass-cli benchmark                          upload-elastic
      |                                                 |
      +- processes > 1: orchestrator --spawns--> child  +- fingerprints
      |                      ^---- JSON on stdout --'   +- GET/POST/_bulk
      +- processes = 1: in-process runner               |
            |  recorder: Engine -> Module -> Instance   +--> ElasticSearch
            v
         engine shared library (dlopen) --callbacks--> measures, Measurements
            |  bench.start, bench.end
            v
         benchmark.wasm <--compiler-- benchmark.c with sightglass.h

| component | state | operations | what makes it correct |
|---|---|---|---|
| in-process runner (`cli/src/benchmark.rs` `execute_in_current_process`, `recorder/src/benchmark.rs`, `bench_api.rs`) | three nested loops, the `Option`s that own engine and module, log files, output file, collected measurements | open the output, load an engine, create it per benchmark, compile / instantiate / execute, check the output, clean up logs, filter a phase, write | a call finds what it consumes; every requested measurement is written exactly once and no other; wrong output ends the run; logs remain on failure only |
| measuring mechanisms (`recorder/src/measure`) | a start time or count, hardware counters, `Measurements` with the iteration number | `start`, `end`, `next_iteration`, `finish` | a count belongs to the phase and iteration it was started in |
| multi-process orchestrator (`execute_in_multiple_processes`) | the worklist `choices`, the progress counter, the running child, the accumulated measurements | check engines, pick and spawn, wait, parse, `swap_remove`, write | every pair runs in exactly `--processes` processes whatever the random order; nothing is written before |
| results (`write_results`, `data/src/format.rs`, `analysis/src/effect_size.rs`) | the buffered writer | raw output, summary or effect size | what was measured reaches the file |
| upload (`cli/src/upload.rs`, `upload/src`) | the package, the documents of the database, the IDs registered so far | package, create a document unless it exists, batch, retry | measurements stay described by what they were measured with, an object has one document, a success has sent each measurement once |
| native engine library (`engines/native/libengine`) | descriptors 1 and 2 and their duplicates, open log files, current directory, a static timer | create, free, execute: change directory, reopen the logs, redirect, run, restore | the output of the runner and of each benchmark never mix; a benchmark runs in its own surroundings; the runner finds descriptors and directory as they were |
| benchmark C API (`include/sightglass.h`) | a volatile pointer to an empty function | `bench_start`, `bench_end`, `BLACK_BOX`, used under an optimising compiler | the kernel between the two calls is executed there, all of it and nothing else |
| clean command (`cli/src/clean.rs`) | the directory it walks | unlink every log file | does not make a running benchmark accept a wrong output |
| summarize and effect-size (`cli/src/summarize.rs`, `effect_size.rs`, `analysis/src`) | what has been read, the last headings printed | read files, group by keys, compare, sort, print | every measurement is in exactly one group; what is printed with a group is the group's own |
| data model and formats (`data/src`) | the headers flag of a CSV format | read, write, label | what is written can be read back |
| fingerprints (`fingerprint/src`) | none | hash, identify | different objects can be told apart even if their IDs are equal |
| HTML report (`cli/src/report.rs`, `report.jinja`, `analysis/src/report_stats.rs`) | what has been read, statistics by benchmark and engine in hash maps | read files, choose a baseline, check samples, render a table | the verdict does not depend on the order of a hash map; every number is below the right header |
| suites, Wasm validation, pinning, engine build, command line | see [What is not modelled](#what-is-not-modelled-and-why) | | |

How they interact.  The orchestrator starts the *same program* with
`--processes 1` and parses the JSON on its standard output; a child is an
instance of the in-process runner.  The runner calls into an engine through a C
interface, and the engine calls back into the runner's measures in the middle
of each call, for the execution phase at points that the *benchmark* chooses
(`bench.start`, `bench.end`).  Log files in the temporary directory are shared
between the runner, the engine that writes them and the clean command.
Uploaders share a database, and hand packages to each other as files.  A
benchmark's author and its compiler meet in the header.

Which behaviours are hard.  Little of this runs concurrently in one process;
the difficulty is in long sequences of legal steps, one of which fails: values
that move in and out of `Option`s, callbacks in the middle of a call, files
that are created, truncated, reopened and unlinked across iterations, a random
worklist edited by index, requests whose answer is lost, uploads by several
people, files that another process removes, and a compiler that may reorder
what the header is meant to keep in place.  The `hazards` of `PROJECT.json`
list them line by line.

## Modules and how they correspond to the code

| module | models |
|---|---|
| `Measure` | what `start` and `end` of each mechanism do, as operators |
| `Results` | `write_results`: what it accepts, and what has reached the file when it returns |
| `BenchPlan` | abstract specification of a benchmarking command |
| `Guest` | `sightglass.h`: benchmarks that use it, under the compiler's transformations |
| `Runner` | the in-process runner with the bench API, measures, logs and output file |
| `RunnerWithClean` | the clean command, composed with `Runner` through the log files |
| `Orchestrator` | the parent of many processes |
| `EngineLogs` | abstract specification of an engine, as far as log files are concerned |
| `NativeEngine` | the native engine library: descriptors, buffers, files and directories |
| `Catalog` | abstract specification of what uploading promises |
| `Fingerprint` | what identifies an engine, a benchmark and a machine, as operators |
| `Upload` | packages, uploaders and the database |
| `Analysis` | the commands that summarise and compare measurements |
| `Report` | the HTML report |
| `MCGuest`, `MCRunner`, `MCOrchestrator`, `MCNativeEngine`, `MCUpload`, `MCAnalysis`, `MCReport` | small instances for TLC |
| `GuestProofs`, `RunnerProofs`, `RunnerWithCleanProofs`, `OrchestratorProofs`, `NativeEngineProofs`, `UploadProofs`, `AnalysisProofs`, `ReportProofs` | theorems and proofs |

Some definitions are headed *Slip*: a plausible mistake in the definition that
follows, not used by the model.  They are there to show that the properties
notice it (see `mutants` in `PROJECT.json`).

**Guest.**  A benchmark is the sequence of statements it executes; a statement
is what it assigns, reads and calls.  The operators `bench_start`, `bench_end`,
`black_box` and `BLACK_BOX` are those of the header: the first two are imports,
whose bodies the compiler never sees; the third is a function behind a
`volatile` pointer, or of the user's own if the macro is defined; the fourth
passes the address of a variable to it.  The compiler, which is not part of the
repository, is modelled by what it may do: `Swap` neighbours whose order cannot
be observed, `Drop` a statement whose result is not read, `Fold` one whose
operands are known.  It takes these steps in any order and any number.  `Touched`
is what makes the header work: a call whose body is unknown may read and write
every variable whose address was given away before.  `at` and `fate` say where
each statement has gone and what is left of it.

**Runner.**  One action is one call that leaves the runner, into the file
system or the engine library, or one callback or answer from it.  `pc` is the
control point, `ei`, `wi` and `n` the three loop indices.  `held` says which of
`Engine`, `Module` and `Instance` the runner owns; in Rust these are one value
that changes type as it moves, so one variable suffices.  `todo` holds the
phases still to be called in this iteration (`Calls`, preceded by `EagerCalls`
before the first one when a later phase is measured on its own), `callbacks`
the call in progress and the `start`s and `end`s the engine has yet to make.
`timers` and `measurements` are the state of the measures and of
`Measurements`; a count is abstracted to the phase and iteration of the `start`
it was taken from, which is all that the properties tell apart.  `logs` follows
the two log files of each benchmark: created empty by the engine, truncated
when the execution reopens them, filled by the benchmark, unlinked.  `Abort` is
a returned error or a panic: the engine is dropped, measurements are lost.
`suspect` is a history variable: some execution printed what was not expected.

**RunnerWithClean.**  The two processes share `logs` and nothing else.  The
clean command opens the directory, meets one entry after the other and unlinks
it, with any number of steps of the runner in between: an entry may be gone when
it gets there, and a file created since may be listed or not.  Everything
`Runner` does is as before; its `RemoveLog` and its comparisons meet a file that
is gone.

**Orchestrator.**  `choices` is the worklist as the sequence the code has, so
that `swap_remove` is modelled by what it does to positions; the random pick is
`\E k \in DOMAIN choices`.  A child succeeds with its measurements, exits
successfully with an output that cannot be parsed (after it has been counted),
or fails.  `ChildCommand` lists the options that the parent passes on.
`collected` counts the children of each pair whose measurements were taken
over; `reported` is what those measurements name.

`Runner` and `Orchestrator` both end in `WriteResults`, which succeeds, returns
an error or panics; the last because effect sizes are sorted there by ratios
that may have no order.  Counts are abstracted, so the panic is a
nondeterministic outcome (`SortMayPanic`) wherever the sort is reached.

**NativeEngine.**  A benchmark prints through the buffers of the C library, which
reach whatever descriptors 1 and 2 refer to when they are flushed.  The runner
prints to the descriptors: it has a standard library of its own, whose buffers
it does not share with the engine library (a `cdylib`), so that the `flush` of
`io::stdout()` in `flush_process_stdio` has nothing of the runner's to write
and `fflush` does the work.  It prints outside of the library (`HostPrints`), when
an error is returned or a function panics (`Fail`, `Die`), and in the callbacks
`bench_start` and `bench_end` while both descriptors lead to the logs: with
`debug`, `bench_api.rs` logs a message in each (`Callback`).  A text is
abstracted to who printed it, so `buffer` and `content` are sets of writers; `fd` and `duplicate` are the descriptors and the
duplicates that remember them, `path` says which file a log's path leads to and
`file` which one the state has open, so that a file unlinked in between is
another one.  `BufferFull` is the C library writing a buffer out by itself, at any
time.  An execution is one action per system call, with its failures.

**EngineLogs.**  What `Runner` relies on: its `CreateEngine` empties both logs of
the benchmark, `CallReturns` leaves in them what the benchmark and its callbacks printed, which
is then compared with what is expected, and nothing else in the runner's process
changes a log except `RemoveLog`.  A call begins and returns; in between, and after
one that failed, the logs of its benchmark are unknown, for the runner does not
read them.  `NativeEngine` implements it: `Calling` and `SeenLog` are what the
runner sees of the library's state.

**BenchPlan.**  Each job is run a fixed number of times in any order, the
command succeeds only when all have been, and may fail at any time until then.
`Runner` implements it with a job per engine and benchmark and an iteration per
run; `Orchestrator` implements it with a child process per run.  The refinement
mappings are the two `Plan == INSTANCE BenchPlan WITH ...`.

**Fingerprint.**  Contents of files stand for themselves and for their hashes;
`slug` is the part of a hash that gets into an ID and may be the same for
different contents.  `Engine` shows that a library beside a `.build-info` is
identified by that file alone, and that its path is part of the fingerprint but
not of the ID: two builds of the same commit share an ID and differ.

**Upload.**  An uploader packages its own measurements, or reads a package that
someone's dry run saved (`Ready`, `saved`).  Then one action is one request: it
registers each fingerprint through `create_if_not_exists`: GET under the ID; if
another object is there, append a `!` and try again; if the GET fails, for
whatever reason, POST (`GetError`, which is possible at any time).  A POST or a
bulk request may be lost before or after it took effect, and a bulk request
that succeeds may have refused any of its items, which nobody looks at
(`SendBatch`, `refused`).  An upload that failed or succeeded may be started
again, and any uploads overlap.  The database stores what is posted under an ID
whether or not a document exists.

Since the code decides by one request and acts by another, two things can make
it replace a document or give an object a second one: an overlap of uploads
that give one ID to different objects (`Clash`), and a GET that fails although
another object is stored under the ID.  The history variable `disturbed` says
that one of them has happened; no action depends on it.  What holds until then is
stated with it (`NoOverwriteUndisturbed`, `ReferencesDescribe`, the second half of
`OneDocumentPerObject`), what always holds is stated without.

**Catalog.**  A set of described measurements that only grows: an attempt adds
measurements of one package, with the descriptions of that package.  `Upload`
implements it with the set of its stored measurements, each followed to the
documents it refers to (`Resolved`); so the refinement fails when a measurement
is stored with a wrong reference as well as when a document is replaced later.
A description has the ID of an object and, where no other object has this ID,
all of the object (`Seen`): more cannot be promised, as documents of one ID may
take each other's place.

**Analysis.**  A measurement is its key fields and whether its count is zero.
Reading goes through the one `Format` whose headers flag is `headers`; `Key`,
`Matching` and the two orders are those of the code, and statistics stand for
the group of measurements they are computed from.  A sorted sequence has each
element at the place that the number of those before it says (`Preceding`,
`Sorted`), whatever the algorithm.  `summarize::write` prints one
summary per step against the headings remembered in `last`; `SortEffects` has
the `unwrap` of a comparison that may have no result.

**Report.**  Consecutive measurements that differ in their counts only are one
block with a number of samples, which is all that is checked of them.  Each
benchmark is a step of its own, in any order, as in a hash map; `Columns` and
`Cells` are the loops of the template that make the headers and a row.  Maps in
a template are visited in the order of their keys: the crate is built without
`preserve_order`.

## What the runs check

| run | instance | states | what it shows |
|---|---|---|---|
| `guest` | the shapes of 7 benchmarks of `benchmarks/` and all with up to 3 statements around the calls | 122,027 | `CallsAsPrescribed`; `KernelMeasured`; `NothingElseMeasured`; `KernelComputed` |
| `runner` | 2 engines, 2 benchmarks, 2 iterations, `cycles` and `insts-retired`, the clean command during 2 command lines | 655,379 | types; `ReceiverHeld`; `WrongOutputStopsRun`; `ResultsExact`; `LogsPolicyWithClean`; refinement of `BenchPlan` with its liveness |
| `orchestrator` | 2 engines, 2 benchmarks, 3 processes | 12,716 | types; `WorklistAccounts`; `WrittenComplete`; `ProgressWithinTotal`; refinement of `BenchPlan` with its liveness |
| `native` | 2 benchmarks, 2 files per path, 2 executions, up to symmetry | 1,070,740 | types; `GuestContext`; `OutputSeparated`; `LogExact`; `HostRestored`; refinement of `EngineLogs` (`LogsAsExpected`) |
| `upload` | 2 uploaders of 3 engines with one ID (one saves a package, both upload it), 2 attempts each, batches of 1 and 2, 2 tries per ID | 220,198 | types; `OneDocumentPerObject`; `ReferencesDescribe`; `UploadExact`; `NoOverwriteUndisturbed`; `UploadEnds`; refinement of `Catalog` (`KeepsCatalog`) |
| `analysis` | 2 files with up to 3 rows of 10 kinds; 2 to 4 files of what up to 3 engines counted of 3 groups, also on 2 architectures | 560,134 | types; `NothingLost`; `HeadingsGovern`; `EverythingCompared`; `EffectSummariesMatch` |
| `report` | 2 or 3 files, 3 engines, 2 benchmarks, up to 3 samples a block | 125,719 | types; `VerdictDetermined`; `ReportComplete`; `UniformTableAligned` |
| `orchestrator_options`, `upload_lost_get`, `analysis_csv`, `analysis_zero`, `report_table` | as above | | a violation each, see [below](#where-code-and-documentation-disagree) |

*`CallsAsPrescribed`*: the compiled benchmark makes the calls of its source, in
their order, and `is_valid` finds the imports that the source uses,
also in code that is not executed (`Unexecuted`); this is the
assumption `GuestCalls` of `Runner`.  *`KernelMeasured`*: a kernel whose input
is hidden from `bench_start` on and whose result is handed over by `bench_end`
is executed between the two.  *`NothingElseMeasured`*: if the work before and
after is fenced in the same way, none of it is.  *`KernelComputed`*: a kernel
between opaque input and opaque use, wherever these are, is not folded or
dropped, as `benchmarks/README.md` says.  *`ReceiverHeld`*: each of the `take().unwrap()`s
in the iteration loop finds a value.  *`WrongOutputStopsRun`*: once an
execution printed something unexpected, no further call is made and nothing is
written.  *`ResultsExact`*: what is written is, as a bag, every engine,
benchmark, iteration and requested phase, once for every measure that counts
the event, each counted from its own start.  *`LogsPolicyWithClean`*: the
documented policy of `--keep-logs`, for the logs of all benchmarks at once, and
what is left of it when someone else cleans up; the runner ignores the errors of
removing a log, so a success may leave those whose last removal failed
(`unremoved`, a history variable).  *`WorklistAccounts`*: an
entry's processes left and those collected add up, no pair has two entries, an
unfinished one has an entry.  *`ProgressWithinTotal`*: the `debug_assert!(i <=
n)` and the unsigned `n - i`.  *`KeepsCatalog`*: a stored measurement is described by what it was packaged
with, as far as IDs tell objects apart, now and later, whatever overlaps and
fails, also when it comes from a failed attempt or was uploaded by someone
else.  *`ReferencesDescribe`*: until something disturbs it, by the very objects.
*`NoOverwriteUndisturbed`*: until then, no document is replaced by another one.
*`OneDocumentPerObject`*: an object has no two documents, one that shares its
ID until then.  *`UploadExact`*: each measurement of a success was sent once,
and stored or refused.  *`UploadEnds`*: a
command that was started comes to an end. *`GuestContext`*: a benchmark runs in
its own directory, with its own timer, and prints to the files that its log
paths lead to, also when these were unlinked since the last execution.
*`OutputSeparated`*: what a benchmark prints never reaches a terminal or another
log, and what the runner prints no log, although buffers may be written out at
any time; only the callbacks' debug messages, and the last words of a measure
that panics, are in the log of standard error.  *`LogExact`*: a log that is
compared holds what the benchmark and its callbacks printed in the last
execution and nothing else.  *`HostRestored`*: between two calls the
descriptors and the directory are the runner's own. *`LogsAsExpected`*:
besides, no log changes between calls, nor one of another benchmark during a
call, whatever is flushed when. *`NothingLost`*: each row of each input file is
in the summary of its own key, and in no other, and no summary has anything
else. *`HeadingsGovern`*: above each summary stand its own phase, benchmark and
event, once, though summaries of several architectures alternate.
*`EverythingCompared`*: a comparison that is printed to the end uses each
measurement on exactly one side of exactly one effect size.
*`EffectSummariesMatch`*: the statistics shown with an effect size are of the
two engines that were compared, and of the very measurements unless an earlier
architecture has the same benchmark, phase and event.  *`VerdictDetermined`*:
there is a report exactly if the input allows it, in whatever order hash maps
are visited. *`ReportComplete`*: a report has all measurements, each engine
compared with all of the baseline's.  *`UniformTableAligned`*: cells are below
their headers if every benchmark was measured with the same engines.

Bounds, and why they are enough.

* `Guest`: three statements besides the two calls are the least for an input, a
  kernel and a use; all ways to place them are checked, kernels without a box,
  which may be moved, included.  The shapes of real benchmarks add longer ones,
  with and without the override of `black_box`.  `MaxAround` is the bound; the
  proofs need none.
* Two of each loop variable reach the first, the last and the reset between
  them; with two engines the effect size is computed, which is where results
  can be refused, and equal names can hide an engine.
* `cycles` takes its start, `insts-retired` keeps it: one of each kind of
  measure.  Both together make a `MultiMeasure`.
* Command lines (`MCCommands`): every phase option with and without
  `--keep-logs` and `--raw`, CSV and JSON, no names, different names, equal
  names, and a significance level out of range.
* `MCCleaned`: logs are cleaned during one command line that removes its logs and
  one that keeps them; all log files and every point of the run are met.  The
  clean command is started at most once.
* Three processes are the least with which an entry is decremented twice and
  removed at a position other than the last.
* Two uploaders, each with two attempts: `ann` saves a package with a dry run and
  uploads it; it has two engines of one ID, so that the second gets a `!`.  `bob`
  uploads her package, and then his own with a third engine of that ID, which
  finds no ID left if it comes last and takes one of hers if it comes first.
  His first upload overlaps with hers and posts the same objects, his second one
  overlaps and fights over the ID.  Her batches of one leave a batch to
  fail after one that was stored, his of two are refused in part.  `NumRetries` is
  2 instead of 5.  The proofs hold for any uploaders, packages and bounds.
* `NativeEngine`: two executions are the least for which something may be left
  over, of the same benchmark or of another; with two inodes a log that was
  unlinked while it was open is another file than its successor.  Benchmarks and
  inodes are only compared with each other, so states that differ in their names
  only are one (`Symmetry`).  `MaxRuns` and
  `Inodes` are bounds of the model; the proofs hold for any.
* `MCAnalysis`: rows differ in every field that the code compares, one has
  another architecture and one is by an engine with flags; with three rows a
  heading can be left and come back.  With three groups, two can be without a
  count, the least for which a sort compares them.  Four files are the least for
  two engines to be compared on each of two architectures.
* `MCReport`: samples are between none and three, the number required, split
  over two files; three engines are the least for which two benchmarks can have
  different ones besides the baseline; formats and suffixes agree or not.

All runs but those of `Upload` check deadlock: a terminated process stutters
(`Exited`).  `Upload` stops when all attempts are used up, and its
configurations switch the check off.

Assumptions of the models, in one place.

* A benchmark calls `bench.start` and `bench.end` once and in this order
  (`benchmarks/README.md`), in the run `runner`: for one written in C whose source
  does, `Guest` shows that its Wasm does.  The sequences are the constant
  `GuestCalls`; the proofs hold for any set of them.
* The types given to `--measure` are different from each other.
* The compiler of `Guest` does what a C compiler may: it preserves accesses to
  volatile objects and calls of functions it cannot see.  Addresses leave a
  benchmark only through calls.  Inlining, loop transformations and data layout
  are not modelled.
* A document that GET finds is returned as it was posted, which is what
  `Database::get` parses: `GetSame` and `GetOther` happen with such a server only.
  ElasticSearch's Get API, which a comment in `database.rs` names, wraps the
  document in `_source`; against such replies every GET is an error, and the
  behaviours are those without the two actions, which are among the checked.
* A POST or bulk request that is answered with success is not answered by
  mistake: the document was stored, and each item was stored or refused.
* In `NativeEngine` a flush and the `dup2` that restores a descriptor succeed;
  after any error the runner's process ends, since `bench_api.rs` asserts that
  there is none.  A benchmark that crashes takes the process with it (`Die`).
  Benchmarks print during `native_entry` only, through buffers that
  `flush_process_stdio` can reach.
* Input files of `Analysis` and `Report` are well formed in the format they are
  written in; they may be missing.
* `get_summary` does not compare architectures (a TODO says so), so the statistics
  shown with an effect size may be of an earlier one.  `EffectSummariesMatch`
  claims the measurements only where there is none (`FirstArchitecture`), the
  engines everywhere.
* `--batch-size` is at least 1; `chunks(0)` panics.
* Files do not change between packaging and the end of an upload, and a package
  is what `package` made of its owner's files.

## Fairness

`Runner` and `Orchestrator` assume `WF_vars(Step)`: the program is one thread,
each of its steps is enabled until it is taken, and it waits only for a call
into the engine or for its child, which are assumed to return.  Nothing else,
in particular no success, is assumed: a call, a check or a child may always
fail, and `WriteResults` may panic.  Without it the liveness half of
`RunsThePlan` could not hold, for a process may be suspended.  `Upload` assumes
`WF_vars(Working(u))` of each uploader: a command that runs makes its next
request, and each request is answered or given up by the client's own time-out
(`reqwest`'s blocking client has one of 30 seconds).  That a command is
started, or repeated after a failure, is up to people and not assumed; nor is
any request assumed to succeed.  `Guest`, `NativeEngine`, `Analysis` and
`Report` are checked for safety only: a compiler may stop after any step, the
second waits for its callers, the others are loops over finite input.

## Where code and documentation disagree

| run | property | |
|---|---|---|
| `orchestrator_options` | `OptionsReachChild` | Neither `--name` nor `--working-dir` is passed to the children, nor applied by the parent. |
| `upload_lost_get` | `NoOverwrite` | `create_if_not_exists` takes every error of `get` for "no object exists with the ID" and replaces the document that is there. |
| `analysis_csv` | `NeverPanics` | Several files may be given, but the headers flag of their common `Format` is gone after the first: the header row of a second CSV file is unwrapped as a measurement. |
| `analysis_zero` | `NeverPanics` | When neither engine counted anything of an event both ratios are 0/0, and sorting a second insignificant result unwraps a comparison that has none. |
| `report_table` | `CellsBelowHeaders` | The headers of the table are the engines of the first benchmark, the cells of a row those of its own, without gaps: when the first benchmark was measured with engines 1 and 2 and another with 1 and 3, the result of 3 stands below the name of 2. |

## What is proved

The theorems hold for every value of the constants that satisfies
`OrchestratorAssumption`, `RunnerAssumption`, `NativeAssumption`,
`ProgramsAssumption`, `UploadAssumption`, `AnalysisAssumption` or
`ReportAssumption`.  The first two state what the command line parser and the
checks in `execute` guarantee, the third that names of different things differ, the
fourth that benchmarks are made of the statements of `Guest`, the last three the
types of the constants of `Upload`, `Analysis` and `Report`.  Every invariant that a
passing run checks is proved.

**`GuestProofs`.**  The inductive invariant is `Order`: two statements whose order
the program can observe are where the source puts them.  Only neighbours that do
not conflict are swapped, so it holds after every `Swap`; a fold or a drop only
removes conflicts.  A statement could leave the measured region only by
changing places with the mark, as its neighbour (`StaysBehind`, `StaysBefore`);
but what feeds it, the call or another statement of the kernel, stands between
the two, and so does what uses it on the other side.  An anchored kernel is not
thinned out either, while all of it is there (`AnchoredIsKept`).

**`RunnerProofs`.**  Neither that the receiver of a call is held nor that a wrong
output stops the run is inductive.  `LoopInv` says where the three loops stand at
each control point, `CallInv` that the phases still to be called are a suffix of
an iteration and that what the runner holds is what the first of them consumes
(`Agenda`; `AgendaSound` is the lemma that a call leaves what the next one needs).
`SuspectInv` covers the time between an unexpected output and the comparison that
finds it: a log that is going to be compared is not the right one.

**`OrchestratorProofs`.**  `WorklistAccounts` says that each pair with
processes left to run has one entry with their number, so adding a benchmark's
entries must not clash with older ones: the worklist holds checked engines only
(`CheckedOnly`) and nothing has run before the checks are over
(`NothingRunYet`).  That the results are complete needs all engines to have
been checked when the loop is entered (`AllChecked`) and the worklist to be
empty after it (`WorklistEmptied`).  For the progress counter `CountInv`
identifies `i` with the number of processes that have succeeded, out of a
finite set of `TotalRuns`.

**`RunnerWithCleanProofs`.**  The invariant of `RunnerProofs` says of a log that
has to be found wrong only that it is not the right one, which is still so when it
is gone.  So every step of `Clean` keeps it, and the steps of the runner are those
that `RunnerProofs` has dealt with.  For the logs that are kept or removed the
invariant has two parts: `RemovedInv`, that benchmarks before and after the current
one have no logs unless they are to be kept, survives a log being unlinked by
someone else, and `KeptInv`, that both logs are there while they are needed, is
claimed only until the clean command is started.  Both
count a log whose removal failed as one that need not be gone (`unremoved`).
Together they give `LogsPolicyInSpiteOfClean`, and `LogsFollowPolicy` for the runner
alone.

The results, in the same module.  That what is written is exact is not
inductive: it says nothing before the end.  `BagsInv` accounts for both bags at
every control point: `measurements` has each record of the current engine and
benchmark up to the phase that was measured last (`MeasuredBag`), `collected`
those of finished pairs, as often as an engine of that name is done with the
benchmark (`CollectedBag`). It needs that the phases still to be called are
those wanted in the iteration, each once (`AgendaInv`), and that a measure
which will record something holds the start of the phase it is in
(`TimersInv`); the latter is where the assumption `GuestsFollowProtocol` comes
in, that a benchmark calls `bench.start` and `bench.end` once, in this order.
`PhaseMeasured`, `BenchmarkFinished` and `FilteredIsWritten` are the three
steps that change a bag.

**`NativeEngineProofs`.**  None of the four properties is inductive.  `IInv`
says where the descriptors lead at each control point and that a duplicate
remembers the terminal whenever one does not (`Descriptors`); that the files
open between `reopen_output_files` and the benchmark are the ones the paths lead
to (`OpenFiles`); which directory is current and which is noted (`Places`); that
a buffer holds text of the benchmark that runs, and nothing while descriptors
change or another could run (`Buffers`), which is what the two flushes are for; and that what is in a log or on its way there is what was printed since
the log was created (`LogsExact`).  The lemmas `FlushOutside` and `FlushInside`
say once where a flush takes the text, for a buffer that is written out by
itself as well as for `flush_process_stdio`, and `SaidOutside` and `SaidInside` where
a message of the runner ends up; with them each conjunct of `IInv`
has a lemma with a step for each action that touches it.  From `IInv` follow
`GuestContextHolds`, `OutputSeparatedHolds`, `LogExactHolds` and
`HostRestoredHolds`.  For `ImplementsEngine` a step is one of four kinds: it begins a
call, it returns from one, or it stays inside or outside of one (`CallBegins`,
`CallReturns`, `CallGoesOn`, `BetweenCalls`).  `OthersKept` says that no step touches
where another benchmark's paths lead or what is there; that a log is there when a
call returns needs a conjunct of `OpenFiles` of its own, for the time after
the descriptors were restored.

**`UploadProofs`.**  All theorems hold with any overlap, any failing GET and any
refused item.  `TypeInv` gives `TypeCorrect`, and `SentInv` gives `SuccessIsExact`:
the rows of the current attempt, stored or refused, are exactly the converted
measurements up to `sent`, each once.  `DocsInv` is the argument behind
`create_if_not_exists`: under the IDs with fewer `!`s than a document's own stand
other objects, an uploader has seen this for the tries it has behind it, and
when it is about to post, its ID is free or holds the same object.  Where no two
objects share an ID this is so for ever; where they do, it can be broken by
somebody at work at the same time, or by a GET that hides another object, and
then `disturbed` is true.  From it follow `NothingOverwritten` and `OneDocument`.
`RowsInv` adds where the references of a row lead, in the same two
strengths: to the object as far as its ID tells (which gives `ImplementsCatalog`: a
new row is a described measurement of its package, and an old one stays so since
whatever replaces a document has its ID) and, until then, to the very object
(`StoredAreDescribed`).

**`AnalysisProofs`.**  Three facts about data come first.  A set of natural
numbers that has a member has a least one (`LeastMember`, from the
well-foundedness of `<`), so one that holds 0 and the successor of each of its
members holds all (`Induction`).  `Sorted` lists every element of a finite set
once and in its order (`SortedSound`), because what precedes one is a proper
subset of what precedes the next, and an injection of a finite set into as many
places reaches them all.  `Totals`, by which a row of a file is found among all
measurements, adds up the lengths of the files (`TotalsAdd`, by `Induction`).
The invariant `Inv` has four parts.  `FilesRead`: the measurements are the rows
of the files before the next one.  `Stages`: summaries and effects are the
sorted groups of all measurements from the step that makes them on.
`Comparisons`: the effect sizes that were printed and those still in `effects`
are together all of them, each once, and the printed ones have the right
summaries. `Printing`: what was printed last at each level is what `last`
remembers, and headings of events come in strictly increasing order, which is
why none is repeated; for that, what is pending is in order as well.
`HeadingsPrinted` is the step of `summarize::write`: it follows the last
heading of each level through the up to three headings that are written. From
`Inv` follow `EveryRowSummarized`, `HeadingsAreRight`, `NothingLeftOut` (two
engines in each group, `TwoEngines`) and `ShownIsCompared`: `get_summary` takes
the first summary that fits, which is that of the earliest architecture
(`SummaryFound`, `ArchitectureFirst`).

**`ReportProofs`.**  While files are read, the measurements are the blocks of the
files before the next one (`ReadInv`); afterwards the benchmarks with statistics
and those that are left make up all benchmarks, and every benchmark with statistics
was acceptable (`StatsInv`), whichever the hash map had next.
`ReportableIffAcceptable` says once that this is what the input files decide.
`TableIsAligned` rests on `ReportIsComplete`: if every benchmark has the same engines
then each row has a cell for every engine but the baseline, and so has the header,
which is made from the first benchmark there is (`LeastMember`).

**Refinement.**  `RunnerProofs` and `OrchestratorProofs` prove `ImplementsPlan`:
every behaviour starts in an initial state of `BenchPlan` and each step is one of
its steps or a stutter.  `ImplementsCatalog` and `ImplementsEngine` are the other two.

## What is only model-checked

* The liveness half of `RunsThePlan`, and `UploadEnds` (the prover has no
  `ENABLED`).
* Nothing else.  Where a proof needs induction over data it uses least members
  of sets of numbers; the induction theorems of the library, which take an operator as a
  parameter, and `RECURSIVE` operators are out of the prover's reach, and the
  modules here have neither.

## What is not modelled, and why

* Counts, clocks and statistics: floating-point arithmetic and hardware.
* The elapsed-time estimate of the progress line and everything printed or
  logged.
* Benchmark suites (a file with a list of paths) and the command line's dispatch:
  sequential, without state.  Of Wasm validation the imports that are looked for
  are part of `Guest`; reading and parsing the file is the work of a library.
* CPU pinning: one call into a library; its failure is one of the outcomes of
  `CreateOutput`.
* The charts, labels and layout of the HTML report.
* The engine build script: it runs `git` and `cargo` and copies two files, while
  nothing else of Sightglass runs.  What it leaves behind if it is interrupted, a
  library beside the `.build-info` of another one, is described by `Fingerprint`
  as the code describes it: by the wrong build.
* The native library declares a `WasmBenchConfig` that ends in three fields which
  that of the runner does not have (`working_dir`, `stdout_file`, `stderr_file`,
  lines 67-69), takes it by value and drops it.  What a build does with values that nobody
  passed is not modelled: `Create` uses the fields that both declare.
* What an overlap of uploads that fight over an ID makes of their documents is
  modelled, and nothing is claimed of it beyond `KeepsCatalog`: nothing in the
  code prevents it.
* `Runner` assumes of an engine only the order of its callbacks and what it does
  to log files, `EngineLogs`, which `NativeEngine` implements.  The Wasmtime
  engine's own code is not in this repository beyond its build script.

## Plan

Done, in this order: `Measure`, `Results`, `BenchPlan`, `Runner`,
`Orchestrator` with their proofs; `Upload`; `NativeEngine` with its proofs;
`Analysis`; `Report` with its proofs; `Guest` and `RunnerWithClean` with their proofs;
`Fingerprint`, `Catalog` and the proofs of `Upload`; the proofs of `Analysis` and
the table of `Report`; `EngineLogs` and its implementation by `NativeEngine`.

What could follow:

1. Loops and inlined functions in `Guest`, whose benchmarks are unrolled now.
2. A child of `Orchestrator` as an instance of `Runner` with one engine and one
   benchmark, whose results (`ResultsExact`) are what the parent takes over.
