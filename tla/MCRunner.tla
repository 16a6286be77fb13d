------------------------------ MODULE MCRunner -------------------------------
(***************************************************************************)
(* A small instance of Runner, and of the clean command beside it, for TLC.*)
(***************************************************************************)
EXTENDS RunnerWithClean

MCPaths == <<"old.so", "new.so">>

Command(phases, keepLogs, raw, format, levels, names) ==
  [phase : phases, keepLogs : keepLogs, raw : raw, format : format, level : levels,
   names : names]

(* Every phase option with and without --keep-logs; what is written, and   *)
(* where, for both formats, names that tell the engines apart and names    *)
(* that do not, and a significance level that is out of range.             *)
MCCommands ==
  Command(PhaseOptions, BOOLEAN, {TRUE}, {"json"}, {"valid"}, {<<>>})
    \union
  Command({"all", "execution"}, {TRUE}, {FALSE}, {"json"}, {"valid"}, {<<>>})
    \union
  Command({"all"}, {TRUE}, {TRUE}, {"csv"}, {"valid"}, {<<>>})
    \union
  Command({"all"}, {TRUE}, BOOLEAN, {"json"}, {"valid"},
          {<<"old", "new">>, <<"same", "same">>})
    \union
  Command({"all"}, {TRUE}, BOOLEAN, {"json"}, {"invalid"}, {<<>>})

(* benchmarks/README.md: bench.start and bench.end exactly once, in order. *)
MCGuestCalls == {<<"start", "end">>}

(* Logs are unlinked while a benchmark is executed and compared, and while *)
(* the runner removes them itself.                                         *)
MCCleaned == Command({"compilation"}, {FALSE}, {TRUE}, {"json"}, {"valid"}, {<<>>})
               \union
             Command({"execution"}, {TRUE}, {TRUE}, {"json"}, {"valid"}, {<<>>})
=============================================================================
