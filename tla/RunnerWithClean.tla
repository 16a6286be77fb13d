--------------------------- MODULE RunnerWithClean ---------------------------
(***************************************************************************)
(* `sightglass-cli clean` run while a benchmark is: CleanCommand::execute  *)
(* of crates/cli/src/clean.rs walks the directory of Runner's log files    *)
(* and unlinks them.  The two processes share nothing but that directory   *)
(* and do not know of each other.                                          *)
(***************************************************************************)
EXTENDS Runner

CONSTANT
  Cleaned         \* bound: the command lines during which logs are cleaned

VARIABLES
  cleaner,        \* what the clean command is doing
  due,            \* logs it has still to come across
  entry           \* the log it has come across and not yet unlinked

cleanVars == <<cleaner, due, entry>>

LogFiles == Wasms \X Streams

Present == {f \in LogFiles : logs[f[1]][f[2]] # "absent"}

InitWithClean ==
  /\ Init
  /\ cleaner = "off"
  /\ due = {}
  /\ entry = {}

(* read_dir: what is there now is listed unless it disappears first.       *)
OpenDirectory ==
  /\ cleaner = "off" /\ cmd \in Cleaned
  /\ cleaner' = "listing"
  /\ due' = Present
  /\ UNCHANGED <<entry, vars>>

(* The next entry, whose name looks like that of a log file.  A file that  *)
(* was created since may be listed, too, and one that is gone still be.    *)
NextEntry ==
  /\ cleaner = "listing" /\ entry = {}
  /\ \E f \in Present \union due :
       /\ entry' = {f}
       /\ due' = due \ {f}
  /\ UNCHANGED <<cleaner, vars>>

(* remove_file, whose error ends the command: the log is gone already, or  *)
(* it may not be removed.                                                  *)
RemoveEntry ==
  /\ cleaner = "listing"
  /\ \E f \in entry :
       \/ /\ f \in Present
          /\ logs' = [logs EXCEPT ![f[1]][f[2]] = "absent"]
          /\ unremoved' = unremoved \ {f}
          /\ UNCHANGED cleaner
       \/ /\ cleaner' = "failed"
          /\ UNCHANGED <<logs, unremoved>>
  /\ entry' = {}
  /\ UNCHANGED <<cmd, expected, pc, counters, held, todo, callbacks, recorder,
                 collected, output, suspect, due>>

EndOfDirectory ==
  /\ cleaner = "listing" /\ entry = {}
  /\ due \intersect Present = {}
  /\ cleaner' = "done"
  /\ due' = {}
  /\ UNCHANGED <<entry, vars>>

Clean == OpenDirectory \/ NextEntry \/ RemoveEntry \/ EndOfDirectory

RunnerStep == Step /\ UNCHANGED cleanVars

NextWithClean ==
  \/ RunnerStep
  \/ Clean
  \/ Exited /\ UNCHANGED cleanVars

(* The clean command may be started at any time, or never.                 *)
SpecWithClean ==
  /\ InitWithClean
  /\ [][NextWithClean]_<<vars, cleanVars>>
  /\ WF_<<vars, cleanVars>>(RunnerStep)

-----------------------------------------------------------------------------
CleanTypeOK ==
  /\ TypeOK
  /\ cleaner \in {"off", "listing", "done", "failed"}
  /\ due \subseteq LogFiles
  /\ entry \subseteq LogFiles

(* Unless someone else cleans up, logs are removed after a successful      *)
(* iteration if --keep-logs does not ask to keep them, and those of a      *)
(* benchmark that printed something wrong are there to be looked at.  The  *)
(* clean command can only take logs away: what a successful run that does  *)
(* not keep them leaves are logs that could not be removed.                *)
LogsPolicyWithClean ==
  /\ cleaner = "off" => LogsPolicy
  /\ pc = "done" /\ ~cmd.keepLogs => Present \subseteq unremoved
=============================================================================
