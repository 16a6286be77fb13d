--------------------------- MODULE MCOrchestrator ----------------------------
(***************************************************************************)
(* A small instance of Orchestrator for TLC.                               *)
(***************************************************************************)
EXTENDS Orchestrator

MCPaths == <<"old.so", "new.so">>

Command(raw, format, levels, names, dirs) ==
  [raw : raw, format : format, level : levels, names : names, workingDir : dirs]

MCCommands ==
  Command(BOOLEAN, {"json", "csv"}, {"valid", "invalid"}, {<<>>}, {NotGiven})

(* Options that a child should know of.                                    *)
MCOptions == Command({FALSE}, {"json"}, {"valid"}, {<<"old", "new">>}, {"dir"})

MCGroups == {[phase |-> "execution", event |-> "cycles"]}
=============================================================================
