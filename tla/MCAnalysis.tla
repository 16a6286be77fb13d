----------------------------- MODULE MCAnalysis ------------------------------
(***************************************************************************)
(* Small instances of Analysis for TLC.                                    *)
(***************************************************************************)
EXTENDS Analysis

Row(arch, engine, wasm, phase, event, zero) ==
  [arch |-> arch, engine |-> engine, wasm |-> wasm, phase |-> phase, event |-> event,
   zero |-> zero]

Command(name, format, human, level) ==
  [name : {name}, format : format, human : human, level : level]

(* For summaries: a file of up to two rows and one of up to one, with any  *)
(* benchmark, phase and event, one of these also from another              *)
(* architecture, and one by the same engine with flags.                    *)
MCRows ==
  {Row(1, <<1, 0>>, w, p, e, FALSE) : w, p, e \in {1, 2}}
    \union {Row(2, <<1, 0>>, 1, 1, 1, FALSE), Row(1, <<1, 1>>, 1, 2, 1, FALSE)}

MCFiles == {<<>>} \union {<<r>> : r \in MCRows} \union {<<r, s>> : r, s \in MCRows}

MCSummaryInputs == {<<f, g>> : f \in MCFiles, g \in {f \in MCFiles : Len(f) < 2}}

MCSummarize ==
  Command("summarize", {"json", "csv"}, BOOLEAN, {"valid"})

(* For effect sizes: each file holds what one engine counted of three      *)
(* groups, nothing at all or something.                                    *)
MCGroups == <<[phase |-> 1, event |-> 1], [phase |-> 1, event |-> 2],
              [phase |-> 2, event |-> 1]>>

MCEngineFile(arch, engine, groups, zero) ==
  [i \in 1..Len(groups) |->
     Row(arch, engine, 1, groups[i].phase, groups[i].event, zero[i])]

MCEngines == {<<1, 0>>, <<1, 1>>, <<2, 0>>}

MCEngineFiles ==
  {MCEngineFile(1, engine, SubSeq(MCGroups, 1, n), zero) :
     engine \in MCEngines, n \in 0..3, zero \in [1..3 -> BOOLEAN]}

MCEffectInputs ==
  {<<f, g>> : f, g \in MCEngineFiles} \union {<<f, f, g>> : f, g \in MCEngineFiles}

(* What three engines counted, on one of two architectures each; with four *)
(* files two engines can be compared on both.                              *)
MCArchFiles(counts) ==
  {MCEngineFile(arch, engine, SubSeq(MCGroups, 1, n), [i \in 1..3 |-> FALSE]) :
     arch \in {1, 2}, engine \in MCEngines, n \in counts}

MCArchInputs ==
  {<<f, g, h>> : f, g, h \in MCArchFiles({1, 2})}
    \union {<<f, g, h, i>> : f, g, h, i \in MCArchFiles({1})}

MCInputs == MCSummaryInputs \union MCEffectInputs \union MCArchInputs

MCCommands ==
  MCSummarize \union Command("effect-size", {"json"}, BOOLEAN, {"valid", "invalid"})

(* Several CSV files, and JSON files of events that were never counted.    *)
MCCsvCommands == Command("summarize", {"csv"}, {TRUE}, {"valid"})

MCEffectCommands == Command("effect-size", {"json"}, {TRUE}, {"valid"})
=============================================================================
