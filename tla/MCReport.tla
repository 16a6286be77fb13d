------------------------------ MODULE MCReport -------------------------------
(***************************************************************************)
(* Small instances of Report for TLC.                                      *)
(***************************************************************************)
EXTENDS Report

MCBlock(engine, benchmark, form, selected, samples) ==
  [engine |-> engine, wasm |-> [form |-> form, benchmark |-> benchmark],
   selected |-> selected, samples |-> samples]

(* What one engine measured of two benchmarks, perhaps beginning with      *)
(* something that is not selected.                                         *)
MCBlocks(engine, samples, form, other) ==
  LET of(b) == IF samples[b] = 0 THEN <<>>
               ELSE <<MCBlock(engine, b, form, TRUE, samples[b])>>
  IN  (IF other THEN <<MCBlock(engine, 1, form, FALSE, 3)>> ELSE <<>>) \o of(1) \o of(2)

MCFile(holds, suffix, blocks) == [holds |-> holds, suffix |-> suffix, blocks |-> blocks]

MCJson(engines, counts, forms, others) ==
  {MCFile("json", "json", MCBlocks(e, n, form, other)) :
     e \in engines, n \in [1..2 -> counts], form \in forms, other \in others}

(* Two files with too few or enough samples, three files with enough or    *)
(* none, and files in the other format or with another suffix.             *)
MCPairs ==
  {<<f, g>> : f \in MCJson({1, 2}, {0, 1, 2, 3}, {"short"}, BOOLEAN),
              g \in MCJson({1, 2}, {0, 2, 4}, {"long"}, {FALSE})}

MCTriples ==
  {<<f, g, h>> : f \in MCJson({1, 2, 3}, {0, 3}, {"short"}, BOOLEAN),
                 g, h \in MCJson({1, 2, 3}, {0, 3}, {"long"}, {FALSE})}

MCOtherFormats ==
  LET samples == [b \in 1..2 |-> 3]
      one(e) == {MCFile(holds, suffix, MCBlocks(e, samples, "short", FALSE)) :
                   holds \in {"json", "csv"}, suffix \in {"json", "csv", "txt"}}
  IN  {<<f, g>> : f \in one(1), g \in one(2)}

MCInputs == MCPairs \union MCTriples \union MCOtherFormats

MCCommand(formats, baselines, levels) ==
  [format : formats, baseline : baselines, level : levels]

MCCommands ==
  MCCommand({NotGiven}, {NotGiven, 2}, {"valid"})
    \union MCCommand({"csv"}, {NotGiven}, {"valid", "invalid"})

MCOneCommand == MCCommand({NotGiven}, {NotGiven}, {"valid"})
=============================================================================
