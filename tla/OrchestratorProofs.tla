------------------------- MODULE OrchestratorProofs --------------------------
(***************************************************************************)
(* What Orchestrator guarantees for every number of engines, benchmarks    *)
(* and processes: its types, the account its worklist keeps, that results  *)
(* are written only when they are complete, that the progress counter      *)
(* stays within its total, and that it takes only the steps of BenchPlan.  *)
(***************************************************************************)
EXTENDS Orchestrator, FiniteSetTheorems, TLAPS

(***************************************************************************)
(* The inductive invariant.  WorklistAccounts is not inductive alone: that *)
(* a benchmark's entries can be added without a clash needs the worklist   *)
(* to hold checked engines only and nothing to have run before the checks  *)
(* are over, that the results are complete needs all engines to have been  *)
(* checked once the loop is entered and the worklist to be empty after it. *)
(***************************************************************************)
CheckedOnly == \A k \in DOMAIN choices : choices[k].engine <= ei

NothingRunYet ==
  pc \in {"create-output", "check-engines"} => \A p \in Pairs : collected[p] = 0

AllChecked == pc \in {"loop", "wait", "write", "done"} => ei = NEngines

WorklistEmptied == pc \in {"write", "done"} => choices = <<>>

IInv ==
  /\ TypeOK
  /\ WorklistAccounts
  /\ CheckedOnly
  /\ NothingRunYet
  /\ AllChecked
  /\ WorklistEmptied

(* The sizes of the plan.                                                  *)
LEMMA Sizes == NEngines \in Nat \ {0} /\ NWasms \in Nat /\ Processes \in Nat \ {0, 1}
  BY OrchestratorAssumption

-----------------------------------------------------------------------------
(* The parts of a concatenation.                                           *)
LEMMA ConcatParts ==
  ASSUME NEW S, NEW s \in Seq(S), NEW t \in Seq(S)
  PROVE  /\ s \o t \in Seq(S)
         /\ DOMAIN (s \o t) = 1..(Len(s) + Len(t))
         /\ \A k \in 1..Len(s) : (s \o t)[k] = s[k]
         /\ \A k \in (Len(s) + 1)..(Len(s) + Len(t)) : (s \o t)[k] = t[k - Len(s)]
  OBVIOUS

(* Taking an entry out of the worklist leaves a shorter worklist.          *)
LEMMA SwapRemoveType ==
  ASSUME NEW S, NEW s \in Seq(S), NEW k \in DOMAIN s
  PROVE  /\ SwapRemove(s, k) \in Seq(S)
         /\ Len(SwapRemove(s, k)) = Len(s) - 1
         /\ DOMAIN SwapRemove(s, k) = 1..(Len(s) - 1)
  BY DEF SwapRemove

(* Each entry but the removed one is still there, in one place.            *)
LEMMA SwapRemoveKeeps ==
  ASSUME NEW S, NEW s \in Seq(S), NEW k \in DOMAIN s
  PROVE  \A j \in DOMAIN s :
           j # k => \E m \in DOMAIN SwapRemove(s, k) : SwapRemove(s, k)[m] = s[j]
<1> SUFFICES ASSUME NEW j \in DOMAIN s, j # k
             PROVE  \E m \in DOMAIN SwapRemove(s, k) : SwapRemove(s, k)[m] = s[j]
  OBVIOUS
<1>1. CASE j = Len(s)
  <2>1. /\ k \in DOMAIN SwapRemove(s, k)
        /\ SwapRemove(s, k)[k] = s[j]
    BY <1>1 DEF SwapRemove
  <2> QED BY <2>1
<1>2. CASE j # Len(s)
  <2>1. /\ j \in DOMAIN SwapRemove(s, k)
        /\ SwapRemove(s, k)[j] = s[j]
    BY <1>2 DEF SwapRemove
  <2> QED BY <2>1
<1> QED BY <1>1, <1>2

(* No entry is there twice, and the removed one is not there at all.       *)
LEMMA SwapRemoveFrom ==
  ASSUME NEW S, NEW s \in Seq(S), NEW k \in DOMAIN s
  PROVE  \A m \in DOMAIN SwapRemove(s, k) :
           LET from == IF m = k THEN Len(s) ELSE m
           IN  /\ from \in DOMAIN s
               /\ from # k
               /\ SwapRemove(s, k)[m] = s[from]
  BY DEF SwapRemove

-----------------------------------------------------------------------------
(* A new command has nothing on its worklist and has collected nothing.    *)
LEMMA InitIInv == Init => IInv
<1> SUFFICES ASSUME Init PROVE IInv
  OBVIOUS
<1> USE OrchestratorAssumption
<1>1. TypeOK
  BY DEF Init, TypeOK, Terminal
<1>2. WorklistAccounts
  BY DEF Init, WorklistAccounts, LeftToRun, OneEntryPerPair, UnfinishedListed,
         Pairs, Engines, Wasms
<1>3. CheckedOnly /\ NothingRunYet /\ AllChecked /\ WorklistEmptied
  BY DEF Init, CheckedOnly, NothingRunYet, AllChecked, WorklistEmptied
<1> QED BY <1>1, <1>2, <1>3 DEF IInv

(* An engine that exists brings a new entry for every benchmark.           *)
LEMMA CheckEngineIInv ==
  ASSUME IInv, CheckEngine
  PROVE  IInv'
<1> DEFINE new == [w \in Wasms |-> [engine |-> ei + 1, wasm |-> w, left |-> Processes]]
           old == Len(choices)
<1> USE Sizes
<1>1. /\ choices \in Seq(Choices) /\ DOMAIN choices = 1..old
      /\ ei \in Nat /\ ei < NEngines /\ ei' = ei + 1
      /\ pc = "check-engines" /\ child = NoChild /\ collected \in [Pairs -> 0..Processes]
      /\ UNCHANGED <<cmd, pc, child, i, collected, reported, output>>
      /\ choices' = choices \o new
  BY DEF IInv, TypeOK, CheckEngine
<1>2. \A k \in DOMAIN choices :
        /\ choices[k].engine \in Engines /\ choices[k].engine <= ei
        /\ choices[k].wasm \in Wasms /\ choices[k].left \in 1..Processes
  <2>1. \A k \in DOMAIN choices : choices[k] \in Choices
    BY <1>1
  <2> QED BY <2>1 DEF IInv, CheckedOnly, Choices
<1>3. new \in [1..NWasms -> Choices]
  BY <1>1 DEF Choices, Engines, Wasms
<1>4. /\ choices' \in Seq(Choices)
      /\ \A k \in DOMAIN choices : k \in DOMAIN choices' /\ choices'[k] = choices[k]
      /\ \A w \in Wasms : old + w \in DOMAIN choices' /\ choices'[old + w] = new[w]
      /\ \A k \in DOMAIN choices' : k \in DOMAIN choices \/ \E w \in Wasms : k = old + w
  <2>1. NWasms \in Nat
    OBVIOUS
  <2> HIDE DEF new
  <2>0. /\ choices' \in Seq(Choices) /\ DOMAIN choices' = 1..(old + NWasms)
        /\ \A k \in DOMAIN choices : choices'[k] = choices[k]
        /\ \A w \in Wasms : choices'[old + w] = new[w]
        /\ \A k \in DOMAIN choices' : k \in DOMAIN choices \/ \E w \in Wasms : k = old + w
    <3>1. choices \in Seq(Choices) /\ old \in Nat /\ new \in Seq(Choices) /\ Len(new) = NWasms
      BY <1>1, <1>3, <2>1
    <3>2. /\ choices' \in Seq(Choices)
          /\ DOMAIN choices' = 1..(old + NWasms)
          /\ \A k \in 1..old : choices'[k] = choices[k]
          /\ \A k \in (old + 1)..(old + NWasms) : choices'[k] = new[k - old]
      <4>1. /\ choices \o new \in Seq(Choices)
            /\ DOMAIN (choices \o new) = 1..(Len(choices) + Len(new))
            /\ \A k \in 1..Len(choices) : (choices \o new)[k] = choices[k]
            /\ \A k \in (Len(choices) + 1)..(Len(choices) + Len(new)) :
                 (choices \o new)[k] = new[k - Len(choices)]
        BY <3>1, ConcatParts, Zenon
      <4> QED BY <1>1, <3>1, <4>1, Zenon
    <3>3. ASSUME NEW w \in Wasms
          PROVE  choices'[old + w] = new[w]
      <4>1. old + w \in (old + 1)..(old + NWasms) /\ (old + w) - old = w
        BY <2>1, <3>1 DEF Wasms
      <4> QED BY <3>2, <4>1
    <3>4. ASSUME NEW k \in DOMAIN choices', k \notin DOMAIN choices
          PROVE  \E w \in Wasms : k = old + w
      <4>1. k - old \in Wasms /\ k = old + (k - old)
        BY <1>1, <2>1, <3>1, <3>2, <3>4 DEF Wasms
      <4> QED BY <4>1
    <3> QED BY <1>1, <3>2, <3>3, <3>4
  <2>2. \A k \in DOMAIN choices : k \in 1..(old + NWasms)
    BY <1>1, <2>1
  <2>3. \A w \in Wasms : old + w \in 1..(old + NWasms)
    BY <1>1, <2>1 DEF Wasms
  <2> QED BY <2>0, <2>2, <2>3
<1>5. \A w \in Wasms : /\ choices'[old + w].engine = ei + 1
                       /\ choices'[old + w].wasm = w
                       /\ choices'[old + w].left = Processes
  <2>1. \A w \in Wasms : new[w] = [engine |-> ei + 1, wasm |-> w, left |-> Processes]
    OBVIOUS
  <2> HIDE DEF new
  <2> TAKE w \in Wasms
  <2>2. choices'[old + w] = new[w]
    BY <1>4
  <2>3. choices'[old + w] = [engine |-> ei + 1, wasm |-> w, left |-> Processes]
    BY <2>1, <2>2
  <2> QED BY <2>3
<1> HIDE DEF new, old
<1>6. TypeOK'
  BY <1>1, <1>4 DEF IInv, TypeOK, Terminal
<1>7. LeftToRun'
  <2> SUFFICES ASSUME NEW k \in DOMAIN choices'
               PROVE  collected[PairOf(choices'[k])] + choices'[k].left = Processes
    BY <1>1 DEF LeftToRun, PairOf
  <2>1. CASE k \in DOMAIN choices
    BY <1>4, <2>1 DEF IInv, WorklistAccounts, LeftToRun
  <2>2. CASE \E w \in Wasms : k = old + w
    <3>1. PairOf(choices'[k]) \in Pairs /\ choices'[k].left = Processes
      BY <1>1, <1>5, <2>2 DEF PairOf, Pairs, Engines
    <3>2. collected[PairOf(choices'[k])] = 0
      BY <1>1, <3>1 DEF IInv, NothingRunYet
    <3> QED BY <3>1, <3>2
  <2> QED BY <1>4, <2>1, <2>2
<1>8. OneEntryPerPair'
  <2> SUFFICES ASSUME NEW k \in DOMAIN choices', NEW l \in DOMAIN choices',
                      PairOf(choices'[k]) = PairOf(choices'[l])
               PROVE  k = l
    BY DEF OneEntryPerPair, PairOf
  <2>1. /\ choices'[k].engine = choices'[l].engine
        /\ choices'[k].wasm = choices'[l].wasm
    BY DEF PairOf
  <2>2. \A m \in DOMAIN choices : choices'[m].engine # ei + 1
    BY <1>1, <1>2, <1>4 DEF Engines
  <2>3. CASE k \in DOMAIN choices /\ l \in DOMAIN choices
    BY <1>4, <2>3 DEF IInv, WorklistAccounts, OneEntryPerPair
  <2>4. CASE k \notin DOMAIN choices /\ l \notin DOMAIN choices
    BY <1>4, <1>5, <2>1, <2>4
  <2> QED BY <1>4, <1>5, <2>1, <2>2, <2>3, <2>4
<1>9. UnfinishedListed'
  <2> SUFFICES ASSUME NEW p \in Pairs, p[1] <= ei + 1, collected[p] < Processes
               PROVE  \E k \in DOMAIN choices' : PairOf(choices'[k]) = p
    BY <1>1 DEF UnfinishedListed, PairOf
  <2>1. CASE p[1] <= ei
    <3>1. PICK k \in DOMAIN choices : PairOf(choices[k]) = p
      BY <2>1 DEF IInv, WorklistAccounts, UnfinishedListed
    <3> QED BY <1>4, <3>1
  <2>2. CASE p[1] = ei + 1
    <3>1. p[2] \in Wasms /\ p = <<ei + 1, p[2]>>
      BY <2>2 DEF Pairs
    <3> QED BY <1>4, <1>5, <3>1 DEF PairOf
  <2> QED BY <1>1, <2>1, <2>2 DEF Pairs, Engines
<1>10. CheckedOnly'
  BY <1>1, <1>2, <1>4, <1>5 DEF CheckedOnly, Engines
<1>11. NothingRunYet' /\ AllChecked' /\ WorklistEmptied'
  BY <1>1 DEF IInv, NothingRunYet, AllChecked, WorklistEmptied
<1> QED BY <1>6, <1>7, <1>8, <1>9, <1>10, <1>11 DEF IInv, WorklistAccounts

(* Every entry of the worklist names an engine and a benchmark.            *)
LEMMA EntryTypes ==
  ASSUME IInv, NEW j \in DOMAIN choices
  PROVE  choices[j] \in Choices /\ PairOf(choices[j]) \in Pairs
<1>1. choices[j] \in Choices
  BY DEF IInv, TypeOK
<1> QED BY <1>1 DEF Choices, PairOf, Pairs

(* The entry that a successful child was spawned for.                      *)
LEMMA ChildEntry ==
  ASSUME IInv, ChildSucceeds
  PROVE  /\ choices \in Seq(Choices)
         /\ child.index \in DOMAIN choices
         /\ choices[child.index] \in Choices
         /\ choices[child.index].left \in 1..Processes
         /\ PairOf(choices[child.index]) \in Pairs
         /\ collected \in [Pairs -> 0..Processes]
         /\ collected[PairOf(choices[child.index])] + choices[child.index].left = Processes
         /\ choices' = Consumed(choices, child.index)
         /\ collected' = [collected EXCEPT ![PairOf(choices[child.index])] = @ + 1]
         /\ pc = "wait" /\ pc' = "loop" /\ child' = NoChild /\ i' = i + 1
         /\ UNCHANGED <<cmd, ei, output>>
<1>1. choices \in Seq(Choices) /\ child.index \in DOMAIN choices
  BY DEF IInv, TypeOK, ChildSucceeds
<1>2. choices[child.index] \in Choices
  BY <1>1
<1>3. /\ choices[child.index].left \in 1..Processes
      /\ PairOf(choices[child.index]) \in Pairs
  BY <1>2 DEF Choices, PairOf, Pairs
<1>4. collected[PairOf(choices[child.index])] + choices[child.index].left = Processes
  BY <1>1 DEF IInv, WorklistAccounts, LeftToRun
<1> QED BY <1>1, <1>2, <1>3, <1>4 DEF IInv, TypeOK, ChildSucceeds

(* Its last process done, the entry leaves the worklist.                   *)
LEMMA LastProcessIInv ==
  ASSUME IInv, ChildSucceeds, choices[child.index].left = 1
  PROVE  IInv'
<1> DEFINE k == child.index
           p == PairOf(choices[k])
           From(m) == IF m = k THEN Len(choices) ELSE m
<1> USE Sizes
<1>1. /\ choices \in Seq(Choices) /\ k \in DOMAIN choices /\ p \in Pairs
      /\ collected \in [Pairs -> 0..Processes] /\ collected[p] + 1 = Processes
      /\ choices' = SwapRemove(choices, k)
      /\ collected' = [collected EXCEPT ![p] = @ + 1]
      /\ pc = "wait" /\ pc' = "loop" /\ child' = NoChild /\ i' = i + 1
      /\ UNCHANGED <<cmd, ei, output>>
  BY ChildEntry DEF Consumed
<1>2. /\ choices' \in Seq(Choices)
      /\ DOMAIN choices' = 1..(Len(choices) - 1)
  BY <1>1, SwapRemoveType
<1>3. \A m \in DOMAIN choices' :
        From(m) \in DOMAIN choices /\ From(m) # k /\ choices'[m] = choices[From(m)]
  BY <1>1, SwapRemoveFrom
<1>4. \A j \in DOMAIN choices : j # k => \E m \in DOMAIN choices' : choices'[m] = choices[j]
  BY <1>1, SwapRemoveKeeps
<1>5. \A j \in DOMAIN choices : j # k => PairOf(choices[j]) # p
  BY <1>1 DEF IInv, WorklistAccounts, OneEntryPerPair
<1>6. /\ collected'[p] = Processes
      /\ \A q \in Pairs : q # p => collected'[q] = collected[q]
  BY <1>1
<1> HIDE DEF k, p
<1>7. TypeOK'
  BY <1>1, <1>2, <1>6 DEF IInv, TypeOK, Terminal
<1>8. LeftToRun'
  <2> SUFFICES ASSUME NEW m \in DOMAIN choices'
               PROVE  collected'[PairOf(choices'[m])] + choices'[m].left = Processes
    BY DEF LeftToRun, PairOf
  <2>1. /\ From(m) \in DOMAIN choices /\ choices'[m] = choices[From(m)]
        /\ PairOf(choices[From(m)]) # p
    BY <1>3, <1>5
  <2>2. PairOf(choices[From(m)]) \in Pairs
    BY <2>1, EntryTypes
  <2>3. collected[PairOf(choices[From(m)])] + choices[From(m)].left = Processes
    BY <2>1 DEF IInv, WorklistAccounts, LeftToRun
  <2> QED BY <1>6, <2>1, <2>2, <2>3
<1>9. OneEntryPerPair'
  <2> SUFFICES ASSUME NEW m \in DOMAIN choices', NEW l \in DOMAIN choices',
                      PairOf(choices'[m]) = PairOf(choices'[l])
               PROVE  m = l
    BY DEF OneEntryPerPair, PairOf
  <2>1. From(m) = From(l)
    BY <1>3 DEF IInv, WorklistAccounts, OneEntryPerPair
  <2>2. m # Len(choices) /\ l # Len(choices)
    BY <1>1, <1>2
  <2> QED BY <2>1, <2>2
<1>10. UnfinishedListed'
  <2> SUFFICES ASSUME NEW q \in Pairs, q[1] <= ei, collected'[q] < Processes
               PROVE  \E m \in DOMAIN choices' : PairOf(choices'[m]) = q
    BY <1>1 DEF UnfinishedListed, PairOf
  <2>1. q # p /\ collected[q] < Processes
    BY <1>1, <1>6
  <2>2. PICK j \in DOMAIN choices : PairOf(choices[j]) = q
    BY <2>1 DEF IInv, WorklistAccounts, UnfinishedListed
  <2>3. j # k
    BY <2>1, <2>2 DEF p
  <2> QED BY <1>4, <2>2, <2>3
<1>11. CheckedOnly' /\ NothingRunYet' /\ AllChecked' /\ WorklistEmptied'
  BY <1>1, <1>3 DEF IInv, CheckedOnly, NothingRunYet, AllChecked, WorklistEmptied
<1> QED BY <1>7, <1>8, <1>9, <1>10, <1>11 DEF IInv, WorklistAccounts

(* Otherwise it stays where it is with one process less to go.             *)
LEMMA OneProcessIInv ==
  ASSUME IInv, ChildSucceeds, choices[child.index].left # 1
  PROVE  IInv'
<1> DEFINE k == child.index
           p == PairOf(choices[k])
<1> USE OrchestratorAssumption
<1>1. /\ choices \in Seq(Choices) /\ k \in DOMAIN choices /\ p \in Pairs
      /\ choices[k] \in Choices /\ choices[k].left \in 2..Processes
      /\ collected \in [Pairs -> 0..Processes] /\ collected[p] + choices[k].left = Processes
      /\ choices' = [choices EXCEPT ![k] = [choices[k] EXCEPT !.left = @ - 1]]
      /\ collected' = [collected EXCEPT ![p] = @ + 1]
      /\ pc = "wait" /\ pc' = "loop" /\ child' = NoChild /\ i' = i + 1
      /\ UNCHANGED <<cmd, ei, output>>
  BY ChildEntry DEF Consumed
<1>2. /\ [choices[k] EXCEPT !.left = @ - 1] \in Choices
      /\ [choices[k] EXCEPT !.left = @ - 1]
           = [engine |-> choices[k].engine, wasm |-> choices[k].wasm,
              left |-> choices[k].left - 1]
  <2> DEFINE c == choices[k]
  <2>1. c \in [engine : Engines, wasm : Wasms, left : 1..Processes] /\ c.left \in 2..Processes
    BY <1>1 DEF Choices
  <2>2. c.left - 1 \in 1..Processes
    BY <2>1
  <2> HIDE DEF c
  <2>3. /\ [c EXCEPT !.left = @ - 1] = [engine |-> c.engine, wasm |-> c.wasm, left |-> c.left - 1]
        /\ c.engine \in Engines /\ c.wasm \in Wasms
    BY <2>1
  <2>4. [c EXCEPT !.left = @ - 1] \in Choices
    BY <2>2, <2>3 DEF Choices
  <2> QED BY <2>3, <2>4 DEF c
<1>3. /\ choices' \in Seq(Choices) /\ DOMAIN choices' = DOMAIN choices
      /\ \A m \in DOMAIN choices : m # k => choices'[m] = choices[m]
      /\ choices'[k].engine = choices[k].engine /\ choices'[k].wasm = choices[k].wasm
      /\ choices'[k].left = choices[k].left - 1
  <2> DEFINE c == [choices[k] EXCEPT !.left = @ - 1]
  <2>1. c.engine = choices[k].engine /\ c.wasm = choices[k].wasm /\ c.left = choices[k].left - 1
    BY <1>2
  <2>2. c \in Choices /\ choices' = [choices EXCEPT ![k] = c]
    BY <1>1, <1>2
  <2> HIDE DEF c
  <2>3. /\ choices' \in Seq(Choices) /\ DOMAIN choices' = DOMAIN choices
        /\ \A m \in DOMAIN choices : m # k => choices'[m] = choices[m]
        /\ choices'[k] = c
    BY <1>1, <2>2
  <2> QED BY <2>1, <2>3
<1>4. \A m \in DOMAIN choices : PairOf(choices'[m]) = PairOf(choices[m])
  BY <1>3 DEF PairOf
<1>5. \A j \in DOMAIN choices : j # k => PairOf(choices[j]) # p
  BY <1>1 DEF IInv, WorklistAccounts, OneEntryPerPair
<1>6. /\ collected'[p] = collected[p] + 1
      /\ \A q \in Pairs : q # p => collected'[q] = collected[q]
      /\ collected' \in [Pairs -> 0..Processes]
  BY <1>1
<1>7. PairOf(choices[k]) = p
  OBVIOUS
<1> HIDE DEF k, p
<1>8. TypeOK'
  BY <1>1, <1>3, <1>6 DEF IInv, TypeOK, Terminal
<1>9. LeftToRun'
  <2> SUFFICES ASSUME NEW m \in DOMAIN choices
               PROVE  collected'[PairOf(choices[m])] + choices'[m].left = Processes
    BY <1>3, <1>4 DEF LeftToRun, PairOf
  <2>1. CASE m = k
    <3>1. /\ collected'[p] = collected[p] + 1 /\ choices'[k].left = choices[k].left - 1
          /\ collected[p] \in Nat /\ choices[k].left \in Nat
          /\ collected[p] + choices[k].left = Processes
      BY <1>1, <1>3, <1>6
    <3>2. collected'[p] + choices'[k].left = Processes
      BY <3>1
    <3> QED BY <1>7, <2>1, <3>2
  <2>2. CASE m # k
    <3>1. PairOf(choices[m]) \in Pairs
      BY EntryTypes
    <3>2. collected[PairOf(choices[m])] + choices[m].left = Processes
      BY DEF IInv, WorklistAccounts, LeftToRun
    <3> QED BY <1>3, <1>5, <1>6, <2>2, <3>1, <3>2
  <2> QED BY <2>1, <2>2
<1>10. OneEntryPerPair'
  <2> SUFFICES ASSUME NEW m \in DOMAIN choices, NEW l \in DOMAIN choices,
                      PairOf(choices[m]) = PairOf(choices[l])
               PROVE  m = l
    BY <1>3, <1>4 DEF OneEntryPerPair, PairOf
  <2> QED BY DEF IInv, WorklistAccounts, OneEntryPerPair
<1>11. UnfinishedListed'
  <2> SUFFICES ASSUME NEW q \in Pairs, q[1] <= ei, collected'[q] < Processes
               PROVE  \E m \in DOMAIN choices : PairOf(choices[m]) = q
    BY <1>1, <1>3, <1>4 DEF UnfinishedListed, PairOf
  <2>1. collected[q] < Processes
    BY <1>1, <1>6
  <2> QED BY <2>1 DEF IInv, WorklistAccounts, UnfinishedListed
<1>12. CheckedOnly'
  <2> SUFFICES ASSUME NEW m \in DOMAIN choices
               PROVE  choices'[m].engine <= ei
    BY <1>1, <1>3 DEF CheckedOnly
  <2> QED BY <1>1, <1>3 DEF IInv, CheckedOnly
<1>13. NothingRunYet' /\ AllChecked' /\ WorklistEmptied'
  BY <1>1 DEF IInv, NothingRunYet, AllChecked, WorklistEmptied
<1> QED BY <1>8, <1>9, <1>10, <1>11, <1>12, <1>13 DEF IInv, WorklistAccounts

(* The steps that leave the worklist and what was collected alone.         *)
LEMMA OtherStepIInv ==
  ASSUME IInv,
         \/ CreateOutput \/ EngineMissing \/ EnginesChecked
         \/ \E k \in DOMAIN choices : SpawnChild(k)
         \/ ChildGarbled \/ ChildFails \/ AllChildrenDone \/ WriteResults
         \/ UNCHANGED vars
  PROVE  IInv'
<1> USE OrchestratorAssumption
<1>1. /\ ei' = ei /\ choices' = choices /\ collected' = collected /\ cmd' = cmd
  BY DEF CreateOutput, EngineMissing, EnginesChecked, SpawnChild, ChildGarbled,
         ChildFails, AllChildrenDone, WriteResults, vars
<1>2. WorklistAccounts' /\ CheckedOnly'
  BY <1>1 DEF IInv, WorklistAccounts, LeftToRun, OneEntryPerPair, UnfinishedListed,
              CheckedOnly, PairOf
<1>3. CASE CreateOutput
  BY <1>1, <1>2, <1>3 DEF IInv, TypeOK, Terminal, NothingRunYet, AllChecked,
                          WorklistEmptied, CreateOutput
<1>4. CASE EngineMissing
  BY <1>1, <1>2, <1>4 DEF IInv, TypeOK, Terminal, NothingRunYet, AllChecked,
                          WorklistEmptied, EngineMissing
<1>5. CASE EnginesChecked
  BY <1>1, <1>2, <1>5 DEF IInv, TypeOK, Terminal, NothingRunYet, AllChecked,
                          WorklistEmptied, EnginesChecked
<1>6. ASSUME NEW k \in DOMAIN choices, SpawnChild(k)
      PROVE  IInv'
  <2>1. /\ k \in Nat /\ choices[k] \in Choices
        /\ ChildCommand(choices[k]) \in ChildCommands
        /\ child' = [index |-> k, command |-> ChildCommand(choices[k])]
    BY <1>6, EntryTypes DEF IInv, TypeOK, SpawnChild, ChildCommand, ChildCommands, Choices
  <2>2. child' # NoChild /\ child'.index = k /\ child'.command = ChildCommand(choices[k])
    BY <2>1
  <2> QED BY <1>1, <1>2, <1>6, <2>2 DEF IInv, TypeOK, Terminal, NothingRunYet, AllChecked,
                          WorklistEmptied, SpawnChild, ChildCommand
<1>7. CASE ChildGarbled
  BY <1>1, <1>2, <1>7 DEF IInv, TypeOK, Terminal, NothingRunYet, AllChecked,
                          WorklistEmptied, ChildGarbled
<1>8. CASE ChildFails
  BY <1>1, <1>2, <1>8 DEF IInv, TypeOK, Terminal, NothingRunYet, AllChecked,
                          WorklistEmptied, ChildFails
<1>9. CASE AllChildrenDone
  BY <1>1, <1>2, <1>9 DEF IInv, TypeOK, Terminal, NothingRunYet, AllChecked,
                          WorklistEmptied, AllChildrenDone
<1>10. CASE WriteResults
  BY <1>1, <1>2, <1>10 DEF IInv, TypeOK, Terminal, NothingRunYet, AllChecked,
                           WorklistEmptied, WriteResults, WrittenOutputs
<1>11. CASE UNCHANGED vars
  BY <1>1, <1>2, <1>11 DEF IInv, TypeOK, NothingRunYet, AllChecked, WorklistEmptied,
                           ChildCommand, vars
<1> QED BY <1>3, <1>4, <1>5, <1>6, <1>7, <1>8, <1>9, <1>10, <1>11

(* Every step preserves the inductive invariant.                           *)
LEMMA NextIInv == IInv /\ [Next]_vars => IInv'
<1> SUFFICES ASSUME IInv, [Next]_vars PROVE IInv'
  OBVIOUS
<1>1. CASE CheckEngine
  BY <1>1, CheckEngineIInv
<1>2. CASE ChildSucceeds
  BY <1>2, LastProcessIInv, OneProcessIInv
<1>3. CASE ~CheckEngine /\ ~ChildSucceeds
  BY <1>3, OtherStepIInv DEF Next, Step, Exited
<1> QED BY <1>1, <1>2, <1>3

(* The inductive invariant holds in every reachable state.                 *)
THEOREM Invariance == Spec => []IInv
  BY InitIInv, NextIInv, PTL DEF Spec

(* The variables keep their types; in particular a running child always    *)
(* belongs to an entry of the worklist (`choices[index]`).                 *)
THEOREM TypeCorrect == Spec => []TypeOK
<1>1. IInv => TypeOK
  BY DEF IInv
<1> QED BY <1>1, Invariance, PTL

(* The worklist accounts for every process still to be run: swap_remove    *)
(* loses no entry and repeats none, whatever order the entries are picked  *)
(* in.                                                                     *)
THEOREM WorklistCorrect == Spec => []WorklistAccounts
<1>1. IInv => WorklistAccounts
  BY DEF IInv
<1> QED BY <1>1, Invariance, PTL

(* Results are only ever written for a complete set of processes.          *)
THEOREM ResultsComplete == Spec => []WrittenComplete
<1>1. IInv => WrittenComplete
  <2> SUFFICES ASSUME IInv, pc \in {"write", "done"}, NEW p \in Pairs
               PROVE  collected[p] = Processes
    BY DEF WrittenComplete
  <2>1. choices = <<>> /\ ei = NEngines
    BY DEF IInv, WorklistEmptied, AllChecked
  <2>2. p[1] <= ei /\ collected[p] \in 0..Processes
    BY <2>1, OrchestratorAssumption DEF IInv, TypeOK, Pairs, Engines
  <2>3. ~(collected[p] < Processes)
    BY <2>1, <2>2 DEF IInv, WorklistAccounts, UnfinishedListed
  <2> QED BY <2>2, <2>3, OrchestratorAssumption
<1> QED BY <1>1, Invariance, PTL

-----------------------------------------------------------------------------
(***************************************************************************)
(* The progress counter against its total.  The processes that are done    *)
(* are numbered per pair; every successful child adds one, so that there   *)
(* are i of them, out of all the pairs and numbers there can be.  The      *)
(* counter runs one ahead only after a child whose output was garbled,     *)
(* when there was one more to run.                                         *)
(***************************************************************************)
AllProcesses == Pairs \X (1..Processes)

DoneProcesses == {x \in AllProcesses : x[2] <= collected[x[1]]}

CountInv ==
  /\ i \in Nat /\ i <= TotalRuns
  /\ pc # "failed" => i = Cardinality(DoneProcesses)

(* All processes that the plan asks for, and how many they are.            *)
LEMMA AllProcessesFinite ==
  IsFiniteSet(AllProcesses) /\ Cardinality(AllProcesses) = TotalRuns
<1>1. \A m \in Nat : IsFiniteSet(1..m) /\ Cardinality(1..m) = m
  BY FS_Interval
<1>2. /\ IsFiniteSet(Engines) /\ Cardinality(Engines) = NEngines
      /\ IsFiniteSet(Wasms) /\ Cardinality(Wasms) = NWasms
      /\ IsFiniteSet(1..Processes) /\ Cardinality(1..Processes) = Processes
  BY <1>1, OrchestratorAssumption DEF Engines, Wasms
<1>3. IsFiniteSet(Pairs) /\ Cardinality(Pairs) = NEngines * NWasms
  BY <1>2, FS_Product, Zenon DEF Pairs
<1>4. /\ IsFiniteSet(Pairs \X (1..Processes))
      /\ Cardinality(Pairs \X (1..Processes)) = Cardinality(Pairs) * Cardinality(1..Processes)
  BY <1>2, <1>3, FS_Product, Zenon
<1>5. Cardinality(Pairs) * Cardinality(1..Processes) = (NEngines * NWasms) * Processes
  BY <1>2, <1>3, Zenon
<1> QED BY <1>4, <1>5, Zenon DEF AllProcesses, TotalRuns

(* A set of some of them counts the total only when it is all of them.     *)
LEMMA CountOf ==
  ASSUME NEW D \in SUBSET AllProcesses
  PROVE  /\ IsFiniteSet(D) /\ Cardinality(D) \in Nat
         /\ Cardinality(D) <= TotalRuns
         /\ Cardinality(D) = TotalRuns => D = AllProcesses
<1>1. IsFiniteSet(D)
  BY AllProcessesFinite, FS_Subset
<1>2. Cardinality(D) <= TotalRuns /\ (Cardinality(D) = TotalRuns => D = AllProcesses)
  BY AllProcessesFinite, FS_Subset
<1> QED BY <1>1, <1>2, FS_CardinalityType

(* The processes that are done are finitely many.                          *)
LEMMA DoneProcessesFinite ==
  /\ IsFiniteSet(DoneProcesses) /\ Cardinality(DoneProcesses) \in Nat
  /\ Cardinality(DoneProcesses) <= TotalRuns
<1>1. DoneProcesses \in SUBSET AllProcesses
  BY DEF DoneProcesses
<1> QED BY <1>1, CountOf

(* The process a child runs is not done yet, so one more can be counted.   *)
LEMMA OneMore ==
  ASSUME IInv, pc = "wait"
  PROVE  LET p == PairOf(choices[child.index])
             x == <<p, collected[p] + 1>>
         IN  x \in AllProcesses \ DoneProcesses
<1> DEFINE p == PairOf(choices[child.index])
<1>1. /\ child.index \in DOMAIN choices /\ choices[child.index] \in Choices
      /\ p \in Pairs
  BY EntryTypes DEF IInv, TypeOK
<1>2. /\ collected[p] + choices[child.index].left = Processes
      /\ choices[child.index].left \in 1..Processes /\ collected[p] \in 0..Processes
  BY <1>1 DEF IInv, TypeOK, WorklistAccounts, LeftToRun, Choices
<1>3. collected[p] + 1 \in 1..Processes /\ ~(collected[p] + 1 <= collected[p])
  BY <1>2, OrchestratorAssumption
<1> HIDE DEF p
<1>4. <<p, collected[p] + 1>> \in AllProcesses \ DoneProcesses
  BY <1>1, <1>3 DEF AllProcesses, DoneProcesses
<1> QED BY <1>4 DEF p

(* Every step preserves the counter's relation to the collected processes. *)
LEMMA NextCountInv == IInv /\ CountInv /\ [Next]_vars => CountInv'
<1> SUFFICES ASSUME IInv, CountInv, [Next]_vars PROVE CountInv'
  OBVIOUS
<1> DEFINE p == PairOf(choices[child.index])
           x == <<p, collected[p] + 1>>
<1>1. TotalRuns \in Nat
  BY OrchestratorAssumption DEF TotalRuns
<1>2. CASE ChildSucceeds
  <2>1. /\ p \in Pairs /\ collected \in [Pairs -> 0..Processes]
        /\ collected' = [collected EXCEPT ![p] = @ + 1]
        /\ i' = i + 1 /\ pc = "wait"
    BY <1>2, ChildEntry
  <2>2. x \in AllProcesses \ DoneProcesses
    BY <2>1, OneMore
  <2> HIDE DEF p
  <2>3. DoneProcesses' = DoneProcesses \union {x}
    BY <2>1, <2>2 DEF DoneProcesses, AllProcesses
  <2>4. Cardinality(DoneProcesses') = Cardinality(DoneProcesses) + 1
    BY <2>2, <2>3, DoneProcessesFinite, FS_AddElement
  <2>5. Cardinality(DoneProcesses') <= TotalRuns
    <3>1. DoneProcesses' \in SUBSET AllProcesses
      BY <2>2, <2>3 DEF DoneProcesses
    <3> QED BY <3>1, CountOf
  <2> QED BY <1>1, <2>1, <2>4, <2>5, DoneProcessesFinite DEF CountInv
<1>3. CASE ChildGarbled
  <2>1. pc = "wait" /\ pc' = "failed" /\ i' = i + 1
    BY <1>3 DEF ChildGarbled
  <2>2. x \in AllProcesses \ DoneProcesses
    BY <2>1, OneMore
  <2> HIDE DEF x, p
  <2>3. DoneProcesses \in SUBSET AllProcesses /\ DoneProcesses # AllProcesses
    BY <2>2 DEF DoneProcesses
  <2>4. Cardinality(DoneProcesses) < TotalRuns
    BY <1>1, <2>3, CountOf
  <2> QED BY <1>1, <2>1, <2>4, DoneProcessesFinite DEF CountInv
<1>4. CASE ~ChildSucceeds /\ ~ChildGarbled
  <2>1. i' = i /\ collected' = collected /\ (pc' # "failed" => pc # "failed")
    BY <1>4 DEF Next, Step, Exited, vars, Terminal, CreateOutput, CheckEngine, EngineMissing,
                EnginesChecked, SpawnChild, ChildFails, AllChildrenDone, WriteResults
  <2> QED BY <2>1 DEF CountInv, DoneProcesses
<1> QED BY <1>2, <1>3, <1>4

(* Nothing has been counted to begin with.                                 *)
LEMMA InitCountInv == Init => CountInv
<1> SUFFICES ASSUME Init PROVE CountInv
  OBVIOUS
<1>1. DoneProcesses = {}
  BY OrchestratorAssumption DEF Init, DoneProcesses, AllProcesses
<1>2. Cardinality(DoneProcesses) = 0
  BY <1>1, FS_EmptySet
<1> QED BY <1>2, DoneProcessesFinite DEF Init, CountInv

(* The counter never passes the total (`debug_assert!(i <= n)` holds and   *)
(* `n - i` does not underflow) and has reached it when results are written. *)
THEOREM ProgressCorrect == Spec => []ProgressWithinTotal
<1>1. IInv /\ CountInv /\ WrittenComplete => ProgressWithinTotal
  <2> SUFFICES ASSUME IInv, CountInv, WrittenComplete, pc \in {"write", "done"}
               PROVE  i = TotalRuns
    BY DEF CountInv, ProgressWithinTotal
  <2>1. DoneProcesses = AllProcesses
    BY OrchestratorAssumption DEF WrittenComplete, DoneProcesses, AllProcesses
  <2> QED BY <2>1, AllProcessesFinite DEF CountInv
<1>2. Spec => []CountInv
  BY InitCountInv, NextCountInv, Invariance, PTL DEF Spec
<1> QED BY <1>1, <1>2, Invariance, ResultsComplete, PTL

-----------------------------------------------------------------------------
(* The parent implements the plan: a step takes over one more run of one   *)
(* pair that still needs it, succeeds when all have been run, fails, or    *)
(* changes nothing the plan knows of.                                      *)
THEOREM ImplementsPlan == Spec => Plan!Init /\ [][Plan!Next]_(Plan!plan)
<1>1. Init => Plan!Init
  BY DEF Init, Plan!Init, Outcome
<1>2. ASSUME IInv, WrittenComplete, [Next]_vars
      PROVE  [Plan!Next]_(Plan!plan)
  <2> USE DEF Plan!plan, Outcome, Terminal
  <2>1. CASE ChildSucceeds
    <3> DEFINE p == PairOf(choices[child.index])
    <3>1. /\ p \in Pairs /\ collected \in [Pairs -> 0..Processes]
          /\ collected[p] + choices[child.index].left = Processes
          /\ choices[child.index].left \in 1..Processes
          /\ collected' = [collected EXCEPT ![p] = @ + 1]
          /\ pc = "wait" /\ pc' = "loop"
      BY <1>2, <2>1, ChildEntry
    <3> HIDE DEF p
    <3>2. collected[p] < Processes
      BY <3>1, OrchestratorAssumption
    <3>3. Plan!RunJob(p)
      BY <3>1, <3>2 DEF Plan!RunJob
    <3> QED BY <3>1, <3>3 DEF Plan!Next
  <2>2. CASE WriteResults
    BY <1>2, <2>2 DEF WriteResults, WrittenComplete, Plan!Next, Plan!Succeed, Plan!Fail
  <2>3. CASE \/ CreateOutput \/ CheckEngine \/ EngineMissing \/ EnginesChecked
             \/ \E k \in DOMAIN choices : SpawnChild(k)
             \/ ChildGarbled \/ ChildFails \/ AllChildrenDone
    BY <2>3 DEF CreateOutput, CheckEngine, EngineMissing, EnginesChecked, SpawnChild,
                ChildGarbled, ChildFails, AllChildrenDone, Plan!Next, Plan!Fail
  <2>4. CASE UNCHANGED vars
    BY <2>4 DEF vars
  <2> QED BY <1>2, <2>1, <2>2, <2>3, <2>4 DEF Next, Step, Exited
<1> QED BY <1>1, <1>2, Invariance, ResultsComplete, PTL DEF Spec
=============================================================================
