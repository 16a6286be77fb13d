----------------------------- MODULE ReportProofs ----------------------------
(***************************************************************************)
(* What Report guarantees for every sequence of input files: that whether  *)
(* there is a report does not depend on the order in which hash maps are   *)
(* visited, and that it leaves nothing out.                                *)
(***************************************************************************)
EXTENDS Report, WellFoundedInduction, TLAPS

Own(f) == FormatOf(files[f]) = files[f].holds

(***************************************************************************)
(* The inductive invariant.  What has been read are the blocks of the      *)
(* files before the next one, of those that are read in their own format.  *)
(***************************************************************************)
ReadInv ==
  /\ cmd \in Commands /\ files \in Inputs
  /\ fi \in 1..(Len(files) + 1)
  /\ measurements \in Seq(Nat \X Nat)
  /\ ToSet(measurements) =
       {m \in UNION {{f} \X DOMAIN files[f].blocks : f \in {g \in DOMAIN files : Own(g)}} :
          m[1] < fi}
  /\ pc \in {"calculate", "render", "done", "rejected"} => fi = Len(files) + 1

(***************************************************************************)
(* Statistics are those of acceptable benchmarks, and none is left over or *)
(* missing.                                                                *)
(***************************************************************************)
StatsInv ==
  /\ pc = "read" => left = {} /\ stats = <<>>
  /\ pc \in {"calculate", "render", "done"} =>
       Benchmarks # {} /\ left \union DOMAIN stats = Benchmarks
  /\ pc \in {"render", "done"} => left = {}
  /\ left \subseteq Benchmarks
  /\ DOMAIN stats \subseteq Benchmarks
  /\ \A b \in DOMAIN stats :
       /\ Acceptable(b)
       /\ stats[b] = [e \in Engines(b) |-> [group |-> Group(b, e), versus |-> Versus(b, e)]]
  /\ pc = "rejected" => Benchmarks = {} \/ \E b \in Benchmarks : ~Acceptable(b)

OutputInv ==
  /\ pc \in Terminal \union {"read", "calculate", "render"}
  /\ output \in {"previous", "empty", "cut", "report"}

IInv == ReadInv /\ StatsInv /\ OutputInv

-----------------------------------------------------------------------------
(* An engine that has measured nothing has no samples.                     *)
LEMMA NoSamples == Samples({}) = 0
<1> DEFINE F(it) == [s \in SUBSET {} |->
              IF s = {} THEN 0
              ELSE Block(CHOOSE x \in s : TRUE).samples + it[s \ {CHOOSE x \in s : TRUE}]]
           it == CHOOSE it : it = F(it)
<1>1. Samples({}) = it[{}]
  BY DEF Samples, MapThenSumSet, MapThenFoldSet
<1>2. \E f : f = F(f)
  <2>1. [s \in SUBSET {} |-> 0] = F([s \in SUBSET {} |-> 0])
    OBVIOUS
  <2> QED BY <2>1
<1>3. it = F(it)
  <2> HIDE DEF F
  <2> QED BY <1>2
<1> HIDE DEF it
<1> QED BY <1>1, <1>3

(* The elements of two sequences, one after the other.                     *)
LEMMA ElementsJoined ==
  ASSUME NEW S, NEW s \in Seq(S), NEW t \in Seq(S)
  PROVE  ToSet(s \o t) = ToSet(s) \union ToSet(t)
<1>1. ASSUME NEW i \in DOMAIN (s \o t)
      PROVE  (s \o t)[i] \in ToSet(s) \union ToSet(t)
  <2>1. CASE i <= Len(s)
    BY <2>1 DEF ToSet
  <2>2. CASE i > Len(s)
    <3>1. i - Len(s) \in DOMAIN t /\ (s \o t)[i] = t[i - Len(s)]
      BY <2>2
    <3> QED BY <3>1 DEF ToSet
  <2> QED BY <2>1, <2>2
<1>2. ASSUME NEW i \in DOMAIN s
      PROVE  s[i] \in ToSet(s \o t)
  <2>1. i \in DOMAIN (s \o t) /\ (s \o t)[i] = s[i]
    OBVIOUS
  <2> QED BY <2>1 DEF ToSet
<1>3. ASSUME NEW i \in DOMAIN t
      PROVE  t[i] \in ToSet(s \o t)
  <2>1. i + Len(s) \in DOMAIN (s \o t) /\ (s \o t)[i + Len(s)] = t[i]
    OBVIOUS
  <2> QED BY <2>1 DEF ToSet
<1>4. ToSet(s \o t) \subseteq ToSet(s) \union ToSet(t)
  BY <1>1 DEF ToSet
<1>5. ToSet(s) \union ToSet(t) \subseteq ToSet(s \o t)
  BY <1>2, <1>3 DEF ToSet
<1> QED BY <1>4, <1>5

(* What a file adds.                                                       *)
LEMMA FileRead ==
  ASSUME files \in Inputs, NEW f \in DOMAIN files
  PROVE  /\ f \in Nat
         /\ Parsed(f) \in Seq(Nat \X Nat)
         /\ ToSet(Parsed(f)) = IF Own(f) THEN {f} \X DOMAIN files[f].blocks ELSE {}
<1> DEFINE wasms  == [form : STRING, benchmark : Nat]
           blocks == [engine : Nat, wasm : wasms, selected : BOOLEAN, samples : Nat \ {0}]
<1>1. /\ DOMAIN files = 1..Len(files) /\ Len(files) \in Nat
      /\ files[f].blocks \in Seq(blocks)
  <2> DEFINE file == [holds : {"json", "csv"}, suffix : STRING, blocks : Seq(blocks)]
  <2>1. files \in Seq(file)
    BY ReportAssumption
  <2>2. /\ DOMAIN files = 1..Len(files) /\ Len(files) \in Nat
        /\ files[f] \in file
    <3> HIDE DEF file
    <3> QED BY <2>1
  <2>3. files[f].blocks \in Seq(blocks)
    <3> HIDE DEF blocks
    <3> QED BY <2>2
  <2> QED BY <2>2, <2>3
<1> HIDE DEF blocks
<1>2. PICK k \in Nat : DOMAIN files[f].blocks = 1..k
  BY <1>1
<1>3. f \in Nat
  BY <1>1
<1>4. CASE Own(f)
  <2>1. Parsed(f) = [i \in 1..k |-> <<f, i>>]
    BY <1>2, <1>4 DEF Parsed, Own
  <2>2. Parsed(f) \in Seq(Nat \X Nat)
    BY <1>3, <2>1
  <2>3. ToSet(Parsed(f)) = {<<f, i>> : i \in 1..k}
    BY <2>1 DEF ToSet
  <2>4. {<<f, i>> : i \in 1..k} = {f} \X (1..k)
    OBVIOUS
  <2> QED BY <1>2, <1>3, <1>4, <2>2, <2>3, <2>4
<1>5. CASE ~Own(f)
  <2>1. Parsed(f) = <<>>
    BY <1>5 DEF Parsed, Own
  <2> QED BY <1>3, <1>5, <2>1 DEF ToSet
<1> QED BY <1>4, <1>5

(* As long as the measurements stay the same, so does what is made of them. *)
LEMMA SameGroups ==
  ASSUME UNCHANGED <<cmd, files, measurements>>
  PROVE  /\ Benchmarks' = Benchmarks
         /\ \A b : /\ Acceptable(b)' = Acceptable(b)
                   /\ Engines(b)' = Engines(b)
         /\ \A b, e : Group(b, e)' = Group(b, e) /\ Versus(b, e)' = Versus(b, e)
<1>1. SelectedBlocks' = SelectedBlocks /\ \A m : Block(m)' = Block(m)
  BY DEF SelectedBlocks, Block
<1>2. Baseline' = Baseline
  BY <1>1 DEF Baseline
<1>3. \A b, e : Group(b, e)' = Group(b, e)
  BY <1>1 DEF Group
<1>4. \A b : Engines(b)' = Engines(b)
  BY <1>1, <1>3 DEF Engines
<1>5. \A group : Samples(group)' = Samples(group)
  BY <1>1 DEF Samples, MapThenSumSet, MapThenFoldSet, Block
<1>6. \A b : EnoughSamples(b)' = EnoughSamples(b)
  BY <1>3, <1>4, <1>5 DEF EnoughSamples
<1>7. \A b : Acceptable(b)' = Acceptable(b)
  BY <1>2, <1>4, <1>6 DEF Acceptable
<1>8. \A b, e : Versus(b, e)' = Versus(b, e)
  BY <1>2, <1>3 DEF Versus
<1>9. Benchmarks' = Benchmarks
  BY <1>1 DEF Benchmarks
<1> QED BY <1>3, <1>4, <1>7, <1>8, <1>9

-----------------------------------------------------------------------------
LEMMA InitIInv == Init => IInv
<1> SUFFICES ASSUME Init PROVE IInv
  OBVIOUS
<1>1. Len(files) \in Nat
  BY ReportAssumption DEF Init
<1>2. ToSet(measurements) = {}
  BY DEF Init, ToSet
<1>3. \A f \in DOMAIN files : f \in Nat /\ ~(f < 1)
  BY ReportAssumption DEF Init
<1>4. {m \in UNION {{f} \X DOMAIN files[f].blocks : f \in {g \in DOMAIN files : Own(g)}} :
         m[1] < fi} = {}
  BY <1>3 DEF Init
<1>5. ReadInv
  BY <1>1, <1>2, <1>4 DEF Init, ReadInv
<1>6. StatsInv /\ OutputInv
  BY DEF Init, StatsInv, OutputInv
<1> QED BY <1>5, <1>6 DEF IInv

(* Reading a file adds its blocks, and nothing is read afterwards.         *)
LEMMA NextReadInv == IInv /\ [Next]_vars => ReadInv'
<1> SUFFICES ASSUME IInv, [Next]_vars PROVE ReadInv'
  OBVIOUS
<1>1. CASE ReadFile
  <2>1. /\ fi \in DOMAIN files /\ fi + 1 \in 1..(Len(files) + 1)
        /\ \A f \in DOMAIN files : f \in Nat
    BY <1>1, ReportAssumption DEF ReadFile, IInv, ReadInv
  <2>2. /\ Parsed(fi) \in Seq(Nat \X Nat)
        /\ ToSet(Parsed(fi)) = IF Own(fi) THEN {fi} \X DOMAIN files[fi].blocks ELSE {}
    BY <2>1, FileRead DEF IInv, ReadInv
  <2>3. /\ measurements' \in Seq(Nat \X Nat)
        /\ ToSet(measurements') = ToSet(measurements) \union ToSet(Parsed(fi))
    BY <1>1, <2>2, ElementsJoined DEF ReadFile, IInv, ReadInv
  <2>4. \A f : Own(f)' = Own(f)
    BY <1>1 DEF ReadFile, Own, FormatOf
  <2> DEFINE all == UNION {{h} \X DOMAIN files[h].blocks : h \in {g \in DOMAIN files : Own(g)}}
  <2>5. \A m : m \in all <=> \E f \in DOMAIN files : \E i \in DOMAIN files[f].blocks :
                               Own(f) /\ m = <<f, i>>
    OBVIOUS
  <2>6. {m \in all : m[1] < fi + 1} = {m \in all : m[1] < fi} \union ToSet(Parsed(fi))
    <3>1. \A f \in DOMAIN files : f < fi + 1 <=> f < fi \/ f = fi
      BY <2>1
    <3>2. \A m : m \in ToSet(Parsed(fi)) <=> \E i \in DOMAIN files[fi].blocks :
                                               Own(fi) /\ m = <<fi, i>>
      BY <2>2
    <3> HIDE DEF all
    <3> QED BY <2>1, <2>5, <3>1, <3>2
  <2>7. ToSet(measurements)' = {m \in all : m[1] < fi + 1}
    BY <2>3, <2>6 DEF IInv, ReadInv, ToSet
  <2> QED BY <1>1, <2>1, <2>3, <2>4, <2>7 DEF ReadFile, IInv, ReadInv
<1>2. CASE ~ReadFile
  <2>1. UNCHANGED <<cmd, files, fi, measurements>>
    BY <1>2 DEF Next, ReadFails, GroupMeasurements, CalculateBenchmark, RejectBenchmark,
       CreateOutput, Render, Exited, vars
  <2>2. ToSet(measurements)' = ToSet(measurements) /\ \A f : Own(f)' = Own(f)
    BY <2>1 DEF ToSet, Own, FormatOf
  <2>3. pc' \in {"calculate", "render", "done", "rejected"} => fi = Len(files) + 1
    <3>1. CASE GroupMeasurements
      <4>1. Len(files) \in Nat
        BY ReportAssumption DEF IInv, ReadInv
      <4> QED BY <3>1, <4>1 DEF GroupMeasurements, IInv, ReadInv
    <3>2. CASE ~GroupMeasurements
      BY <1>2, <3>2 DEF Next, ReadFails, CalculateBenchmark, RejectBenchmark,
         CreateOutput, Render, Exited, vars, IInv, ReadInv
    <3> QED BY <3>1, <3>2
  <2> QED BY <2>1, <2>2, <2>3 DEF IInv, ReadInv
<1> QED BY <1>1, <1>2

(* Statistics are only added, and only of acceptable benchmarks.           *)
LEMMA NextStatsInv == IInv /\ [Next]_vars => StatsInv'
<1> SUFFICES ASSUME IInv, [Next]_vars PROVE StatsInv'
  OBVIOUS
<1>1. CASE ReadFile
  <2>1. pc = "read" /\ pc' = "read" /\ left' = {} /\ stats' = <<>>
    BY <1>1 DEF ReadFile, IInv, StatsInv
  <2> QED BY <2>1 DEF StatsInv
<1>2. CASE ReadFails
  <2>1. pc' = "failed" /\ left' = {} /\ stats' = <<>>
    BY <1>2 DEF ReadFails, IInv, StatsInv
  <2> QED BY <2>1 DEF StatsInv
<1>3. CASE GroupMeasurements
  <2>1. /\ left' = Benchmarks /\ stats' = <<>>
        /\ pc' = IF Benchmarks = {} THEN "rejected" ELSE "calculate"
        /\ Benchmarks' = Benchmarks
    BY <1>3, SameGroups DEF GroupMeasurements, IInv, StatsInv
  <2> QED BY <2>1 DEF StatsInv
<1>4. ASSUME NEW b \in left, CalculateBenchmark(b)
      PROVE  StatsInv'
  <2> DEFINE row == [e \in Engines(b) |-> [group |-> Group(b, e), versus |-> Versus(b, e)]]
  <2>1. /\ pc = "calculate" /\ pc' = "calculate" /\ Acceptable(b) /\ b \in Benchmarks
        /\ left' = left \ {b} /\ UNCHANGED <<cmd, files, measurements>>
        /\ stats' = [c \in DOMAIN stats \union {b} |-> IF c = b THEN row ELSE stats[c]]
    BY <1>4 DEF CalculateBenchmark, IInv, StatsInv
  <2>2. /\ DOMAIN stats' = {b} \union DOMAIN stats
        /\ \A c \in DOMAIN stats' : stats'[c] = IF c = b THEN row ELSE stats[c]
    <3> HIDE DEF row
    <3> QED BY <2>1
  <2>3. \A c \in DOMAIN stats' :
          /\ Acceptable(c)
          /\ stats'[c] = [e \in Engines(c) |-> [group |-> Group(c, e), versus |-> Versus(c, e)]]
    BY <2>1, <2>2 DEF IInv, StatsInv
  <2>4. left' \union DOMAIN stats' = Benchmarks /\ Benchmarks # {}
    BY <2>1, <2>2 DEF IInv, StatsInv
  <2>5. /\ Benchmarks' = Benchmarks
        /\ \A c : Acceptable(c)' = Acceptable(c) /\ Engines(c)' = Engines(c)
        /\ \A c, e : Group(c, e)' = Group(c, e) /\ Versus(c, e)' = Versus(c, e)
    BY <2>1, SameGroups
  <2>6. \A c \in DOMAIN stats' :
          /\ Acceptable(c)'
          /\ stats'[c] = [e \in Engines(c)' |->
                            [group |-> Group(c, e)', versus |-> Versus(c, e)']]
    BY <2>3, <2>5
  <2> HIDE DEF row
  <2> QED BY <2>1, <2>4, <2>5, <2>6 DEF StatsInv
<1>5. CASE \/ \E b \in left : RejectBenchmark(b)
           \/ CreateOutput \/ Render \/ Exited \/ UNCHANGED vars
  <2>1. UNCHANGED <<cmd, files, measurements, left, stats>>
    BY <1>5 DEF RejectBenchmark, CreateOutput, Render, Exited, vars
  <2>2. /\ Benchmarks' = Benchmarks
        /\ \A c : Acceptable(c)' = Acceptable(c) /\ Engines(c)' = Engines(c)
        /\ \A c, e : Group(c, e)' = Group(c, e) /\ Versus(c, e)' = Versus(c, e)
    BY <2>1, SameGroups
  <2>3. \A c \in DOMAIN stats :
          /\ Acceptable(c)'
          /\ stats'[c] = [e \in Engines(c)' |->
                            [group |-> Group(c, e)', versus |-> Versus(c, e)']]
    BY <2>1, <2>2 DEF IInv, StatsInv
  <2>4. /\ pc' = "read" => pc = "read"
        /\ pc' \in {"calculate", "render", "done"} => pc \in {"calculate", "render", "done"}
        /\ pc' \in {"render", "done"} => left = {}
        /\ pc' = "rejected" => pc = "rejected" \/ \E b \in Benchmarks : ~Acceptable(b)
    BY <1>5 DEF RejectBenchmark, CreateOutput, Render, Exited, vars, IInv, StatsInv
  <2>5. /\ left' \subseteq Benchmarks' /\ DOMAIN stats' \subseteq Benchmarks'
        /\ pc' \in {"calculate", "render", "done"} =>
             Benchmarks' # {} /\ left' \union DOMAIN stats' = Benchmarks'
        /\ pc' = "read" => left' = {} /\ stats' = <<>>
        /\ pc' \in {"render", "done"} => left' = {}
        /\ pc' = "rejected" => Benchmarks' = {} \/ \E b \in Benchmarks' : ~Acceptable(b)'
    BY <2>1, <2>2, <2>4 DEF IInv, StatsInv
  <2> QED BY <2>1, <2>3, <2>5 DEF StatsInv
<1> QED BY <1>1, <1>2, <1>3, <1>4, <1>5 DEF Next

LEMMA NextOutputInv == IInv /\ [Next]_vars => OutputInv'
BY DEF IInv, OutputInv, Terminal, Next, ReadFile, ReadFails, GroupMeasurements,
   CalculateBenchmark, RejectBenchmark, CreateOutput, Render, Exited, vars

THEOREM Invariance == Spec => []IInv
<1>1. IInv /\ [Next]_vars => IInv'
  BY NextReadInv, NextStatsInv, NextOutputInv DEF IInv
<1> QED BY InitIInv, <1>1, PTL DEF Spec

-----------------------------------------------------------------------------
(* When all files have been read, what was selected is what the files hold. *)
LEMMA AllSelected ==
  ASSUME IInv, fi = Len(files) + 1
  PROVE  SelectedBlocks = InputBlocks
<1> DEFINE all == UNION {{h} \X DOMAIN files[h].blocks : h \in {g \in DOMAIN files : Own(g)}}
<1>1. \A f \in DOMAIN files : f < fi
  BY ReportAssumption DEF IInv, ReadInv
<1>2. ToSet(measurements) = all
  <2>1. \A m \in all : m[1] \in DOMAIN files
    OBVIOUS
  <2>2. ToSet(measurements) = {m \in all : m[1] < fi}
    BY DEF IInv, ReadInv
  <2> HIDE DEF all
  <2> QED BY <1>1, <2>1, <2>2
<1>3. InputBlocks = {m \in all : Block(m).selected}
  BY DEF InputBlocks, Own
<1> HIDE DEF all
<1> QED BY <1>2, <1>3 DEF SelectedBlocks

(* There is to be a report exactly if every benchmark is acceptable.       *)
LEMMA ReportableIffAcceptable ==
  ASSUME SelectedBlocks = InputBlocks
  PROVE  Reportable <=> Benchmarks # {} /\ \A b \in Benchmarks : Acceptable(b)
<1> DEFINE engines == {Block(m).engine : m \in SelectedBlocks}
<1>1. Reportable <=>
        /\ Benchmarks # {} /\ cmd.level = "valid"
        /\ \A b \in Benchmarks, e \in engines \union {Baseline} :
             Group(b, e) # {} \/ e = Baseline => Samples(Group(b, e)) >= 3
  <2>1. /\ Benchmarks = {Block(m).wasm.benchmark : m \in InputBlocks}
        /\ \A b, e : Group(b, e) = {m \in InputBlocks : /\ Block(m).wasm.benchmark = b
                                                        /\ Block(m).engine = e}
    BY DEF Benchmarks, BenchmarkName, Group
  <2> QED BY <2>1 DEF Reportable
<1>2. \A b : Engines(b) = {e \in engines : Group(b, e) # {}}
  BY DEF Engines
<1>3. \A b, e : Samples(Group(b, e)) >= 3 => Group(b, e) # {}
  BY NoSamples
<1>4. \A b, e : Group(b, e) # {} => e \in engines
  BY DEF Group
<1> HIDE DEF engines
<1>5. ASSUME Reportable, NEW b \in Benchmarks
      PROVE  Acceptable(b)
  BY <1>1, <1>2, <1>3, <1>4, <1>5 DEF Acceptable, EnoughSamples
<1>6. ASSUME Benchmarks # {}, \A b \in Benchmarks : Acceptable(b)
      PROVE  Reportable
  BY <1>1, <1>2, <1>6 DEF Acceptable, EnoughSamples
<1> QED BY <1>1, <1>5, <1>6

(* The variables keep their types.                                         *)
THEOREM TypeCorrect == Spec => []TypeOK
<1>1. IInv => TypeOK
  BY DEF IInv, ReadInv, StatsInv, OutputInv, Acceptable, TypeOK
<1> QED BY <1>1, Invariance, PTL

(* The order in which benchmarks and engines are visited does not decide   *)
(* on whether there is a report.                                           *)
THEOREM VerdictIsDetermined == Spec => []VerdictDetermined
<1>1. ASSUME IInv, pc \in {"render", "done"}
      PROVE  Reportable
  <2>1. SelectedBlocks = InputBlocks
    BY <1>1, AllSelected DEF IInv, ReadInv
  <2>2. Benchmarks # {} /\ \A b \in Benchmarks : Acceptable(b)
    BY <1>1 DEF IInv, StatsInv
  <2> QED BY <2>1, <2>2, ReportableIffAcceptable
<1>2. ASSUME IInv, pc = "rejected"
      PROVE  ~Reportable
  <2>1. SelectedBlocks = InputBlocks
    BY <1>2, AllSelected DEF IInv, ReadInv
  <2> QED BY <1>2, <2>1, ReportableIffAcceptable DEF IInv, StatsInv
<1>3. IInv => VerdictDetermined
  BY <1>1, <1>2 DEF VerdictDetermined
<1> QED BY <1>3, Invariance, PTL

(* A report has everything that was measured, and compares it with all     *)
(* that was measured of the baseline.                                      *)
THEOREM ReportIsComplete == Spec => []ReportComplete
<1>1. ASSUME IInv, pc = "done"
      PROVE  ReportComplete
  <2>1. SelectedBlocks = InputBlocks
    BY <1>1, AllSelected DEF IInv, ReadInv
  <2>2. /\ Benchmarks = {Block(m).wasm.benchmark : m \in InputBlocks}
        /\ \A b, e : Group(b, e) = {m \in InputBlocks : /\ Block(m).wasm.benchmark = b
                                                        /\ Block(m).engine = e}
    BY <2>1 DEF Benchmarks, BenchmarkName, Group
  <2>3. /\ DOMAIN stats = Benchmarks
        /\ \A b \in DOMAIN stats :
             /\ DOMAIN stats[b] = Engines(b) /\ Baseline \in Engines(b)
             /\ \A e \in Engines(b) : /\ stats[b][e].group = Group(b, e)
                                      /\ stats[b][e].versus = Versus(b, e)
    <3>1. DOMAIN stats = Benchmarks
      BY <1>1 DEF IInv, StatsInv
    <3>2. ASSUME NEW b \in DOMAIN stats
          PROVE  /\ Baseline \in Engines(b)
                 /\ stats[b] = [e \in Engines(b) |->
                                  [group |-> Group(b, e), versus |-> Versus(b, e)]]
      BY <1>1 DEF IInv, StatsInv, Acceptable
    <3>3. ASSUME NEW b \in DOMAIN stats, NEW e \in Engines(b)
          PROVE  stats[b][e].group = Group(b, e) /\ stats[b][e].versus = Versus(b, e)
      BY <3>2
    <3> QED BY <3>1, <3>2, <3>3
  <2>4. UNION {UNION {stats[b][e].group : e \in DOMAIN stats[b]} : b \in DOMAIN stats}
          = InputBlocks
    <3>1. ASSUME NEW b \in DOMAIN stats, NEW e \in DOMAIN stats[b]
          PROVE  stats[b][e].group \subseteq InputBlocks
      BY <2>2, <2>3
    <3>2. ASSUME NEW m \in InputBlocks
          PROVE  \E b \in DOMAIN stats : \E e \in DOMAIN stats[b] : m \in stats[b][e].group
      <4> DEFINE b == Block(m).wasm.benchmark
                 e == Block(m).engine
      <4>1. b \in DOMAIN stats /\ m \in Group(b, e)
        BY <2>2, <2>3
      <4>2. e \in Engines(b)
        BY <2>1, <4>1 DEF Engines
      <4> QED BY <2>3, <4>1, <4>2
    <3> QED BY <3>1, <3>2
  <2>5. ASSUME NEW b \in DOMAIN stats, NEW e \in DOMAIN stats[b]
        PROVE  /\ stats[b][e].group = Group(b, e)
               /\ stats[b][e].versus # {} => stats[b][e].versus = Group(b, Baseline)
               /\ stats[b][e].versus = {} <=> e = Baseline
    <3>1. Group(b, Baseline) # {}
      BY <2>3 DEF Engines
    <3> QED BY <2>3, <3>1 DEF Versus
  <2> QED BY <2>2, <2>3, <2>4, <2>5 DEF ReportComplete
<1>2. IInv => ReportComplete
  BY <1>1 DEF ReportComplete
<1> QED BY <1>2, Invariance, PTL

(* There is a first benchmark.                                             *)
Smaller == {p \in Nat \X Nat : p[1] < p[2]}

LEMMA LeastMember ==
  ASSUME NEW T \in SUBSET Nat, T # {}
  PROVE  Min(T) \in T
<1>1. Smaller = OpToRel(<, Nat)
  BY DEF OpToRel, Smaller
<1>2. IsWellFoundedOn(Smaller, Nat)
  BY <1>1, NatLessThanWellFounded
<1>3. PICK m \in T : \A k \in T : ~(<<k, m>> \in Smaller)
  BY <1>2, WFMin
<1>4. \A k \in T : m \in Nat /\ k \in Nat /\ ~(k < m)
  BY <1>3 DEF Smaller
<1>5. \A k \in T : m <= k
  BY <1>4
<1> QED BY <1>5 DEF Min

(* Each cell of the table is below the header of its own engine if every   *)
(* benchmark was measured with the same engines.                           *)
THEOREM TableIsAligned == Spec => []UniformTableAligned
<1>1. ASSUME IInv, ReportComplete, pc = "done",
             \A b, c \in DOMAIN stats : DOMAIN stats[b] = DOMAIN stats[c],
             NEW b \in DOMAIN stats
      PROVE  Cells(b) = Columns
  <2> DEFINE first == Min(DOMAIN stats)
  <2>1. DOMAIN stats \in SUBSET Nat
    <3>1. ASSUME NEW m \in InputBlocks
          PROVE  Block(m).wasm.benchmark \in Nat
      <4>1. PICK f \in DOMAIN files : m \in {f} \X DOMAIN files[f].blocks
        BY DEF InputBlocks
      <4>2. m[1] = f /\ m[2] \in DOMAIN files[f].blocks
        BY <4>1
      <4> DEFINE wasms == [form : STRING, benchmark : Nat]
                 blocks == [engine : Nat, wasm : wasms, selected : BOOLEAN, samples : Nat \ {0}]
                 inputs == [holds : {"json", "csv"}, suffix : STRING, blocks : Seq(blocks)]
      <4>3. files[f].blocks[m[2]].wasm.benchmark \in Nat
        <5>1. files \in Seq(inputs)
          BY <1>1, ReportAssumption DEF IInv, ReadInv
        <5>2. files[f] \in inputs
          <6> HIDE DEF inputs
          <6> QED BY <5>1
        <5>3. files[f].blocks \in Seq(blocks)
          <6> HIDE DEF blocks
          <6> QED BY <5>2
        <5>4. files[f].blocks[m[2]] \in blocks
          <6> HIDE DEF blocks
          <6> QED BY <4>2, <5>3
        <5> QED BY <5>4
      <4> QED BY <4>2, <4>3 DEF Block
    <3> QED BY <1>1, <3>1 DEF ReportComplete
  <2>2. first \in DOMAIN stats
    <3> HIDE DEF first
    <3> QED BY <1>1, <2>1, LeastMember DEF first
  <2>3. DOMAIN stats[b] = DOMAIN stats[first]
    BY <1>1, <2>2
  <2>4. \A e \in DOMAIN stats[b] : stats[b][e].versus = {} <=> e = Baseline
    BY <1>1 DEF ReportComplete
  <2>5. {e \in DOMAIN stats[b] : stats[b][e].versus # {}} = DOMAIN stats[first] \ {Baseline}
    BY <2>3, <2>4
  <2> QED BY <2>5 DEF Cells, Columns
<1>2. IInv /\ ReportComplete => UniformTableAligned
  BY <1>1 DEF UniformTableAligned
<1> QED BY <1>2, Invariance, ReportIsComplete, PTL
=============================================================================
