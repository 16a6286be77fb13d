------------------------ MODULE RunnerWithCleanProofs ------------------------
(***************************************************************************)
(* What RunnerProofs proves of the runner holds whatever the clean command *)
(* unlinks meanwhile: the inductive invariant says of a log that has to be *)
(* found wrong only that it is not right, and a log that is gone is not.   *)
(* That the results are exact is proved here for both specifications.      *)
(***************************************************************************)
EXTENDS RunnerWithClean, RunnerProofs

LEMMA CleanKeepsInv == IInv /\ Clean => IInv'
<1> SUFFICES ASSUME IInv, Clean PROVE IInv'
  OBVIOUS
<1>1. CASE UNCHANGED vars
  BY <1>1 DEF vars, counters, recorder, IInv, TypeOK, LoopInv, CallInv, SuspectInv, ChecksOutput,
              WrongOutputStopsRun
<1>2. CASE \E f \in Present : logs' = [logs EXCEPT ![f[1]][f[2]] = "absent"]
  <2>1. UNCHANGED <<cmd, expected, pc, counters, held, todo, callbacks, recorder,
                    collected, output, suspect>>
    BY DEF Clean, OpenDirectory, NextEntry, RemoveEntry, EndOfDirectory, vars
  <2>2. PICK f \in Present : logs' = [logs EXCEPT ![f[1]][f[2]] = "absent"]
    BY <1>2
  <2>3. f[1] \in Wasms /\ f[2] \in Streams
    BY DEF Present, LogFiles
  <2>4. /\ logs' \in [Wasms -> [Streams -> {"absent", "empty", "right", "wrong"}]]
        /\ \A w \in Wasms, s \in Streams : logs'[w][s] \in {logs[w][s], "absent"}
    BY <2>2, <2>3 DEF IInv, TypeOK
  <2>5. unremoved' \subseteq unremoved
    BY DEF Clean, OpenDirectory, NextEntry, RemoveEntry, EndOfDirectory, vars
  <2>6. TypeOK'
    BY <2>1, <2>4, <2>5 DEF IInv, TypeOK, counters, recorder
  <2>7. LoopInv' /\ CallInv'
    BY <2>1 DEF IInv, LoopInv, CallInv, counters, recorder
  <2>8. SuspectInv'
    <3>1. ASSUME suspect, pc \in {"check-stdout", "check-stderr"},
                 NEW s \in expected, logs[wi][s] # "right"
          PROVE  logs'[wi][s] # "right"
      <4>1. wi \in Wasms /\ s \in Streams
        BY <3>1 DEF IInv, LoopInv, TypeOK, Iterating
      <4>2. QED
        BY <2>4, <3>1, <4>1
    <3>2. SuspectInv
      BY DEF IInv
    <3>3. WrongOutputStopsRun'
      BY <2>1, <3>2 DEF SuspectInv, WrongOutputStopsRun
    <3>4. (suspect /\ pc = "check-stdout" =>
             ChecksOutput /\ \E s \in expected : logs[wi][s] # "right")'
      BY <2>1, <3>1, <3>2 DEF SuspectInv, ChecksOutput, counters
    <3>5. (suspect /\ pc = "check-stderr" =>
             ChecksOutput /\ "stderr" \in expected /\ logs[wi]["stderr"] # "right")'
      BY <2>1, <3>1, <3>2 DEF SuspectInv, ChecksOutput, counters
    <3>6. QED
      BY <3>3, <3>4, <3>5 DEF SuspectInv
  <2>9. QED
    BY <2>6, <2>7, <2>8 DEF IInv
<1>3. QED
  BY <1>1, <1>2 DEF Clean, OpenDirectory, NextEntry, RemoveEntry, EndOfDirectory, vars,
                    counters, recorder

LEMMA NextWithCleanKeepsInv == IInv /\ [NextWithClean]_<<vars, cleanVars>> => IInv'
<1> SUFFICES ASSUME IInv, [NextWithClean]_<<vars, cleanVars>> PROVE IInv'
  OBVIOUS
<1>1. ASSUME [Next]_vars PROVE IInv'
  BY <1>1, NextTypeOK, NextLoopInv, NextCallInv, NextSuspectInv DEF IInv
<1>2. CASE Clean
  BY <1>2, CleanKeepsInv
<1>3. CASE RunnerStep \/ Exited \/ UNCHANGED <<vars, cleanVars>>
  BY <1>1, <1>3 DEF RunnerStep, Next, Exited
<1>4. QED
  BY <1>2, <1>3 DEF NextWithClean

THEOREM InvarianceWithClean == SpecWithClean => []IInv
<1>1. InitWithClean => IInv
  BY InitIInv DEF InitWithClean
<1>2. QED
  BY <1>1, NextWithCleanKeepsInv, PTL DEF SpecWithClean

(* Cleaning up does not make the runner miss an unexpected output: without *)
(* its log the comparison fails, too.                                      *)
THEOREM WrongOutputStopsInSpiteOfClean == SpecWithClean => []WrongOutputStopsRun
<1>1. IInv => WrongOutputStopsRun
  BY DEF IInv, SuspectInv
<1>2. QED
  BY <1>1, InvarianceWithClean, PTL

(* Nor does it disturb the calls of an iteration.                          *)
THEOREM ReceiverHeldInSpiteOfClean == SpecWithClean => []ReceiverHeld
<1>1. ASSUME IInv, pc = "run", callbacks = NoCall, todo # <<>>
      PROVE  held = Receiver(Head(todo))
  <2>1. <<todo, held>> \in Agenda(cmd.phase) /\ cmd.phase \in PhaseOptions
    BY <1>1, RunnerAssumption DEF IInv, TypeOK, CallInv
  <2>2. QED
    BY <1>1, <2>1, AgendaSound
<1>2. IInv => ReceiverHeld
  BY <1>1 DEF ReceiverHeld
<1>3. QED
  BY <1>2, InvarianceWithClean, PTL

(* Both keep their types.                                                  *)
THEOREM TypesInSpiteOfClean == SpecWithClean => []CleanTypeOK
<1>1. InitWithClean => CleanTypeOK
  BY InitIInv DEF IInv, InitWithClean, CleanTypeOK
<1>2. IInv /\ CleanTypeOK /\ [NextWithClean]_<<vars, cleanVars>> => CleanTypeOK'
  <2> SUFFICES ASSUME IInv, CleanTypeOK, [NextWithClean]_<<vars, cleanVars>>
               PROVE  CleanTypeOK'
    OBVIOUS
  <2>1. TypeOK'
    BY NextWithCleanKeepsInv DEF IInv
  <2>2. Present \subseteq LogFiles
    BY DEF Present
  <2>3. (/\ cleaner \in {"off", "listing", "done", "failed"}
         /\ due \subseteq LogFiles
         /\ entry \subseteq LogFiles)'
    <3>1. CASE Clean
      BY <2>2, <3>1 DEF Clean, OpenDirectory, NextEntry, RemoveEntry, EndOfDirectory,
                        CleanTypeOK, LogFiles
    <3>2. CASE UNCHANGED cleanVars
      BY <3>2 DEF cleanVars, CleanTypeOK, LogFiles
    <3>3. QED
      BY <3>1, <3>2 DEF NextWithClean, RunnerStep, cleanVars
  <2>4. QED
    BY <2>1, <2>3 DEF CleanTypeOK
<1>3. QED
  BY <1>1, <1>2, InvarianceWithClean, PTL DEF SpecWithClean

(* A log that is to be removed may be removed by anyone, and as long as    *)
(* the clean command has not been started nobody takes a log away.         *)
CleanLogsInv == RemovedInv /\ (cleaner = "off" => KeptInv)

LEMMA CleanKeepsRemoved == IInv /\ RemovedInv /\ Clean => RemovedInv'
<1> SUFFICES ASSUME IInv, RemovedInv, Clean PROVE RemovedInv'
  OBVIOUS
<1>1. UNCHANGED <<cmd, pc, wi>>
  BY DEF Clean, OpenDirectory, NextEntry, RemoveEntry, EndOfDirectory, vars, counters
<1>2. \A w \in Wasms, s \in Streams : Gone(w, s) => Gone(w, s)'
  <2>1. CASE UNCHANGED <<logs, unremoved>>
    BY <2>1 DEF Gone
  <2>2. CASE \E f \in Present : /\ logs' = [logs EXCEPT ![f[1]][f[2]] = "absent"]
                              /\ unremoved' = unremoved \ {f}
    BY <2>2 DEF Gone, Present, LogFiles, IInv, TypeOK
  <2>3. QED
    BY <2>1, <2>2 DEF Clean, OpenDirectory, NextEntry, RemoveEntry, EndOfDirectory, vars
<1>3. pc = "next" \/ pc = "remove-stderr" => wi \in Wasms
  BY DEF IInv, LoopInv, Iterating
<1>4. QED
  BY <1>1, <1>2, <1>3 DEF RemovedInv, NoLog, Streams

(* The policy of --keep-logs holds unless someone else cleans up, and even *)
(* then a successful run that does not keep its logs leaves only those     *)
(* that could not be removed.                                              *)
THEOREM LogsPolicyInSpiteOfClean == SpecWithClean => []LogsPolicyWithClean
<1>1. InitWithClean => CleanLogsInv
  BY InitLogs DEF InitWithClean, CleanLogsInv
<1>2. IInv /\ CleanLogsInv /\ [NextWithClean]_<<vars, cleanVars>> => CleanLogsInv'
  <2> SUFFICES ASSUME IInv, CleanLogsInv, [NextWithClean]_<<vars, cleanVars>>
               PROVE  CleanLogsInv'
    OBVIOUS
  <2>1. CASE Clean
    <3>1. cleaner' # "off"
      BY <2>1 DEF Clean, OpenDirectory, NextEntry, RemoveEntry, EndOfDirectory
    <3>2. QED
      BY <2>1, <3>1, CleanKeepsRemoved DEF CleanLogsInv
  <2>2. CASE [Next]_vars /\ UNCHANGED cleanVars
    BY <2>2, NextRemovedInv, NextKeptInv DEF CleanLogsInv, cleanVars
  <2>3. QED
    BY <2>1, <2>2 DEF NextWithClean, RunnerStep, Next, Exited
<1>3. IInv /\ CleanLogsInv => LogsPolicyWithClean
  <2> SUFFICES ASSUME IInv, CleanLogsInv PROVE LogsPolicyWithClean
    OBVIOUS
  <2>1. cleaner = "off" => LogsPolicy
    BY LogsInvImpliesPolicy DEF CleanLogsInv
  <2>2. pc = "done" /\ ~cmd.keepLogs => Present \subseteq unremoved
    <3>1. pc = "done" /\ ~cmd.keepLogs => \A w \in Wasms, s \in Streams : Gone(w, s)
      BY DEF CleanLogsInv, RemovedInv, NoLog, Settled
    <3>2. \A f \in Present : /\ f = <<f[1], f[2]>> /\ f[1] \in Wasms /\ f[2] \in Streams
                            /\ logs[f[1]][f[2]] # "absent"
      BY DEF Present, LogFiles
    <3>3. QED
      BY <3>1, <3>2 DEF Gone
  <2>3. QED
    BY <2>1, <2>2 DEF LogsPolicyWithClean
<1>4. QED
  BY <1>1, <1>2, <1>3, InvarianceWithClean, PTL DEF SpecWithClean

-----------------------------------------------------------------------------
(***************************************************************************)
(* What Runner writes is exact: for every number of engines, benchmarks    *)
(* and iterations, every set of measures and every benchmark that keeps to *)
(* the protocol of bench.start and bench.end, the measurements written are *)
(* those of WrittenBag, whatever the clean command unlinks meanwhile.      *)
(*                                                                         *)
(* The invariant accounts for both bags: what the current benchmark has    *)
(* recorded so far, and what has been taken over from finished ones.       *)
(***************************************************************************)
(* benchmarks/README.md: both are called exactly once, in this order.      *)
GuestsFollowProtocol == GuestCalls \subseteq {<<"start", "end">>}

(* What an engine is called in the measurements.                           *)
Name(e) == EngineName(cmd.names, Paths, e)

Counted == UNION {Events(t) : t \in Types}

(* How many measures count an event.                                       *)
Weight(event) == Cardinality({t \in Types : event \in Events(t)})

(* Every record a run may collect that was measured where it says it was.  *)
Records ==
  {x \in [engine : {Name(e) : e \in Engines}, wasm : Wasms,
          iteration : 0..(Iterations - 1), phase : Phases, event : Counted,
          began : [phase : Phases, iteration : 0..(Iterations - 1)]] :
     x.began = [phase |-> x.phase, iteration |-> x.iteration]}

(* The phases called in an iteration, and those that have yet to be        *)
(* measured in the current one.                                            *)
Wanted(option, i) ==
  CASE option = "all"           -> Phases
    [] option = "compilation"   -> {"compilation"}
    [] option = "instantiation" -> IF i = 0 THEN {"compilation", "instantiation"}
                                            ELSE {"instantiation"}
    [] option = "execution"     -> IF i = 0 THEN Phases ELSE {"instantiation", "execution"}

PhasesIn(calls) == {calls[i] : i \in DOMAIN calls}

Measuring == callbacks # NoCall /\ callbacks.script = <<>>

Pending == PhasesIn(IF Measuring THEN Tail(todo) ELSE todo)

Measured ==
  {r \in Records :
     /\ r.engine = Name(ei) /\ r.wasm = wi
     /\ r.phase \in Wanted(cmd.phase, r.iteration)
     /\ r.iteration < n \/ (r.iteration = n /\ r.phase \notin Pending)}

MeasuredBag == [r \in Measured |-> Weight(r.event)]

(* The engines of that name that are done with the benchmark of a record.  *)
Finished(r) ==
  {e \in Engines : Name(e) = r.engine /\ (e < ei \/ (e = ei /\ r.wasm < wi))}

CollectedBag ==
  [r \in {x \in Records : x.phase \in Wanted(cmd.phase, x.iteration) /\ Finished(x) # {}} |->
     Cardinality(Finished(r)) * Weight(r.event)]

AgendaInv ==
  /\ pc = "run" => PhasesIn(todo) \subseteq Wanted(cmd.phase, n)
  /\ pc \in Iterating \ {"run"} => todo = <<>>
  /\ callbacks # NoCall => callbacks.script \in {<<"start", "end">>, <<"end">>, <<>>}

TimersInv ==
  callbacks # NoCall /\ callbacks.script = <<"end">> =>
    \A t \in Types : Events(t) # {} =>
      timers[t] = [phase |-> callbacks.phase, iteration |-> iteration]

BagsInv ==
  /\ pc \in Iterating => measurements = MeasuredBag
  /\ pc \in Iterating \union {"create-output", "engine", "wasm", "filter"} =>
       collected = CollectedBag
  /\ pc \in {"write", "done"} => collected = WrittenBag

ResultsInv == AgendaInv /\ TimersInv /\ BagsInv

-----------------------------------------------------------------------------
(***************************************************************************)
(* Lemmas about phases.                                                    *)
(***************************************************************************)

(* The phases of a sequence of calls, written out.                         *)
LEMMA NoPhases == PhasesIn(<<>>) = {}
<1>1. DOMAIN <<>> = {}
  OBVIOUS
<1> QED BY <1>1 DEF PhasesIn

LEMMA OnePhase ==
  ASSUME NEW a
  PROVE  PhasesIn(<<a>>) = {a}
<1>1. DOMAIN <<a>> = {1}
  OBVIOUS
<1> QED BY <1>1 DEF PhasesIn

LEMMA TwoPhases ==
  ASSUME NEW a, NEW b
  PROVE  PhasesIn(<<a, b>>) = {a, b}
<1>1. DOMAIN <<a, b>> = {1, 2}
  OBVIOUS
<1> QED BY <1>1 DEF PhasesIn

LEMMA ThreePhases ==
  ASSUME NEW a, NEW b, NEW c
  PROVE  PhasesIn(<<a, b, c>>) = {a, b, c}
<1>1. DOMAIN <<a, b, c>> = {1, 2, 3}
  OBVIOUS
<1> QED BY <1>1 DEF PhasesIn

(* What an iteration starts with is what is wanted in it.                  *)
LEMMA CallsWanted ==
  ASSUME NEW option \in PhaseOptions, NEW i \in Nat
  PROVE  /\ PhasesIn(EagerCalls(option) \o Calls(option)) = Wanted(option, 0)
         /\ PhasesIn(Calls(option)) \subseteq Wanted(option, i)
         /\ i # 0 => PhasesIn(Calls(option)) = Wanted(option, i)
<1> option \in {"all", "compilation", "instantiation", "execution"}
  BY DEF PhaseOptions, Phases
<1>1. CASE option = "all"
  <2>1. <<>> \o <<"compilation", "instantiation", "execution">>
          = <<"compilation", "instantiation", "execution">>
    OBVIOUS
  <2> QED BY <1>1, <2>1, ThreePhases DEF EagerCalls, Calls, Wanted, Phases
<1>2. CASE option = "compilation"
  <2>1. <<>> \o <<"compilation">> = <<"compilation">>
    OBVIOUS
  <2> QED BY <1>2, <2>1, OnePhase DEF EagerCalls, Calls, Wanted
<1>3. CASE option = "instantiation"
  <2>1. <<"compilation">> \o <<"instantiation">> = <<"compilation", "instantiation">>
    BY Followed
  <2>2. EagerCalls(option) = <<"compilation">> /\ Calls(option) = <<"instantiation">>
    BY <1>3 DEF EagerCalls, Calls
  <2>3. /\ PhasesIn(Calls(option)) = {"instantiation"}
        /\ PhasesIn(EagerCalls(option) \o Calls(option)) = {"compilation", "instantiation"}
    BY <2>1, <2>2, OnePhase, TwoPhases
  <2> QED BY <1>3, <2>3 DEF Wanted
<1>4. CASE option = "execution"
  <2>1. <<"compilation">> \o <<"instantiation", "execution">>
          = <<"compilation", "instantiation", "execution">>
    BY Followed
  <2>2. /\ EagerCalls(option) = <<"compilation">>
        /\ Calls(option) = <<"instantiation", "execution">>
    BY <1>4 DEF EagerCalls, Calls
  <2>3. PhasesIn(Calls(option)) = {"instantiation", "execution"}
    BY <2>2, TwoPhases
  <2>4. EagerCalls(option) \o Calls(option)
          = <<"compilation", "instantiation", "execution">>
    BY <2>1, <2>2
  <2>5. PhasesIn(EagerCalls(option) \o Calls(option)) = Phases
    BY <2>4, ThreePhases DEF Phases
  <2> QED BY <1>4, <2>3, <2>5 DEF Wanted, Phases
<1> QED BY <1>1, <1>2, <1>3, <1>4

(* No phase is called twice in an iteration.                               *)
LEMMA AgendaDistinct ==
  ASSUME NEW option, NEW a, NEW h, <<a, h>> \in Agenda(option)
  PROVE  /\ PhasesIn(Tail(a)) = PhasesIn(a) \ {Head(a)}
         /\ Head(a) \in PhasesIn(a)
<1>1. CASE a = <<"compilation", "instantiation", "execution">>
  <2>1. Head(a) = "compilation" /\ Tail(a) = <<"instantiation", "execution">>
    BY <1>1
  <2> QED BY <1>1, <2>1, TwoPhases, ThreePhases
<1>2. CASE a = <<"instantiation", "execution">>
  <2>1. Head(a) = "instantiation" /\ Tail(a) = <<"execution">>
    BY <1>2
  <2> QED BY <1>2, <2>1, OnePhase, TwoPhases
<1>3. CASE a \in {<<"execution">>, <<"compilation">>, <<"instantiation">>}
  <2>1. PICK p : a = <<p>>
    BY <1>3
  <2>2. Head(a) = p /\ Tail(a) = <<>>
    BY <2>1
  <2> QED BY <2>1, <2>2, NoPhases, OnePhase
<1>4. CASE a = <<"compilation", "instantiation">>
  <2>1. Head(a) = "compilation" /\ Tail(a) = <<"instantiation">>
    BY <1>4
  <2> QED BY <1>4, <2>1, OnePhase, TwoPhases
<1> QED BY <1>1, <1>2, <1>3, <1>4 DEF Agenda

-----------------------------------------------------------------------------
(***************************************************************************)
(* Lemmas about bags.                                                      *)
(***************************************************************************)

(* How many measures count an event is a number.                           *)
LEMMA WeightType ==
  ASSUME NEW event
  PROVE  Weight(event) \in Nat
<1>1. IsFiniteSet(Types)
  <2>1. MeasureTypes = (((({"noop"} \cup {"time"}) \cup {"cycles"}) \cup {"vtune"})
                         \cup {"perf-counters"}) \cup {"insts-retired"}
    BY DEF MeasureTypes
  <2>2. IsFiniteSet(MeasureTypes)
    BY <2>1, FS_Singleton, FS_Union
  <2> QED BY <2>2, FS_Subset, RunnerAssumption
<1>2. IsFiniteSet({t \in Types : event \in Events(t)})
  BY <1>1, FS_Subset
<1> QED BY <1>2, FS_CardinalityType DEF Weight

(* So is the number of engines that have finished a benchmark.             *)
LEMMA FinishedFinite ==
  ASSUME NEW r
  PROVE  /\ IsFiniteSet(Finished(r)) /\ Cardinality(Finished(r)) \in Nat
         /\ Cardinality(Finished(r)) = 0 <=> Finished(r) = {}
<1>1. IsFiniteSet(Engines)
  BY RunnerAssumption, FS_Interval DEF Engines
<1>2. Finished(r) \subseteq Engines
  BY DEF Finished
<1>3. IsFiniteSet(Finished(r))
  BY <1>1, <1>2, FS_Subset
<1> QED BY <1>3, FS_CardinalityType, FS_EmptySet

(* The fields of a record.                                                 *)
LEMMA RecordFields ==
  ASSUME NEW r \in Records
  PROVE  /\ r.engine \in {Name(e) : e \in Engines} /\ r.wasm \in Wasms
         /\ r.iteration \in 0..(Iterations - 1)
         /\ r.phase \in Phases /\ r.event \in Counted
         /\ r.began = [phase |-> r.phase, iteration |-> r.iteration]
BY DEF Records

LEMMA RecordNumbers ==
  ASSUME NEW r \in Records
  PROVE  r.wasm \in Nat /\ r.iteration \in Nat /\ r.iteration <= Iterations - 1
<1>1. r.wasm \in 1..NWasms /\ r.iteration \in 0..(Iterations - 1)
  BY DEF Records, Wasms
<1> QED BY <1>1, RunnerAssumption

(* A record is determined by the place it was measured at.                 *)
New(phase) ==
  {r \in Records : r.engine = Name(ei) /\ r.wasm = wi /\ r.iteration = n /\ r.phase = phase}

LEMMA NewRecords ==
  ASSUME ei \in Engines, wi \in Wasms, n \in 0..(Iterations - 1), iteration = n,
         NEW phase \in Phases, NEW r
  PROVE  r \in New(phase) <=>
           \E e \in Counted : r = RecordOf(phase, e, [phase |-> phase, iteration |-> n])
<1> DEFINE start == [phase |-> phase, iteration |-> n]
<1>1. ASSUME r \in New(phase)
      PROVE  r.event \in Counted /\ r = RecordOf(phase, r.event, start)
  BY <1>1 DEF New, Records, RecordOf, Name
<1>2. ASSUME NEW e \in Counted, r = RecordOf(phase, e, start)
      PROVE  r \in New(phase)
  <2>1. r = [engine |-> Name(ei), wasm |-> wi, iteration |-> n, phase |-> phase,
             event |-> e, began |-> start]
    BY <1>2 DEF RecordOf, Name
  <2>2. start \in [phase : Phases, iteration : 0..(Iterations - 1)]
    OBVIOUS
  <2>3. Name(ei) \in {Name(x) : x \in Engines}
    OBVIOUS
  <2> QED BY <2>1, <2>2, <2>3 DEF New, Records
<1> QED BY <1>1, <1>2

(* What `end` adds when every measure holds the start of the phase.        *)
LEMMA AddedIsNew ==
  ASSUME ei \in Engines, wi \in Wasms, n \in 0..(Iterations - 1), iteration = n,
         NEW phase \in Phases,
         \A t \in Types : Events(t) # {} =>
           timers[t] = [phase |-> phase, iteration |-> n]
  PROVE  Added(phase, timers) = [r \in New(phase) |-> Weight(r.event)]
<1> DEFINE start == [phase |-> phase, iteration |-> n]
           by(t) == {RecordOf(phase, e, timers[t]) : e \in Events(t)}
           all == UNION {by(t) : t \in Types}
<1>1. ASSUME NEW t \in Types, NEW r
      PROVE  r \in by(t) <=> r \in New(phase) /\ r.event \in Events(t)
  <2>1. by(t) = {RecordOf(phase, e, start) : e \in Events(t)}
    OBVIOUS
  <2>2. \A e : RecordOf(phase, e, start).event = e
    BY DEF RecordOf
  <2>3. \A e \in Events(t) : e \in Counted
    BY DEF Counted
  <2>4. r \in New(phase) <=> \E e \in Counted : r = RecordOf(phase, e, start)
    BY NewRecords
  <2> QED BY <2>1, <2>2, <2>3, <2>4
<1>2. all = New(phase)
  <2>1. \A r \in New(phase) : \E t \in Types : r.event \in Events(t)
    BY RecordFields DEF New, Counted
  <2> HIDE DEF by
  <2>2. \A r : r \in all <=> \E t \in Types : r \in by(t)
    OBVIOUS
  <2>3. \A r : r \in all <=> r \in New(phase)
    BY <1>1, <2>1, <2>2
  <2> HIDE DEF all
  <2> QED BY <2>3
<1>3. ASSUME NEW r \in New(phase)
      PROVE  Cardinality({t \in Types : r \in by(t)}) = Weight(r.event)
  <2>1. {t \in Types : r \in by(t)} = {t \in Types : r.event \in Events(t)}
    BY <1>1
  <2> QED BY <2>1 DEF Weight
<1>4. Added(phase, timers) = [r \in all |-> Cardinality({t \in Types : r \in by(t)})]
  BY DEF Added
<1> HIDE DEF all, by
<1> QED BY <1>2, <1>3, <1>4

-----------------------------------------------------------------------------
(***************************************************************************)
(* What leaves the account as it is.                                       *)
(***************************************************************************)
LEMMA SameRecords ==
  ASSUME cmd' = cmd
  PROVE  Records' = Records /\ WrittenBag' = WrittenBag /\ \A e : Name(e)' = Name(e)
<1>1. \A e : Name(e)' = Name(e)
  BY DEF Name
<1>2. Records' = Records
  BY <1>1 DEF Records
<1>3. WrittenBag' = WrittenBag
  BY DEF WrittenBag
<1> QED BY <1>1, <1>2, <1>3

LEMMA SameMeasured ==
  ASSUME UNCHANGED <<cmd, ei, wi, n>>, Pending' = Pending
  PROVE  MeasuredBag' = MeasuredBag
<1>1. Measured' = Measured
  BY SameRecords DEF Measured
<1> QED BY <1>1 DEF MeasuredBag

LEMMA SameCollected ==
  ASSUME cmd' = cmd, \A r \in Records : Finished(r)' = Finished(r)
  PROVE  CollectedBag' = CollectedBag
BY SameRecords DEF CollectedBag

LEMMA SameFinished ==
  ASSUME UNCHANGED <<cmd, ei, wi>>, NEW r
  PROVE  Finished(r)' = Finished(r)
BY SameRecords DEF Finished

-----------------------------------------------------------------------------
(***************************************************************************)
(* What adds to the account.                                               *)
(***************************************************************************)

(* A measured phase adds its records, which were not there before.         *)
LEMMA PhaseMeasured ==
  ASSUME IInv, AgendaInv, TimersInv, pc = "run", callbacks # NoCall,
         callbacks.script = <<"end">>, measurements = MeasuredBag,
         UNCHANGED <<cmd, ei, wi, n>>,
         Pending' = Pending \ {callbacks.phase},
         measurements' = measurements (+) Added(callbacks.phase, timers)
  PROVE  measurements' = MeasuredBag'
<1> DEFINE p == callbacks.phase
<1>1. /\ ei \in Engines /\ wi \in Wasms /\ n \in 0..(Iterations - 1) /\ iteration = n
      /\ cmd.phase \in PhaseOptions
      /\ <<todo, held>> \in Agenda(cmd.phase) /\ p = Head(todo)
  BY RunnerAssumption DEF IInv, TypeOK, LoopInv, CallInv, Iterating
<1>2. p \in Phases
  BY <1>1, AgendaSound
<1>3. p \in Wanted(cmd.phase, n) /\ p \in Pending
  <2>1. p \in PhasesIn(todo)
    BY <1>1, AgendaDistinct
  <2>2. ~Measuring
    <3>1. <<"end">> # <<>>
      OBVIOUS
    <3> QED BY <3>1 DEF Measuring
  <2> QED BY <2>1, <2>2 DEF AgendaInv, Pending
<1>4. Added(p, timers) = [r \in New(p) |-> Weight(r.event)]
  BY <1>1, <1>2, AddedIsNew DEF TimersInv
<1>5. Measured' = Measured \union New(p) /\ Measured \intersect New(p) = {}
  <2>1. \A r \in Records : r.iteration \in Nat /\ n \in Nat
    BY <1>1, RecordNumbers, RunnerAssumption
  <2> HIDE DEF p
  <2> QED BY <1>1, <1>3, <2>1, SameRecords DEF Measured, New, p
<1>6. measurements' = [r \in Measured \union New(p) |-> Weight(r.event)]
  <2>1. measurements = [r \in Measured |-> Weight(r.event)]
    BY DEF MeasuredBag
  <2>2. DOMAIN measurements = Measured /\ DOMAIN Added(p, timers) = New(p)
    BY <1>4, <2>1
  <2>3. measurements' =
          [r \in Measured \union New(p) |->
             (IF r \in Measured THEN measurements[r] ELSE 0)
               + (IF r \in New(p) THEN Added(p, timers)[r] ELSE 0)]
    BY <2>2 DEF (+)
  <2>4. ASSUME NEW r \in Measured \union New(p)
        PROVE  (IF r \in Measured THEN measurements[r] ELSE 0)
                 + (IF r \in New(p) THEN Added(p, timers)[r] ELSE 0) = Weight(r.event)
    <3>1. Weight(r.event) \in Nat
      BY WeightType
    <3>2. CASE r \in Measured
      <4>1. r \notin New(p) /\ measurements[r] = Weight(r.event)
        BY <1>5, <2>1, <3>2
      <4> QED BY <3>1, <3>2, <4>1
    <3>3. CASE r \notin Measured
      <4>1. r \in New(p) /\ Added(p, timers)[r] = Weight(r.event)
        BY <1>4, <3>3
      <4> QED BY <3>1, <3>3, <4>1
    <3> QED BY <3>2, <3>3
  <2> QED BY <2>3, <2>4
<1> QED BY <1>5, <1>6 DEF MeasuredBag

(* A finished benchmark adds what it has measured to what was collected,   *)
(* the engine being one more of its name that is done with it.             *)
LEMMA BenchmarkFinished ==
  ASSUME IInv, AgendaInv, FinishBenchmark, measurements = MeasuredBag,
         collected = CollectedBag
  PROVE  collected' = CollectedBag'
<1> DEFINE Here(r) == r.engine = Name(ei) /\ r.wasm = wi
           Due(r) == r.phase \in Wanted(cmd.phase, r.iteration)
           Before == {r \in Records : Due(r) /\ Finished(r) # {}}
           After == {r \in Records : Due(r) /\ (Finished(r) # {} \/ Here(r))}
<1>1. /\ ei \in Engines /\ wi \in Wasms /\ n = Iterations - 1 /\ n \in Nat
      /\ cmd' = cmd /\ ei' = ei /\ wi' = wi + 1 /\ callbacks = NoCall /\ todo = <<>>
  BY RunnerAssumption DEF IInv, TypeOK, LoopInv, CallInv, AgendaInv, Iterating,
     FinishBenchmark, MoreIterations
<1>2. Pending = {}
  BY <1>1, NoPhases DEF Pending, Measuring
<1>3. Measured = {r \in Records : Due(r) /\ Here(r)}
  <2>1. \A r \in Records : r.iteration < n \/ r.iteration = n
    BY <1>1, RecordNumbers, RunnerAssumption
  <2> QED BY <1>2, <2>1 DEF Measured
<1>4. ASSUME NEW r \in Records
      PROVE  /\ Finished(r)' = IF Here(r) THEN Finished(r) \union {ei} ELSE Finished(r)
             /\ Here(r) => ei \notin Finished(r)
  <2>1. r.wasm \in Nat /\ wi \in Nat /\ ei \in Nat
    BY <1>1, RecordNumbers, RunnerAssumption DEF Wasms, Engines
  <2>2. \A e \in Engines : e \in Nat
    BY RunnerAssumption DEF Engines
  <2> QED BY <1>1, <2>1, <2>2, SameRecords DEF Finished
<1>5. ASSUME NEW r \in Records
      PROVE  Cardinality(Finished(r)') =
               IF Here(r) THEN Cardinality(Finished(r)) + 1 ELSE Cardinality(Finished(r))
  BY <1>4, FinishedFinite, FS_AddElement
<1>6. CollectedBag' = [r \in After |-> Cardinality(Finished(r)') * Weight(r.event)]
  <2>1. {x \in Records : Due(x) /\ Finished(x)' # {}} = After
    BY <1>4
  <2> QED BY <1>1, <2>1, SameRecords DEF CollectedBag, Weight
<1>7. After = Before \union Measured
  BY <1>3
<1>8. /\ collected = [r \in Before |-> Cardinality(Finished(r)) * Weight(r.event)]
      /\ measurements = [r \in Measured |-> Weight(r.event)]
  BY DEF CollectedBag, MeasuredBag
<1>9. collected' =
        [r \in Before \union Measured |->
           (IF r \in Before THEN collected[r] ELSE 0)
             + (IF r \in Measured THEN measurements[r] ELSE 0)]
  <2>1. DOMAIN collected = Before /\ DOMAIN measurements = Measured
    BY <1>8
  <2>2. collected' = collected (+) measurements
    BY DEF FinishBenchmark
  <2> HIDE DEF Before
  <2> QED BY <2>1, <2>2 DEF (+)
<1>10. ASSUME NEW r \in After
       PROVE  (IF r \in Before THEN collected[r] ELSE 0)
                + (IF r \in Measured THEN measurements[r] ELSE 0)
                = Cardinality(Finished(r)') * Weight(r.event)
  <2>1. r \in Records /\ Due(r) /\ (Finished(r) # {} \/ Here(r))
    OBVIOUS
  <2> DEFINE k == Cardinality(Finished(r))
             w == Weight(r.event)
  <2>2. k \in Nat /\ w \in Nat /\ (k = 0 <=> Finished(r) = {})
    BY WeightType, FinishedFinite
  <2>3. (IF r \in Before THEN collected[r] ELSE 0) = k * w
    <3>1. CASE Finished(r) # {}
      BY <1>8, <2>1, <3>1
    <3>2. CASE Finished(r) = {}
      <4>1. k = 0 /\ r \notin Before
        BY <2>2, <3>2
      <4> QED BY <2>2, <4>1
    <3> QED BY <3>1, <3>2
  <2>4. (IF r \in Measured THEN measurements[r] ELSE 0) = IF Here(r) THEN w ELSE 0
    BY <1>3, <1>8, <2>1
  <2>5. Cardinality(Finished(r)') = IF Here(r) THEN k + 1 ELSE k
    BY <1>5, <2>1
  <2> HIDE DEF k, w
  <2>6. k * w \in Nat /\ (k + 1) * w = k * w + w
    BY <2>2
  <2>7. CASE Here(r)
    BY <2>2, <2>3, <2>4, <2>5, <2>6, <2>7 DEF w
  <2>8. CASE ~Here(r)
    BY <2>2, <2>3, <2>4, <2>5, <2>6, <2>8 DEF w
  <2> QED BY <2>7, <2>8
<1> HIDE DEF Before, After
<1> QED BY <1>6, <1>7, <1>9, <1>10

(* When every engine is done, filtering leaves what is to be written.      *)
LEMMA FilteredIsWritten ==
  ASSUME IInv, pc = "filter", collected = CollectedBag
  PROVE  Retained(collected, cmd.phase) = WrittenBag
<1> DEFINE asked == IF cmd.phase = "all" THEN Phases ELSE {cmd.phase}
           Kept == {r \in Records : r.phase \in asked}
           named(r) == {e \in Engines : Name(e) = r.engine}
<1>1. cmd.phase \in PhaseOptions /\ ei = NEngines + 1
  BY RunnerAssumption DEF IInv, TypeOK, LoopInv
<1>2. ASSUME NEW r \in Records
      PROVE  Finished(r) = named(r) /\ Finished(r) # {}
  <2>1. \A e \in Engines : e < ei
    BY <1>1, RunnerAssumption DEF Engines
  <2>2. PICK e \in Engines : Name(e) = r.engine
    BY RecordFields
  <2> QED BY <2>1, <2>2 DEF Finished
<1>3. \A r \in Records : r.phase \in asked => r.phase \in Wanted(cmd.phase, r.iteration)
  BY <1>1, RecordFields DEF PhaseOptions, Phases, Wanted
<1>4. \A r \in Records : r.phase \in asked <=> cmd.phase = "all" \/ r.phase = cmd.phase
  BY RecordFields
<1>5. Retained(collected, cmd.phase)
        = [r \in Kept |-> Cardinality(named(r)) * Weight(r.event)]
  <2>1. {r \in DOMAIN collected : cmd.phase = "all" \/ r.phase = cmd.phase} = Kept
    <3>1. DOMAIN collected = {x \in Records : /\ x.phase \in Wanted(cmd.phase, x.iteration)
                                              /\ Finished(x) # {}}
      BY DEF CollectedBag
    <3> QED BY <1>2, <1>3, <1>4, <3>1
  <2>2. \A r \in Kept : collected[r] = Cardinality(named(r)) * Weight(r.event)
    <3>1. \A r \in Kept : collected[r] = Cardinality(Finished(r)) * Weight(r.event)
      BY <1>2, <1>3 DEF CollectedBag
    <3> QED BY <1>2, <3>1
  <2> HIDE DEF Kept, named
  <2> QED BY <2>1, <2>2 DEF Retained
<1>6. WrittenBag = [r \in Kept |-> Cardinality(named(r)) * Weight(r.event)]
  <2> DEFINE records == [engine : {Name(e) : e \in Engines}, wasm : Wasms,
                         iteration : 0..(Iterations - 1), phase : asked, event : Counted,
                         began : [phase : asked, iteration : 0..(Iterations - 1)]]
             written == {x \in records : x.began = [phase |-> x.phase, iteration |-> x.iteration]}
  <2>1. asked \subseteq Phases
    BY <1>1 DEF PhaseOptions
  <2>2. written = Kept
    <3>1. ASSUME NEW r \in written
          PROVE  r \in Kept
      BY <2>1, <3>1 DEF Records
    <3>2. ASSUME NEW r \in Kept
          PROVE  r \in written
      BY <2>1, <3>2 DEF Records
    <3> QED BY <3>1, <3>2
  <2>3. WrittenBag = [r \in written |-> Cardinality(named(r)) * Weight(r.event)]
    BY DEF WrittenBag, Name, Weight, Counted
  <2> QED BY <2>2, <2>3
<1> QED BY <1>5, <1>6

-----------------------------------------------------------------------------
(***************************************************************************)
(* The steps of the runner.                                                *)
(***************************************************************************)
LEMMA InitResults == Init => ResultsInv
<1> SUFFICES ASSUME Init PROVE ResultsInv
  OBVIOUS
<1>1. AgendaInv /\ TimersInv
  BY DEF Init, AgendaInv, TimersInv, Iterating
<1>2. ASSUME NEW r \in Records
      PROVE  Finished(r) = {}
  <2>1. r.wasm \in 1..NWasms
    BY DEF Records, Wasms
  <2> QED BY <2>1, RunnerAssumption DEF Init, Finished, Engines
<1>3. collected = CollectedBag
  <2>1. {x \in Records : x.phase \in Wanted(cmd.phase, x.iteration) /\ Finished(x) # {}} = {}
    BY <1>2
  <2>2. CollectedBag = [x \in {} |-> 1]
    BY <2>1 DEF CollectedBag
  <2>3. EmptyBag = [x \in {} |-> 1]
    BY DEF EmptyBag, SetToBag
  <2> QED BY <2>2, <2>3 DEF Init
<1>4. BagsInv
  BY <1>3 DEF Init, BagsInv, Iterating
<1> QED BY <1>1, <1>4 DEF ResultsInv

(* What is to be called are phases of the iteration, each of them once, by *)
(* a call that makes the two callbacks of the protocol.                    *)
LEMMA NextAgendaInv ==
  ASSUME GuestsFollowProtocol, IInv, AgendaInv, [Next]_vars
  PROVE  AgendaInv'
<1>0. cmd.phase \in PhaseOptions /\ cmd' = cmd /\ n \in Nat
  BY RunnerAssumption DEF IInv, TypeOK, Next, Step, Exited, vars, CreateOutput, LoadEngine,
     CloseEngine, CreateEngine, CreateEngineFails, CallApi, OnStart, OnEnd, CallReturns,
     CallFails, CheckPasses, CheckFails, RemoveLog, NextIteration, FinishBenchmark,
     FilterPhase, WriteResults
<1>1. CASE CreateEngine
  <2>1. n' = 0 /\ pc' = "run" /\ callbacks' = NoCall
    BY <1>1 DEF CreateEngine, counters, IInv, LoopInv
  <2>2. PhasesIn(todo)' = Wanted(cmd.phase, 0)
    BY <1>0, <1>1, CallsWanted DEF CreateEngine, PhasesIn
  <2> QED BY <1>0, <2>1, <2>2 DEF AgendaInv, Iterating
<1>2. CASE CallApi
  <2>1. PICK script \in CallbackScripts(Head(todo)) :
          callbacks' = [phase |-> Head(todo), script |-> script]
    BY <1>2 DEF CallApi
  <2>2. script = <<"start", "end">>
    BY <2>1 DEF CallbackScripts, GuestsFollowProtocol
  <2>3. callbacks'.script = <<"start", "end">>
    BY <2>1, <2>2
  <2>4. pc = "run" /\ pc' = "run" /\ UNCHANGED <<cmd, n, todo>>
    BY <1>2 DEF CallApi, counters
  <2> QED BY <2>3, <2>4 DEF AgendaInv, Iterating, PhasesIn
<1>3. CASE OnStart \/ OnEnd
  <2>1. /\ pc = "run" /\ callbacks # NoCall /\ callbacks.script # <<>>
        /\ callbacks \in [phase : Phases, script : Seq({"start", "end"})]
    BY <1>3 DEF OnStart, OnEnd, CallbackDue, IInv, TypeOK
  <2>2. CASE pc' = "panicked"
    BY <1>3, <2>1, <2>2 DEF OnStart, OnEnd, Abort, AgendaInv, Iterating
  <2>3. CASE pc' # "panicked"
    <3>1. /\ callbacks' = [callbacks EXCEPT !.script = Tail(callbacks.script)]
          /\ UNCHANGED <<pc, todo, n, cmd>>
      BY <1>3, <2>3 DEF OnStart, OnEnd, Abort, counters
    <3>2. callbacks'.script = Tail(callbacks.script)
      BY <2>1, <3>1
    <3>3. Tail(<<"start", "end">>) = <<"end">> /\ Tail(<<"end">>) = <<>>
      OBVIOUS
    <3>4. callbacks'.script \in {<<"end">>, <<>>}
      BY <2>1, <3>2, <3>3 DEF AgendaInv
    <3> QED BY <2>1, <3>1, <3>4 DEF AgendaInv, Iterating, PhasesIn
  <2> QED BY <2>2, <2>3
<1>4. CASE CallReturns
  <2>1. <<todo, held>> \in Agenda(cmd.phase) /\ pc = "run" /\ callbacks' = NoCall
    BY <1>4 DEF CallReturns, CallReturning, IInv, CallInv
  <2>2. PhasesIn(Tail(todo)) \subseteq Wanted(cmd.phase, n)
    BY <2>1, AgendaDistinct DEF AgendaInv
  <2>3. /\ todo' = Tail(todo) /\ n' = n
        /\ pc' = "run" \/ (pc' = "check-stdout" /\ todo' = <<>>)
    BY <1>4 DEF CallReturns, counters
  <2> QED BY <1>0, <2>1, <2>2, <2>3 DEF AgendaInv, PhasesIn
<1>5. CASE NextIteration
  <2>1. /\ pc' = "run" /\ n' = n + 1 /\ n' \in Nat /\ callbacks' = NoCall
    BY <1>0, <1>5 DEF NextIteration, IInv, CallInv
  <2>2. PhasesIn(todo)' \subseteq Wanted(cmd.phase, n')
    BY <1>0, <1>5, <2>1, CallsWanted DEF NextIteration, PhasesIn
  <2> QED BY <1>0, <2>1, <2>2 DEF AgendaInv, Iterating
<1>6. CASE FinishBenchmark
  BY <1>6 DEF FinishBenchmark, AgendaInv, Iterating, IInv, CallInv
<1>7. CASE CreateEngineFails \/ CallFails \/ \E s \in Streams : CheckFails(s)
  BY <1>7 DEF CreateEngineFails, CallFails, CheckFails, Abort, AgendaInv, Iterating
<1>8. CASE \E s \in Streams : CheckPasses(s) \/ RemoveLog(s)
  BY <1>8 DEF CheckPasses, Checking, RemoveLog, AgendaInv, Iterating, IInv, CallInv
<1>9. CASE CreateOutput \/ LoadEngine \/ CloseEngine \/ FilterPhase \/ WriteResults
  BY <1>9 DEF CreateOutput, LoadEngine, CloseEngine, FilterPhase, WriteResults, AgendaInv,
     Iterating, IInv, CallInv
<1>10. CASE UNCHANGED vars
  BY <1>10 DEF vars, counters, AgendaInv, Iterating, PhasesIn
<1> QED BY <1>1, <1>2, <1>3, <1>4, <1>5, <1>6, <1>7, <1>8, <1>9, <1>10 DEF Next, Step, Exited

(* A measure that has events holds the start of the phase it is in.        *)
LEMMA NextTimersInv ==
  ASSUME GuestsFollowProtocol, IInv, AgendaInv, TimersInv, [Next]_vars
  PROVE  TimersInv'
<1>1. CASE CallApi
  <2>1. PICK script \in CallbackScripts(Head(todo)) :
          callbacks' = [phase |-> Head(todo), script |-> script]
    BY <1>1 DEF CallApi
  <2>2. script = <<"start", "end">>
    BY <2>1 DEF CallbackScripts, GuestsFollowProtocol
  <2>3. <<"start", "end">> # <<"end">>
    OBVIOUS
  <2> QED BY <2>1, <2>2, <2>3 DEF TimersInv
<1>2. CASE OnStart
  <2>1. callbacks \in [phase : Phases, script : Seq({"start", "end"})]
    BY <1>2 DEF OnStart, CallbackDue, IInv, TypeOK
  <2>2. CASE \E t \in Types : StartPanics(t, timers[t])
    BY <1>2, <2>2 DEF OnStart, Abort, TimersInv
  <2>3. CASE ~ \E t \in Types : StartPanics(t, timers[t])
    <3>1. /\ callbacks'.phase = callbacks.phase /\ iteration' = iteration
          /\ timers' = [t \in Types |-> AfterStart(t, timers[t],
                          [phase |-> callbacks.phase, iteration |-> iteration])]
      BY <1>2, <2>1, <2>3 DEF OnStart
    <3>2. \A t \in Types : Events(t) # {} => t # "noop"
      BY DEF Events
    <3> QED BY <3>1, <3>2 DEF TimersInv, AfterStart
  <2> QED BY <2>2, <2>3
<1>3. CASE OnEnd
  <2>1. callbacks \in [phase : Phases, script : Seq({"start", "end"})]
    BY <1>3 DEF OnEnd, CallbackDue, IInv, TypeOK
  <2>2. CASE \E t \in Types : EndPanics(t, timers[t])
    BY <1>3, <2>2 DEF OnEnd, Abort, TimersInv
  <2>3. CASE ~ \E t \in Types : EndPanics(t, timers[t])
    <3>1. callbacks'.script = Tail(callbacks.script)
      BY <1>3, <2>1, <2>3 DEF OnEnd
    <3>2. Head(callbacks.script) = "end" /\ callbacks # NoCall /\ callbacks.script # <<>>
      BY <1>3 DEF OnEnd, CallbackDue
    <3>3. callbacks.script = <<"end">>
      BY <3>2 DEF AgendaInv
    <3>4. callbacks'.script = <<>> /\ <<>> # <<"end">>
      BY <3>1, <3>3
    <3> QED BY <3>4 DEF TimersInv
  <2> QED BY <2>2, <2>3
<1>4. CASE CreateEngine \/ CreateEngineFails \/ CallReturns \/ CallFails
             \/ \E s \in Streams : CheckFails(s)
  BY <1>4 DEF CreateEngine, CreateEngineFails, CallReturns, CallFails, CheckFails, Abort,
     TimersInv
<1>5. CASE CreateOutput \/ LoadEngine \/ CloseEngine \/ NextIteration \/ FinishBenchmark
             \/ FilterPhase \/ WriteResults \/ \E s \in Streams : CheckPasses(s) \/ RemoveLog(s)
  <2>1. callbacks = NoCall /\ callbacks' = callbacks
    BY <1>5 DEF CreateOutput, LoadEngine, CloseEngine, NextIteration, FinishBenchmark,
       FilterPhase, WriteResults, CheckPasses, Checking, RemoveLog, IInv, CallInv
  <2> QED BY <2>1 DEF TimersInv
<1>6. CASE UNCHANGED vars
  BY <1>6 DEF vars, recorder, TimersInv
<1> QED BY <1>1, <1>2, <1>3, <1>4, <1>5, <1>6 DEF Next, Step, Exited

(* Both bags stay accounted for.                                           *)
LEMMA NextBagsInv ==
  ASSUME GuestsFollowProtocol, IInv, AgendaInv, TimersInv, BagsInv, [Next]_vars, AgendaInv'
  PROVE  BagsInv'
<1>0. cmd.phase \in PhaseOptions /\ n \in Nat
  BY RunnerAssumption DEF IInv, TypeOK
<1>1. CASE CreateOutput \/ LoadEngine \/ CreateEngineFails
  <2>1. /\ pc \in {"create-output", "engine", "wasm"} /\ UNCHANGED <<cmd, ei, wi, collected>>
        /\ pc' \in {"engine", "filter", "wasm", "failed", "panicked"}
    BY <1>1 DEF CreateOutput, LoadEngine, CreateEngineFails, Abort, counters
  <2>2. CollectedBag' = CollectedBag
    BY <2>1, SameFinished, SameCollected
  <2> QED BY <2>1, <2>2 DEF BagsInv, Iterating
<1>2. CASE CloseEngine
  <2>1. /\ pc = "wasm" /\ pc' = "engine" /\ UNCHANGED <<cmd, collected>>
        /\ ei \in Engines /\ ei' = ei + 1 /\ wi = NWasms + 1 /\ wi' = 1
    BY <1>2, RunnerAssumption DEF CloseEngine, IInv, TypeOK, LoopInv
  <2>2. ASSUME NEW r \in Records
        PROVE  Finished(r)' = Finished(r)
    <3>1. r.wasm \in 1..NWasms
      BY DEF Records, Wasms
    <3>2. \A e \in Engines : e < ei' \/ (e = ei' /\ r.wasm < wi')
                               <=> e < ei \/ (e = ei /\ r.wasm < wi)
      BY <2>1, <3>1, RunnerAssumption DEF Engines
    <3> QED BY <2>1, <3>2, SameRecords DEF Finished
  <2>3. CollectedBag' = CollectedBag
    BY <2>1, <2>2, SameCollected
  <2> QED BY <2>1, <2>3 DEF BagsInv, Iterating
<1>3. CASE CreateEngine
  <2>1. /\ pc = "wasm" /\ pc' = "run" /\ UNCHANGED <<cmd, ei, wi, collected>>
        /\ n' = 0 /\ callbacks' = NoCall /\ measurements' = EmptyBag
        /\ todo' = EagerCalls(cmd.phase) \o Calls(cmd.phase)
    BY <1>3 DEF CreateEngine, counters, IInv, LoopInv
  <2>2. CollectedBag' = CollectedBag
    BY <2>1, SameFinished, SameCollected
  <2>3. Pending' = Wanted(cmd.phase, 0)
    BY <1>0, <2>1, CallsWanted DEF Pending, Measuring, PhasesIn
  <2>4. Measured' = {}
    <3>1. \A r \in Records : ~(r.iteration < 0)
      BY RecordNumbers
    <3> QED BY <2>1, <2>3, <3>1, SameRecords DEF Measured
  <2>5. MeasuredBag' = [x \in {} |-> 1]
    BY <2>4 DEF MeasuredBag
  <2>6. measurements' = MeasuredBag'
    BY <2>1, <2>5 DEF EmptyBag, SetToBag
  <2> QED BY <2>1, <2>2, <2>6 DEF BagsInv, Iterating
<1>4. CASE CallApi
  <2>1. /\ pc = "run" /\ pc' = "run" /\ callbacks = NoCall
        /\ UNCHANGED <<cmd, ei, wi, n, todo, measurements, collected>>
    BY <1>4 DEF CallApi, counters, recorder
  <2>2. PICK script \in CallbackScripts(Head(todo)) :
          callbacks' = [phase |-> Head(todo), script |-> script]
    BY <1>4 DEF CallApi
  <2>3. callbacks'.script = <<"start", "end">> /\ <<"start", "end">> # <<>>
    BY <2>2 DEF CallbackScripts, GuestsFollowProtocol
  <2>4. Pending' = Pending
    BY <2>1, <2>3 DEF Pending, Measuring, PhasesIn
  <2> QED BY <2>1, <2>4, SameMeasured, SameFinished, SameCollected DEF BagsInv, Iterating
<1>5. CASE OnStart \/ OnEnd
  <2>1. /\ pc = "run" /\ callbacks # NoCall /\ callbacks.script # <<>>
        /\ callbacks \in [phase : Phases, script : Seq({"start", "end"})]
        /\ UNCHANGED <<cmd, ei, wi, n, collected>>
    BY <1>5 DEF OnStart, OnEnd, CallbackDue, counters, IInv, TypeOK
  <2>2. CollectedBag' = CollectedBag
    BY <2>1, SameFinished, SameCollected
  <2>3. CASE pc' = "panicked"
    BY <2>3 DEF BagsInv, Iterating
  <2>4. CASE pc' # "panicked"
    <3>1. callbacks' = [callbacks EXCEPT !.script = Tail(callbacks.script)] /\ pc' = pc
          /\ todo' = todo
      BY <1>5, <2>4 DEF OnStart, OnEnd, Abort
    <3>2. callbacks' # NoCall /\ callbacks'.script = Tail(callbacks.script)
      <4>1. callbacks' # NoCall
        <5>1. Tail(callbacks.script) \in Seq({"start", "end"})
          BY <2>1
        <5>2. callbacks' \in [phase : Phases, script : Seq({"start", "end"})]
          BY <2>1, <3>1, <5>1
        <5> QED BY <5>2, RunnerAssumption
      <4> QED BY <2>1, <3>1, <4>1
    <3>3. Tail(<<"start", "end">>) = <<"end">> /\ Tail(<<"end">>) = <<>> /\ <<"end">> # <<>>
          /\ Head(<<"start", "end">>) = "start" /\ Head(<<"end">>) = "end"
      OBVIOUS
    <3>4. CASE OnStart
      <4>1. callbacks.script = <<"start", "end">>
        BY <2>1, <3>3, <3>4 DEF OnStart, CallbackDue, AgendaInv
      <4>2. Pending' = Pending
        BY <2>1, <3>1, <3>2, <3>3, <4>1 DEF Pending, Measuring, PhasesIn
      <4>3. measurements' = measurements
        BY <3>4 DEF OnStart
      <4> QED BY <2>1, <2>2, <3>1, <4>2, <4>3, SameMeasured DEF BagsInv, Iterating
    <3>5. CASE OnEnd
      <4>1. callbacks.script = <<"end">>
        BY <2>1, <3>3, <3>5 DEF OnEnd, CallbackDue, AgendaInv
      <4>2. <<todo, held>> \in Agenda(cmd.phase) /\ callbacks.phase = Head(todo)
        BY <2>1 DEF IInv, CallInv
      <4>3. Pending' = Pending \ {callbacks.phase}
        <5>1. ~Measuring /\ Measuring'
          BY <2>1, <3>2, <3>3, <4>1 DEF Measuring
        <5>2. Pending = PhasesIn(todo) /\ Pending' = PhasesIn(Tail(todo))
          BY <3>1, <5>1 DEF Pending, PhasesIn
        <5> QED BY <4>2, <5>2, AgendaDistinct
      <4>4. measurements' = measurements (+) Added(callbacks.phase, timers)
        BY <2>4, <3>5 DEF OnEnd, Abort
      <4>5. measurements' = MeasuredBag'
        BY <2>1, <4>1, <4>3, <4>4, PhaseMeasured DEF BagsInv, Iterating
      <4> QED BY <2>1, <2>2, <3>1, <4>5 DEF BagsInv, Iterating
    <3> QED BY <1>5, <3>4, <3>5
  <2> QED BY <2>3, <2>4
<1>6. CASE CallReturns
  <2>1. /\ pc = "run" /\ pc' \in {"run", "check-stdout"} /\ Measuring /\ callbacks' = NoCall
        /\ todo' = Tail(todo) /\ UNCHANGED <<cmd, ei, wi, n, measurements, collected>>
    BY <1>6 DEF CallReturns, CallReturning, counters, recorder, Measuring
  <2>2. Pending' = Pending
    BY <2>1 DEF Pending, Measuring, PhasesIn
  <2> QED BY <2>1, <2>2, SameMeasured, SameFinished, SameCollected DEF BagsInv, Iterating
<1>7. CASE CallFails \/ \E s \in Streams : CheckFails(s)
  BY <1>7 DEF CallFails, CheckFails, Abort, BagsInv, Iterating
<1>8. CASE \E s \in Streams : CheckPasses(s) \/ RemoveLog(s)
  <2>1. /\ pc \in Iterating /\ pc' \in Iterating
        /\ UNCHANGED <<cmd, ei, wi, n, todo, callbacks, measurements, collected>>
    BY <1>8 DEF CheckPasses, Checking, RemoveLog, Iterating, counters, recorder
  <2>2. Pending' = Pending
    BY <2>1 DEF Pending, Measuring, PhasesIn
  <2>3. pc' \notin {"write", "done"}
    BY <2>1 DEF Iterating
  <2> QED BY <2>1, <2>2, <2>3, SameMeasured, SameFinished, SameCollected DEF BagsInv
<1>9. CASE NextIteration
  <2>1. /\ pc = "next" /\ pc' = "run" /\ n' = n + 1 /\ todo = <<>> /\ callbacks = NoCall
        /\ todo' = Calls(cmd.phase)
        /\ UNCHANGED <<cmd, ei, wi, callbacks, measurements, collected>>
    BY <1>9 DEF NextIteration, AgendaInv, Iterating, IInv, CallInv
  <2>2. Pending = {}
    BY <2>1, NoPhases DEF Pending, Measuring
  <2>3. Pending' = Wanted(cmd.phase, n + 1)
    BY <1>0, <2>1, CallsWanted DEF Pending, Measuring, PhasesIn
  <2>4. Measured' = Measured
    <3>1. \A r \in Records : r.iteration < n + 1 <=> r.iteration < n \/ r.iteration = n
      BY <1>0, RecordNumbers
    <3> QED BY <2>1, <2>2, <2>3, <3>1, SameRecords DEF Measured
  <2>5. MeasuredBag' = MeasuredBag
    BY <2>4 DEF MeasuredBag
  <2> QED BY <2>1, <2>5, SameFinished, SameCollected DEF BagsInv, Iterating
<1>10. CASE FinishBenchmark
  <2>1. pc = "next" /\ pc' = "wasm"
    BY <1>10 DEF FinishBenchmark
  <2>2. collected' = CollectedBag'
    BY <1>10, <2>1, BenchmarkFinished DEF BagsInv, Iterating
  <2> QED BY <2>1, <2>2 DEF BagsInv, Iterating
<1>11. CASE FilterPhase
  <2>1. pc = "filter" /\ pc' = "write" /\ cmd' = cmd
        /\ collected' = Retained(collected, cmd.phase)
    BY <1>11 DEF FilterPhase
  <2>2. collected' = WrittenBag'
    BY <2>1, FilteredIsWritten, SameRecords DEF BagsInv
  <2> QED BY <2>1, <2>2 DEF BagsInv, Iterating
<1>12. CASE WriteResults
  <2>1. pc = "write" /\ pc' \in {"done", "failed", "panicked"} /\ UNCHANGED <<cmd, collected>>
    BY <1>12 DEF WriteResults
  <2> QED BY <2>1, SameRecords DEF BagsInv, Iterating
<1>13. CASE UNCHANGED vars
  <2>1. UNCHANGED <<cmd, pc, ei, wi, n, todo, callbacks, measurements, collected>>
    BY <1>13 DEF vars, counters, recorder
  <2>2. Pending' = Pending
    BY <2>1 DEF Pending, Measuring, PhasesIn
  <2> QED BY <2>1, <2>2, SameMeasured, SameFinished, SameCollected, SameRecords DEF BagsInv
<1> QED BY <1>1, <1>2, <1>3, <1>4, <1>5, <1>6, <1>7, <1>8, <1>9, <1>10, <1>11, <1>12,
     <1>13 DEF Next, Step, Exited

(* The steps of the clean command have no part in the account.             *)
LEMMA CleanKeepsResults ==
  ASSUME ResultsInv, Clean
  PROVE  ResultsInv'
<1>1. UNCHANGED <<cmd, pc, ei, wi, n, todo, callbacks, timers, iteration, measurements,
                  collected>>
  BY DEF Clean, OpenDirectory, NextEntry, RemoveEntry, EndOfDirectory, vars, counters,
     recorder
<1>2. Pending' = Pending
  BY <1>1 DEF Pending, Measuring, PhasesIn
<1>3. BagsInv'
  BY <1>1, <1>2, SameMeasured, SameFinished, SameCollected, SameRecords
  DEF ResultsInv, BagsInv
<1>4. AgendaInv' /\ TimersInv'
  BY <1>1 DEF ResultsInv, AgendaInv, TimersInv, PhasesIn
<1> QED BY <1>3, <1>4 DEF ResultsInv

-----------------------------------------------------------------------------
(* The measurements written are those of every engine, benchmark,          *)
(* iteration and requested phase, each once for every measure that counts  *)
(* its event and measured from a start of its own, if benchmarks keep to   *)
(* the protocol, and whether or not logs are cleaned up meanwhile.         *)
THEOREM ResultsAreExact ==
  ASSUME GuestsFollowProtocol
  PROVE  SpecWithClean => []ResultsExact
<1>1. InitWithClean => ResultsInv
  BY InitResults DEF InitWithClean
<1>2. IInv /\ ResultsInv /\ [NextWithClean]_<<vars, cleanVars>> => ResultsInv'
  <2> SUFFICES ASSUME IInv, ResultsInv, [NextWithClean]_<<vars, cleanVars>>
               PROVE  ResultsInv'
    OBVIOUS
  <2>1. CASE Clean
    BY <2>1, CleanKeepsResults
  <2>2. CASE [Next]_vars
    BY <2>2, GuestsFollowProtocol, NextAgendaInv, NextTimersInv, NextBagsInv DEF ResultsInv
  <2> QED BY <2>1, <2>2 DEF NextWithClean, RunnerStep, Next, Exited
<1>3. ResultsInv => ResultsExact
  BY DEF ResultsInv, BagsInv, ResultsExact
<1> QED BY <1>1, <1>2, <1>3, InvarianceWithClean, PTL DEF SpecWithClean
=============================================================================
