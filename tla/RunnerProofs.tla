----------------------------- MODULE RunnerProofs ----------------------------
(***************************************************************************)
(* What Runner guarantees for every number of engines, benchmarks and      *)
(* iterations, every set of measures and every benchmark: its types, that  *)
(* the engine, module or instance a call consumes is always there, that an *)
(* unexpected output stops the run, and that it takes only the steps of    *)
(* BenchPlan.                                                              *)
(***************************************************************************)
EXTENDS Runner, FiniteSetTheorems, TLAPS

Iterating == {"run", "check-stdout", "check-stderr", "remove-stdout", "remove-stderr", "next"}

(***************************************************************************)
(* The inductive invariant, part by part.                                  *)
(*                                                                         *)
(* Where the loops over engines, benchmarks and iterations are.            *)
(***************************************************************************)
LoopInv ==
  /\ pc \in Iterating => ei \in Engines /\ wi \in Wasms /\ iteration = n
  /\ pc = "wasm" => ei \in Engines
  /\ pc \in {"create-output", "engine"} => wi = 1
  /\ pc \in {"create-output", "engine", "wasm", "filter", "write", "done"} => n = 0
  /\ pc \in {"filter", "write", "done"} => ei = NEngines + 1

(***************************************************************************)
(* The phases still to be called, with what the runner must hold to call   *)
(* the first of them: every suffix of an iteration, and of the first one   *)
(* with its eager compilation.                                             *)
(***************************************************************************)
Agenda(option) ==
  (IF option \in {"all", "execution"}
     THEN {<< <<"compilation", "instantiation", "execution">>, "engine">>,
           << <<"instantiation", "execution">>, "module">>,
           << <<"execution">>, "instance">>}
     ELSE {})
  \union
  (IF option = "compilation" THEN {<< <<"compilation">>, "engine">>} ELSE {})
  \union
  (IF option = "instantiation"
     THEN {<< <<"compilation", "instantiation">>, "engine">>,
           << <<"instantiation">>, "module">>}
     ELSE {})

CallInv ==
  /\ pc = "run" => <<todo, held>> \in Agenda(cmd.phase)
  /\ callbacks # NoCall => pc = "run" /\ callbacks.phase = Head(todo)
  /\ pc \in Iterating \ {"run"} => held = Rested(cmd.phase)

(***************************************************************************)
(* What is known of the logs between an unexpected output and the          *)
(* comparison that will find it.                                           *)
(***************************************************************************)
SuspectInv ==
  /\ WrongOutputStopsRun
  /\ suspect /\ pc = "check-stdout" =>
       ChecksOutput /\ \E s \in expected : logs[wi][s] # "right"
  /\ suspect /\ pc = "check-stderr" =>
       ChecksOutput /\ "stderr" \in expected /\ logs[wi]["stderr"] # "right"

IInv == TypeOK /\ LoopInv /\ CallInv /\ SuspectInv

-----------------------------------------------------------------------------
(* An agenda is never empty and starts with a phase whose receiver is held *)
(* ready; what a call returns is ready for the rest of it.                 *)
LEMMA AgendaSound ==
  ASSUME NEW option \in PhaseOptions, NEW a, NEW h, <<a, h>> \in Agenda(option)
  PROVE  /\ a \in Seq(Phases) /\ a # <<>> /\ Head(a) \in Phases /\ Tail(a) \in Seq(Phases)
         /\ h = Receiver(Head(a))
         /\ h \in {"engine", "module", "instance"}
         /\ Tail(a) # <<>> => <<Tail(a), Returned(Head(a))>> \in Agenda(option)
         /\ Head(a) = "execution" => Tail(a) = <<>> /\ option \in {"all", "execution"}
<1> USE DEF Phases, Receiver, Returned
<1>1. CASE a = <<"compilation", "instantiation", "execution">> /\ h = "engine"
  <2>1. /\ a \in Seq(Phases) /\ Head(a) = "compilation"
        /\ Tail(a) = <<"instantiation", "execution">>
    BY <1>1
  <2> QED BY <1>1, <2>1 DEF Agenda
<1>2. CASE a = <<"instantiation", "execution">> /\ h = "module"
  <2>1. a \in Seq(Phases) /\ Head(a) = "instantiation" /\ Tail(a) = <<"execution">>
    BY <1>2
  <2> QED BY <1>2, <2>1 DEF Agenda
<1>3. CASE a = <<"execution">> /\ h = "instance"
  <2>1. a \in Seq(Phases) /\ Head(a) = "execution" /\ Tail(a) = <<>>
    BY <1>3
  <2>2. option \in {"all", "execution"}
    BY <1>3 DEF Agenda
  <2> QED BY <1>3, <2>1, <2>2
<1>4. CASE a = <<"compilation">> /\ h = "engine"
  <2>1. a \in Seq(Phases) /\ Head(a) = "compilation" /\ Tail(a) = <<>>
    BY <1>4
  <2> QED BY <1>4, <2>1
<1>5. CASE a = <<"compilation", "instantiation">> /\ h = "engine"
  <2>1. a \in Seq(Phases) /\ Head(a) = "compilation" /\ Tail(a) = <<"instantiation">>
    BY <1>5
  <2>2. option = "instantiation"
    BY <1>5 DEF Agenda
  <2> QED BY <1>5, <2>1, <2>2 DEF Agenda
<1>6. CASE a = <<"instantiation">> /\ h = "module"
  <2>1. a \in Seq(Phases) /\ Head(a) = "instantiation" /\ Tail(a) = <<>>
    BY <1>6
  <2> QED BY <1>6, <2>1
<1> QED BY <1>1, <1>2, <1>3, <1>4, <1>5, <1>6 DEF Agenda

(* A sequence of one element followed by one or two others.                *)
LEMMA Followed ==
  ASSUME NEW x, NEW y, NEW z
  PROVE  /\ <<x>> \o <<y>> = <<x, y>>
         /\ <<x>> \o <<y, z>> = <<x, y, z>>
<1>1. <<x>> \o <<y>> = <<x, y>>
  <2> DEFINE s == <<x>> \o <<y>>
  <2>1. s \in Seq({x, y}) /\ Len(s) = 2 /\ s[1] = x /\ s[2] = y
    OBVIOUS
  <2> HIDE DEF s
  <2>2. s = <<x, y>>
    BY <2>1
  <2> QED BY <2>2 DEF s
<1>2. <<x>> \o <<y, z>> = <<x, y, z>>
  <2> DEFINE s == <<x>> \o <<y, z>>
  <2>1. s \in Seq({x, y, z}) /\ Len(s) = 3 /\ s[1] = x /\ s[2] = y /\ s[3] = z
    OBVIOUS
  <2> HIDE DEF s
  <2>2. s = <<x, y, z>>
    BY <2>1
  <2> QED BY <2>2 DEF s
<1> QED BY <1>1, <1>2

(* The agendas that a benchmark and each further iteration start with.     *)
LEMMA AgendaStarts ==
  ASSUME NEW option \in PhaseOptions
  PROVE  /\ <<EagerCalls(option) \o Calls(option), "engine">> \in Agenda(option)
         /\ <<Calls(option), Rested(option)>> \in Agenda(option)
<1> option \in {"all", "compilation", "instantiation", "execution"}
  BY DEF PhaseOptions, Phases
<1>1. CASE option = "all"
  <2>1. <<>> \o <<"compilation", "instantiation", "execution">>
          = <<"compilation", "instantiation", "execution">>
    OBVIOUS
  <2> QED BY <1>1, <2>1 DEF EagerCalls, Calls, Rested, Agenda
<1>2. CASE option = "compilation"
  <2>1. <<>> \o <<"compilation">> = <<"compilation">>
    OBVIOUS
  <2> QED BY <1>2, <2>1 DEF EagerCalls, Calls, Rested, Agenda
<1>3. CASE option = "instantiation"
  <2>1. <<"compilation">> \o <<"instantiation">> = <<"compilation", "instantiation">>
    BY Followed
  <2> QED BY <1>3, <2>1 DEF EagerCalls, Calls, Rested, Agenda
<1>4. CASE option = "execution"
  <2>1. <<"compilation">> \o <<"instantiation", "execution">>
          = <<"compilation", "instantiation", "execution">>
    BY Followed
  <2> QED BY <1>4, <2>1 DEF EagerCalls, Calls, Rested, Agenda
<1> QED BY <1>1, <1>2, <1>3, <1>4

(* Joining two bags gives a bag.                                           *)
LEMMA JoinedBag ==
  ASSUME NEW A, NEW B, IsABag(A), IsABag(B)
  PROVE  IsABag(A (+) B)
<1>1. DOMAIN (A (+) B) = DOMAIN A \union DOMAIN B
  BY DEF (+)
<1>2. \A e \in DOMAIN A \union DOMAIN B :
        (A (+) B)[e] = (IF e \in DOMAIN A THEN A[e] ELSE 0) + (IF e \in DOMAIN B THEN B[e] ELSE 0)
  BY DEF (+)
<1>3. \A e \in DOMAIN A \union DOMAIN B : (A (+) B)[e] \in {m \in Nat : m > 0}
  BY <1>2 DEF IsABag
<1>4. A (+) B = [e \in DOMAIN (A (+) B) |-> (A (+) B)[e]]
  BY DEF (+)
<1> QED BY <1>1, <1>3, <1>4 DEF IsABag

(* What `end` adds is a bag: at least one measure counts each record in it. *)
LEMMA AddedBag ==
  ASSUME NEW phase, NEW starts
  PROVE  IsABag(Added(phase, starts))
<1> DEFINE by(t) == {RecordOf(phase, e, starts[t]) : e \in Events(t)}
           all == UNION {by(t) : t \in Types}
           of(r) == {t \in Types : r \in by(t)}
<1>1. IsFiniteSet(Types)
  <2>1. MeasureTypes = (((({"noop"} \cup {"time"}) \cup {"cycles"}) \cup {"vtune"})
                         \cup {"perf-counters"}) \cup {"insts-retired"}
    BY DEF MeasureTypes
  <2>2. IsFiniteSet(MeasureTypes)
    BY <2>1, FS_Singleton, FS_Union
  <2> QED BY <2>2, FS_Subset, RunnerAssumption
<1>2. ASSUME NEW r \in all
      PROVE  Cardinality(of(r)) \in {m \in Nat : m > 0}
  <2>1. PICK t \in Types : r \in by(t)
    OBVIOUS
  <2>2. of(r) \in SUBSET Types /\ of(r) # {}
    BY <2>1
  <2>3. IsFiniteSet(of(r))
    BY <1>1, <2>2, FS_Subset
  <2>4. Cardinality(of(r)) \in Nat /\ Cardinality(of(r)) # 0
    BY <2>2, <2>3, FS_CardinalityType, FS_EmptySet
  <2> QED BY <2>4
<1>3. Added(phase, starts) = [r \in all |-> Cardinality(of(r))]
  BY DEF Added
<1> HIDE DEF all, of
<1> QED BY <1>2, <1>3 DEF IsABag

-----------------------------------------------------------------------------
(* A new command satisfies the invariant.                                  *)
LEMMA InitIInv == Init => IInv
<1> SUFFICES ASSUME Init PROVE IInv
  OBVIOUS
<1> USE RunnerAssumption
<1>1. IsABag(EmptyBag)
  BY DEF IsABag, EmptyBag, SetToBag
<1>2. TypeOK
  <2>1. /\ 1 \in 1..(NEngines + 1) /\ 1 \in 1..(NWasms + 1)
        /\ 0 \in 0..(Iterations - 1) /\ 0 \in 0..Iterations /\ <<>> \in Seq(Phases)
    OBVIOUS
  <2>2. /\ logs \in [Wasms -> [Streams -> {"absent", "empty", "right", "wrong"}]]
        /\ timers \in [Types -> Starts \union {NeverStarted}]
    BY DEF Init
  <2> QED BY <1>1, <2>1, <2>2 DEF Init, TypeOK
<1>3. LoopInv /\ CallInv /\ SuspectInv
  BY DEF Init, LoopInv, CallInv, SuspectInv, WrongOutputStopsRun, Iterating
<1> QED BY <1>2, <1>3 DEF IInv

(* Each step keeps its place in the loops over engines, benchmarks and     *)
(* iterations.                                                             *)
LEMMA NextLoopInv == IInv /\ [Next]_vars => LoopInv'
<1> SUFFICES ASSUME IInv, [Next]_vars PROVE LoopInv'
  OBVIOUS
<1> USE RunnerAssumption
<1>1. CASE CreateOutput
  BY <1>1 DEF IInv, TypeOK, LoopInv, counters, recorder, CreateOutput, Iterating
<1>2. CASE LoadEngine
  BY <1>2 DEF IInv, TypeOK, LoopInv, counters, recorder, LoadEngine, Iterating, Engines
<1>3. CASE CloseEngine
  BY <1>3 DEF IInv, TypeOK, LoopInv, counters, recorder, CloseEngine, Iterating, Engines
<1>4. CASE CreateEngine
  BY <1>4 DEF IInv, TypeOK, LoopInv, counters, recorder, CreateEngine, Iterating, Wasms
<1>5. CASE CreateEngineFails
  BY <1>5 DEF IInv, TypeOK, LoopInv, counters, recorder, CreateEngineFails, Abort, Iterating
<1>6. CASE CallApi
  BY <1>6 DEF IInv, TypeOK, LoopInv, counters, recorder, CallApi, Iterating
<1>7. CASE OnStart
  BY <1>7 DEF IInv, TypeOK, LoopInv, counters, recorder, OnStart, Abort, CallbackDue,
         Iterating
<1>8. CASE OnEnd
  BY <1>8 DEF IInv, TypeOK, LoopInv, counters, recorder, OnEnd, Abort, CallbackDue,
         Iterating
<1>9. CASE CallReturns
  BY <1>9 DEF IInv, TypeOK, LoopInv, counters, recorder, CallReturns, CallReturning,
         Iterating
<1>10. CASE CallFails
  BY <1>10 DEF IInv, TypeOK, LoopInv, counters, recorder, CallFails, CallReturning,
         Abort, Iterating
<1>11. ASSUME NEW s \in Streams, CheckPasses(s)
      PROVE  LoopInv'
  BY <1>11 DEF IInv, TypeOK, LoopInv, counters, recorder, CheckPasses, Checking, Iterating
<1>12. ASSUME NEW s \in Streams, CheckFails(s)
      PROVE  LoopInv'
  BY <1>12 DEF IInv, TypeOK, LoopInv, counters, recorder, CheckFails, Abort, Checking,
         Iterating
<1>13. ASSUME NEW s \in Streams, RemoveLog(s)
      PROVE  LoopInv'
  BY <1>13 DEF IInv, TypeOK, LoopInv, counters, recorder, RemoveLog, Iterating
<1>14. CASE NextIteration
  BY <1>14 DEF IInv, TypeOK, LoopInv, counters, recorder, NextIteration, Iterating
<1>15. CASE FinishBenchmark
  BY <1>15 DEF IInv, TypeOK, LoopInv, counters, recorder, FinishBenchmark, Iterating, Wasms
<1>16. CASE FilterPhase
  BY <1>16 DEF IInv, TypeOK, LoopInv, counters, recorder, FilterPhase, Iterating
<1>17. CASE WriteResults
  BY <1>17 DEF IInv, TypeOK, LoopInv, counters, recorder, WriteResults, Iterating
<1>18. CASE UNCHANGED vars
  BY <1>18 DEF IInv, TypeOK, LoopInv, counters, recorder, vars, counters, recorder
<1> QED BY <1>1, <1>2, <1>3, <1>4, <1>5, <1>6, <1>7, <1>8, <1>9, <1>10, <1>11, <1>12,
     <1>13, <1>14, <1>15, <1>16, <1>17, <1>18 DEF Next, Step, Exited

(* Each step keeps the agenda and what is held for it in line.             *)
LEMMA NextCallInv == IInv /\ [Next]_vars => CallInv'
<1> SUFFICES ASSUME IInv, [Next]_vars PROVE CallInv'
  OBVIOUS
<1> cmd.phase \in PhaseOptions /\ cmd' = cmd
  BY RunnerAssumption DEF IInv, TypeOK, Next, Step, Exited, vars, CreateOutput, LoadEngine,
     CloseEngine, CreateEngine, CreateEngineFails, CallApi, OnStart, OnEnd, CallReturns,
     CallFails, CheckPasses, CheckFails, RemoveLog, NextIteration, FinishBenchmark,
     FilterPhase, WriteResults
<1>1. CASE CreateOutput
  BY <1>1 DEF IInv, CallInv, Iterating, CreateOutput
<1>2. CASE LoadEngine
  BY <1>2 DEF IInv, CallInv, Iterating, LoadEngine
<1>3. CASE CloseEngine
  BY <1>3 DEF IInv, CallInv, Iterating, CloseEngine
<1>4. CASE CreateEngine
  BY <1>4, AgendaStarts DEF IInv, CallInv, Iterating, CreateEngine
<1>5. CASE CreateEngineFails
  BY <1>5 DEF IInv, CallInv, Iterating, CreateEngineFails, Abort
<1>6. CASE CallApi
  BY <1>6 DEF IInv, CallInv, Iterating, CallApi
<1>7. CASE OnStart
  <2>1. /\ pc = "run" /\ callbacks # NoCall
        /\ todo' = todo \/ pc' = "panicked"
        /\ callbacks \in [phase : Phases, script : Seq({"start", "end"})]
    BY <1>7 DEF IInv, TypeOK, OnStart, CallbackDue, Abort
  <2>2. CASE \E t \in Types : StartPanics(t, timers[t])
    BY <1>7, <2>2 DEF CallInv, Iterating, OnStart, Abort
  <2>3. CASE ~ \E t \in Types : StartPanics(t, timers[t])
    BY <1>7, <2>1, <2>3 DEF IInv, CallInv, Iterating, OnStart, CallbackDue
  <2> QED BY <2>2, <2>3
<1>8. CASE OnEnd
  <2>1. /\ pc = "run" /\ callbacks # NoCall
        /\ todo' = todo \/ pc' = "panicked"
        /\ callbacks \in [phase : Phases, script : Seq({"start", "end"})]
    BY <1>8 DEF IInv, TypeOK, OnEnd, CallbackDue, Abort
  <2>2. CASE \E t \in Types : EndPanics(t, timers[t])
    BY <1>8, <2>2 DEF CallInv, Iterating, OnEnd, Abort
  <2>3. CASE ~ \E t \in Types : EndPanics(t, timers[t])
    BY <1>8, <2>1, <2>3 DEF IInv, CallInv, Iterating, OnEnd, CallbackDue
  <2> QED BY <2>2, <2>3
<1>9. CASE CallReturns
  BY <1>9, AgendaSound DEF IInv, CallInv, Iterating, CallReturns, CallReturning
<1>10. CASE CallFails
  BY <1>10 DEF IInv, CallInv, Iterating, CallFails, Abort
<1>11. ASSUME NEW s \in Streams, CheckPasses(s)
      PROVE  CallInv'
  BY <1>11 DEF IInv, CallInv, Iterating, CheckPasses, Checking
<1>12. ASSUME NEW s \in Streams, CheckFails(s)
      PROVE  CallInv'
  BY <1>12 DEF IInv, CallInv, Iterating, CheckFails, Abort
<1>13. ASSUME NEW s \in Streams, RemoveLog(s)
      PROVE  CallInv'
  BY <1>13 DEF IInv, CallInv, Iterating, RemoveLog
<1>14. CASE NextIteration
  BY <1>14, AgendaStarts DEF IInv, CallInv, Iterating, NextIteration
<1>15. CASE FinishBenchmark
  BY <1>15 DEF IInv, CallInv, Iterating, FinishBenchmark
<1>16. CASE FilterPhase
  BY <1>16 DEF IInv, CallInv, Iterating, FilterPhase
<1>17. CASE WriteResults
  BY <1>17 DEF IInv, CallInv, Iterating, WriteResults
<1>18. CASE UNCHANGED vars
  BY <1>18 DEF IInv, CallInv, Iterating, vars, counters, recorder
<1> QED BY <1>1, <1>2, <1>3, <1>4, <1>5, <1>6, <1>7, <1>8, <1>9, <1>10, <1>11, <1>12,
     <1>13, <1>14, <1>15, <1>16, <1>17, <1>18 DEF Next, Step, Exited

(* Each step keeps what is known of an output that is not as expected.       *)
LEMMA NextSuspectInv == IInv /\ [Next]_vars => SuspectInv'
<1> SUFFICES ASSUME IInv, [Next]_vars PROVE SuspectInv'
  OBVIOUS
<1> USE RunnerAssumption
<1>1. CASE CreateOutput
  BY <1>1 DEF IInv, SuspectInv, WrongOutputStopsRun, CreateOutput
<1>2. CASE LoadEngine
  BY <1>2 DEF IInv, SuspectInv, WrongOutputStopsRun, LoadEngine
<1>3. CASE CloseEngine
  BY <1>3 DEF IInv, SuspectInv, WrongOutputStopsRun, CloseEngine
<1>4. CASE CreateEngine
  BY <1>4 DEF IInv, SuspectInv, WrongOutputStopsRun, CreateEngine
<1>5. CASE CreateEngineFails
  BY <1>5 DEF IInv, SuspectInv, WrongOutputStopsRun, CreateEngineFails, Abort
<1>6. CASE CallApi
  BY <1>6 DEF IInv, SuspectInv, WrongOutputStopsRun, CallApi
<1>7. CASE OnStart
  BY <1>7 DEF IInv, SuspectInv, WrongOutputStopsRun, OnStart, Abort, CallbackDue
<1>8. CASE OnEnd
  BY <1>8 DEF IInv, SuspectInv, WrongOutputStopsRun, OnEnd, Abort, CallbackDue
<1>9. CASE CallReturns
  <2>1. /\ pc = "run" /\ suspect = FALSE /\ <<todo, held>> \in Agenda(cmd.phase)
        /\ callbacks.phase = Head(todo) /\ cmd.phase \in PhaseOptions /\
               expected \subseteq Streams
        /\ wi \in Wasms /\ logs \in [Wasms -> [Streams -> {"absent", "empty",
               "right", "wrong"}]]
        /\ UNCHANGED <<cmd, expected, wi>>
    BY <1>9 DEF IInv, TypeOK, LoopInv, CallInv, SuspectInv, WrongOutputStopsRun, Iterating,
              CallReturns, CallReturning, counters
  <2>2. CASE callbacks.phase # "execution"
    BY <1>9, <2>1, <2>2 DEF CallReturns, SuspectInv, WrongOutputStopsRun
  <2>3. CASE callbacks.phase = "execution"
    <3>1. Tail(todo) = <<>> /\ ChecksOutput
      BY <2>1, <2>3, AgendaSound DEF ChecksOutput
    <3>2. pc' = "check-stdout"
      BY <1>9, <3>1 DEF CallReturns
    <3>3. PICK good \in SUBSET Streams :
            /\ logs' = [logs EXCEPT ![wi] =
                          [s \in Streams |-> WrittenLog(logs[wi][s], s \in good)]]
            /\ suspect' = (suspect \/ ~(expected \subseteq good))
      BY <1>9, <2>3 DEF CallReturns
    <3>4. ASSUME NEW s \in Streams, s \notin good
          PROVE  logs'[wi][s] # "right"
      BY <2>1, <3>3, <3>4 DEF WrittenLog
    <3>5. suspect' => \E s \in expected : s \notin good
      BY <2>1, <3>3
    <3>6. suspect' => \E s \in expected : logs'[wi][s] # "right"
      BY <2>1, <3>4, <3>5
    <3>7. ChecksOutput'
      BY <2>1, <3>1 DEF ChecksOutput
    <3> QED BY <2>1, <3>2, <3>6, <3>7 DEF SuspectInv, WrongOutputStopsRun
  <2> QED BY <2>2, <2>3
<1>10. CASE CallFails
  BY <1>10 DEF IInv, SuspectInv, WrongOutputStopsRun, CallFails, CallReturning, Abort
<1>11. ASSUME NEW s \in Streams, CheckPasses(s)
      PROVE  SuspectInv'
  BY <1>11 DEF IInv, SuspectInv, WrongOutputStopsRun, CheckPasses, Checking, Accepts, Compared,
         ChecksOutput, Streams, counters, TypeOK
<1>12. ASSUME NEW s \in Streams, CheckFails(s)
      PROVE  SuspectInv'
  BY <1>12 DEF IInv, SuspectInv, WrongOutputStopsRun, CheckFails, Abort
<1>13. ASSUME NEW s \in Streams, RemoveLog(s)
      PROVE  SuspectInv'
  BY <1>13 DEF IInv, SuspectInv, WrongOutputStopsRun, RemoveLog
<1>14. CASE NextIteration
  BY <1>14 DEF IInv, SuspectInv, WrongOutputStopsRun, NextIteration
<1>15. CASE FinishBenchmark
  BY <1>15 DEF IInv, SuspectInv, WrongOutputStopsRun, FinishBenchmark
<1>16. CASE FilterPhase
  BY <1>16 DEF IInv, SuspectInv, WrongOutputStopsRun, FilterPhase
<1>17. CASE WriteResults
  BY <1>17 DEF IInv, SuspectInv, WrongOutputStopsRun, WriteResults
<1>18. CASE UNCHANGED vars
  BY <1>18 DEF IInv, SuspectInv, WrongOutputStopsRun, vars, counters, recorder, ChecksOutput
<1> QED BY <1>1, <1>2, <1>3, <1>4, <1>5, <1>6, <1>7, <1>8, <1>9, <1>10, <1>11, <1>12,
     <1>13, <1>14, <1>15, <1>16, <1>17, <1>18 DEF Next, Step, Exited

(* Each step keeps the types.                                              *)
LEMMA NextTypeOK == IInv /\ [Next]_vars => TypeOK'
<1> SUFFICES ASSUME IInv, [Next]_vars PROVE TypeOK'
  OBVIOUS
<1> USE RunnerAssumption
<1>1. CASE CreateOutput
  BY <1>1 DEF IInv, TypeOK, Terminal, counters, recorder, CreateOutput
<1>2. CASE LoadEngine
  BY <1>2 DEF IInv, TypeOK, Terminal, counters, recorder, LoadEngine
<1>3. CASE CloseEngine
  BY <1>3 DEF IInv, TypeOK, Terminal, counters, recorder, CloseEngine, LoopInv, Engines
<1>4. CASE CreateEngine
  <2>1. <<todo', held'>> \in Agenda(cmd.phase) /\ cmd.phase \in PhaseOptions
    BY <1>4, AgendaStarts DEF IInv, TypeOK, CreateEngine
  <2>2. todo' \in Seq(Phases) /\ held' \in {"nothing", "engine", "module", "instance"}
    BY <2>1, AgendaSound
  <2>3. IsABag(EmptyBag)
    BY DEF IsABag, EmptyBag, SetToBag
  <2>4. logs' \in [Wasms -> [Streams -> {"absent", "empty", "right", "wrong"}]]
    BY <1>4 DEF IInv, TypeOK, CreateEngine
  <2>5. /\ timers' \in [Types -> Starts \union {NeverStarted}] /\ iteration' \in
         0..Iterations
        /\ pc' = "run" /\ callbacks' = NoCall /\ measurements' = EmptyBag
        /\ UNCHANGED <<cmd, expected, ei, wi, n, suspect, collected, output>>
    BY <1>4 DEF CreateEngine, counters
  <2>6. unremoved' \subseteq Wasms \X Streams
    BY <1>4 DEF IInv, TypeOK, CreateEngine
  <2> QED BY <2>2, <2>3, <2>4, <2>5, <2>6 DEF IInv, TypeOK
<1>5. CASE CreateEngineFails
  BY <1>5 DEF IInv, TypeOK, Terminal, counters, recorder, CreateEngineFails, Abort
<1>6. CASE CallApi
  <2>1. <<todo, held>> \in Agenda(cmd.phase) /\ cmd.phase \in PhaseOptions
    BY <1>6 DEF IInv, TypeOK, CallInv, CallApi
  <2>2. PICK script \in CallbackScripts(Head(todo)) :
          callbacks' = [phase |-> Head(todo), script |-> script]
    BY <1>6 DEF CallApi
  <2>3. script \in Seq({"start", "end"})
    <3>1. <<"start", "end">> \in Seq({"start", "end"})
      OBVIOUS
    <3> QED BY <2>2, <3>1 DEF CallbackScripts
  <2>4. callbacks' \in [phase : Phases, script : Seq({"start", "end"})]
    BY <2>1, <2>2, <2>3, AgendaSound
  <2>5. logs' \in [Wasms -> [Streams -> {"absent", "empty", "right", "wrong"}]]
    BY <1>6 DEF IInv, TypeOK, CallApi
  <2> QED BY <1>6, <2>4, <2>5 DEF IInv, TypeOK, CallApi, counters, recorder
<1>7. CASE OnStart
  <2>1. /\ pc = "run" /\ callbacks \in [phase : Phases, script : Seq({"start", "end"})]
        /\ callbacks.script # <<>> /\ iteration \in 0..Iterations
    BY <1>7 DEF IInv, TypeOK, OnStart, CallbackDue
  <2>2. CASE \E t \in Types : StartPanics(t, timers[t])
    <3>1. Abort("panicked") /\ UNCHANGED timers
      BY <1>7, <2>2 DEF OnStart
    <3>2. UNCHANGED <<cmd, expected, counters, timers, iteration, measurements, collected,
                      logs, unremoved, output, suspect>>
      BY <1>7, <3>1 DEF OnStart
    <3> QED BY <3>1, <3>2 DEF IInv, TypeOK, Terminal, Abort, counters
  <2>3. CASE ~ \E t \in Types : StartPanics(t, timers[t])
    <3>1. [phase |-> callbacks.phase, iteration |-> iteration] \in Starts
      BY <2>1 DEF Starts
    <3>2. timers' \in [Types -> Starts \union {NeverStarted}]
      BY <1>7, <2>3, <3>1 DEF IInv, TypeOK, OnStart, AfterStart
    <3>3. callbacks' \in [phase : Phases, script : Seq({"start", "end"})]
      <4>1. Tail(callbacks.script) \in Seq({"start", "end"})
        BY <2>1
      <4>2. callbacks' = [callbacks EXCEPT !.script = Tail(callbacks.script)]
        BY <1>7, <2>3 DEF OnStart
      <4> QED BY <2>1, <4>1, <4>2
    <3> QED BY <1>7, <2>3, <3>2, <3>3 DEF IInv, TypeOK, OnStart, counters
  <2> QED BY <2>2, <2>3
<1>8. CASE OnEnd
  <2>1. /\ pc = "run" /\ callbacks \in [phase : Phases, script : Seq({"start", "end"})]
        /\ callbacks.script # <<>>
    BY <1>8 DEF IInv, TypeOK, OnEnd, CallbackDue
  <2>2. CASE \E t \in Types : EndPanics(t, timers[t])
    <3>1. Abort("panicked") /\ UNCHANGED <<timers, measurements>>
      BY <1>8, <2>2 DEF OnEnd
    <3>2. UNCHANGED <<cmd, expected, counters, timers, iteration, measurements, collected,
                      logs, unremoved, output, suspect>>
      BY <1>8, <3>1 DEF OnEnd
    <3> QED BY <3>1, <3>2 DEF IInv, TypeOK, Terminal, Abort, counters
  <2>3. CASE ~ \E t \in Types : EndPanics(t, timers[t])
    <3>1. IsABag(measurements')
      BY <1>8, <2>3, AddedBag, JoinedBag DEF IInv, TypeOK, OnEnd
    <3>2. timers' \in [Types -> Starts \union {NeverStarted}]
      BY <1>8, <2>3 DEF IInv, TypeOK, OnEnd, AfterEnd
    <3>3. callbacks' \in [phase : Phases, script : Seq({"start", "end"})]
      <4>1. Tail(callbacks.script) \in Seq({"start", "end"})
        BY <2>1
      <4>2. callbacks' = [callbacks EXCEPT !.script = Tail(callbacks.script)]
        BY <1>8, <2>3 DEF OnEnd
      <4> QED BY <2>1, <4>1, <4>2
    <3> QED BY <1>8, <2>3, <3>1, <3>2, <3>3 DEF IInv, TypeOK, OnEnd, counters
  <2> QED BY <2>2, <2>3
<1>9. CASE CallReturns
  <2>1. /\ <<todo, held>> \in Agenda(cmd.phase) /\ cmd.phase \in PhaseOptions
        /\ callbacks.phase = Head(todo) /\ wi \in Wasms
    BY <1>9 DEF IInv, TypeOK, CallInv, LoopInv, Iterating, CallReturns, CallReturning
  <2>2. todo' \in Seq(Phases)
    BY <1>9, <2>1, AgendaSound DEF CallReturns
  <2>3. held' \in {"nothing", "engine", "module", "instance"}
    BY <1>9, <2>1, AgendaSound DEF CallReturns, Returned, Rested, Phases
  <2>4. logs' \in [Wasms -> [Streams -> {"absent", "empty", "right", "wrong"}]]
    <3>1. CASE callbacks.phase = "execution"
      <4>1. PICK good \in SUBSET Streams :
              logs' = [logs EXCEPT ![wi] =
                         [s \in Streams |-> WrittenLog(logs[wi][s], s \in good)]]
        BY <1>9, <3>1 DEF CallReturns
      <4>2. [s \in Streams |-> WrittenLog(logs[wi][s], s \in good)]
              \in [Streams -> {"absent", "empty", "right", "wrong"}]
        BY DEF WrittenLog
      <4> QED BY <2>1, <4>1, <4>2 DEF IInv, TypeOK
    <3>2. CASE callbacks.phase # "execution"
      BY <1>9, <3>2 DEF IInv, TypeOK, CallReturns
    <3> QED BY <3>1, <3>2
  <2>5. suspect' \in BOOLEAN
    BY <1>9 DEF IInv, TypeOK, CallReturns
  <2>6. /\ pc' \in {"check-stdout", "run"} /\ callbacks' = NoCall
        /\ UNCHANGED <<cmd, expected, ei, wi, n, timers, iteration,
               measurements, collected, unremoved, output>>
    BY <1>9 DEF CallReturns, counters, recorder
  <2> QED BY <2>2, <2>3, <2>4, <2>5, <2>6 DEF IInv, TypeOK
<1>10. CASE CallFails
  BY <1>10 DEF IInv, TypeOK, Terminal, counters, recorder, CallFails, Abort
<1>11. ASSUME NEW s \in Streams, CheckPasses(s)
      PROVE  TypeOK'
  BY <1>11 DEF IInv, TypeOK, Terminal, counters, recorder, CheckPasses
<1>12. ASSUME NEW s \in Streams, CheckFails(s)
      PROVE  TypeOK'
  BY <1>12 DEF IInv, TypeOK, Terminal, counters, recorder, CheckFails, Abort
<1>13. ASSUME NEW s \in Streams, RemoveLog(s)
      PROVE  TypeOK'
  <2>1. wi \in Wasms
    BY <1>13 DEF IInv, LoopInv, Iterating, RemoveLog
  <2>2. /\ logs' = logs \/ logs' = [logs EXCEPT ![wi][s] = "absent"]
        /\ unremoved' \subseteq unremoved \union {<<wi, s>>}
    BY <1>13 DEF RemoveLog
  <2>3. /\ logs' \in [Wasms -> [Streams -> {"absent", "empty", "right", "wrong"}]]
        /\ unremoved' \subseteq Wasms \X Streams
    BY <2>1, <2>2 DEF IInv, TypeOK
  <2>4. /\ pc' \in {"remove-stderr", "next"}
        /\ UNCHANGED <<cmd, expected, counters, held, todo, callbacks, recorder,
                       collected, output, suspect>>
    BY <1>13 DEF RemoveLog
  <2> QED BY <2>3, <2>4 DEF IInv, TypeOK, counters, recorder
<1>14. CASE NextIteration
  <2>1. <<todo', held'>> \in Agenda(cmd.phase) /\ cmd.phase \in PhaseOptions
    BY <1>14, AgendaStarts DEF IInv, TypeOK, CallInv, Iterating, NextIteration
  <2>2. todo' \in Seq(Phases)
    BY <2>1, AgendaSound
  <2>3. n' \in 0..(Iterations - 1) /\ iteration' \in 0..Iterations
    BY <1>14 DEF IInv, TypeOK, LoopInv, Iterating, NextIteration, MoreIterations
  <2> QED BY <1>14, <2>2, <2>3 DEF IInv, TypeOK, NextIteration
<1>15. CASE FinishBenchmark
  <2>1. /\ n' \in 0..(Iterations - 1) /\ iteration' \in 0..Iterations
        /\ wi' \in 1..(NWasms + 1)
    BY <1>15 DEF IInv, TypeOK, LoopInv, Iterating, Wasms, FinishBenchmark
  <2>2. IsABag(collected')
    BY <1>15, JoinedBag DEF IInv, TypeOK, FinishBenchmark
  <2> QED BY <1>15, <2>1, <2>2 DEF IInv, TypeOK, FinishBenchmark
<1>16. CASE FilterPhase
  <2>1. IsABag(Retained(collected, cmd.phase))
    BY DEF IInv, TypeOK, Retained, IsABag
  <2> QED BY <1>16, <2>1 DEF IInv, TypeOK, FilterPhase, counters, recorder
<1>17. CASE WriteResults
  BY <1>17 DEF IInv, TypeOK, Terminal, counters, recorder, WriteResults, WrittenOutputs
<1>18. CASE UNCHANGED vars
  BY <1>18 DEF IInv, TypeOK, Terminal, counters, recorder, vars, counters, recorder
<1> QED BY <1>1, <1>2, <1>3, <1>4, <1>5, <1>6, <1>7, <1>8, <1>9, <1>10, <1>11, <1>12,
     <1>13, <1>14, <1>15, <1>16, <1>17, <1>18 DEF Next, Step, Exited

-----------------------------------------------------------------------------
(* The inductive invariant holds in every reachable state.                 *)
THEOREM Invariance == Spec => []IInv
<1>1. IInv /\ [Next]_vars => IInv'
  BY NextTypeOK, NextLoopInv, NextCallInv, NextSuspectInv DEF IInv
<1> QED BY InitIInv, <1>1, PTL DEF Spec

(* The variables keep their types, whatever a benchmark calls and an       *)
(* engine answers.                                                         *)
THEOREM TypeCorrect == Spec => []TypeOK
<1>1. IInv => TypeOK
  BY DEF IInv
<1> QED BY <1>1, Invariance, PTL

(* No `take().unwrap()` of the iteration loop finds its Option empty, for  *)
(* any phase option and number of iterations.                              *)
THEOREM ReceiverAlwaysHeld == Spec => []ReceiverHeld
<1>1. ASSUME IInv, pc = "run", callbacks = NoCall, todo # <<>>
      PROVE  held = Receiver(Head(todo))
  <2>1. <<todo, held>> \in Agenda(cmd.phase) /\ cmd.phase \in PhaseOptions
    BY <1>1, RunnerAssumption DEF IInv, TypeOK, CallInv
  <2> QED BY <1>1, <2>1, AgendaSound
<1>2. IInv => ReceiverHeld
  BY <1>1 DEF ReceiverHeld
<1> QED BY <1>2, Invariance, PTL

(* After an unexpected output the run goes no further than the comparison  *)
(* that finds it, in whichever iteration and on whichever stream it was.   *)
THEOREM WrongOutputAlwaysStops == Spec => []WrongOutputStopsRun
<1>1. IInv => WrongOutputStopsRun
  BY DEF IInv, SuspectInv
<1> QED BY <1>1, Invariance, PTL

-----------------------------------------------------------------------------
(***************************************************************************)
(* The logs.  A benchmark that has been finished, or not been begun, has   *)
(* no log but one that could not be removed unless --keep-logs asks to     *)
(* keep them, ...                                                          *)
(***************************************************************************)
Settled == {"create-output", "engine", "wasm", "filter", "write", "done"}

Gone(w, s) == logs[w][s] = "absent" \/ <<w, s>> \in unremoved

NoLog(w) == \A s \in Streams : Gone(w, s)

BothLogs(w) == \A s \in Streams : logs[w][s] # "absent"

RemovedInv == ~cmd.keepLogs =>
  /\ pc \in Settled => \A w \in Wasms : NoLog(w)
  /\ pc \in Iterating => \A w \in Wasms \ {wi} : NoLog(w)
  /\ pc \in {"remove-stderr", "next"} => Gone(wi, "stdout")
  /\ pc = "next" => Gone(wi, "stderr")

(***************************************************************************)
(* ... and both of them if it does.  A benchmark that is executed has both *)
(* logs, and they stay when they are not as expected.                      *)
(***************************************************************************)
KeptInv ==
  /\ cmd.keepLogs /\ pc \in Settled \union Iterating =>
       \A w \in Wasms : w < wi \/ 1 < ei => BothLogs(w)
  /\ cmd.keepLogs /\ pc \in Iterating => BothLogs(wi)
  /\ callbacks # NoCall /\ callbacks.phase = "execution" => BothLogs(wi)
  /\ suspect => BothLogs(wi)

(* Steps of the runner keep what they remove and what they keep.  A step   *)
(* keeps the first part by itself, so that it holds of a runner whose logs *)
(* are removed by someone else, too.                                       *)
LEMMA NextRemovedInv == IInv /\ RemovedInv /\ [Next]_vars => RemovedInv'
<1> SUFFICES ASSUME IInv, RemovedInv, [Next]_vars PROVE RemovedInv'
  OBVIOUS
<1> USE DEF RemovedInv, NoLog, Gone, Settled, Iterating
<1>1. CASE CreateOutput
  BY <1>1 DEF CreateOutput, counters
<1>2. CASE LoadEngine
  BY <1>2 DEF LoadEngine, counters
<1>3. CASE CloseEngine
  BY <1>3 DEF CloseEngine
<1>4. CASE CreateEngine
  <2>1. \A w \in Wasms \ {wi}, s \in Streams : Gone(w, s) => Gone(w, s)'
    BY <1>4 DEF CreateEngine, LogsOf, IInv, TypeOK
  <2>2. pc = "wasm" /\ pc' = "run" /\ cmd' = cmd /\ wi' = wi
    BY <1>4 DEF CreateEngine, counters
  <2> QED BY <2>1, <2>2
<1>5. CASE CreateEngineFails
  BY <1>5 DEF CreateEngineFails, Abort
<1>6. CASE CallApi
  <2>1. \A w \in Wasms \ {wi}, s \in Streams : Gone(w, s) => Gone(w, s)'
    BY <1>6 DEF CallApi, LogsOf, IInv, TypeOK
  <2>2. pc = "run" /\ pc' = "run" /\ cmd' = cmd /\ wi' = wi
    BY <1>6 DEF CallApi, counters
  <2> QED BY <2>1, <2>2
<1>7. CASE OnStart
  BY <1>7 DEF OnStart, Abort, CallbackDue, counters
<1>8. CASE OnEnd
  BY <1>8 DEF OnEnd, Abort, CallbackDue, counters
<1>9. CASE CallReturns
  <2>1. /\ \A w \in Wasms \ {wi} : logs'[w] = logs[w]
        /\ unremoved' = unremoved
        /\ pc = "run" /\ pc' \in {"run", "check-stdout"} /\ cmd' = cmd /\ wi' = wi
    BY <1>9 DEF CallReturns, CallReturning, counters, IInv, TypeOK
  <2> QED BY <2>1
<1>10. CASE CallFails
  BY <1>10 DEF CallFails, Abort
<1>11. ASSUME NEW s \in Streams, CheckPasses(s)
      PROVE  RemovedInv'
  BY <1>11 DEF CheckPasses, Checking, counters
<1>12. ASSUME NEW s \in Streams, CheckFails(s)
      PROVE  RemovedInv'
  BY <1>12 DEF CheckFails, Abort
<1>13. ASSUME NEW s \in Streams, RemoveLog(s)
      PROVE  RemovedInv'
  <2>1. wi \in Wasms /\ logs \in [Wasms -> [Streams -> {"absent", "empty", "right", "wrong"}]]
    BY <1>13 DEF RemoveLog, IInv, LoopInv, TypeOK
  <2>2. CASE s = "stdout"
    BY <1>13, <2>1, <2>2 DEF RemoveLog, KeepsLog, counters, Streams
  <2>3. CASE s = "stderr"
    BY <1>13, <2>1, <2>3 DEF RemoveLog, KeepsLog, counters, Streams
  <2> QED BY <2>2, <2>3 DEF Streams
<1>14. CASE NextIteration
  BY <1>14 DEF NextIteration
<1>15. CASE FinishBenchmark
  BY <1>15 DEF FinishBenchmark, Streams
<1>16. CASE FilterPhase
  BY <1>16 DEF FilterPhase, counters
<1>17. CASE WriteResults
  BY <1>17 DEF WriteResults, counters
<1>18. CASE UNCHANGED vars
  BY <1>18 DEF vars, counters
<1> QED BY <1>1, <1>2, <1>3, <1>4, <1>5, <1>6, <1>7, <1>8, <1>9, <1>10, <1>11, <1>12,
     <1>13, <1>14, <1>15, <1>16, <1>17, <1>18 DEF Next, Step, Exited

(* A log that is there is not taken away by a step that does not remove it. *)
LEMMA NextKeptInv == IInv /\ KeptInv /\ [Next]_vars => KeptInv'
<1> SUFFICES ASSUME IInv, KeptInv, [Next]_vars PROVE KeptInv'
  OBVIOUS
<1> USE RunnerAssumption DEF KeptInv, BothLogs, Settled, Iterating
<1>1. CASE CreateOutput
  BY <1>1 DEF CreateOutput, counters
<1>2. CASE LoadEngine
  BY <1>2 DEF LoadEngine, counters
<1>3. CASE CloseEngine
  <2>1. /\ wi = NWasms + 1 /\ wi' = 1 /\ ei' = ei + 1 /\ pc = "wasm" /\ pc' = "engine"
        /\ UNCHANGED <<cmd, logs, callbacks>> /\ callbacks = NoCall /\ suspect' = FALSE
    BY <1>3 DEF CloseEngine, IInv, TypeOK, CallInv, SuspectInv, WrongOutputStopsRun
  <2>2. \A w \in Wasms : w < wi
    BY <2>1 DEF Wasms
  <2> QED BY <2>1, <2>2
<1>4. CASE CreateEngine
  <2>1. wi \in Wasms
    BY <1>4 DEF CreateEngine, IInv, TypeOK, Wasms
  <2>2. \A w \in Wasms : BothLogs(w) \/ w = wi => BothLogs(w)'
    BY <1>4, <2>1 DEF CreateEngine, IInv, TypeOK
  <2>3. /\ pc = "wasm" /\ pc' = "run" /\ UNCHANGED <<cmd, ei, wi, suspect>>
        /\ callbacks' = NoCall
    BY <1>4 DEF CreateEngine, counters
  <2> QED BY <2>1, <2>2, <2>3
<1>5. CASE CreateEngineFails
  BY <1>5 DEF CreateEngineFails, Abort, counters
<1>6. CASE CallApi
  <2>1. wi \in Wasms
    BY <1>6 DEF CallApi, IInv, LoopInv
  <2>2. \A w \in Wasms : BothLogs(w) => BothLogs(w)'
    BY <1>6, <2>1 DEF CallApi, IInv, TypeOK
  <2>3. callbacks'.phase = "execution" => BothLogs(wi)'
    BY <1>6, <2>1 DEF CallApi, IInv, TypeOK, counters
  <2>4. pc = "run" /\ pc' = "run" /\ UNCHANGED <<cmd, ei, wi, suspect>>
    BY <1>6 DEF CallApi, counters
  <2> QED BY <2>1, <2>2, <2>3, <2>4
<1>7. CASE OnStart
  <2>1. /\ pc = "run" /\ pc' \in {"run", "panicked"} /\ callbacks # NoCall
        /\ UNCHANGED <<cmd, ei, wi, logs, suspect>>
        /\ callbacks' = NoCall \/ callbacks'.phase = callbacks.phase
    BY <1>7 DEF OnStart, Abort, CallbackDue, counters, IInv, TypeOK
  <2> QED BY <2>1
<1>8. CASE OnEnd
  <2>1. /\ pc = "run" /\ pc' \in {"run", "panicked"} /\ callbacks # NoCall
        /\ UNCHANGED <<cmd, ei, wi, logs, suspect>>
        /\ callbacks' = NoCall \/ callbacks'.phase = callbacks.phase
    BY <1>8 DEF OnEnd, Abort, CallbackDue, counters, IInv, TypeOK
  <2> QED BY <2>1
<1>9. CASE CallReturns
  <2>1. wi \in Wasms
    BY <1>9 DEF CallReturns, CallReturning, IInv, LoopInv
  <2>2. \A w \in Wasms : BothLogs(w) => BothLogs(w)'
    <3>1. CASE callbacks.phase # "execution"
      BY <1>9, <3>1 DEF CallReturns
    <3>2. CASE callbacks.phase = "execution"
      <4>1. PICK good \in SUBSET Streams :
              logs' = [logs EXCEPT ![wi] =
                         [s \in Streams |-> WrittenLog(logs[wi][s], s \in good)]]
        BY <1>9, <3>2 DEF CallReturns
      <4>2. \A s \in Streams :
              logs[wi][s] # "absent" => WrittenLog(logs[wi][s], s \in good) # "absent"
        BY DEF WrittenLog
      <4> QED BY <2>1, <4>1, <4>2 DEF IInv, TypeOK
    <3> QED BY <3>1, <3>2
  <2>3. suspect' => suspect \/ callbacks.phase = "execution"
    BY <1>9 DEF CallReturns
  <2>4. /\ pc = "run" /\ pc' \in {"run", "check-stdout"} /\ UNCHANGED <<cmd, ei, wi>>
        /\ callbacks # NoCall /\ callbacks' = NoCall
    BY <1>9 DEF CallReturns, CallReturning, counters
  <2> QED BY <2>1, <2>2, <2>3, <2>4
<1>10. CASE CallFails
  BY <1>10 DEF CallFails, Abort, counters
<1>11. ASSUME NEW s \in Streams, CheckPasses(s)
      PROVE  KeptInv'
  BY <1>11 DEF CheckPasses, Checking, counters
<1>12. ASSUME NEW s \in Streams, CheckFails(s)
      PROVE  KeptInv'
  BY <1>12 DEF CheckFails, Checking, Abort, counters
<1>13. ASSUME NEW s \in Streams, RemoveLog(s)
      PROVE  KeptInv'
  BY <1>13 DEF RemoveLog, KeepsLog, counters, IInv, CallInv, SuspectInv, WrongOutputStopsRun
<1>14. CASE NextIteration
  BY <1>14 DEF NextIteration
<1>15. CASE FinishBenchmark
  <2>1. /\ pc = "next" /\ pc' = "wasm" /\ wi' = wi + 1
        /\ UNCHANGED <<cmd, ei, logs, callbacks>> /\ wi \in Nat
        /\ callbacks = NoCall /\ suspect' = FALSE
    BY <1>15 DEF FinishBenchmark, IInv, TypeOK, CallInv, SuspectInv, WrongOutputStopsRun
  <2>2. \A w \in Wasms : w < wi + 1 => w < wi \/ w = wi
    BY <2>1 DEF Wasms
  <2> QED BY <2>1, <2>2
<1>16. CASE FilterPhase
  BY <1>16 DEF FilterPhase, counters
<1>17. CASE WriteResults
  BY <1>17 DEF WriteResults, counters
<1>18. CASE UNCHANGED vars
  BY <1>18 DEF vars, counters
<1> QED BY <1>1, <1>2, <1>3, <1>4, <1>5, <1>6, <1>7, <1>8, <1>9, <1>10, <1>11, <1>12,
     <1>13, <1>14, <1>15, <1>16, <1>17, <1>18 DEF Next, Step, Exited

(* The process starts without logs.                                        *)
LEMMA InitLogs == Init => RemovedInv /\ KeptInv
<1> SUFFICES ASSUME Init PROVE RemovedInv /\ KeptInv
  OBVIOUS
<1>1. \A w \in Wasms : ~(w < wi \/ 1 < ei)
  BY RunnerAssumption DEF Init, Wasms
<1>2. RemovedInv
  BY DEF Init, RemovedInv, NoLog, Gone, Iterating
<1>3. KeptInv
  BY <1>1 DEF Init, KeptInv, Iterating
<1> QED BY <1>2, <1>3

(* What is known of the logs amounts to the documented policy once the     *)
(* process has exited.                                                     *)
LEMMA LogsInvImpliesPolicy ==
  ASSUME IInv, RemovedInv, KeptInv
  PROVE  LogsPolicy
<1>1. pc = "done" => ei = NEngines + 1 /\ 1 < ei
  BY RunnerAssumption DEF IInv, LoopInv
<1>2. pc = "done" /\ ~cmd.keepLogs => \A w \in Wasms : NoLog(w)
  BY DEF RemovedInv, Settled
<1>3. pc = "done" /\ cmd.keepLogs => \A w \in Wasms : BothLogs(w)
  BY <1>1 DEF KeptInv, Settled
<1>4. suspect /\ pc = "failed" => BothLogs(wi)
  BY DEF KeptInv
<1> QED BY <1>2, <1>3, <1>4 DEF LogsPolicy, NoLog, Gone, BothLogs

(* Logs are only kept on failures and on request, for every engine and     *)
(* benchmark, or because they could not be removed; those of the output    *)
(* that was not expected are kept.                                         *)
THEOREM LogsFollowPolicy == Spec => []LogsPolicy
<1>1. IInv /\ RemovedInv /\ KeptInv /\ [Next]_vars => (RemovedInv /\ KeptInv)'
  BY NextRemovedInv, NextKeptInv
<1>2. IInv /\ RemovedInv /\ KeptInv => LogsPolicy
  BY LogsInvImpliesPolicy
<1> QED BY InitLogs, <1>1, <1>2, Invariance, PTL DEF Spec

-----------------------------------------------------------------------------
(***************************************************************************)
(* The plan: an iteration that ends is one run more of the current engine  *)
(* on the current benchmark, and of nothing else.                          *)
(***************************************************************************)
Runs == [j \in Engines \X Wasms |-> IterationsDone(j[1], j[2])]

(* The end of an iteration counts one run more of the current pair.        *)
LEMMA IterationEnds ==
  ASSUME IInv, NextIteration \/ FinishBenchmark
  PROVE  /\ <<ei, wi>> \in Engines \X Wasms
         /\ Runs[<<ei, wi>>] < Iterations
         /\ Runs' = [Runs EXCEPT ![<<ei, wi>>] = @ + 1]
         /\ Outcome = "running" /\ Outcome' = "running"
<1> USE RunnerAssumption
<1>1. /\ ei \in Engines /\ wi \in Wasms /\ n \in 0..(Iterations - 1) /\ ei' = ei
  BY DEF IInv, TypeOK, LoopInv, Iterating, NextIteration, FinishBenchmark
<1>2. Runs[<<ei, wi>>] = n
  BY <1>1 DEF Runs, IterationsDone, Engines, Wasms
<1>3. \A e \in Engines, w \in Wasms :
        IterationsDone(e, w)' = IF e = ei /\ w = wi THEN n + 1 ELSE IterationsDone(e, w)
  <2>1. CASE NextIteration
    <3>1. n' = n + 1 /\ wi' = wi
      BY <2>1 DEF NextIteration
    <3> QED BY <1>1, <3>1 DEF IterationsDone, Engines, Wasms
  <2>2. CASE FinishBenchmark
    <3>1. n' = 0 /\ wi' = wi + 1 /\ n + 1 = Iterations
      BY <1>1, <2>2 DEF FinishBenchmark, MoreIterations
    <3> QED BY <1>1, <3>1 DEF IterationsDone, Engines, Wasms
  <2> QED BY <2>1, <2>2
<1>4. Runs' = [Runs EXCEPT ![<<ei, wi>>] = @ + 1]
  <2>1. \A j \in Engines \X Wasms :
          IterationsDone(j[1], j[2])' = IF j = <<ei, wi>> THEN n + 1 ELSE IterationsDone(j[1], j[2])
    BY <1>3
  <2> QED BY <1>1, <1>2, <2>1 DEF Runs
<1>5. Outcome = "running" /\ Outcome' = "running"
  BY DEF Outcome, NextIteration, FinishBenchmark
<1> QED BY <1>1, <1>2, <1>4, <1>5

(* The other steps run nothing to its end.                                 *)
LEMMA NothingEnds ==
  ASSUME IInv, [Next]_vars, ~NextIteration, ~FinishBenchmark
  PROVE  Runs' = Runs
<1> USE RunnerAssumption
<1>1. CASE CloseEngine
  <2>1. /\ ei \in Engines /\ wi = NWasms + 1 /\ n = 0
        /\ ei' = ei + 1 /\ wi' = 1 /\ n' = n
    BY <1>1 DEF IInv, TypeOK, LoopInv, CloseEngine
  <2>2. \A e \in Engines, w \in Wasms : IterationsDone(e, w)' = IterationsDone(e, w)
    BY <2>1 DEF IterationsDone, Engines, Wasms
  <2> QED BY <2>2 DEF Runs
<1>2. CASE ~CloseEngine
  <2>1. UNCHANGED counters
    BY <1>2 DEF Next, Step, Exited, vars, CreateOutput, LoadEngine, CreateEngine,
       CreateEngineFails, CallApi, OnStart, OnEnd, CallReturns, CallFails, CheckPasses,
       CheckFails, RemoveLog, FilterPhase, WriteResults
  <2> QED BY <2>1 DEF Runs, IterationsDone, counters
<1> QED BY <1>1, <1>2

(* The runner implements the plan: its steps run an iteration of a pair    *)
(* that still needs one, succeed when all have been run, fail, or change   *)
(* nothing the plan knows of.                                              *)
THEOREM ImplementsPlan == Spec => Plan!Init /\ [][Plan!Next]_(Plan!plan)
<1>1. Init => Plan!Init
  BY RunnerAssumption DEF Init, Plan!Init, IterationsDone, Outcome, Engines, Wasms
<1>2. ASSUME IInv, [Next]_vars
      PROVE  [Plan!Next]_(Plan!plan)
  <2>1. CASE NextIteration \/ FinishBenchmark
    <3>1. Plan!RunJob(<<ei, wi>>)
      BY <1>2, <2>1, IterationEnds DEF Plan!RunJob, Runs
    <3>2. <<ei, wi>> \in Engines \X Wasms
      BY <1>2, <2>1, IterationEnds
    <3> QED BY <3>1, <3>2 DEF Plan!Next
  <2>2. CASE ~NextIteration /\ ~FinishBenchmark
    <3>1. Runs' = Runs
      BY <1>2, <2>2, NothingEnds
    <3>2. CASE Outcome' = Outcome
      BY <3>1, <3>2 DEF Plan!plan, Runs
    <3>3. CASE Outcome = "running" /\ Outcome' = "failed"
      BY <3>1, <3>3 DEF Plan!Next, Plan!Fail, Runs
    <3>4. CASE Outcome = "running" /\ Outcome' = "succeeded"
      <4>1. pc = "write"
        BY <1>2, <2>2, <3>4 DEF Next, Step, Exited, vars, Outcome, CreateOutput, LoadEngine,
           CloseEngine, CreateEngine, CreateEngineFails, Abort, CallApi, OnStart, OnEnd,
           CallbackDue, CallReturning, CallReturns, CallFails, Checking, CheckPasses,
           CheckFails, RemoveLog, FilterPhase, WriteResults, NextIteration,
           FinishBenchmark, Terminal
      <4>2. ei = NEngines + 1
        BY <1>2, <4>1 DEF IInv, LoopInv
      <4>3. \A j \in Engines \X Wasms : Runs[j] = Iterations
        BY <4>2, RunnerAssumption DEF Runs, IterationsDone, Engines
      <4> QED BY <3>1, <3>4, <4>3 DEF Plan!Next, Plan!Succeed, Runs
    <3>5. \/ Outcome' = Outcome
          \/ Outcome = "running" /\ Outcome' \in {"failed", "succeeded"}
      BY <1>2, <2>2 DEF Next, Step, Exited, vars, Outcome, CreateOutput, LoadEngine,
         CloseEngine, CreateEngine, CreateEngineFails, Abort, CallApi, OnStart, OnEnd,
         CallbackDue, CallReturning, CallReturns, CallFails, Checking, CheckPasses,
         CheckFails, RemoveLog, FilterPhase, WriteResults
    <3> QED BY <3>2, <3>3, <3>4, <3>5
  <2> QED BY <2>1, <2>2
<1> QED BY <1>1, <1>2, Invariance, PTL DEF Spec
=============================================================================
