----------------------------- MODULE EngineLogs -----------------------------
(***************************************************************************)
(* What the runner relies on where the log files of an engine are          *)
(* concerned.  While a call is in progress it does not look at the logs of *)
(* its benchmark; when the call returns they are there, empty or with what *)
(* was printed during it, by the benchmark or by callbacks of the runner,  *)
(* and from then on they change only when the runner removes them.  The    *)
(* logs of other benchmarks are left alone.                                *)
(***************************************************************************)
CONSTANTS
  Benchmarks,
  Streams,        \* standard output and standard error
  Writers,        \* a text is the set of those who printed it
  None            \* no benchmark

VARIABLES
  engine,         \* benchmark of the engine, if there is one
  calling,        \* the call in progress
  log,            \* what is known of each log file
  printed         \* what was printed during the last call

logs == <<engine, calling, log, printed>>

Holding(text) == [is |-> "file", text |-> text]
Absent == [is |-> "absent", text |-> {}]
Unknown == [is |-> "unknown", text |-> {}]

Silent == [s \in Streams |-> {}]

Init ==
  /\ engine = None
  /\ calling = "none"
  /\ log = [b \in Benchmarks |-> [s \in Streams |-> Absent]]
  /\ printed = Silent

Begin(call, b) ==
  /\ calling = "none"
  /\ calling' = call
  /\ engine' = b
  /\ log' = [log EXCEPT ![b] = [s \in Streams |-> Unknown]]
  /\ printed' = Silent

Create(b) == engine = None /\ Begin("create", b)

Execute == engine # None /\ Begin("execute", engine)

(* A benchmark prints, or a callback that it calls.                        *)
Prints(s) ==
  /\ calling = "execute"
  /\ \E writer \in Writers : printed' = [printed EXCEPT ![s] = @ \union {writer}]
  /\ UNCHANGED <<engine, calling, log>>

(* Nothing is printed by creating an engine.                               *)
Return ==
  /\ calling \in {"create", "execute"}
  /\ calling' = "none"
  /\ log' = [log EXCEPT ![engine] = [s \in Streams |-> Holding(printed[s])]]
  /\ UNCHANGED <<engine, printed>>

(* An error or a crash: the runner ends.                                   *)
Fail ==
  /\ calling \in {"create", "execute"}
  /\ calling' = "failed"
  /\ UNCHANGED <<engine, log, printed>>

Free ==
  /\ calling = "none" /\ engine # None
  /\ engine' = None
  /\ UNCHANGED <<calling, log, printed>>

Remove(s) ==
  /\ calling = "none" /\ engine # None
  /\ log' = [log EXCEPT ![engine][s] = Absent]
  /\ UNCHANGED <<engine, calling, printed>>

Next ==
  \/ \E b \in Benchmarks : Create(b)
  \/ \E s \in Streams : Prints(s) \/ Remove(s)
  \/ Execute \/ Return \/ Fail \/ Free

Spec == Init /\ [][Next]_logs
=============================================================================
