------------------------------ MODULE BenchPlan ------------------------------
(***************************************************************************)
(* What a benchmarking command promises: every job of its plan is run the  *)
(* number of times that was asked for, in any order, and the command       *)
(* succeeds only when all of them have been; a run that goes wrong ends    *)
(* the whole command.  The runner implements it with one engine and        *)
(* benchmark per job and an iteration per run, the parent of many          *)
(* processes with a child process per run.                                 *)
(***************************************************************************)
EXTENDS Naturals

CONSTANTS
  Jobs,           \* what is to be run
  Times           \* how often each of them

VARIABLES
  runs,           \* how often each job has been run
  outcome         \* of the command

plan == <<runs, outcome>>

Init ==
  /\ runs = [j \in Jobs |-> 0]
  /\ outcome = "running"

RunJob(j) ==
  /\ outcome = "running"
  /\ runs[j] < Times
  /\ runs' = [runs EXCEPT ![j] = @ + 1]
  /\ UNCHANGED outcome

Succeed ==
  /\ outcome = "running"
  /\ \A j \in Jobs : runs[j] = Times
  /\ outcome' = "succeeded"
  /\ UNCHANGED runs

Fail ==
  /\ outcome = "running"
  /\ outcome' = "failed"
  /\ UNCHANGED runs

Next == (\E j \in Jobs : RunJob(j)) \/ Succeed \/ Fail

Spec == Init /\ [][Next]_plan /\ WF_plan(Next)
=============================================================================
