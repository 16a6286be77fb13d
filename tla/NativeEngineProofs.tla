------------------------- MODULE NativeEngineProofs ------------------------
(***************************************************************************)
(* What NativeEngine guarantees for any benchmarks, any number of files    *)
(* and any number of executions: its types, that a benchmark runs in its   *)
(* own surroundings, that the texts of the runner and of benchmarks stay   *)
(* apart but for the callbacks' messages, that logs hold what the last     *)
(* execution printed, and that the runner finds its descriptors and        *)
(* directory as they were.                                                 *)
(***************************************************************************)
EXTENDS NativeEngine, TLAPS

(***************************************************************************)
(* The inductive invariant.                                                *)
(***************************************************************************)
Redirecting == {"dup-stdout", "dup-stderr", "dup2-stdout", "dup2-stderr"}

InDirectory ==
  {"reopen-stdout", "reopen-stderr", "flush", "guest", "reset"} \union Redirecting

Executing == {"load", "chdir"} \union InDirectory

(* Only between the first dup2 and the end of the benchmark is a descriptor *)
(* not its terminal, and then its duplicate is.                            *)
Descriptors ==
  /\ pc \notin {"dup2-stderr", "guest", "aborted"} =>
       \A s \in Streams : fd[s] = Terminal(s)
  /\ pc = "dup2-stderr" =>
       fd["stdout"] = file["stdout"] /\ fd["stderr"] = Terminal("stderr")
  /\ pc = "guest" => \A s \in Streams : fd[s] = file[s]
  /\ pc \notin Redirecting \union {"guest", "failed", "aborted"} =>
       \A s \in Streams : duplicate[s] = None
  /\ pc = "dup-stderr" => duplicate["stdout"] = Terminal("stdout")
  /\ pc \in {"dup2-stdout", "dup2-stderr", "guest"} =>
       \A s \in Streams : duplicate[s] = Terminal(s)

(* The open file of a stream is the one its path leads to.                 *)
Current(s) == path[bench][s] # None /\ file[s] = Log(bench, s, path[bench][s])

OpenFiles ==
  /\ pc \in {"create-stderr", "reopen-stderr"} => Current("stdout")
  /\ pc \in {"flush", "guest"} \union Redirecting => \A s \in Streams : Current(s)
  /\ pc = "reset" => \A s \in Streams : path[bench][s] # None

Places ==
  /\ pc \in {"host", "create-stdout", "create-stderr", "load", "chdir"} => cwd = "root"
  /\ pc \in InDirectory => cwd = bench /\ root = "root"
  /\ pc \in Executing => timer = bench /\ run \in 1..MaxRuns

(* Only a benchmark leaves text in a buffer, and only while it runs.       *)
Buffers ==
  /\ pc \notin {"guest", "aborted"} => \A s \in Streams : buffer[s] = {}
  /\ pc = "guest" => \A s \in Streams : buffer[s] \subseteq {<<bench, run>>}

(* What is in a log or on its way there is what was printed since the log  *)
(* was created.                                                            *)
LogText(s) == content[Log(bench, s, path[bench][s])]

LogsExact ==
  /\ pc \notin {"host", "guest", "reset", "failed", "aborted"} =>
       \A s \in Streams : printed[s] = {}
  /\ pc \in {"create-stderr", "reopen-stderr"} => LogText("stdout") = {}
  /\ pc \in {"flush"} \union Redirecting => \A s \in Streams : LogText(s) = {}
  /\ pc = "guest" => \A s \in Streams :
       LogText(s) \union buffer[s] = printed[s]
  /\ pc \in {"host", "reset"} /\ bench # None =>
       \A s \in Streams : path[bench][s] # None => LogText(s) = printed[s]

IInv ==
  /\ TypeOK
  /\ Descriptors
  /\ OpenFiles
  /\ Places
  /\ Buffers
  /\ OutputSeparated
  /\ LogsExact

-----------------------------------------------------------------------------
(* Terminals and logs are different files.                                 *)
LEMMA FilesApart ==
  /\ \A s, t \in Streams : Terminal(s) = Terminal(t) => s = t
  /\ \A b \in Benchmarks, s, t \in Streams, i \in Inodes : Terminal(s) # Log(b, t, i)
  /\ \A b, c \in Benchmarks, s, t \in Streams, i, j \in Inodes :
       Log(b, s, i) = Log(c, t, j) => b = c /\ s = t /\ i = j
  BY NativeAssumption DEF Terminal, Log

(* Both are files, and there is always one.                                *)
LEMMA FilesExist ==
  /\ \A s \in Streams : Terminal(s) \in Terminals /\ Terminal(s) \in Files
  /\ \A b \in Benchmarks, s \in Streams, i \in Inodes :
       Log(b, s, i) \in Logs /\ Log(b, s, i) \in Files
  /\ None \notin Files /\ None \notin Logs /\ None \notin Terminals
  BY NativeAssumption DEF Terminals, Logs, Files

(* The runner and the benchmarks are writers.                              *)
LEMMA WritersExist ==
  /\ Host \in Writers
  /\ \A b \in Benchmarks, r \in 1..MaxRuns : <<b, r>> \in Writers
  BY DEF Writers

(* What flushing some of the buffers does.                                 *)
LEMMA FlushText ==
  ASSUME TypeOK, NEW S \in SUBSET Streams, Flush(S)
  PROVE  /\ content' \in [Files -> SUBSET Writers]
         /\ buffer' \in [Streams -> SUBSET Writers]
         /\ \A s \in Streams : buffer'[s] = IF s \in S THEN {} ELSE buffer[s]
         /\ \A f \in Files : \A x :
              x \in content'[f] <=>
                x \in content[f] \/ \E s \in S : fd[s] = f /\ x \in buffer[s]
<1>1. \A f \in Files : \A x :
        x \in Written(f, S) <=>
          x \in content[f] \/ \E s \in S : fd[s] = f /\ x \in buffer[s]
  BY DEF Written
<1>2. \A f \in Files : Written(f, S) \in SUBSET Writers
  BY <1>1 DEF TypeOK
<1> QED BY <1>1, <1>2 DEF Flush, TypeOK

(* Outside of a benchmark there is nothing to flush.                       *)
LEMMA FlushOutside ==
  ASSUME IInv, pc \notin {"guest", "aborted"}, NEW S \in SUBSET Streams, Flush(S)
  PROVE  UNCHANGED content /\ \A s \in Streams : buffer'[s] = {}
<1>1. TypeOK /\ \A s \in Streams : buffer[s] = {}
  BY DEF IInv, Buffers
<1>2. \A f \in Files : \A x : x \in content'[f] <=> x \in content[f]
  BY <1>1, FlushText
<1>3. content \in [Files -> SUBSET Writers] /\ content' \in [Files -> SUBSET Writers]
  BY <1>1, FlushText DEF TypeOK
<1>4. \A f \in Files : content'[f] = content[f]
  BY <1>2
<1>5. UNCHANGED content
  BY <1>3, <1>4
<1> QED BY <1>1, <1>5, FlushText

(* What the runner prints goes to the file that a descriptor refers to.    *)
LEMMA SaidText ==
  ASSUME TypeOK, NEW s \in Streams, Unbuffered(s, Host)
  PROVE  /\ content' \in [Files -> SUBSET Writers]
         /\ \A f \in Files :
              content'[f] = content[f] \union IF f = fd[s] THEN {Host} ELSE {}
  BY WritersExist DEF TypeOK, Unbuffered

(* Outside of a benchmark this is a terminal.                              *)
LEMMA SaidOutside ==
  ASSUME IInv, NEW s \in Streams, fd[s] = Terminal(s), Unbuffered(s, Host)
  PROVE  /\ content' \in [Files -> SUBSET Writers]
         /\ \A t \in Streams : content'[Terminal(t)] \subseteq {Host}
         /\ \A b \in Benchmarks, t \in Streams, i \in Inodes :
              content'[Log(b, t, i)] = content[Log(b, t, i)]
<1>1. TypeOK /\ \A t \in Streams : content[Terminal(t)] \subseteq {Host}
  BY DEF IInv, OutputSeparated
<1>2. \A f \in Files :
        content'[f] = content[f] \union IF f = fd[s] THEN {Host} ELSE {}
  BY <1>1, SaidText
<1>3. \A t \in Streams : content'[Terminal(t)] \subseteq {Host}
  BY <1>1, <1>2, FilesExist
<1>4. \A b \in Benchmarks, t \in Streams, i \in Inodes :
        Log(b, t, i) \in Files /\ Log(b, t, i) # fd[s]
  BY FilesApart, FilesExist
<1>5. ASSUME NEW b \in Benchmarks, NEW t \in Streams, NEW i \in Inodes
      PROVE  content'[Log(b, t, i)] = content[Log(b, t, i)]
  <2>1. Log(b, t, i) \in Files /\ Log(b, t, i) # fd[s]
    BY <1>4
  <2>2. content'[Log(b, t, i)] = content[Log(b, t, i)] \union {}
    BY <1>2, <2>1
  <2> QED BY <2>2
<1> QED BY <1>1, <1>3, <1>5, SaidText

(* While a benchmark runs it is the log of its standard error.             *)
LEMMA SaidInside ==
  ASSUME IInv, pc = "guest", Unbuffered("stderr", Host)
  PROVE  /\ content' \in [Files -> SUBSET Writers]
         /\ \A t \in Streams : content'[Terminal(t)] = content[Terminal(t)]
         /\ \A b \in Benchmarks, t \in Streams, i \in Inodes :
              content'[Log(b, t, i)] = content[Log(b, t, i)] \union
                IF t = "stderr" /\ b = bench /\ i = path[bench][t] THEN {Host} ELSE {}
<1>1. /\ TypeOK
      /\ "stderr" \in Streams
      /\ bench \in Benchmarks
      /\ path[bench]["stderr"] \in Inodes
      /\ fd["stderr"] = Log(bench, "stderr", path[bench]["stderr"])
  BY DEF IInv, TypeOK, Descriptors, OpenFiles, Current, Streams
<1>2. /\ content' \in [Files -> SUBSET Writers]
      /\ \A f \in Files :
           content'[f] = content[f] \union IF f = fd["stderr"] THEN {Host} ELSE {}
  BY <1>1, SaidText
<1>3. \A t \in Streams : Terminal(t) \in Files /\ Terminal(t) # fd["stderr"]
  BY <1>1, FilesApart, FilesExist
<1>4. \A b \in Benchmarks, t \in Streams, i \in Inodes :
        /\ Log(b, t, i) \in Files
        /\ Log(b, t, i) = fd["stderr"] <=>
             t = "stderr" /\ b = bench /\ i = path[bench][t]
  BY <1>1, FilesApart, FilesExist
<1>5. \A t \in Streams : content'[Terminal(t)] = content[Terminal(t)]
  BY <1>2, <1>3
<1>6. ASSUME NEW b \in Benchmarks, NEW t \in Streams, NEW i \in Inodes
      PROVE  content'[Log(b, t, i)] = content[Log(b, t, i)] \union
               IF t = "stderr" /\ b = bench /\ i = path[bench][t] THEN {Host} ELSE {}
  BY <1>2, <1>4
<1> QED BY <1>2, <1>5, <1>6

(* The last message of a process that dies: where it goes.                 *)
LEMMA Dying ==
  ASSUME IInv, Die, pc \in {"load", "chdir", "reset", "guest"}
  PROVE  /\ content' \in [Files -> SUBSET Writers]
         /\ \A t \in Streams : content'[Terminal(t)] \subseteq {Host}
         /\ \A b \in Benchmarks, t \in Streams, i \in Inodes :
              \/ content'[Log(b, t, i)] = content[Log(b, t, i)]
              \/ /\ pc = "guest" /\ b = bench /\ t = "stderr"
                 /\ content'[Log(b, t, i)] = content[Log(b, t, i)] \union {Host}
<1>1. TypeOK /\ \A t \in Streams : content[Terminal(t)] \subseteq {Host}
  BY DEF IInv, OutputSeparated
<1>2. CASE UNCHANGED content
  BY <1>1, <1>2 DEF TypeOK
<1>3. CASE pc = "guest" /\ Unbuffered("stderr", Host)
  <2>1. content' \in [Files -> SUBSET Writers]
    BY <1>3, SaidInside
  <2>2. \A t \in Streams : content'[Terminal(t)] \subseteq {Host}
    BY <1>1, <1>3, SaidInside
  <2>3. ASSUME NEW b \in Benchmarks, NEW t \in Streams, NEW i \in Inodes
        PROVE  \/ content'[Log(b, t, i)] = content[Log(b, t, i)]
               \/ /\ b = bench /\ t = "stderr"
                  /\ content'[Log(b, t, i)] = content[Log(b, t, i)] \union {Host}
    <3>1. content'[Log(b, t, i)] = content[Log(b, t, i)] \union
            IF t = "stderr" /\ b = bench /\ i = path[bench][t] THEN {Host} ELSE {}
      BY <1>3, SaidInside
    <3> QED BY <3>1
  <2> QED BY <1>3, <2>1, <2>2, <2>3
<1>4. CASE pc # "guest" /\ Unbuffered("stderr", Host)
  <2>1. "stderr" \in Streams /\ fd["stderr"] = Terminal("stderr")
    BY <1>4 DEF IInv, Descriptors, Streams
  <2> QED BY <1>4, <2>1, SaidOutside
<1> QED BY <1>2, <1>3, <1>4 DEF Die

(* An error is printed to the terminal.                                    *)
LEMMA Failing ==
  ASSUME IInv, Fail,
         pc \in {"load", "chdir", "create-stdout", "create-stderr", "reopen-stdout",
                 "reopen-stderr"} \union Redirecting
  PROVE  /\ content' \in [Files -> SUBSET Writers]
         /\ \A t \in Streams : content'[Terminal(t)] \subseteq {Host}
         /\ \A b \in Benchmarks, t \in Streams, i \in Inodes :
              content'[Log(b, t, i)] = content[Log(b, t, i)]
<1>1. "stderr" \in Streams /\ fd["stderr"] = Terminal("stderr")
  BY DEF IInv, Descriptors, Streams, Redirecting
<1> QED BY <1>1, SaidOutside DEF Fail

(* While a benchmark runs a flush writes what it printed to its own logs.  *)
LEMMA FlushInside ==
  ASSUME IInv, pc = "guest", NEW S \in SUBSET Streams, Flush(S)
  PROVE  /\ \A s \in Streams : content'[Terminal(s)] = content[Terminal(s)]
         /\ \A b \in Benchmarks, s \in Streams, i \in Inodes :
              content'[Log(b, s, i)] =
                content[Log(b, s, i)] \union
                  IF s \in S /\ b = bench /\ i = path[bench][s] THEN buffer[s] ELSE {}
<1>1. /\ TypeOK
      /\ bench \in Benchmarks
      /\ \A s \in Streams : path[bench][s] \in Inodes
      /\ \A s \in Streams : fd[s] = Log(bench, s, path[bench][s])
  BY DEF IInv, TypeOK, Descriptors, OpenFiles, Current
<1>2. \A f \in Files : \A x :
        x \in content'[f] <=>
          x \in content[f] \/ \E s \in S : fd[s] = f /\ x \in buffer[s]
  BY <1>1, FlushText
<1>3. \A f \in Files : content[f] \subseteq Writers /\ content'[f] \subseteq Writers
  BY <1>1, FlushText
<1>4. ASSUME NEW s \in Streams PROVE content'[Terminal(s)] = content[Terminal(s)]
  <2>1. \A t \in S : fd[t] # Terminal(s)
    BY <1>1, FilesApart
  <2>2. \A x : x \in content'[Terminal(s)] <=> x \in content[Terminal(s)]
    BY <1>2, <2>1, FilesExist
  <2> QED BY <1>3, <2>2, FilesExist
<1>5. ASSUME NEW b \in Benchmarks, NEW s \in Streams, NEW i \in Inodes
      PROVE  content'[Log(b, s, i)] =
               content[Log(b, s, i)] \union
                 IF s \in S /\ b = bench /\ i = path[bench][s] THEN buffer[s] ELSE {}
  <2>1. \A t \in S : fd[t] = Log(b, s, i) <=> t = s /\ b = bench /\ i = path[bench][s]
    BY <1>1, FilesApart
  <2>2. \A x : x \in content'[Log(b, s, i)] <=>
               \/ x \in content[Log(b, s, i)]
               \/ s \in S /\ b = bench /\ i = path[bench][s] /\ x \in buffer[s]
    BY <1>2, <2>1, FilesExist
  <2>3. Log(b, s, i) \in Files /\ buffer[s] \subseteq Writers
    BY <1>1, FilesExist DEF TypeOK
  <2> QED BY <1>3, <2>2, <2>3
<1> QED BY <1>4, <1>5

(* Types: a descriptor is never redirected to a file that is not open, nor *)
(* restored from a duplicate that is not there.                            *)
LEMMA TypeOKStep == ASSUME IInv, Next PROVE TypeOK'
<1>1. ASSUME NEW b \in Benchmarks, Create(b) PROVE TypeOK'
  BY <1>1, NativeAssumption DEF IInv, TypeOK, process, Create
<1>2. ASSUME NEW s \in Streams, BufferFull(s) PROVE TypeOK'
  BY <1>2, FlushText DEF IInv, TypeOK, process, BufferFull
<1>3. ASSUME NEW s \in Streams, FileCreated(s) PROVE TypeOK'
  BY <1>3, FilesExist DEF IInv, TypeOK, process, FileCreated, Opening, AfterFile,
     AfterReopening, CreateFile, CreatedContent
<1>4. ASSUME NEW s \in Streams, Duplicate(s) PROVE TypeOK'
  BY <1>4, FilesExist DEF IInv, TypeOK, Descriptors, Duplicate
<1>5. ASSUME NEW s \in Streams, Redirect(s) PROVE TypeOK'
  BY <1>5, FilesExist DEF IInv, TypeOK, OpenFiles, Current, Redirecting, Redirect
<1>6. ASSUME NEW s \in Streams, GuestPrints(s) PROVE TypeOK'
  BY <1>6, WritersExist DEF IInv, TypeOK, process, Places, Executing, InDirectory,
     GuestPrints, Buffered
<1>7. ASSUME Execute PROVE TypeOK'
  BY <1>7, NativeAssumption DEF IInv, TypeOK, process, Execute, Registered
<1>8. ASSUME ChangeDir PROVE TypeOK'
  BY <1>8 DEF IInv, TypeOK, ChangeDir, NotedRoot
<1>9. ASSUME FlushBefore PROVE TypeOK'
  BY <1>9, FlushText DEF IInv, TypeOK, process, FlushBefore, FlushProcessStdio
<1>10. ASSUME RedirectFails PROVE TypeOK'
  <2>1. content' \in [Files -> SUBSET Writers]
    BY <1>10, Failing DEF RedirectFails, Redirecting
  <2> QED BY <1>10, <2>1, FilesExist DEF Gone, IInv, TypeOK, Descriptors, Streams,
     RedirectFails, Fail
<1>11. ASSUME RestoreStdio PROVE TypeOK'
  BY <1>11, FlushText, FilesExist DEF IInv, TypeOK, Descriptors, RestoreStdio,
     FlushProcessStdio, Restored
<1>12. ASSUME \/ LoadFails \/ DupFails \/ \E s \in Streams : FileFails(s)
      PROVE  TypeOK'
  <2>1. Fail /\ pc \in {"load", "chdir", "create-stdout", "create-stderr",
  "reopen-stdout",
                        "reopen-stderr"} \union Redirecting
    BY <1>12 DEF LoadFails, DupFails, FileFails, Opening, Redirecting, Streams
  <2>2. content' \in [Files -> SUBSET Writers]
    BY <2>1, Failing
  <2> QED BY <1>12, <2>2 DEF IInv, TypeOK, process, Gone, LoadFails, DupFails,
     FileFails, Fail
<1>13. ASSUME LoadDies \/ GuestDies \/ ResetDies PROVE TypeOK'
  <2>1. Die /\ pc \in {"load", "chdir", "reset", "guest"}
    BY <1>13 DEF LoadDies, GuestDies, ResetDies
  <2>2. content' \in [Files -> SUBSET Writers]
    BY <2>1, Dying
  <2> QED BY <2>1, <2>2 DEF IInv, TypeOK, process, Gone, Die
<1>14. ASSUME NEW s \in Streams, HostPrints(s) PROVE TypeOK'
  BY <1>14, SaidText DEF IInv, TypeOK, process, HostPrints
<1>15. ASSUME Callback PROVE TypeOK'
  <2>1. content' \in [Files -> SUBSET Writers]
    BY <1>15, SaidInside DEF Callback
  <2> QED BY <1>15, <2>1, WritersExist DEF IInv, TypeOK, process, Callback
<1>16. ASSUME Free \/ Load \/ ResetDir \/ Exited PROVE TypeOK'
  BY <1>16 DEF IInv, TypeOK, process, Gone, Free, Load, ResetDir, Exited, vars
<1>17. ASSUME NEW s \in Streams, RemoveLog(s) PROVE TypeOK'
  BY <1>17 DEF IInv, TypeOK, process, RemoveLog
<1> QED BY <1>1, <1>2, <1>3, <1>4, <1>5, <1>6, <1>7, <1>8, <1>9, <1>10, <1>11,
           <1>12, <1>13, <1>14, <1>15, <1>16, <1>17 DEF Next

(* Descriptors: they lead away from the terminals only while a duplicate   *)
(* remembers these.                                                        *)
LEMMA DescriptorsStep == ASSUME IInv, Next PROVE Descriptors'
<1>1. ASSUME NEW s \in Streams, Duplicate(s) PROVE Descriptors'
  BY <1>1 DEF IInv, TypeOK, Descriptors, Redirecting, Streams, Duplicate
<1>2. ASSUME NEW s \in Streams, Redirect(s) PROVE Descriptors'
  BY <1>2 DEF IInv, TypeOK, Descriptors, Redirecting, Streams, Redirect
<1>3. ASSUME RedirectFails PROVE Descriptors'
  BY <1>3 DEF IInv, TypeOK, Descriptors, Streams, RedirectFails, Fail
<1>4. ASSUME RestoreStdio PROVE Descriptors'
  BY <1>4 DEF IInv, Descriptors, RestoreStdio, Restored
<1>5. ASSUME NEW b \in Benchmarks, Create(b) PROVE Descriptors'
  BY <1>5 DEF IInv, Descriptors, process, Redirecting, Create
<1>6. ASSUME NEW s \in Streams, 
             \/ HostPrints(s) \/ BufferFull(s) \/ FileCreated(s) \/ FileFails(s)
             \/ RemoveLog(s) \/ GuestPrints(s)
      PROVE  Descriptors'
  BY <1>6 DEF IInv, Descriptors, process, Redirecting, HostPrints, BufferFull,
     FileCreated, Opening, AfterFile, AfterReopening, FileFails, Fail, RemoveLog,
     GuestPrints
<1>7. ASSUME \/ Free \/ Execute \/ Load \/ LoadFails
             \/ LoadDies \/ ChangeDir \/ FlushBefore \/ DupFails
             \/ GuestDies \/ ResetDir \/ ResetDies \/ Exited \/ Callback
      PROVE  Descriptors'
  BY <1>7 DEF IInv, Descriptors, process, Redirecting, Free, Execute, Load,
     LoadFails, Fail, LoadDies, Die, ChangeDir, FlushBefore, DupFails, GuestDies,
     ResetDir, ResetDies, Exited, Callback, vars
<1> QED BY <1>1, <1>2, <1>3, <1>4, <1>5, <1>6, <1>7 DEF Next

(* Open files: both are opened anew before an execution, and the path of   *)
(* a log is only given up outside of it.                                   *)
LEMMA OpenFilesStep == ASSUME IInv, Next PROVE OpenFiles'
<1>1. ASSUME NEW b \in Benchmarks, Create(b) PROVE OpenFiles'
  BY <1>1 DEF OpenFiles, Redirecting, Create
<1>2. ASSUME NEW s \in Streams, FileCreated(s) PROVE OpenFiles'
  BY <1>2, NativeAssumption DEF IInv, TypeOK, OpenFiles, Current, Redirecting,
     Streams, FileCreated, Opening, AfterFile, AfterReopening, CreateFile
<1>3. ASSUME NEW s \in Streams, RemoveLog(s) PROVE OpenFiles'
  BY <1>3 DEF OpenFiles, Redirecting, RemoveLog
<1>4. ASSUME Free PROVE OpenFiles'
  BY <1>4 DEF OpenFiles, Redirecting, Free
<1>5. ASSUME NEW s \in Streams, 
             \/ HostPrints(s) \/ BufferFull(s) \/ FileFails(s) \/ Duplicate(s)
             \/ Redirect(s) \/ GuestPrints(s)
      PROVE  OpenFiles'
  BY <1>5 DEF IInv, OpenFiles, Current, Redirecting, HostPrints, BufferFull,
     FileFails, Fail, Duplicate, Redirect, GuestPrints
<1>6. ASSUME \/ Execute \/ Load \/ LoadFails \/ LoadDies
             \/ ChangeDir \/ FlushBefore \/ DupFails \/ RedirectFails
             \/ GuestDies \/ RestoreStdio \/ ResetDir \/ ResetDies
             \/ Exited \/ Callback
      PROVE  OpenFiles'
  BY <1>6 DEF IInv, OpenFiles, Current, Redirecting, Execute, Load, LoadFails, Fail,
     LoadDies, Die, ChangeDir, FlushBefore, DupFails, RedirectFails, GuestDies,
     RestoreStdio, ResetDir, ResetDies, Exited, Callback, vars
<1> QED BY <1>1, <1>2, <1>3, <1>4, <1>5, <1>6 DEF Next

(* Places: the runner's directory is noted before it is left, and the      *)
(* timer is set before each execution.                                     *)
LEMMA PlacesStep == ASSUME IInv, Next PROVE Places'
<1>1. ASSUME Execute PROVE Places'
  BY <1>1, NativeAssumption DEF process, IInv, TypeOK, Places, InDirectory,
     Redirecting, Execute, Registered
<1>2. ASSUME ChangeDir PROVE Places'
  BY <1>2 DEF IInv, Places, Executing, ChangeDir, NotedRoot
<1>3. ASSUME ResetDir PROVE Places'
  BY <1>3 DEF IInv, Places, Executing, InDirectory, Redirecting, ResetDir
<1>4. ASSUME NEW b \in Benchmarks, Create(b) PROVE Places'
  BY <1>4 DEF IInv, Places, Executing, InDirectory, Redirecting, process, Create
<1>5. ASSUME NEW s \in Streams, 
             \/ HostPrints(s) \/ BufferFull(s) \/ FileCreated(s) \/ FileFails(s)
             \/ RemoveLog(s) \/ Duplicate(s) \/ Redirect(s) \/ GuestPrints(s)
      PROVE  Places'
  BY <1>5 DEF IInv, Places, Executing, InDirectory, Redirecting, process,
     HostPrints, BufferFull, FileCreated, Opening, AfterFile, AfterReopening,
     FileFails, Fail, RemoveLog, Duplicate, Redirect, GuestPrints
<1>6. ASSUME \/ Free \/ Load \/ LoadFails \/ LoadDies
             \/ FlushBefore \/ DupFails \/ RedirectFails \/ GuestDies
             \/ RestoreStdio \/ ResetDies \/ Exited \/ Callback
      PROVE  Places'
  BY <1>6 DEF IInv, Places, Executing, InDirectory, Redirecting, process, Free,
     Load, LoadFails, Fail, LoadDies, Die, FlushBefore, DupFails, RedirectFails,
     GuestDies, RestoreStdio, ResetDies, Exited, Callback, vars
<1> QED BY <1>1, <1>2, <1>3, <1>4, <1>5, <1>6 DEF Next

(* Buffers: they are empty when the descriptors change.                    *)
LEMMA BuffersStep == ASSUME IInv, Next PROVE Buffers'
<1>1. ASSUME NEW s \in Streams, BufferFull(s) PROVE Buffers'
  <2>1. \A t \in Streams : buffer'[t] = {} \/ buffer'[t] = buffer[t]
    BY <1>1, FlushText DEF IInv, BufferFull
  <2> QED BY <1>1, <2>1 DEF IInv, Buffers, BufferFull
<1>2. ASSUME NEW s \in Streams, GuestPrints(s) PROVE Buffers'
  BY <1>2 DEF IInv, Buffers, GuestPrints, Buffered
<1>3. ASSUME FlushBefore PROVE Buffers'
  BY <1>3, FlushText DEF IInv, Buffers, FlushBefore, FlushProcessStdio
<1>4. ASSUME RestoreStdio PROVE Buffers'
  BY <1>4, FlushText DEF IInv, Buffers, RestoreStdio, FlushProcessStdio
<1>5. ASSUME NEW b \in Benchmarks, Create(b) PROVE Buffers'
  BY <1>5 DEF IInv, Buffers, Create
<1>6. ASSUME NEW s \in Streams,
             \/ HostPrints(s) \/ FileCreated(s) \/ FileFails(s) \/ RemoveLog(s)
             \/ Duplicate(s) \/ Redirect(s)
      PROVE  Buffers'
  BY <1>6 DEF IInv, Buffers, HostPrints, FileCreated, Opening, FileFails, Fail,
     RemoveLog, Duplicate, Redirect
<1>7. ASSUME \/ Free \/ Execute \/ Load \/ LoadFails
             \/ LoadDies \/ ChangeDir \/ DupFails \/ RedirectFails
             \/ Callback \/ GuestDies \/ ResetDir \/ ResetDies \/ Exited
      PROVE  Buffers'
  BY <1>7 DEF IInv, Buffers, Free, Execute, Load, LoadFails, Fail, LoadDies, Die,
     ChangeDir, DupFails, RedirectFails, Callback, GuestDies, ResetDir, ResetDies,
     Exited, vars
<1> QED BY <1>1, <1>2, <1>3, <1>4, <1>5, <1>6, <1>7 DEF Next

(* Output: what is flushed reaches files of its own writer only, and what  *)
(* the runner prints a terminal or, by a callback, a log of standard error. *)
LEMMA OutputSeparatedStep == ASSUME IInv, Next PROVE OutputSeparated'
<1>1. ASSUME NEW s \in Streams, BufferFull(s) PROVE OutputSeparated'
  <2>1. CASE pc = "guest"
    BY <1>1, <2>1, FlushInside DEF IInv, OutputSeparated, CalledBack, Buffers, Places,
       Executing, InDirectory, BufferFull
  <2>2. CASE pc # "guest"
    BY <1>1, <2>2, FlushOutside DEF IInv, OutputSeparated, CalledBack, BufferFull
  <2> QED BY <2>1, <2>2
<1>2. ASSUME NEW s \in Streams, FileCreated(s) PROVE OutputSeparated'
  <2>1. pc # "aborted"
    BY <1>2 DEF FileCreated, Opening
  <2> QED BY <1>2, <2>1 DEF IInv, OutputSeparated, CalledBack, FileCreated,
     CreateFile, CreatedContent
<1>3. ASSUME FlushBefore PROVE OutputSeparated'
  BY <1>3, FlushOutside DEF IInv, OutputSeparated, CalledBack, FlushBefore,
     FlushProcessStdio
<1>4. ASSUME RestoreStdio PROVE OutputSeparated'
  BY <1>4, FlushInside DEF IInv, OutputSeparated, CalledBack, Buffers, Places,
     Executing, InDirectory, RestoreStdio, FlushProcessStdio
<1>5. ASSUME LoadDies \/ GuestDies \/ ResetDies PROVE OutputSeparated'
  <2>1. Die /\ pc \in {"load", "chdir", "reset", "guest"}
    BY <1>5 DEF LoadDies, GuestDies, ResetDies
  <2> QED BY <2>1, Dying DEF IInv, OutputSeparated, CalledBack, Die
<1>6. ASSUME \/ LoadFails \/ DupFails \/ RedirectFails
             \/ \E s \in Streams : FileFails(s)
      PROVE  OutputSeparated'
  <2>1. Fail /\ UNCHANGED debug
        /\ pc \in {"load", "chdir", "create-stdout", "create-stderr", "reopen-stdout",
                   "reopen-stderr"} \union Redirecting
    BY <1>6 DEF LoadFails, DupFails, RedirectFails, FileFails, Opening, Redirecting,
       Streams
  <2>2. pc # "aborted"
    BY <2>1 DEF Redirecting
  <2> QED BY <2>1, <2>2, Failing DEF IInv, OutputSeparated, CalledBack
<1>7. ASSUME NEW s \in Streams, HostPrints(s) PROVE OutputSeparated'
  <2>1. fd[s] = Terminal(s)
    BY <1>7 DEF IInv, Descriptors, HostPrints
  <2> QED BY <1>7, <2>1, SaidOutside DEF IInv, OutputSeparated, CalledBack, HostPrints
<1>8. ASSUME Callback PROVE OutputSeparated'
  BY <1>8, SaidInside DEF IInv, OutputSeparated, CalledBack, Callback
<1>9. ASSUME NEW b \in Benchmarks, Create(b) PROVE OutputSeparated'
  BY <1>9 DEF IInv, OutputSeparated, CalledBack, Create
<1>10. ASSUME NEW s \in Streams,
              RemoveLog(s) \/ Duplicate(s) \/ Redirect(s) \/ GuestPrints(s)
       PROVE  OutputSeparated'
  BY <1>10 DEF IInv, OutputSeparated, CalledBack, RemoveLog, Duplicate, Redirect,
     GuestPrints
<1>11. ASSUME \/ Free \/ Execute \/ Load \/ ChangeDir \/ ResetDir \/ Exited
       PROVE  OutputSeparated'
  BY <1>11 DEF IInv, OutputSeparated, CalledBack, Free, Execute, Load, ChangeDir,
     ResetDir, Exited, vars
<1> QED BY <1>1, <1>2, <1>3, <1>4, <1>5, <1>6, <1>7, <1>8, <1>9, <1>10, <1>11 DEF Next

(* Logs: they are empty when a benchmark starts and have everything when   *)
(* it has returned.                                                        *)
LEMMA LogsExactStep == ASSUME IInv, Next PROVE LogsExact'
<1>1. ASSUME NEW b \in Benchmarks, Create(b) PROVE LogsExact'
  BY <1>1 DEF LogsExact, Redirecting, Create
<1>2. ASSUME NEW s \in Streams, BufferFull(s) PROVE LogsExact'
  <2>1. /\ bench \in Benchmarks \union {None}
        /\ path \in [Benchmarks -> [Streams -> Inodes \union {None}]]
        /\ UNCHANGED <<pc, bench, path, run, printed>>
    BY <1>2 DEF IInv, TypeOK, BufferFull
  <2>2. CASE pc = "guest"
    <3>1. \A t \in Streams : Current(t)
      BY <2>2 DEF IInv, OpenFiles
    <3>2. \A t \in Streams : LogText(t)' \union buffer'[t] = LogText(t) \union buffer[t]
      <4>1. \A t \in Streams :
              LogText(t)' = LogText(t) \union IF t = s THEN buffer[t] ELSE {}
        BY <1>2, <2>1, <2>2, <3>1, FlushInside DEF LogText, BufferFull, Current,
           IInv, TypeOK
      <4>2. \A t \in Streams : buffer'[t] = IF t = s THEN {} ELSE buffer[t]
        BY <1>2, FlushText DEF IInv, BufferFull
      <4> QED BY <4>1, <4>2
    <3> QED BY <2>1, <2>2, <3>2 DEF IInv, LogsExact
  <2>3. CASE pc # "guest"
    <3>1. UNCHANGED content
      BY <1>2, <2>3, FlushOutside DEF IInv, LogsExact, BufferFull
    <3>2. \A t \in Streams : LogText(t)' = LogText(t)
      BY <2>1, <3>1 DEF LogText
    <3> QED BY <2>1, <2>3, <3>2 DEF IInv, LogsExact, Streams
  <2> QED BY <2>2, <2>3
<1>3. ASSUME NEW s \in Streams, FileCreated(s) PROVE LogsExact'
  <2>1. PICK i \in Inodes :
          /\ path' = [path EXCEPT ![bench][s] = i]
          /\ content' = [content EXCEPT ![Log(bench, s, i)] = {}]
    BY <1>3 DEF FileCreated, CreateFile, CreatedContent
  <2>2. /\ bench \in Benchmarks
        /\ \A t \in Streams : path[bench][t] \in Inodes \union {None}
        /\ UNCHANGED <<bench, buffer, printed>>
    BY <1>3 DEF IInv, TypeOK, FileCreated, Opening
  <2>3. LogText(s)' = {}
    BY <2>1, <2>2, FilesExist DEF LogText, IInv, TypeOK
  <2>4. \A t \in Streams : t # s /\ path[bench][t] # None => LogText(t)' = LogText(t)
    BY <2>1, <2>2, FilesApart DEF LogText
  <2>5. CASE s = "stdout"
    BY <1>3, <2>2, <2>3, <2>4, <2>5 DEF IInv, LogsExact, FileCreated, Opening,
       AfterFile, AfterReopening, Redirecting
  <2>6. CASE s = "stderr"
    BY <1>3, <2>2, <2>3, <2>4, <2>6 DEF IInv, LogsExact, OpenFiles, Current,
       FileCreated, Opening, AfterFile, AfterReopening, Streams
  <2> QED BY <2>5, <2>6 DEF Streams
<1>4. ASSUME NEW s \in Streams, RemoveLog(s) PROVE LogsExact'
  BY <1>4 DEF IInv, LogsExact, LogText, Redirecting, RemoveLog
<1>5. ASSUME NEW s \in Streams, GuestPrints(s) PROVE LogsExact'
  <2>1. /\ pc = "guest" /\ UNCHANGED <<pc, bench, path, content, run>>
        /\ buffer' = [buffer EXCEPT ![s] = @ \union {<<bench, run>>}]
        /\ printed' = [printed EXCEPT ![s] = @ \union {<<bench, run>>}]
    BY <1>5 DEF GuestPrints, Buffered
  <2>2. \A t \in Streams : LogText(t) \union buffer[t] = printed[t]
    BY <2>1 DEF IInv, LogsExact
  <2>3. \A t \in Streams : LogText(t)' = LogText(t)
    BY <2>1 DEF LogText
  <2>4. \A t \in Streams :
          /\ buffer'[t] = buffer[t] \union IF t = s THEN {<<bench, run>>} ELSE {}
          /\ printed'[t] = printed[t] \union IF t = s THEN {<<bench, run>>} ELSE {}
    BY <2>1 DEF IInv, TypeOK
  <2>5. \A t \in Streams : LogText(t)' \union buffer'[t] = printed'[t]
    BY <2>2, <2>3, <2>4
  <2> QED BY <2>1, <2>5 DEF LogsExact, Redirecting
<1>6. ASSUME Execute PROVE LogsExact'
  BY <1>6 DEF LogsExact, Redirecting, Execute
<1>7. ASSUME FlushBefore PROVE LogsExact'
  <2>1. /\ bench \in Benchmarks
        /\ \A t \in Streams : path[bench][t] \in Inodes
        /\ pc = "flush" /\ pc' = "dup-stdout" /\ UNCHANGED <<bench, path, printed>>
    BY <1>7 DEF IInv, TypeOK, OpenFiles, Current, FlushBefore
  <2>2. \A t \in Streams : LogText(t)' = LogText(t)
    BY <1>7, <2>1, FlushOutside DEF LogText, FlushBefore, FlushProcessStdio
  <2> QED BY <2>1, <2>2 DEF IInv, LogsExact
<1>8. ASSUME RestoreStdio PROVE LogsExact'
  <2>1. /\ bench \in Benchmarks
        /\ \A t \in Streams : path[bench][t] \in Inodes
        /\ pc = "guest" /\ pc' = "reset" /\ UNCHANGED <<bench, path, printed>>
    BY <1>8 DEF IInv, TypeOK, OpenFiles, Current, RestoreStdio
  <2>2. \A t \in Streams : LogText(t)' = LogText(t) \union buffer[t]
    BY <1>8, <2>1, FlushInside DEF LogText, RestoreStdio, FlushProcessStdio
  <2> QED BY <2>1, <2>2 DEF IInv, LogsExact, Redirecting
<1>9. ASSUME NEW s \in Streams, Redirect(s) PROVE LogsExact'
  <2>1. \A t \in Streams : LogText(t) = {} /\ buffer[t] = {} /\ printed[t] = {}
    BY <1>9 DEF IInv, LogsExact, Buffers, Redirect, Redirecting
  <2> QED BY <1>9, <2>1 DEF LogsExact, LogText, Redirect
<1>10. ASSUME Callback PROVE LogsExact'
  <2>1. /\ pc = "guest" /\ Unbuffered("stderr", Host)
        /\ UNCHANGED <<pc, bench, path, buffer, run>>
        /\ printed' = [printed EXCEPT !["stderr"] = @ \union {Host}]
    BY <1>10 DEF Callback
  <2>2. /\ bench \in Benchmarks
        /\ \A t \in Streams : path[bench][t] \in Inodes
        /\ \A t \in Streams : LogText(t) \union buffer[t] = printed[t]
    BY <2>1 DEF IInv, TypeOK, OpenFiles, Current, LogsExact
  <2>3. \A t \in Streams :
          LogText(t)' = LogText(t) \union IF t = "stderr" THEN {Host} ELSE {}
    BY <2>1, <2>2, SaidInside DEF LogText
  <2>4. \A t \in Streams :
          printed'[t] = printed[t] \union IF t = "stderr" THEN {Host} ELSE {}
    BY <2>1 DEF IInv, TypeOK
  <2>5. \A t \in Streams : LogText(t)' \union buffer'[t] = printed'[t]
    BY <2>1, <2>2, <2>3, <2>4
  <2> QED BY <2>1, <2>5 DEF LogsExact, Redirecting
<1>11. ASSUME NEW s \in Streams, HostPrints(s) PROVE LogsExact'
  <2>1. CASE pc = "failed"
    BY <1>11, <2>1 DEF LogsExact, Redirecting, HostPrints
  <2>2. CASE pc = "host"
    <3>1. /\ fd[s] = Terminal(s) /\ Unbuffered(s, Host)
          /\ UNCHANGED <<pc, bench, path, printed>>
      BY <1>11, <2>2 DEF IInv, Descriptors, Redirecting, HostPrints
    <3>2. bench # None => bench \in Benchmarks
                          /\ \A t \in Streams : path[bench][t] \in Inodes \union {None}
      BY DEF IInv, TypeOK
    <3>3. \A t \in Streams :
            bench # None /\ path[bench][t] # None => LogText(t)' = LogText(t)
      BY <3>1, <3>2, SaidOutside DEF LogText
    <3> QED BY <2>2, <3>1, <3>3 DEF IInv, LogsExact, Redirecting
  <2> QED BY <1>11, <2>1, <2>2 DEF HostPrints
<1>12. ASSUME \/ LoadFails \/ LoadDies \/ DupFails \/ RedirectFails \/ GuestDies
              \/ ResetDies \/ \E s \in Streams : FileFails(s)
       PROVE  LogsExact'
  <2>1. pc' \in {"failed", "aborted"}
    BY <1>12 DEF LoadFails, LoadDies, DupFails, RedirectFails, GuestDies, ResetDies,
       FileFails, Fail, Die
  <2> QED BY <2>1 DEF LogsExact, Redirecting
<1>13. ASSUME \/ Free \/ Load \/ ChangeDir \/ ResetDir \/ Exited
              \/ \E s \in Streams : Duplicate(s)
      PROVE  LogsExact'
  BY <1>13 DEF IInv, LogsExact, LogText, Redirecting, Free, Load, ChangeDir,
     ResetDir, Exited, vars, Duplicate
<1> QED BY <1>1, <1>2, <1>3, <1>4, <1>5, <1>6, <1>7, <1>8, <1>9, <1>10, <1>11,
           <1>12, <1>13 DEF Next

-----------------------------------------------------------------------------
(* The invariant holds when the library has been loaded.                   *)
LEMMA InitIInv == Init => IInv
  BY NativeAssumption, FilesExist DEF Init, IInv, TypeOK, Descriptors, OpenFiles,
     Places, Buffers, OutputSeparated, CalledBack, LogsExact, Redirecting, InDirectory,
     Executing

(* It survives every step.                                                 *)
LEMMA NextIInv == IInv /\ [Next]_vars => IInv'
<1> SUFFICES ASSUME IInv, [Next]_vars PROVE IInv'
  OBVIOUS
<1>1. CASE Next
  BY <1>1, TypeOKStep, DescriptorsStep, OpenFilesStep, PlacesStep, BuffersStep,
     OutputSeparatedStep, LogsExactStep DEF IInv
<1>2. CASE UNCHANGED vars
  <2>1. TypeOK' /\ Descriptors' /\ OpenFiles'
    BY <1>2 DEF vars, process, IInv, TypeOK, Descriptors, OpenFiles, Current
  <2>2. Places' /\ Buffers' /\ OutputSeparated' /\ LogsExact'
    BY <1>2 DEF vars, process, IInv, Places, Buffers, OutputSeparated, CalledBack,
       LogsExact, LogText
  <2> QED BY <2>1, <2>2 DEF IInv
<1> QED BY <1>1, <1>2

(* It implies the properties of the component.                             *)
LEMMA IInvImplies == IInv => GuestContext /\ LogExact /\ HostRestored
<1> SUFFICES ASSUME IInv PROVE GuestContext /\ LogExact /\ HostRestored
  OBVIOUS
<1>1. GuestContext
  BY DEF IInv, GuestContext, Places, Executing, InDirectory, Descriptors, OpenFiles,
     Current
<1>2. LogExact
  BY DEF IInv, LogExact, LogsExact, LogText
<1>3. HostRestored
  BY DEF IInv, HostRestored, Descriptors, Places, Redirecting
<1> QED BY <1>1, <1>2, <1>3

(* The invariant holds in every state of the library and its runner.       *)
THEOREM Invariance == Spec => []IInv
  BY InitIInv, NextIInv, PTL DEF Spec

(* Types: descriptors are files that exist, duplicates are terminals.      *)
THEOREM TypeCorrect == Spec => []TypeOK
<1>1. IInv => TypeOK
  BY DEF IInv
<1> QED BY <1>1, Invariance, PTL

(* A benchmark runs in its own directory, with its own logs and timer,     *)
(* whatever ran before it.                                                 *)
THEOREM GuestContextHolds == Spec => []GuestContext
  BY Invariance, IInvImplies, PTL

(* The texts of the runner and of every benchmark stay apart.              *)
THEOREM OutputSeparatedHolds == Spec => []OutputSeparated
<1>1. IInv => OutputSeparated
  BY DEF IInv
<1> QED BY <1>1, Invariance, PTL

(* A log that is checked holds the output of the last execution, exactly.  *)
THEOREM LogExactHolds == Spec => []LogExact
  BY Invariance, IInvImplies, PTL

(* The runner gets its descriptors and its directory back.                 *)
THEOREM HostRestoredHolds == Spec => []HostRestored
  BY Invariance, IInvImplies, PTL

-----------------------------------------------------------------------------
(***************************************************************************)
(* The library is an engine as the runner expects it.                      *)
(***************************************************************************)

(* A step leaves the logs of other benchmarks alone: where their paths     *)
(* lead, and what is there.                                                *)
LEMMA OthersKept ==
  ASSUME IInv, Next, NEW b \in Benchmarks, b # bench, NEW s \in Streams
  PROVE  /\ path'[b][s] = path[b][s]
         /\ path[b][s] # None =>
              content'[Log(b, s, path[b][s])] = content[Log(b, s, path[b][s])]
<1>1. path[b][s] \in Inodes \union {None}
  BY DEF IInv, TypeOK
<1>2. ASSUME NEW S \in SUBSET Streams, Flush(S), pc # "aborted", path[b][s] # None
      PROVE  content'[Log(b, s, path[b][s])] = content[Log(b, s, path[b][s])]
  <2>1. CASE pc = "guest"
    <3>1. path[b][s] \in Inodes
      BY <1>1, <1>2
    <3> DEFINE i == path[b][s]
    <3>2. content'[Log(b, s, i)] = content[Log(b, s, i)] \union
             IF s \in S /\ b = bench /\ i = path[bench][s] THEN buffer[s] ELSE {}
      BY <1>2, <2>1, <3>1, FlushInside
    <3>3. content'[Log(b, s, i)] = content[Log(b, s, i)] \union {}
      BY <3>2
    <3> QED BY <3>3
  <2>2. CASE pc # "guest"
    BY <1>1, <1>2, <2>2, FlushOutside
  <2> QED BY <2>1, <2>2
<1>3. ASSUME NEW t \in Streams, BufferFull(t)
      PROVE  path'[b][s] = path[b][s] /\ Flush({t}) /\ pc # "aborted"
  BY <1>3 DEF BufferFull
<1>4. ASSUME FlushBefore \/ RestoreStdio
      PROVE  path'[b][s] = path[b][s] /\ Flush(Streams) /\ pc # "aborted"
  BY <1>4 DEF FlushBefore, RestoreStdio, FlushProcessStdio
<1>5. ASSUME NEW t \in Streams, FileCreated(t)
      PROVE  /\ path'[b][s] = path[b][s]
             /\ path[b][s] # None =>
                  content'[Log(b, s, path[b][s])] = content[Log(b, s, path[b][s])]
  <2>1. PICK i \in Inodes :
          /\ path' = [path EXCEPT ![bench][t] = i]
          /\ content' = [content EXCEPT ![Log(bench, t, i)] = {}]
    BY <1>5 DEF FileCreated, CreateFile, CreatedContent
  <2>2. bench \in Benchmarks
    BY <1>5 DEF IInv, TypeOK, FileCreated, Opening
  <2>3. path'[b][s] = path[b][s]
    BY <2>1 DEF IInv, TypeOK
  <2>4. path[b][s] # None => Log(b, s, path[b][s]) # Log(bench, t, i)
    BY <1>1, <2>2, FilesApart
  <2>5. content \in [Files -> SUBSET Writers]
    BY DEF IInv, TypeOK
  <2>6. path[b][s] # None => Log(b, s, path[b][s]) \in Files
    BY <1>1, FilesExist
  <2> QED BY <2>1, <2>3, <2>4, <2>5, <2>6
<1>6. ASSUME NEW t \in Streams, RemoveLog(t)
      PROVE  path'[b][s] = path[b][s] /\ UNCHANGED content
  BY <1>6 DEF IInv, TypeOK, RemoveLog
<1>7. ASSUME NEW c \in Benchmarks, Create(c) PROVE UNCHANGED <<path, content>>
  BY <1>7 DEF Create
<1>8. ASSUME NEW t \in Streams, Duplicate(t) \/ Redirect(t) \/ GuestPrints(t)
      PROVE  UNCHANGED <<path, content>>
  BY <1>8 DEF Duplicate, Redirect, GuestPrints
<1>9. ASSUME Free \/ Execute \/ Load \/ ChangeDir \/ ResetDir \/ Exited
      PROVE  UNCHANGED <<path, content>>
  BY <1>9 DEF Free, Execute, Load, ChangeDir, ResetDir, Exited, vars
<1>10. ASSUME \/ LoadFails \/ DupFails \/ RedirectFails
              \/ \E t \in Streams : FileFails(t)
       PROVE  /\ UNCHANGED path
              /\ path[b][s] # None =>
                   content'[Log(b, s, path[b][s])] = content[Log(b, s, path[b][s])]
  <2>1. Fail /\ UNCHANGED path
        /\ pc \in {"load", "chdir", "create-stdout", "create-stderr", "reopen-stdout",
                   "reopen-stderr"} \union Redirecting
    BY <1>10 DEF LoadFails, DupFails, RedirectFails, FileFails, Opening, Redirecting,
       Streams
  <2> QED BY <1>1, <2>1, Failing
<1>11. ASSUME LoadDies \/ GuestDies \/ ResetDies
       PROVE  /\ UNCHANGED path
              /\ path[b][s] # None =>
                   content'[Log(b, s, path[b][s])] = content[Log(b, s, path[b][s])]
  <2>1. Die /\ pc \in {"load", "chdir", "reset", "guest"} /\ UNCHANGED path
    BY <1>11 DEF LoadDies, GuestDies, ResetDies, Die
  <2> QED BY <1>1, <2>1, Dying
<1>12. ASSUME NEW t \in Streams, HostPrints(t)
       PROVE  /\ UNCHANGED path
              /\ path[b][s] # None =>
                   content'[Log(b, s, path[b][s])] = content[Log(b, s, path[b][s])]
  <2>1. fd[t] = Terminal(t) /\ Unbuffered(t, Host) /\ UNCHANGED path
    BY <1>12 DEF IInv, Descriptors, HostPrints
  <2> QED BY <1>1, <2>1, SaidOutside
<1>13. ASSUME Callback
       PROVE  /\ UNCHANGED path
              /\ path[b][s] # None =>
                   content'[Log(b, s, path[b][s])] = content[Log(b, s, path[b][s])]
  <2>1. pc = "guest" /\ Unbuffered("stderr", Host) /\ UNCHANGED path
    BY <1>13 DEF Callback
  <2>2. ASSUME path[b][s] # None
        PROVE  content'[Log(b, s, path[b][s])] = content[Log(b, s, path[b][s])]
    <3> DEFINE i == path[b][s]
    <3>1. i \in Inodes
      BY <1>1, <2>2
    <3>2. content'[Log(b, s, i)] = content[Log(b, s, i)] \union
            IF s = "stderr" /\ b = bench /\ i = path[bench][s] THEN {Host} ELSE {}
      BY <2>1, <3>1, SaidInside
    <3>3. content'[Log(b, s, i)] = content[Log(b, s, i)] \union {}
      BY <3>2
    <3> QED BY <3>3
  <2> QED BY <2>1, <2>2
<1> QED BY <1>2, <1>3, <1>4, <1>5, <1>6, <1>7, <1>8, <1>9, <1>10, <1>11, <1>12,
           <1>13 DEF Next

(* So what the runner sees of other benchmarks stays as it is.             *)
LEMMA OthersSeen ==
  ASSUME IInv, Next, NEW b \in Benchmarks, b # bench, b # bench', NEW s \in Streams
  PROVE  SeenLog(b, s)' = SeenLog(b, s)
  BY OthersKept DEF SeenLog

(* During a call nothing is seen of the logs of its benchmark.             *)
LEMMA NothingSeen ==
  ASSUME pc # "host", NEW s \in Streams
  PROVE  SeenLog(bench, s) = Engine!Unknown
  BY DEF SeenLog, Engine!Unknown

LEMMA NothingSeenNext ==
  ASSUME pc' # "host", NEW s \in Streams
  PROVE  SeenLog(bench, s)' = Engine!Unknown
  BY DEF SeenLog, Engine!Unknown

(* A step within a call, or one that ends the process in it.               *)
LEMMA WithinCall ==
  ASSUME IInv, Next, pc # "host", pc' # "host"
  PROVE  /\ UNCHANGED bench
         /\ \A b \in Benchmarks, s \in Streams : SeenLog(b, s)' = SeenLog(b, s)
<1>1. UNCHANGED bench
  BY DEF Next, Create, HostPrints, BufferFull, FileCreated, FileFails, RemoveLog,
     Duplicate, Redirect, GuestPrints, Free, Execute, Load, LoadFails, LoadDies, Die,
     ChangeDir, FlushBefore, DupFails, RedirectFails, Callback, GuestDies, RestoreStdio,
     ResetDir, ResetDies, Exited, vars
<1> QED BY <1>1, OthersSeen, NothingSeen, NothingSeenNext

(* A call that returns leaves in the logs what was printed during it.      *)
LEMMA CallReturns ==
  ASSUME IInv, IInv', Next, pc # "host", pc' = "host"
  PROVE  Engine!Return
<1>1. ResetDir \/ (pc = "create-stderr" /\ FileCreated("stderr"))
  BY DEF Next, Create, HostPrints, BufferFull, FileCreated, Opening, AfterFile,
     AfterReopening, Streams, FileFails, Fail, RemoveLog, Duplicate, Redirect,
     GuestPrints, Free, Execute, Load, LoadFails, LoadDies, Die, ChangeDir, FlushBefore,
     DupFails, RedirectFails, Callback, GuestDies, RestoreStdio, ResetDies, Exited, vars
<1>2. /\ bench' = bench /\ bench \in Benchmarks /\ printed' = printed
      /\ pc \in {"reset", "create-stderr"}
  BY <1>1 DEF IInv, TypeOK, ResetDir, FileCreated
<1>3. \A s \in Streams : path'[bench][s] # None
  <2>1. CASE ResetDir
    BY <2>1 DEF IInv, OpenFiles, ResetDir
  <2>2. CASE pc = "create-stderr" /\ FileCreated("stderr")
    <3>1. PICK i \in Inodes : path' = [path EXCEPT ![bench]["stderr"] = i]
      BY <2>2 DEF FileCreated, CreateFile
    <3> QED BY <1>2, <2>2, <3>1, NativeAssumption DEF IInv, TypeOK, OpenFiles,
             Current, Streams
  <2> QED BY <1>1, <2>1, <2>2
<1>4. \A s \in Streams : SeenLog(bench, s)' = Engine!Holding(printed[s])
  BY <1>2, <1>3, NativeAssumption DEF IInv, LogsExact, LogText, SeenLog, Engine!Holding
<1>5. \A b \in Benchmarks, s \in Streams : b # bench => SeenLog(b, s)' = SeenLog(b, s)
  BY <1>2, OthersSeen
<1>6. Calling \in {"create", "execute"} /\ Calling' = "none"
  BY <1>2 DEF Calling, Gone
<1> QED BY <1>2, <1>4, <1>5, <1>6 DEF Engine!Return

(* What becomes of the logs when the runner begins a call.                 *)
LEMMA CallBegins ==
  ASSUME IInv, Next, pc = "host", pc' # "host"
  PROVE  \/ \E b \in Benchmarks : Engine!Create(b)
         \/ Engine!Execute
<1>1. Execute \/ \E b \in Benchmarks : Create(b)
  BY DEF Next, HostPrints, BufferFull, FileCreated, Opening, FileFails, RemoveLog,
     Duplicate, Redirect, GuestPrints, Free, Load, LoadFails, LoadDies, ChangeDir,
     FlushBefore, DupFails, RedirectFails, Callback, GuestDies, RestoreStdio, ResetDir,
     ResetDies, Exited, Gone, vars
<1>2. UNCHANGED <<path, content>>
  BY <1>1 DEF Execute, Create
<1>3. \A b \in Benchmarks, s \in Streams :
        SeenLog(b, s)' = IF b = bench' THEN Engine!Unknown ELSE SeenLog(b, s)
  BY <1>2 DEF SeenLog, Engine!Unknown
<1>4. \A b \in Benchmarks :
        [s \in Streams |-> SeenLog(b, s)'] =
          IF b = bench' THEN [s \in Streams |-> Engine!Unknown]
                        ELSE [s \in Streams |-> SeenLog(b, s)]
  BY <1>3
<1>5. CASE Execute
  <2>1. Calling = "none" /\ Calling' = "execute" /\ bench # None /\ bench' = bench
    BY <1>5 DEF Execute, Calling, Gone
  <2>2. bench \in Benchmarks
    BY <2>1 DEF IInv, TypeOK
  <2>3. printed' = Engine!Silent
    BY <1>5 DEF Execute, Engine!Silent
  <2> QED BY <1>4, <2>1, <2>2, <2>3 DEF Engine!Execute, Engine!Begin
<1>6. ASSUME NEW b \in Benchmarks, Create(b) PROVE Engine!Create(b)
  <2>1. Calling = "none" /\ Calling' = "create" /\ bench = None /\ bench' = b
    BY <1>6 DEF Create, Calling, Gone
  <2>2. printed' = Engine!Silent
    BY <1>6 DEF Create, Engine!Silent
  <2> QED BY <1>4, <2>1, <2>2 DEF Engine!Create, Engine!Begin
<1> QED BY <1>1, <1>5, <1>6

(* Between calls the logs change only when the runner removes one.         *)
LEMMA BetweenCalls ==
  ASSUME IInv, Next, pc = "host", pc' = "host"
  PROVE  \/ \E s \in Streams : Engine!Remove(s)
         \/ Engine!Free
         \/ UNCHANGED Engine!logs
<1>1. \/ \E s \in Streams : HostPrints(s) \/ BufferFull(s) \/ RemoveLog(s)
      \/ Free
  BY DEF Next, Create, FileCreated, Opening, FileFails, Duplicate, Redirect,
     GuestPrints, Execute, Load, LoadFails, LoadDies, ChangeDir, FlushBefore,
     DupFails, RedirectFails, Callback, GuestDies, RestoreStdio, ResetDir,
     ResetDies, Exited,
     Gone, vars
<1>2. Calling = "none" /\ Calling' = "none"
  BY DEF Calling, Gone
<1>3. ASSUME UNCHANGED <<path, content>>
      PROVE  \A b \in Benchmarks, s \in Streams : SeenLog(b, s)' = SeenLog(b, s)
  BY <1>3 DEF SeenLog
<1>4. CASE Free
  <2>1. bench # None /\ bench' = None /\ printed' = printed
    BY <1>4 DEF Free
  <2>2. \A b \in Benchmarks, s \in Streams : SeenLog(b, s)' = SeenLog(b, s)
    BY <1>3, <1>4 DEF Free
  <2> QED BY <1>2, <2>1, <2>2 DEF Engine!Free
<1>5. ASSUME NEW s \in Streams, HostPrints(s) PROVE UNCHANGED Engine!logs
  <2>1. /\ UNCHANGED <<bench, path, printed>>
        /\ fd[s] = Terminal(s) /\ Unbuffered(s, Host)
    BY <1>5 DEF IInv, Descriptors, Redirecting, HostPrints
  <2>2. path \in [Benchmarks -> [Streams -> Inodes \union {None}]]
    BY DEF IInv, TypeOK
  <2>3. \A b \in Benchmarks, t \in Streams, i \in Inodes :
          content'[Log(b, t, i)] = content[Log(b, t, i)]
    BY <2>1, SaidOutside
  <2>4. \A b \in Benchmarks, t \in Streams : SeenLog(b, t)' = SeenLog(b, t)
    BY <2>1, <2>2, <2>3 DEF SeenLog
  <2> QED BY <1>2, <2>1, <2>4 DEF Engine!logs
<1>6. ASSUME NEW s \in Streams, BufferFull(s) PROVE UNCHANGED Engine!logs
  <2>1. UNCHANGED <<bench, path, printed>> /\ Flush({s})
    BY <1>6 DEF BufferFull
  <2>2. UNCHANGED content
    BY <2>1, FlushOutside
  <2> QED BY <1>2, <1>3, <2>1, <2>2 DEF Engine!logs
<1>7. ASSUME NEW s \in Streams, RemoveLog(s) PROVE Engine!Remove(s)
  <2>1. /\ bench \in Benchmarks /\ UNCHANGED <<bench, content, printed>>
        /\ path' = [path EXCEPT ![bench][s] = None]
    BY <1>7 DEF IInv, TypeOK, RemoveLog
  <2>2. \A b \in Benchmarks, t \in Streams :
          path'[b][t] = IF b = bench /\ t = s THEN None ELSE path[b][t]
    BY <2>1 DEF IInv, TypeOK
  <2>3. \A b \in Benchmarks, t \in Streams :
          SeenLog(b, t)' = IF b = bench /\ t = s THEN Engine!Absent ELSE SeenLog(b, t)
    BY <2>1, <2>2 DEF SeenLog, Engine!Absent
  <2>4. bench # None
    BY <1>7 DEF RemoveLog
  <2> DEFINE seen == [b \in Benchmarks |-> [t \in Streams |-> SeenLog(b, t)]]
             seenNext == [b \in Benchmarks |-> [t \in Streams |-> SeenLog(b, t)']]
  <2>5. seenNext = [seen EXCEPT ![bench][s] = Engine!Absent]
    BY <2>1, <2>3
  <2> QED BY <1>2, <2>1, <2>4, <2>5 DEF Engine!Remove
<1> QED BY <1>1, <1>4, <1>5, <1>6, <1>7

(* During a call the benchmark prints, the process ends, or nothing        *)
(* happens that the runner knows of.                                       *)
LEMMA CallGoesOn ==
  ASSUME IInv, Next, pc # "host", pc' # "host"
  PROVE  \/ \E s \in Streams : Engine!Prints(s)
         \/ Engine!Fail
         \/ UNCHANGED Engine!logs
<1>1. UNCHANGED bench /\ \A b \in Benchmarks, s \in Streams : SeenLog(b, s)' =
SeenLog(b, s)
  BY WithinCall
<1>2. ASSUME NEW s \in Streams, GuestPrints(s) PROVE Engine!Prints(s)
  <2>1. Calling = "execute" /\ Calling' = "execute"
    BY <1>2 DEF GuestPrints, Calling, Gone
  <2>2. /\ <<bench, run>> \in Writers
        /\ printed' = [printed EXCEPT ![s] = @ \union {<<bench, run>>}]
    BY <1>2, WritersExist DEF IInv, TypeOK, Places, Executing, InDirectory, GuestPrints
  <2>3. \E writer \in Writers : printed' = [printed EXCEPT ![s] = @ \union {writer}]
    BY <2>2
  <2> QED BY <1>1, <2>1, <2>3 DEF Engine!Prints
<1>3. ASSUME Callback PROVE Engine!Prints("stderr")
  <2>1. Calling = "execute" /\ Calling' = "execute"
    BY <1>3 DEF Callback, Calling, Gone
  <2>2. printed' = [printed EXCEPT !["stderr"] = @ \union {Host}] /\ Host \in Writers
    BY <1>3, WritersExist DEF Callback
  <2>3. \E writer \in Writers :
          printed' = [printed EXCEPT !["stderr"] = @ \union {writer}]
    BY <2>2
  <2> QED BY <1>1, <2>1, <2>3 DEF Engine!Prints
<1>4. ASSUME ~Callback, \A s \in Streams : ~GuestPrints(s) PROVE UNCHANGED printed
  BY <1>4 DEF Next, Create, HostPrints, BufferFull, FileCreated, FileFails, RemoveLog,
     Duplicate, Redirect, Free, Execute, Load, LoadFails, LoadDies, Die, ChangeDir,
     FlushBefore, DupFails, RedirectFails, Callback, GuestDies, RestoreStdio, ResetDir,
     ResetDies, Exited, vars
<1>5. \/ Calling \in {"create", "execute"} /\ Calling' = "failed"
      \/ Calling' = Calling
  <2>1. \/ pc \notin Gone /\ pc' \in Gone
        \/ (pc \in Gone <=> pc' \in Gone)
           /\ (pc \in {"create-stdout", "create-stderr"}
                 <=> pc' \in {"create-stdout", "create-stderr"})
    BY DEF Next, Create, HostPrints, BufferFull, FileCreated, Opening, AfterFile,
       AfterReopening, FileFails, Fail, RemoveLog, Duplicate, Redirect, GuestPrints,
       Free, Execute, Load, LoadFails, LoadDies, Die, ChangeDir, FlushBefore, DupFails,
       RedirectFails, Callback, GuestDies, RestoreStdio, ResetDir, ResetDies,
       Exited, vars, Gone
  <2> QED BY <2>1 DEF Calling, Gone
<1>6. CASE ~Callback /\ \A s \in Streams : ~GuestPrints(s)
  BY <1>1, <1>4, <1>5, <1>6 DEF Engine!Fail, Engine!logs
<1> QED BY <1>2, <1>3, <1>6 DEF Streams

(* The library implements what the runner expects of an engine: logs are   *)
(* empty when it has been created, hold exactly what was printed when a    *)
(* call returns, and change at no other time and for no other benchmark.   *)
THEOREM ImplementsEngine == Spec => LogsAsExpected
<1>1. Init => Engine!Init
  <2> SUFFICES ASSUME Init PROVE Engine!Init
    OBVIOUS
  <2>1. \A b \in Benchmarks, s \in Streams : SeenLog(b, s) = Engine!Absent
    BY DEF Init, SeenLog, Engine!Absent
  <2>2. bench = None /\ Calling = "none" /\ printed = Engine!Silent
    BY DEF Init, Calling, Gone, Engine!Silent
  <2> QED BY <2>1, <2>2 DEF Engine!Init
<1>2. ASSUME IInv, IInv', [Next]_vars
      PROVE  [Engine!Next]_(Engine!logs)
  <2>1. CASE UNCHANGED vars
    BY <2>1 DEF vars, process, Engine!logs, Calling, SeenLog
  <2>2. CASE Next
    <3>1. CASE pc = "host" /\ pc' # "host"
      BY <1>2, <2>2, <3>1, CallBegins DEF Engine!Next
    <3>2. CASE pc = "host" /\ pc' = "host"
      BY <1>2, <2>2, <3>2, BetweenCalls DEF Engine!Next
    <3>3. CASE pc # "host" /\ pc' # "host"
      BY <1>2, <2>2, <3>3, CallGoesOn DEF Engine!Next
    <3>4. CASE pc # "host" /\ pc' = "host"
      BY <1>2, <2>2, <3>4, CallReturns DEF Engine!Next
    <3> QED BY <3>1, <3>2, <3>3, <3>4
  <2> QED BY <1>2, <2>1, <2>2
<1> QED BY <1>1, <1>2, Invariance, PTL DEF Spec, LogsAsExpected, Engine!Spec
=============================================================================
