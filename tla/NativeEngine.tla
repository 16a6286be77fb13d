----------------------------- MODULE NativeEngine ----------------------------
(***************************************************************************)
(* The engine library that runs benchmarks compiled to native code,        *)
(* engines/native/libengine/src/lib.rs, in the process of a runner.  To    *)
(* execute a benchmark the library changes what belongs to the whole       *)
(* process, its working directory and descriptors 1 and 2, and has to put  *)
(* it back: what the benchmark prints is compared with its expected output *)
(* and what the runner prints is parsed by its parent.                     *)
(*                                                                         *)
(* Benchmarks print through the buffers of the C library, which are        *)
(* written to wherever descriptors 1 and 2 lead when they are flushed.     *)
(* The runner has a standard library of its own and prints to the          *)
(* descriptors, also from the callbacks that a benchmark calls.  A text is *)
(* abstracted to who printed it.                                           *)
(***************************************************************************)
EXTENDS Naturals

CONSTANTS
  Benchmarks,     \* each with a working directory and two log files
  Inodes,         \* bound: files that may exist for a log's path
  MaxRuns,        \* bound: executions considered
  None            \* no benchmark, no file, no descriptor

Streams == {"stdout", "stderr"}

(* Descriptors 1 and 2 of the runner, and the log files.                   *)
Terminal(s) == <<"terminal", s, 0>>
Log(b, s, inode) == <<b, s, inode>>

Terminals == {Terminal(s) : s \in Streams}
Logs == {Log(b, s, inode) : b \in Benchmarks, s \in Streams, inode \in Inodes}
Files == Terminals \union Logs

(* Who prints: the runner, or a benchmark in one of its executions.        *)
Host == <<"host", 0>>
Writers == {Host} \union (Benchmarks \X (1..MaxRuns))

ASSUME NativeAssumption ==
  /\ MaxRuns \in Nat
  /\ "terminal" \notin Benchmarks /\ "host" \notin Benchmarks /\ "root" \notin Benchmarks
  /\ None \notin Benchmarks /\ None \notin Inodes /\ None \notin Files

VARIABLES
  pc,             \* control point of the library, or of the runner outside of it
  bench,          \* benchmark of the BenchState
  file,           \* stdout_file and stderr_file of the BenchState
  path,           \* inode that the path of a log leads to
  content,        \* who printed what a file holds
  buffer,         \* who printed what the C library buffers for a stream
  fd,             \* files that descriptors 1 and 2 refer to
  duplicate,      \* original_stdout and original_stderr
  cwd, root,      \* working directory (a benchmark's, or the runner's); root_dir
  timer,          \* NATIVE_EXECUTION_TIMER: whose execution is timed
  run,            \* executions so far
  debug,          \* the runner logs debug messages
  printed         \* history: what was printed in the last execution of `bench`

process == <<fd, duplicate, cwd, root>>
vars == <<pc, bench, file, path, content, buffer, process, timer, run, debug, printed>>

Gone == {"failed", "aborted"}

-----------------------------------------------------------------------------
Init ==
  /\ pc = "host"
  /\ bench = None
  /\ file = [s \in Streams |-> None]
  /\ path = [b \in Benchmarks |-> [s \in Streams |-> None]]
  /\ content = [f \in Files |-> {}]
  /\ buffer = [s \in Streams |-> {}]
  /\ fd = [s \in Streams |-> Terminal(s)]
  /\ duplicate = [s \in Streams |-> None]
  /\ cwd = "root" /\ root = "root"
  /\ timer = None
  /\ run = 0
  /\ debug \in BOOLEAN
  /\ printed = [s \in Streams |-> {}]

(* Text goes into the buffer of its stream, or straight to its descriptor. *)
Buffered(s, writer) == buffer' = [buffer EXCEPT ![s] = @ \union {writer}]

Unbuffered(s, writer) == content' = [content EXCEPT ![fd[s]] = @ \union {writer}]

(* The runner outside of the library.                                      *)
HostPrints(s) ==
  /\ pc \in {"host", "failed"}
  /\ Unbuffered(s, Host)
  /\ UNCHANGED <<pc, bench, file, path, buffer, process, timer, run, debug, printed>>

(* What `f` holds after the buffers of `streams` have been written out.    *)
Written(f, streams) ==
  content[f] \union UNION {buffer[s] : s \in {t \in streams : fd[t] = f}}

Flush(streams) ==
  /\ content' = [f \in Files |-> Written(f, streams)]
  /\ buffer' = [s \in Streams |-> IF s \in streams THEN {} ELSE buffer[s]]

(* Slip: one of the two buffers is forgotten.                              *)
FlushStdout == Flush({"stdout"})

(* flush_process_stdio                                                     *)
FlushProcessStdio == Flush(Streams)

(* The C library writes a buffer out by itself.                            *)
BufferFull(s) ==
  /\ pc # "aborted"
  /\ Flush({s})
  /\ UNCHANGED <<pc, bench, file, path, process, timer, run, debug, printed>>

(* An error is returned through `?`, printed by to_exit_code, and the      *)
(* runner asserts that there is none: its process ends.                    *)
Fail ==
  /\ pc' = "failed"
  /\ Unbuffered("stderr", Host)

(* An assertion or `unwrap` that fails in a function with the C calling    *)
(* convention, also a measure's in a callback, prints a message and the    *)
(* process aborts; a benchmark that crashes does so without a message.     *)
Die ==
  /\ pc' = "aborted"
  /\ Unbuffered("stderr", Host) \/ UNCHANGED content
  /\ UNCHANGED <<bench, file, path, buffer, process, timer, run, debug, printed>>

-----------------------------------------------------------------------------
(* Slip: a file that is there is appended to.                              *)
AppendedContent(f) == content[f]

(* File::create truncates the file that is there.                          *)
CreatedContent(f) == {}

(* A new file has an inode that nobody refers to.                          *)
Unused(b, s, inode) == Log(b, s, inode) \notin {file[t] : t \in Streams}

CreateFile(b, s) ==
  \E inode \in Inodes :
    /\ path[b][s] # None => inode = path[b][s]
    /\ path[b][s] = None => Unused(b, s, inode)
    /\ path' = [path EXCEPT ![b][s] = inode]
    /\ file' = [file EXCEPT ![s] = Log(b, s, inode)]
    /\ LET created == Log(b, s, inode)
       IN  content' = [content EXCEPT ![created] = CreatedContent(created)]

(* wasm_bench_create                                                       *)
Create(b) ==
  /\ pc = "host" /\ bench = None
  /\ bench' = b
  /\ printed' = [s \in Streams |-> {}]
  /\ pc' = "create-stdout"
  /\ UNCHANGED <<file, path, content, buffer, process, timer, run, debug>>

(* reopen_output_files, before each execution, since the runner may have   *)
(* unlinked the files.  Slip: only standard output is reopened.            *)
AfterReopeningOne(s) == "flush"

AfterReopening(s) == IF s = "stdout" THEN "reopen-stderr" ELSE "flush"

(* Both files are created when the state is, and again by the above.       *)
AfterFile ==
  [at \in {"create-stdout", "create-stderr", "reopen-stdout", "reopen-stderr"} |->
     CASE at = "create-stdout" -> "create-stderr"
       [] at = "create-stderr" -> "host"
       [] at = "reopen-stdout" -> AfterReopening("stdout")
       [] at = "reopen-stderr" -> AfterReopening("stderr")]

Opening(s) ==
  pc \in IF s = "stdout" THEN {"create-stdout", "reopen-stdout"}
                         ELSE {"create-stderr", "reopen-stderr"}

FileCreated(s) ==
  /\ Opening(s)
  /\ CreateFile(bench, s)
  /\ pc' = AfterFile[pc]
  /\ UNCHANGED <<bench, buffer, process, timer, run, debug, printed>>

FileFails(s) ==
  /\ Opening(s)
  /\ Fail
  /\ UNCHANGED <<bench, file, path, buffer, process, timer, run, debug, printed>>

(* wasm_bench_free                                                         *)
Free ==
  /\ pc = "host" /\ bench # None
  /\ bench' = None
  /\ file' = [s \in Streams |-> None]
  /\ UNCHANGED <<pc, path, content, buffer, process, timer, run, debug, printed>>

(* The runner removes a log after a successful iteration.                  *)
RemoveLog(s) ==
  /\ pc = "host" /\ bench # None
  /\ path' = [path EXCEPT ![bench][s] = None]
  /\ UNCHANGED <<pc, bench, file, content, buffer, process, timer, run, debug, printed>>

-----------------------------------------------------------------------------
(***************************************************************************)
(* wasm_bench_execute.                                                     *)
(***************************************************************************)

(* Slip: the timer is only registered the first time.                      *)
RegisteredOnce == IF timer = None THEN bench ELSE timer

Registered == bench

Execute ==
  /\ pc = "host" /\ bench # None /\ run < MaxRuns
  /\ timer' = Registered
  /\ run' = run + 1
  /\ printed' = [s \in Streams |-> {}]
  /\ pc' = "load"
  /\ UNCHANGED <<bench, file, path, content, buffer, process, debug>>

(* benchmark.so is looked up relative to the working directory.            *)
Load ==
  /\ pc = "load"
  /\ pc' = "chdir"
  /\ UNCHANGED <<bench, file, path, content, buffer, process, timer, run, debug,
                 printed>>

(* No such library, or the current directory cannot be determined.         *)
LoadFails ==
  /\ pc \in {"load", "chdir"}
  /\ Fail
  /\ UNCHANGED <<bench, file, path, buffer, process, timer, run, debug, printed>>

LoadDies == pc \in {"load", "chdir"} /\ Die

(* Slip: the directory is noted after it was changed.                      *)
NotedLate == bench

NotedRoot == cwd

ChangeDir ==
  /\ pc = "chdir"
  /\ root' = NotedRoot
  /\ cwd' = bench
  /\ pc' = "reopen-stdout"
  /\ UNCHANGED <<bench, file, path, content, buffer, fd, duplicate, timer, run,
                 debug, printed>>

(* RedirectedStdio::new: flush, two dup, two dup2.                         *)
FlushBefore ==
  /\ pc = "flush"
  /\ FlushProcessStdio
  /\ pc' = "dup-stdout"
  /\ UNCHANGED <<bench, file, path, process, timer, run, debug, printed>>

Duplicate(s) ==
  /\ pc = IF s = "stdout" THEN "dup-stdout" ELSE "dup-stderr"
  /\ duplicate' = [duplicate EXCEPT ![s] = fd[s]]
  /\ pc' = IF s = "stdout" THEN "dup-stderr" ELSE "dup2-stdout"
  /\ UNCHANGED <<bench, file, path, content, buffer, fd, cwd, root, timer, run,
                 debug, printed>>

(* When the second dup fails the first duplicate stays open.               *)
DupFails ==
  /\ pc \in {"dup-stdout", "dup-stderr"}
  /\ Fail
  /\ UNCHANGED <<bench, file, path, buffer, process, timer, run, debug, printed>>

Redirect(s) ==
  /\ pc = IF s = "stdout" THEN "dup2-stdout" ELSE "dup2-stderr"
  /\ fd' = [fd EXCEPT ![s] = file[s]]
  /\ pc' = IF s = "stdout" THEN "dup2-stderr" ELSE "guest"
  /\ UNCHANGED <<bench, file, path, content, buffer, duplicate, cwd, root,
                 timer, run, debug, printed>>

(* Descriptor 1 is put back when the redirection of descriptor 2 fails,    *)
(* and the duplicates are closed.                                          *)
RedirectFails ==
  /\ pc \in {"dup2-stdout", "dup2-stderr"}
  /\ fd' = IF pc = "dup2-stdout" THEN fd
           ELSE [fd EXCEPT !["stdout"] = duplicate["stdout"]]
  /\ duplicate' = [s \in Streams |-> None]
  /\ Fail
  /\ UNCHANGED <<bench, file, path, buffer, cwd, root, timer, run, debug, printed>>

(* The benchmark: it prints, calls back, returns or crashes.               *)
GuestPrints(s) ==
  /\ pc = "guest"
  /\ Buffered(s, <<bench, run>>)
  /\ printed' = [printed EXCEPT ![s] = @ \union {<<bench, run>>}]
  /\ UNCHANGED <<pc, bench, file, path, content, process, timer, run, debug>>

(* bench_start and bench_end call execution_start and execution_end of the *)
(* runner, which log a message, with standard error redirected.            *)
Callback ==
  /\ pc = "guest" /\ debug
  /\ Unbuffered("stderr", Host)
  /\ printed' = [printed EXCEPT !["stderr"] = @ \union {Host}]
  /\ UNCHANGED <<pc, bench, file, path, buffer, process, timer, run, debug>>

GuestDies == pc = "guest" /\ Die

(* Slip: the duplicates are closed before they are used.                   *)
RestoredTooLate(s) == None

Restored(s) == duplicate[s]

(* The benchmark returns and RedirectedStdio is dropped.                   *)
RestoreStdio ==
  /\ pc = "guest"
  /\ FlushProcessStdio
  /\ fd' = [s \in Streams |-> Restored(s)]
  /\ duplicate' = [s \in Streams |-> None]
  /\ pc' = "reset"
  /\ UNCHANGED <<bench, file, path, cwd, root, timer, run, debug, printed>>

ResetDir ==
  /\ pc = "reset"
  /\ cwd' = root
  /\ pc' = "host"
  /\ UNCHANGED <<bench, file, path, content, buffer, fd, duplicate, root, timer,
                 run, debug, printed>>

ResetDies == pc = "reset" /\ Die

Exited == pc \in Gone /\ UNCHANGED vars

Next ==
  \/ \E b \in Benchmarks : Create(b)
  \/ \E s \in Streams :
       \/ HostPrints(s) \/ BufferFull(s) \/ FileCreated(s) \/ FileFails(s)
       \/ RemoveLog(s) \/ Duplicate(s) \/ Redirect(s) \/ GuestPrints(s)
  \/ Free \/ Execute \/ Load \/ LoadFails \/ LoadDies \/ ChangeDir
  \/ FlushBefore \/ DupFails \/ RedirectFails
  \/ Callback \/ GuestDies \/ RestoreStdio \/ ResetDir \/ ResetDies
  \/ Exited

Spec == Init /\ [][Next]_vars

-----------------------------------------------------------------------------
TypeOK ==
  /\ pc \in Gone \union
       {"host", "create-stdout", "create-stderr", "load", "chdir", "reopen-stdout",
        "reopen-stderr", "flush", "dup-stdout", "dup-stderr", "dup2-stdout",
        "dup2-stderr", "guest", "reset"}
  /\ bench \in Benchmarks \union {None}
  /\ pc \notin {"host", "failed", "aborted"} => bench # None
  /\ file \in [Streams -> Logs \union {None}]
  /\ path \in [Benchmarks -> [Streams -> Inodes \union {None}]]
  /\ content \in [Files -> SUBSET Writers]
  /\ buffer \in [Streams -> SUBSET Writers]
  /\ fd \in [Streams -> Files]
  /\ duplicate \in [Streams -> Terminals \union {None}]
  /\ cwd \in Benchmarks \union {"root"} /\ root \in Benchmarks \union {"root"}
  /\ timer \in Benchmarks \union {None}
  /\ run \in 0..MaxRuns
  /\ debug \in BOOLEAN
  /\ printed \in [Streams -> SUBSET Writers]

(* A benchmark runs in its own directory, prints to the files that the     *)
(* paths of its own logs lead to (not to ones unlinked since), and         *)
(* bench_start and bench_end reach its own timer, whichever benchmarks ran *)
(* before and whether or not their logs were kept.                         *)
GuestContext ==
  pc = "guest" =>
    /\ timer = bench
    /\ cwd = bench
    /\ \A s \in Streams : path[bench][s] # None /\ fd[s] = Log(bench, s, path[bench][s])

(* Whoever prints by a callback while standard error is redirected.        *)
CalledBack(s) ==
  IF s = "stderr" /\ (debug \/ pc = "aborted") THEN {Host} ELSE {}

(* What a benchmark prints never ends up in the output of the runner, in   *)
(* the log of another benchmark or in that of the other stream, and what   *)
(* the runner prints, results and errors included, in no log, although     *)
(* they share descriptors and buffers (flush_process_stdio,                *)
(* RedirectedStdio).  The exception: the callbacks' debug messages, and a  *)
(* measure's last words, are in the log of standard error.                 *)
OutputSeparated ==
  /\ \A s \in Streams : content[Terminal(s)] \subseteq {Host}
  /\ \A b \in Benchmarks, s \in Streams, inode \in Inodes :
       content[Log(b, s, inode)] \subseteq ({b} \X (1..MaxRuns)) \union CalledBack(s)

(* When an execution has returned, a log that was not removed holds what   *)
(* was printed to its stream in this execution, by the benchmark and by    *)
(* the callbacks, all of it, and nothing from before or after: the runner  *)
(* compares these logs with the expected output (so with debug messages it *)
(* compares these too).                                                    *)
LogExact ==
  pc = "host" /\ bench # None =>
    \A s \in Streams :
      path[bench][s] # None => content[Log(bench, s, path[bench][s])] = printed[s]

(* Back in the runner, descriptors and working directory are what they     *)
(* were and no duplicate is left open; descriptors are put back also when  *)
(* an error is returned, whose message the runner prints.                  *)
HostRestored ==
  /\ pc \in {"host", "load", "failed"} => \A s \in Streams : fd[s] = Terminal(s)
  /\ pc \in {"host", "load"} => cwd = "root" /\ \A s \in Streams : duplicate[s] = None

(***************************************************************************)
(* What the runner sees of all this: which call is in progress and, while  *)
(* none is, what the paths of the logs lead to.                            *)
(***************************************************************************)
Calling ==
  CASE pc = "host"                               -> "none"
    [] pc \in {"create-stdout", "create-stderr"} -> "create"
    [] pc \in Gone                               -> "failed"
    [] OTHER                                     -> "execute"

SeenLog(b, s) ==
  IF b = bench /\ pc # "host" THEN [is |-> "unknown", text |-> {}]
  ELSE IF path[b][s] = None THEN [is |-> "absent", text |-> {}]
  ELSE [is |-> "file", text |-> content[Log(b, s, path[b][s])]]

Engine == INSTANCE EngineLogs WITH
  engine <- bench, calling <- Calling,
  log <- [b \in Benchmarks |-> [s \in Streams |-> SeenLog(b, s)]]

(* The library is an engine as the runner expects it: creating it leaves   *)
(* two empty logs, a call that returns leaves exactly what was printed by  *)
(* the benchmark and the callbacks it called, and the logs of a benchmark  *)
(* that is done with do not change any more, whatever is printed and       *)
(* flushed later.                                                          *)
LogsAsExpected == Engine!Spec
=============================================================================
