------------------------------- MODULE MCGuest -------------------------------
(***************************************************************************)
(* Guest on the main functions of benchmarks of the repository, reduced to *)
(* the statements that matter: what is assigned, boxed and printed.        *)
(***************************************************************************)
EXTENDS Guest, SequencesExt

MCVars == {"n", "a", "r"}

Read(v)   == Libc({v}, {})
Puts(v)   == Libc({}, {v})
Message   == Libc({}, {})

(* benchmarks/noop                                                         *)
Noop == <<Message, bench_start, bench_end, Message>>

(* shootout/src/ackermann.c: the input is read, the result is printed.     *)
Ackermann ==
  <<Read("n"), Puts("n"), bench_start, Assign("r", {"n"}), bench_end, Puts("r")>>

(* shootout/src/fib2.c: the input is a constant, the result is boxed last. *)
Fib2(o) ==
  <<Assign("n", {}), Puts("n"), bench_start, Assign("r", {"n"}), bench_end,
    Puts("r"), BLACK_BOX("r", o)>>

(* shootout/src/random.c, two iterations of its loop: the input is boxed.  *)
Random(o) ==
  <<Assign("n", {}), Assign("a", {}), BLACK_BOX("n", o), bench_start,
    Assign("a", {"a", "n"}), Assign("r", {"a"}), bench_end, Puts("r"), BLACK_BOX("r", o)>>

(* shootout/src/keccak.c: the state is boxed before and after.             *)
Keccak(o) ==
  <<Assign("a", {}), BLACK_BOX("a", o), bench_start, Assign("a", {"a"}),
    Assign("a", {"a"}), bench_end, BLACK_BOX("a", o)>>

(* shootout/src/heapsort.c: everything is boxed between the two calls.     *)
Heapsort(o) ==
  <<Assign("n", {}), Read("a"), bench_start, BLACK_BOX("a", o), BLACK_BOX("n", o),
    Assign("a", {"a", "n"}), Assign("r", {"a", "n"}), BLACK_BOX("r", o), bench_end, Message>>

(* A benchmark with work around its kernel, all of it boxed.               *)
Around(o) ==
  <<Read("n"), Assign("a", {"n"}), BLACK_BOX("a", o), bench_start, Assign("r", {"a"}),
    BLACK_BOX("r", o), bench_end, Assign("n", {"r"}), Puts("n")>>

(* Without a bench_end, not even one it never gets to: rejected by the     *)
(* validate command.                                                       *)
Endless(o) == <<Read("n"), bench_start, Assign("r", {"n"}), BLACK_BOX("r", o)>>

(* Every benchmark of up to MaxAround statements besides the two calls.    *)
MaxAround == 3

Others ==
  {Assign("n", {}), Assign("r", {"n"}), Assign("n", {"r"}), Puts("r"),
   BLACK_BOX("n", FALSE), BLACK_BOX("r", FALSE)}

Marked(before, kernel, after) == before \o <<bench_start>> \o kernel \o <<bench_end>> \o after

Small ==
  {Marked(SubSeq(q, 1, i), SubSeq(q, i + 1, j), SubSeq(q, j + 1, Len(q)))
     : <<q, i, j>> \in {<<q, i, j>> \in BoundedSeq(Others, MaxAround) \X (0..MaxAround) \X (0..MaxAround)
                         : i <= j /\ j <= Len(q)}}

MCPrograms ==
  {Noop, Ackermann} \union Small
    \union UNION {{Fib2(o), Random(o), Keccak(o), Heapsort(o), Around(o), Endless(o)}
                    : o \in BOOLEAN}
=============================================================================
