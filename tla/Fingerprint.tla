----------------------------- MODULE Fingerprint -----------------------------
(***************************************************************************)
(* crates/fingerprint: what identifies an engine, a benchmark and a        *)
(* machine.  Each gets an ID made of a name and the first characters of a  *)
(* hash, so that different objects may share one.  Contents stand for      *)
(* themselves and for their whole hash.                                    *)
(***************************************************************************)
CONSTANTS
  slug,           \* slug[c]: the first characters of the hash of content c
  NoBuildInfo     \* no .build-info beside an engine

(* The name extract_value_from_buildinfo finds, or DEFAULT_NAME.           *)
NameOr(info) == IF info.name = "" THEN "custom" ELSE info.name

(* Engine::fingerprint.  When there is build information the library       *)
(* itself is not looked at.                                                *)
Engine(file) ==
  LET info == file.buildinfo
  IN  IF info = NoBuildInfo
      THEN [id |-> <<"custom", slug[file.library]>>,
            name |-> "", datetime |-> "", path |-> file.path, buildinfo |-> NoBuildInfo]
      ELSE [id |-> <<NameOr(info), slug[info.text]>>, name |-> info.name,
            datetime |-> info.datetime, path |-> file.path, buildinfo |-> info.text]

(* simplify_benchmark_path: what is above a directory called benchmarks is *)
(* cut off.                                                                *)
ShortPath(path) == IF path.below = "" THEN <<path.above>> ELSE <<path.below>>

(* Benchmark::fingerprint.                                                 *)
Benchmark(file) ==
  [id |-> <<file.name, slug[file.content]>>, name |-> file.name,
   path |-> ShortPath(file.path), hash |-> file.content]

(* Machine::fingerprint: the ID is hashed from all other properties.       *)
Machine(properties) == [id |-> <<slug[properties]>>, properties |-> properties]
=============================================================================
