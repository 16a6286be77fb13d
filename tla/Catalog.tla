------------------------------- MODULE Catalog -------------------------------
(***************************************************************************)
(* What uploading measurements promises: a catalog that only grows, in     *)
(* which each measurement is described by the engine, the benchmark and    *)
(* the machine of the package it came from, for good.                      *)
(***************************************************************************)
CONSTANTS
  Packages,       \* packages of measurements
  Attempts,       \* attempts to upload one
  Described       \* Described[p]: the measurements of p with their descriptions

VARIABLE catalog  \* the attempts and the measurements that they added

Init == catalog = {}

(* An attempt adds measurements of one package and takes none away.        *)
Add(p, a) ==
  /\ catalog \subseteq catalog'
  /\ catalog' \ catalog \subseteq [attempt : {a}, measurement : Described[p]]

Next == \E p \in Packages, a \in Attempts : Add(p, a)

Spec == Init /\ [][Next]_catalog
=============================================================================
