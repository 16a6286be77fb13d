------------------------------- MODULE Upload --------------------------------
(***************************************************************************)
(* `sightglass-cli upload-elastic`: crates/upload.  An uploader packages   *)
(* its measurements with the fingerprints of the engines, benchmarks and   *)
(* machine they came from, finds or creates a document for each of those,  *)
(* and then stores the measurements in batches, each referring to the      *)
(* documents by their IDs.  A dry run only emits the package, which may be *)
(* uploaded from elsewhere.  An upload that failed can be started again,   *)
(* and several people upload to the same database.                         *)
(*                                                                         *)
(* The database is ElasticSearch, modelled by what the requests of         *)
(* database.rs ask of it: GET answers with the document of an ID, POST     *)
(* stores one under an ID whether or not there is one already, and a bulk  *)
(* request adds documents.  One action is one request.                     *)
(***************************************************************************)
EXTENDS Naturals, Sequences, FiniteSets, Bags, Fingerprint

CONSTANTS
  Uploaders,      \* people or machines that upload
  Measured,       \* Measured[u]: the measurements of u, each an engine and a wasm path
  Files,          \* Files[u]: the engines, the benchmarks and the machine u finds
  Commands,       \* Commands[u]: the flags with which u runs the command, time after time
  BatchSize,      \* BatchSize[u]: the --batch-size of u
  NumRetries,     \* NUM_RETRIES
  NoItem          \* no fingerprint is being registered

Indices == {"engines", "benchmarks", "machines"}

Flags == {"--from-package", "--dry-run"}

ASSUME UploadAssumption ==
  /\ IsFiniteSet(Uploaders)
  /\ \A u \in Uploaders : Measured[u] \in Seq([engine : STRING, wasm : STRING])
  /\ BatchSize \in [Uploaders -> Nat \ {0}] /\ NumRetries \in Nat \ {0}
  /\ \A u \in Uploaders : Commands[u] \in Seq(SUBSET Flags)

VARIABLES
  docs,           \* documents of the database: index, ID and `!`s to fingerprint
  stored,         \* the `measurements` index, as a bag
  refused,        \* history: measurements refused in bulk requests that succeeded
  disturbed,      \* history: uploads met that fight over an ID, or a GET hid another object
  saved,          \* whose packages dry runs have emitted
  pc,             \* control point of each uploader
  attempt,        \* how often it has run the command
  package,        \* whose package it is uploading
  todo,           \* fingerprints it has yet to register
  item,           \* the fingerprint it is registering
  bangs,          \* the `!`s appended to the ID of that fingerprint
  ids,            \* the IDs its fingerprints were registered under
  sent            \* measurements it has sent

uploader == <<pc, attempt, package, todo, item, bangs, ids, sent>>
vars == <<docs, stored, refused, disturbed, saved, uploader>>

-----------------------------------------------------------------------------
(* package(): each engine and benchmark of the measurements once, and the  *)
(* machine.                                                                *)
Items(o) ==
  {<<"engines", Measured[o][k].engine>> : k \in DOMAIN Measured[o]}
    \union {<<"benchmarks", Measured[o][k].wasm>> : k \in DOMAIN Measured[o]}
    \union {<<"machines", "this">>}

(* An engine that was renamed with --name has no path that leads to it.    *)
CanPackage(o) ==
  \A it \in Items(o) : it[1] # "machines" => it[2] \in DOMAIN Files[o][it[1]]

FingerprintOf(o, it) ==
  CASE it[1] = "engines"    -> Engine(Files[o].engines[it[2]])
    [] it[1] = "benchmarks" -> Benchmark(Files[o].benchmarks[it[2]])
    [] it[1] = "machines"   -> Machine(Files[o].machine)

(* The fingerprints of every package that can be made.                     *)
Packages == {o \in Uploaders : CanPackage(o)}

Packaged == [o \in Packages |-> [it \in Items(o) |-> FingerprintOf(o, it)]]

(* The packages that u can upload with these flags.                        *)
Ready(u, flags) == IF "--from-package" \in flags THEN saved ELSE {u} \intersect Packages

(* u runs the command with --dry-run.                                      *)
DryRun(u) == "--dry-run" \in Commands[u][attempt[u]]

(* Packages in which nothing has the ID of something else in the other.    *)
Compatible ==
  {pair \in Packages \X Packages :
     \A it \in Items(pair[1]), jt \in Items(pair[2]) :
        it[1] = jt[1] /\ Packaged[pair[1]][it].id = Packaged[pair[2]][jt].id
          => Packaged[pair[1]][it] = Packaged[pair[2]][jt]}

(* Starting to upload o meets somebody whose package gives one of the IDs  *)
(* to something else.                                                      *)
Clash(o) ==
  \E v \in Uploaders :
    pc[v] \notin {"idle", "done", "failed"} /\ ~DryRun(v) /\ <<o, package[v]>> \notin Compatible

(* Engines are registered first, then benchmarks, then the machine, the    *)
(* entries of a hash map in any order.                                     *)
NextItems(items) ==
  CASE \E it \in items : it[1] = "engines"    -> {it \in items : it[1] = "engines"}
    [] \A it \in items : it[1] = "machines"   -> items
    [] OTHER -> {it \in items : it[1] = "benchmarks"}

(* Slip: the entries of the map are not consumed.                          *)
SameAgain(u, it) == todo[u]

Remaining(u, it) == todo[u] \ {it}

DocId(u) == <<item[u][1], Packaged[package[u]][item[u]].id, bangs[u]>>

(* Slip: the document is created under the ID without its `!`s.            *)
PlainId(u) == <<item[u][1], Packaged[package[u]][item[u]].id, 0>>

PostedId(u) == DocId(u)

(* Slips: fingerprints are compared by their ID, or never found equal.     *)
SameId(f, g) == f.id = g.id
NeverSame(f, g) == FALSE

(* PartialEq of Engine, Benchmark and Machine.                             *)
SameFingerprint(f, g) == f = g

(* Slip: one `!` more than there are tries.                                *)
RetriesLate(n) == n > NumRetries

RetriesExhausted(n) == n >= NumRetries

(* UploadMeasurement::map_and_convert for the k-th measurement.            *)
Converted(u, k) ==
  LET m == Measured[package[u]][k]
  IN  [by |-> u, attempt |-> attempt[u], of |-> package[u], measurement |-> k,
       engine    |-> ids[u][<<"engines", m.engine>>],
       benchmark |-> ids[u][<<"benchmarks", m.wasm>>],
       machine   |-> ids[u][<<"machines", "this">>]]

(* Slip: only whole batches are sent.                                      *)
WholeBatchLeft(u) == sent[u] + BatchSize[u] <= Len(Measured[package[u]])

BatchLeft(u) == sent[u] < Len(Measured[package[u]])

Batch(u) ==
  {k \in DOMAIN Measured[package[u]] : sent[u] < k /\ k <= sent[u] + BatchSize[u]}

Put(id, f) == [d \in DOMAIN docs \union {id} |-> IF d = id THEN f ELSE docs[d]]

-----------------------------------------------------------------------------
Idle(u) == pc[u] \in {"idle", "done", "failed"}

Init ==
  /\ docs = <<>>
  /\ stored = EmptyBag
  /\ refused = EmptyBag
  /\ disturbed = FALSE
  /\ saved = {}
  /\ pc = [u \in Uploaders |-> "idle"]
  /\ attempt = [u \in Uploaders |-> 0]
  /\ package = [u \in Uploaders |-> u]
  /\ todo = [u \in Uploaders |-> {}]
  /\ item = [u \in Uploaders |-> NoItem]
  /\ bangs = [u \in Uploaders |-> 0]
  /\ ids = [u \in Uploaders |-> <<>>]
  /\ sent = [u \in Uploaders |-> 0]

(* The command is run, for the first time or again.  A dry run writes its *)
(* package out before it goes on.                                          *)
Start(u) ==
  /\ Idle(u) /\ attempt[u] < Len(Commands[u])
  /\ LET flags == Commands[u][attempt[u] + 1]
     IN  \E o \in Ready(u, flags) :
           /\ package' = [package EXCEPT ![u] = o]
           /\ todo' = [todo EXCEPT ![u] = Items(o)]
           /\ saved' = IF flags = {"--dry-run"} THEN saved \union {o} ELSE saved
           /\ disturbed' = (disturbed \/ ("--dry-run" \notin flags /\ Clash(o)))
  /\ pc' = [pc EXCEPT ![u] = "next"]
  /\ attempt' = [attempt EXCEPT ![u] = @ + 1]
  /\ UNCHANGED <<docs, stored, refused, item, bangs, ids, sent>>

(* A file cannot be found, or there is no package to read.                 *)
StartFails(u) ==
  /\ Idle(u) /\ attempt[u] < Len(Commands[u])
  /\ Ready(u, Commands[u][attempt[u] + 1]) = {}
  /\ pc' = [pc EXCEPT ![u] = "failed"]
  /\ attempt' = [attempt EXCEPT ![u] = @ + 1]
  /\ UNCHANGED <<docs, stored, refused, disturbed, saved, package, todo, item, bangs, ids, sent>>

(* The next call of create_if_not_exists.                                  *)
NextFingerprint(u) ==
  /\ pc[u] = "next" /\ todo[u] # {}
  /\ \E it \in NextItems(todo[u]) :
       /\ item' = [item EXCEPT ![u] = it]
       /\ todo' = [todo EXCEPT ![u] = Remaining(u, it)]
  /\ bangs' = [bangs EXCEPT ![u] = 0]
  /\ pc' = [pc EXCEPT ![u] = "get"]
  /\ UNCHANGED <<docs, stored, refused, disturbed, saved, attempt, package, ids, sent>>

Register(u, id) ==
  /\ ids' = [ids EXCEPT ![u] =
       [it \in DOMAIN @ \union {item[u]} |-> IF it = item[u] THEN id ELSE @[it]]]
  /\ item' = [item EXCEPT ![u] = NoItem]
  /\ bangs' = [bangs EXCEPT ![u] = 0]
  /\ pc' = [pc EXCEPT ![u] = "next"]
  /\ UNCHANGED <<saved, attempt, package, todo, sent>>

(* Nothing of an attempt outlives it.                                      *)
End(u, outcome) ==
  /\ pc' = [pc EXCEPT ![u] = outcome]
  /\ todo' = [todo EXCEPT ![u] = {}]
  /\ item' = [item EXCEPT ![u] = NoItem]
  /\ bangs' = [bangs EXCEPT ![u] = 0]
  /\ ids' = [ids EXCEPT ![u] = <<>>]
  /\ sent' = [sent EXCEPT ![u] = 0]
  /\ UNCHANGED <<saved, attempt, package>>

Getting(u) == pc[u] = "get" /\ ~DryRun(u)

Stored(u) == DocId(u) \in DOMAIN docs

(* Case 2: the same object is there already.  This case and the next need  *)
(* a reply that is the bare document, as `get` parses it; a server whose   *)
(* replies are not has GetError only.                                      *)
GetSame(u) ==
  /\ Getting(u) /\ Stored(u)
  /\ SameFingerprint(Packaged[package[u]][item[u]], docs[DocId(u)])
  /\ Register(u, DocId(u))
  /\ UNCHANGED <<docs, stored, refused, disturbed>>

(* Case 3: another object has the ID; one more `!`, up to NUM_RETRIES.     *)
GetOther(u) ==
  /\ Getting(u) /\ Stored(u)
  /\ ~SameFingerprint(Packaged[package[u]][item[u]], docs[DocId(u)])
  /\ IF RetriesExhausted(bangs[u] + 1)
       THEN End(u, "failed")
       ELSE /\ bangs' = [bangs EXCEPT ![u] = @ + 1]
            /\ UNCHANGED <<saved, pc, attempt, package, todo, item, ids, sent>>
  /\ UNCHANGED <<docs, stored, refused, disturbed>>

(* Slip: an error is taken for the same object.                            *)
ErrorTakenForSame(u) ==
  /\ pc[u] = "get"
  /\ Register(u, DocId(u))
  /\ UNCHANGED <<docs, stored, refused, disturbed>>

(* Case 1: any error of `get` counts as a missing object: the one that it   *)
(* returns in a dry run, a lost request, and a reply that does not parse,  *)
(* such as the Get API's, which has the document in its `_source`.         *)
GetError(u) ==
  /\ pc[u] = "get"
  /\ pc' = [pc EXCEPT ![u] = "post"]
  /\ disturbed' = (disturbed \/ (Getting(u) /\ Stored(u)
                     /\ docs[DocId(u)] # Packaged[package[u]][item[u]]))
  /\ UNCHANGED <<docs, stored, refused, saved, attempt, package, todo, item, bangs, ids, sent>>

Post(u) ==
  /\ pc[u] = "post"
  /\ docs' = IF DryRun(u) THEN docs ELSE Put(PostedId(u), Packaged[package[u]][item[u]])
  /\ Register(u, PostedId(u))
  /\ UNCHANGED <<stored, refused, disturbed>>

(* The request or its reply is lost, or the database refuses it.           *)
PostFails(u) ==
  /\ pc[u] = "post" /\ ~DryRun(u)
  /\ docs' \in {docs, Put(PostedId(u), Packaged[package[u]][item[u]])}
  /\ End(u, "failed")
  /\ UNCHANGED <<stored, refused, disturbed>>

AllRegistered(u) ==
  /\ pc[u] = "next" /\ todo[u] = {}
  /\ pc' = [pc EXCEPT ![u] = "batch"]
  /\ UNCHANGED <<docs, stored, refused, disturbed, saved, attempt, package, todo, item, bangs, ids, sent>>

(* The k-th measurements, for the k in part, as a bag of rows.             *)
Rows(u, part) == SetToBag({Converted(u, k) : k \in part})

(* The bulk request succeeds whatever became of its single items.          *)
SendBatch(u) ==
  /\ pc[u] = "batch" /\ BatchLeft(u)
  /\ IF DryRun(u) THEN UNCHANGED <<stored, refused>>
       ELSE \E part \in SUBSET Batch(u) :
              /\ stored' = stored (+) Rows(u, part)
              /\ refused' = refused (+) Rows(u, Batch(u) \ part)
  /\ sent' = [sent EXCEPT ![u] = @ + BatchSize[u]]
  /\ UNCHANGED <<docs, disturbed, saved, pc, attempt, package, todo, item, bangs, ids>>

(* Any part of the batch may have been stored.                             *)
BatchFails(u) ==
  /\ pc[u] = "batch" /\ BatchLeft(u) /\ ~DryRun(u)
  /\ \E part \in SUBSET Batch(u) : stored' = stored (+) Rows(u, part)
  /\ End(u, "failed")
  /\ UNCHANGED <<docs, refused, disturbed>>

Finish(u) ==
  /\ pc[u] = "batch" /\ ~BatchLeft(u)
  /\ End(u, "done")
  /\ UNCHANGED <<docs, stored, refused, disturbed>>

(* A request is answered or runs into the time-out of its client, so that  *)
(* a command that was started goes on.                                     *)
Working(u) ==
  \/ NextFingerprint(u)
  \/ GetSame(u) \/ GetOther(u) \/ GetError(u) \/ Post(u) \/ PostFails(u)
  \/ AllRegistered(u) \/ SendBatch(u) \/ BatchFails(u) \/ Finish(u)

Next == \E u \in Uploaders : Start(u) \/ StartFails(u) \/ Working(u)

Spec == Init /\ [][Next]_vars /\ \A u \in Uploaders : WF_vars(Working(u))

-----------------------------------------------------------------------------
TypeOK ==
  /\ \A d \in DOMAIN docs : d[1] \in Indices /\ d[3] \in 0..(NumRetries - 1)
                            /\ docs[d].id = d[2]
  /\ IsABag(stored) /\ IsABag(refused) /\ disturbed \in BOOLEAN
  /\ saved \subseteq Packages
  /\ pc \in [Uploaders -> {"idle", "next", "get", "post", "batch", "done", "failed"}]
  /\ \A u \in Uploaders :
       /\ attempt[u] \in 0..Len(Commands[u])
       /\ package[u] \in Uploaders
       /\ ~Idle(u) => package[u] \in Packages
       /\ todo[u] \subseteq Items(package[u])
       /\ IF pc[u] \in {"get", "post"} THEN item[u] \in Items(package[u]) ELSE item[u] = NoItem
       /\ bangs[u] \in 0..(NumRetries - 1)
       /\ DOMAIN ids[u] \subseteq Items(package[u])
       /\ sent[u] \in Nat

(* Unless uploads that fight over an ID met or a GET hid another object,   *)
(* every measurement in the database refers to documents that hold the     *)
(* fingerprints of the engine, benchmark and machine that it was packaged  *)
(* with.                                                                   *)
ReferencesDescribe ==
  ~disturbed =>
    \A r \in DOMAIN stored :
      LET m == Measured[r.of][r.measurement]
      IN  /\ {r.engine, r.benchmark, r.machine} \subseteq DOMAIN docs
          /\ docs[r.engine] = Packaged[r.of][<<"engines", m.engine>>]
          /\ docs[r.benchmark] = Packaged[r.of][<<"benchmarks", m.wasm>>]
          /\ docs[r.machine] = Packaged[r.of][<<"machines", "this">>]

(* Every object that can be packaged, with its index.                      *)
Objects == UNION {{<<it[1], Packaged[o][it]>> : it \in Items(o)} : o \in Packages}

(* The IDs that several of them have.                                      *)
Shared ==
  {<<x[1], x[2].id>> : x \in {x \in Objects :
     \E y \in Objects : y # x /\ y[1] = x[1] /\ y[2].id = x[2].id}}

(* What one can rely on in a document: its ID, and all of the object when  *)
(* no other has that ID.                                                   *)
Seen(index, f) == [id |-> f.id, object |-> IF <<index, f.id>> \in Shared THEN NoItem ELSE f]

(* The k-th measurement of a package as it was packaged.                   *)
Description(o, k) ==
  [of |-> o, number |-> k,
   engine    |-> Seen("engines", Packaged[o][<<"engines", Measured[o][k].engine>>]),
   benchmark |-> Seen("benchmarks", Packaged[o][<<"benchmarks", Measured[o][k].wasm>>]),
   machine   |-> Seen("machines", Packaged[o][<<"machines", "this">>])]

(* What one finds in the database for a stored measurement.                *)
Found(index, d) == IF d \in DOMAIN docs THEN Seen(index, docs[d]) ELSE NoItem

Resolved(r) ==
  [attempt |-> <<r.by, r.attempt>>,
   measurement |-> [of |-> r.of, number |-> r.measurement,
                    engine    |-> Found("engines", r.engine),
                    benchmark |-> Found("benchmarks", r.benchmark),
                    machine   |-> Found("machines", r.machine)]]

Descriptions == [o \in Packages |-> {Description(o, k) : k \in DOMAIN Measured[o]}]

Catalogued ==
  INSTANCE Catalog WITH
    Packages <- Packages,
    Attempts <- UNION {{u} \X DOMAIN Commands[u] : u \in Uploaders},
    Described <- Descriptions,
    catalog <- {Resolved(r) : r \in DOMAIN stored}

(* The database is a catalog, whichever uploads overlap and whichever      *)
(* requests fail: a measurement that was stored is described as it was     *)
(* packaged, as far as IDs tell objects apart, and no later upload, of the *)
(* same package or of another, complete or not, takes it away or changes   *)
(* what it refers to.                                                      *)
KeepsCatalog == Catalogued!Spec

(* A fingerprint has one document, also after a failed upload is repeated  *)
(* ("we do not want multiple records for the same machine").  Only one     *)
(* whose ID others have can get a second, and only when uploads that fight *)
(* over an ID met or a GET hid another object.                             *)
OneDocumentPerObject ==
  \A d, e \in DOMAIN docs :
    /\ d[1] = e[1] /\ docs[d] = docs[e]
    /\ ~disturbed \/ <<d[1], d[2]>> \notin Shared
    => d = e

(* Each measurement of a successful upload was either stored or refused,   *)
(* and that once: none is left out, sent twice or counted to another       *)
(* attempt.  A dry run stores none.                                        *)
UploadExact ==
  \A u \in Uploaders :
    LET answered == stored (+) refused
        mine == {r \in DOMAIN answered : r.by = u /\ r.attempt = attempt[u]}
    IN  pc[u] = "done" =>
          IF DryRun(u) THEN mine = {}
          ELSE /\ {r.measurement : r \in mine} = DOMAIN Measured[package[u]]
               /\ \A k \in DOMAIN Measured[package[u]] :
                    \E r \in mine : answered[r] = 1 /\ {q \in mine : q.measurement = k} = {r}

(* A document is never replaced: an ID in use by another object is left    *)
(* alone and "a `!` is appended to the ID" (cases 2 and 3 of               *)
(* create_if_not_exists).                                                  *)
NoOverwrite ==
  [][\A d \in DOMAIN docs : d \in DOMAIN docs' /\ docs'[d] = docs[d]]_docs

(* What is so of NoOverwrite: a document is replaced only after uploads    *)
(* that fight over an ID met, or a GET hid another object.                 *)
NoOverwriteUndisturbed ==
  [][~disturbed' => \A d \in DOMAIN docs : d \in DOMAIN docs' /\ docs'[d] = docs[d]]_docs

(* A command that was started comes to its end: no fingerprint, retry or   *)
(* batch is gone through for ever.                                         *)
UploadEnds == \A u \in Uploaders : (pc[u] = "next") ~> Idle(u)
=============================================================================
