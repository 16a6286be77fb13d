---------------------------- MODULE UploadProofs -----------------------------
(***************************************************************************)
(* Proofs about Upload, for any uploaders, packages, batch size and number *)
(* of retries, in every interleaving of uploads and whichever requests     *)
(* fail.                                                                   *)
(***************************************************************************)
EXTENDS Upload, TLAPS

-----------------------------------------------------------------------------
(***************************************************************************)
(* Who changes what.                                                       *)
(***************************************************************************)
Domains ==
  /\ pc \in [Uploaders -> {"idle", "next", "get", "post", "batch", "done", "failed"}]
  /\ DOMAIN attempt = Uploaders /\ DOMAIN package = Uploaders /\ DOMAIN todo = Uploaders
  /\ DOMAIN item = Uploaders /\ DOMAIN bangs = Uploaders /\ DOMAIN ids = Uploaders
  /\ DOMAIN sent = Uploaders

Acts(u) == Start(u) \/ StartFails(u) \/ Working(u)

Posting(u) ==
  pc[u] = "post" /\ ~DryRun(u) /\ docs' = Put(DocId(u), Packaged[package[u]][item[u]])

Sending(u) ==
  /\ pc[u] = "batch" /\ ~DryRun(u)
  /\ \E part, rest \in SUBSET Batch(u) :
       /\ part \intersect rest = {}
       /\ stored' = stored (+) Rows(u, part)
       /\ refused' = refused (+) Rows(u, rest)

LEMMA DomainsKept ==
  ASSUME Domains, [Next]_vars
  PROVE  Domains'
<1>1. CASE UNCHANGED vars
  BY <1>1 DEF Domains, vars, uploader
<1>2. CASE Next
  <2>1. PICK u \in Uploaders : Acts(u)
    BY <1>2 DEF Next, Acts
  <2>2. CASE Start(u) \/ StartFails(u)
    BY <2>2 DEF Start, StartFails, Domains
  <2>3. CASE Working(u)
    BY <2>3 DEF Working, NextFingerprint, GetSame, GetOther, GetError, Post, PostFails,
                AllRegistered, SendBatch, BatchFails, Finish, Register, End, Domains
  <2>4. QED
    BY <2>1, <2>2, <2>3 DEF Acts
<1>3. QED
  BY <1>1, <1>2

(* An uploader's own state is changed by nobody else.                      *)
LEMMA OthersKept ==
  ASSUME Domains, NEW u \in Uploaders, Acts(u), NEW v \in Uploaders, v # u
  PROVE  /\ pc'[v] = pc[v] /\ attempt'[v] = attempt[v] /\ package'[v] = package[v]
         /\ todo'[v] = todo[v] /\ item'[v] = item[v] /\ bangs'[v] = bangs[v]
         /\ ids'[v] = ids[v] /\ sent'[v] = sent[v] /\ (DryRun(v)' <=> DryRun(v))
<1>0. attempt'[v] = attempt[v] => (DryRun(v)' <=> DryRun(v))
  BY DEF DryRun
<1>1. CASE Start(u) \/ StartFails(u)
  BY <1>0, <1>1 DEF Start, StartFails, Domains
<1>2. CASE Working(u)
  BY <1>0, <1>2 DEF Working, NextFingerprint, GetSame, GetOther, GetError, Post, PostFails,
              AllRegistered, SendBatch, BatchFails, Finish, Register, End, Domains
<1>3. QED
  BY <1>1, <1>2 DEF Acts

(* What is known of the history is not forgotten.                          *)
LEMMA DisturbedKept ==
  ASSUME disturbed \in BOOLEAN, NEW u \in Uploaders, Acts(u)
  PROVE  /\ disturbed' \in BOOLEAN /\ (disturbed => disturbed')
         /\ disturbed' = disturbed \/ Start(u) \/ GetError(u)
BY DEF Acts, Working, Start, StartFails, NextFingerprint, GetSame, GetOther, GetError, Post,
       PostFails, AllRegistered, SendBatch, BatchFails, Finish

LEMMA BagsAddNothing ==
  ASSUME NEW B, IsABag(B), NEW u
  PROVE  B (+) Rows(u, {}) = B
<1>1. Rows(u, {}) = [e \in {} |-> 1]
  BY DEF Rows, SetToBag
<1>2. B (+) [e \in {} |-> 1] = [e \in DOMAIN B |-> B[e]]
  BY DEF IsABag, BagToSet, (+)
<1>3. B = [e \in DOMAIN B |-> B[e]]
  BY DEF IsABag
<1>4. QED
  BY <1>1, <1>2, <1>3

(* Documents are only created by posting, and measurements stored by       *)
(* sending a batch, never both in one step.                                *)
LEMMA DatabaseSteps ==
  ASSUME IsABag(refused), NEW u \in Uploaders, Acts(u)
  PROVE  /\ UNCHANGED docs \/ (Posting(u) /\ UNCHANGED <<stored, refused>>)
         /\ UNCHANGED <<stored, refused>> \/ (Sending(u) /\ UNCHANGED docs)
<1>1. CASE Start(u) \/ StartFails(u)
  BY <1>1 DEF Start, StartFails
<1>2. CASE NextFingerprint(u) \/ GetSame(u) \/ GetOther(u) \/ GetError(u) \/ AllRegistered(u)
           \/ Finish(u)
  BY <1>2 DEF NextFingerprint, GetSame, GetOther, GetError, AllRegistered, Finish
<1>3. CASE Post(u) \/ PostFails(u)
  BY <1>3 DEF Post, PostFails, Posting, PostedId
<1>4. CASE SendBatch(u)
  <2>1. CASE DryRun(u)
    BY <1>4, <2>1 DEF SendBatch
  <2>2. CASE ~DryRun(u)
    <3>1. PICK part \in SUBSET Batch(u) : /\ stored' = stored (+) Rows(u, part)
                                         /\ refused' = refused (+) Rows(u, Batch(u) \ part)
      BY <1>4, <2>2 DEF SendBatch
    <3>2. part \intersect (Batch(u) \ part) = {} /\ Batch(u) \ part \in SUBSET Batch(u)
      OBVIOUS
    <3>3. QED
      BY <1>4, <2>2, <3>1, <3>2 DEF SendBatch, Sending
  <2>3. QED
    BY <2>1, <2>2
<1>5. CASE BatchFails(u)
  <2>1. PICK part \in SUBSET Batch(u) : stored' = stored (+) Rows(u, part)
    BY <1>5 DEF BatchFails
  <2>2. refused' = refused (+) Rows(u, {})
    BY <1>5, BagsAddNothing DEF BatchFails
  <2>3. {} \in SUBSET Batch(u) /\ part \intersect {} = {}
    OBVIOUS
  <2>4. QED
    BY <1>5, <2>1, <2>2, <2>3 DEF BatchFails, Sending
<1>6. QED
  BY <1>1, <1>2, <1>3, <1>4, <1>5 DEF Acts, Working

-----------------------------------------------------------------------------
(***************************************************************************)
(* Type correctness.                                                       *)
(***************************************************************************)
LocalOK(u) ==
  /\ attempt[u] \in 0..Len(Commands[u]) /\ (~Idle(u) => attempt[u] # 0)
  /\ package[u] \in Uploaders
  /\ ~Idle(u) => package[u] \in Packages
  /\ todo[u] \subseteq Items(package[u])
  /\ IF pc[u] \in {"get", "post"} THEN item[u] \in Items(package[u]) ELSE item[u] = NoItem
  /\ bangs[u] \in 0..(NumRetries - 1)
  /\ DOMAIN ids[u] \subseteq Items(package[u])
  /\ sent[u] \in Nat
  /\ pc[u] \notin {"get", "post"} => bangs[u] = 0
  /\ pc[u] # "batch" => sent[u] = 0
  /\ Idle(u) => todo[u] = {} /\ ids[u] = <<>>

DocsOK ==
  \A d \in DOMAIN docs :
     /\ d = <<d[1], d[2], d[3]>>
     /\ d[1] \in Indices /\ d[3] \in 0..(NumRetries - 1)
     /\ docs[d].id = d[2]

TypeInv ==
  /\ Domains
  /\ DocsOK
  /\ IsABag(stored) /\ IsABag(refused) /\ disturbed \in BOOLEAN
  /\ saved \subseteq Packages
  /\ \A u \in Uploaders : LocalOK(u)

LEMMA ItemIndex ==
  ASSUME NEW o, NEW it \in Items(o)
  PROVE  it[1] \in Indices
BY DEF Items, Indices

LEMMA ReadySound ==
  ASSUME TypeInv, NEW u \in Uploaders, NEW flags, NEW o \in Ready(u, flags)
  PROVE  o \in Packages /\ o \in Uploaders
BY DEF TypeInv, Ready, Packages

LEMMA SavedKept ==
  ASSUME TypeInv, NEW u \in Uploaders, Acts(u)
  PROVE  (saved \subseteq Packages)'
<1>1. CASE Start(u)
  <2>1. PICK o \in Ready(u, Commands[u][attempt[u] + 1]) : saved' \in {saved, saved \union {o}}
    BY <1>1 DEF Start
  <2>2. o \in Packages
    BY ReadySound
  <2>3. Packages' = Packages
    BY DEF Packages, CanPackage, Items
  <2>4. QED
    BY <2>1, <2>2, <2>3 DEF TypeInv
<1>2. CASE StartFails(u) \/ Working(u)
  <2>1. saved' = saved
    BY <1>2 DEF StartFails, Working, NextFingerprint, GetSame, GetOther, GetError, Post, PostFails,
                AllRegistered, SendBatch, BatchFails, Finish, Register, End
  <2>2. QED
    BY <2>1 DEF TypeInv, Packages, CanPackage, Items
<1>3. QED
  BY <1>1, <1>2 DEF Acts

(* The acting uploader's own state.                                        *)
LEMMA OwnTypes ==
  ASSUME TypeInv, NEW u \in Uploaders, Acts(u)
  PROVE  LocalOK(u)'
<1> USE DEF Domains
<1>0. Domains /\ LocalOK(u) /\ Len(Commands[u]) \in Nat /\ NumRetries \in Nat \ {0}
      /\ BatchSize[u] \in Nat
  BY UploadAssumption DEF TypeInv
<1>1. CASE Start(u)
  <2>1. PICK o \in Ready(u, Commands[u][attempt[u] + 1]) :
           /\ package' = [package EXCEPT ![u] = o] /\ todo' = [todo EXCEPT ![u] = Items(o)]
    BY <1>1 DEF Start
  <2>2. o \in Packages /\ o \in Uploaders
    BY ReadySound
  <2>3. QED
    BY <1>0, <1>1, <2>1, <2>2 DEF Start, LocalOK, Idle
<1>2. CASE StartFails(u)
  BY <1>0, <1>2 DEF StartFails, LocalOK, Idle
<1>3. CASE NextFingerprint(u)
  <2>1. PICK it \in NextItems(todo[u]) : /\ item' = [item EXCEPT ![u] = it]
                                        /\ todo' = [todo EXCEPT ![u] = Remaining(u, it)]
    BY <1>3 DEF NextFingerprint
  <2>2. it \in todo[u]
    BY DEF NextItems
  <2>3. QED
    BY <1>0, <1>3, <2>1, <2>2 DEF NextFingerprint, Remaining, LocalOK, Idle
<1>4. CASE GetSame(u) \/ Post(u)
  <2>1. PICK id : Register(u, id)
    BY <1>4 DEF GetSame, Post
  <2>2. pc[u] \in {"get", "post"}
    BY <1>4 DEF GetSame, Post, Getting
  <2>3. DOMAIN ids'[u] = DOMAIN ids[u] \union {item[u]}
    BY <1>0, <2>1 DEF Register
  <2>4. QED
    BY <1>0, <2>1, <2>2, <2>3 DEF Register, LocalOK, Idle
<1>5. CASE GetError(u) \/ AllRegistered(u) \/ SendBatch(u)
  BY <1>0, <1>5 DEF GetError, AllRegistered, SendBatch, LocalOK, Idle
<1>6. CASE GetOther(u) /\ ~RetriesExhausted(bangs[u] + 1)
  BY <1>0, <1>6 DEF GetOther, Getting, RetriesExhausted, LocalOK, Idle
<1>7. ASSUME NEW outcome \in {"done", "failed"}, End(u, outcome), ~Idle(u)
      PROVE  LocalOK(u)'
  BY <1>0, <1>7 DEF End, LocalOK, Idle
<1>8. CASE PostFails(u) \/ BatchFails(u) \/ Finish(u) \/ (GetOther(u) /\ RetriesExhausted(bangs[u] + 1))
  BY <1>7, <1>8 DEF PostFails, BatchFails, Finish, GetOther, Getting, Idle
<1>9. QED
  BY <1>1, <1>2, <1>3, <1>4, <1>5, <1>6, <1>8 DEF Acts, Working

LEMMA DocsTypes ==
  ASSUME TypeInv, NEW u \in Uploaders, Acts(u)
  PROVE  DocsOK'
<1>1. CASE UNCHANGED docs
  BY <1>1 DEF TypeInv, DocsOK
<1>2. CASE Posting(u)
  <2>1. item[u][1] \in Indices /\ bangs[u] \in 0..(NumRetries - 1)
    BY <1>2, ItemIndex DEF Posting, TypeInv, LocalOK
  <2>2. /\ DOMAIN docs' = DOMAIN docs \union {DocId(u)}
        /\ \A d \in DOMAIN docs' :
             docs'[d] = IF d = DocId(u) THEN Packaged[package[u]][item[u]] ELSE docs[d]
    BY <1>2 DEF Posting, Put
  <2>3. QED
    BY <2>1, <2>2 DEF DocId, TypeInv, DocsOK
<1>3. QED
  BY <1>1, <1>2, DatabaseSteps DEF TypeInv

(* Rows that are added, to a bag on its own and to one of two bags.        *)
LEMMA BagsAdd ==
  ASSUME NEW B, IsABag(B), NEW S
  PROVE  IsABag(B (+) SetToBag(S)) /\ DOMAIN (B (+) SetToBag(S)) = DOMAIN B \union S
BY DEF IsABag, SetToBag, BagToSet, (+)

BothAdded(B, C, S, T) ==
  LET D == B (+) C
      E == (B (+) SetToBag(S)) (+) (C (+) SetToBag(T))
  IN  /\ DOMAIN E = DOMAIN D \union S \union T
      /\ \A r \in DOMAIN D \ (S \union T) : E[r] = D[r]
      /\ \A r \in (S \union T) \ DOMAIN D : E[r] = 1

LEMMA BagsAddBoth ==
  ASSUME NEW B, IsABag(B), NEW C, IsABag(C), NEW S, NEW T, S \intersect T = {}
  PROVE  BothAdded(B, C, S, T)
BY DEF BothAdded, IsABag, SetToBag, BagToSet, (+)

LEMMA TypeInvKept ==
  ASSUME TypeInv, [Next]_vars
  PROVE  TypeInv'
<1>1. CASE UNCHANGED vars
  BY <1>1 DEF TypeInv, Domains, DocsOK, LocalOK, Idle, Packages, CanPackage, Items, vars, uploader
<1>2. CASE Next
  <2>1. PICK u \in Uploaders : Acts(u)
    BY <1>2 DEF Next, Acts
  <2>2. Domains'
    BY <1>2, DomainsKept DEF TypeInv
  <2>3. DocsOK' /\ (saved \subseteq Packages)'
    BY <2>1, DocsTypes, SavedKept
  <2>4. (IsABag(stored) /\ IsABag(refused) /\ disturbed \in BOOLEAN)'
    <3>1. IsABag(stored) /\ IsABag(refused) /\ disturbed \in BOOLEAN
      BY DEF TypeInv
    <3>2. disturbed' \in BOOLEAN
      BY <2>1, <3>1, DisturbedKept
    <3>3. CASE UNCHANGED <<stored, refused>>
      BY <3>1, <3>2, <3>3
    <3>4. CASE Sending(u)
      <4>1. PICK part, rest \in SUBSET Batch(u) : /\ stored' = stored (+) Rows(u, part)
                                                 /\ refused' = refused (+) Rows(u, rest)
        BY <3>4 DEF Sending
      <4>2. IsABag(stored (+) Rows(u, part)) /\ IsABag(refused (+) Rows(u, rest))
        BY <3>1, BagsAdd DEF Rows
      <4>3. IsABag(stored') /\ IsABag(refused')
        BY <4>1, <4>2
      <4>4. IsABag(stored)' /\ IsABag(refused)'
        BY <4>3 DEF IsABag
      <4>5. QED
        BY <3>2, <4>4
    <3>5. QED
      BY <2>1, <3>1, <3>3, <3>4, DatabaseSteps
  <2>5. ASSUME NEW v \in Uploaders PROVE LocalOK(v)'
    <3>1. CASE v = u
      BY <2>1, <3>1, OwnTypes
    <3>2. CASE v # u
      BY <2>1, <3>2, OthersKept DEF TypeInv, LocalOK, Idle
    <3>3. QED
      BY <3>1, <3>2
  <2>6. QED
    BY <2>2, <2>3, <2>4, <2>5 DEF TypeInv
<1>3. QED
  BY <1>1, <1>2

LEMMA InitTypeInv == Init => TypeInv
<1> SUFFICES ASSUME Init PROVE TypeInv
  OBVIOUS
<1>1. IsABag(stored) /\ IsABag(refused) /\ disturbed = FALSE
  BY DEF Init, EmptyBag, IsABag, SetToBag
<1>2. Domains /\ DocsOK /\ saved = {}
  BY DEF Init, Domains, DocsOK
<1>3. ASSUME NEW u \in Uploaders PROVE LocalOK(u)
  BY UploadAssumption DEF Init, LocalOK, Idle
<1>4. QED
  BY <1>1, <1>2, <1>3 DEF TypeInv

THEOREM TypeInvariance == Spec => []TypeInv
BY InitTypeInv, TypeInvKept, PTL DEF Spec

(* The variables keep their types; in particular no fingerprint is looked  *)
(* up under more `!`s than there are tries.                                *)
THEOREM TypeCorrect == Spec => []TypeOK
<1>1. TypeInv => TypeOK
  BY DEF TypeInv, Domains, DocsOK, LocalOK, TypeOK
<1>2. QED
  BY <1>1, TypeInvariance, PTL


-----------------------------------------------------------------------------
(***************************************************************************)
(* Documents, whatever happens: their IDs.                                 *)
(***************************************************************************)
Object(u) == Packaged[package[u]][item[u]]

(* Every document is the fingerprint of something that was packaged.       *)
Origin ==
  \A d \in DOMAIN docs : \E o \in Packages : \E it \in Items(o) :
     it[1] = d[1] /\ docs[d] = Packaged[o][it]

(* Only an object whose ID others have is registered under a `!`.          *)
Plain == \A d \in DOMAIN docs : <<d[1], d[2]>> \notin Shared => d[3] = 0

Banged(u) ==
  pc[u] \in {"get", "post"} /\ bangs[u] # 0 => <<item[u][1], Object(u).id>> \in Shared

(* No fingerprint is forgotten.                                            *)
Covered(u) ==
  /\ pc[u] = "next" => Items(package[u]) \subseteq todo[u] \union DOMAIN ids[u]
  /\ pc[u] \in {"get", "post"} =>
       Items(package[u]) \subseteq todo[u] \union DOMAIN ids[u] \union {item[u]}
  /\ pc[u] = "batch" => Items(package[u]) = DOMAIN ids[u]

(* A fingerprint was registered under its ID, and there is a document.     *)
Referred(u) ==
  ~Idle(u) /\ ~DryRun(u) =>
    \A it \in DOMAIN ids[u] :
       /\ ids[u][it] \in DOMAIN docs
       /\ ids[u][it][1] = it[1] /\ ids[u][it][2] = Packaged[package[u]][it].id

IdsInv ==
  /\ TypeInv
  /\ Origin /\ Plain
  /\ \A u \in Uploaders : Banged(u) /\ Covered(u) /\ Referred(u)

(* Objects of one ID are the same, or the ID is shared.                    *)
LEMMA SharedId ==
  ASSUME NEW o \in Packages, NEW it \in Items(o), NEW p \in Packages, NEW jt \in Items(p),
         it[1] = jt[1], Packaged[o][it].id = Packaged[p][jt].id,
         Packaged[o][it] # Packaged[p][jt]
  PROVE  <<it[1], Packaged[o][it].id>> \in Shared
<1> DEFINE x == <<it[1], Packaged[o][it]>>
           y == <<jt[1], Packaged[p][jt]>>
<1>1. x \in Objects /\ y \in Objects
  BY DEF Objects
<1>2. y # x /\ y[1] = x[1] /\ y[2].id = x[2].id
  OBVIOUS
<1>3. <<x[1], x[2].id>> \in Shared
  BY <1>1, <1>2 DEF Shared
<1>4. QED
  BY <1>3

LEMMA SeenSame ==
  ASSUME NEW o \in Packages, NEW it \in Items(o), NEW p \in Packages, NEW jt \in Items(p),
         it[1] = jt[1], Packaged[o][it].id = Packaged[p][jt].id
  PROVE  Seen(it[1], Packaged[o][it]) = Seen(it[1], Packaged[p][jt])
BY SharedId DEF Seen

(* Nothing disappears, and a new document belongs to who posted it.        *)
LEMMA NothingLost ==
  ASSUME TypeInv, NEW u \in Uploaders, Acts(u)
  PROVE  DOMAIN docs \subseteq DOMAIN docs'
<1>1. CASE UNCHANGED docs
  BY <1>1
<1>2. CASE Posting(u)
  BY <1>2 DEF Posting, Put
<1>3. QED
  BY <1>1, <1>2, DatabaseSteps DEF TypeInv

LEMMA OriginKept ==
  ASSUME IdsInv, NEW u \in Uploaders, Acts(u)
  PROVE  Origin'
<1>0. Packages' = Packages /\ Packaged' = Packaged
  BY DEF Packages, Packaged, CanPackage, FingerprintOf, Items
<1>1. CASE UNCHANGED docs
  BY <1>1 DEF IdsInv, Origin
<1>2. CASE Posting(u)
  <2>1. package[u] \in Packages /\ item[u] \in Items(package[u])
    BY <1>2 DEF Posting, IdsInv, TypeInv, LocalOK, Idle
  <2>2. ASSUME NEW d \in DOMAIN docs'
        PROVE  \E o \in Packages : \E it \in Items(o) :
                 it[1] = d[1] /\ docs'[d] = Packaged[o][it]
    <3>1. CASE d = DocId(u)
      <4>1. d[1] = item[u][1] /\ docs'[d] = Packaged[package[u]][item[u]]
        BY <1>2, <2>2, <3>1 DEF Posting, Put, DocId
      <4>2. QED
        BY <2>1, <4>1
    <3>2. CASE d # DocId(u)
      <4>1. d \in DOMAIN docs /\ docs'[d] = docs[d]
        BY <1>2, <2>2, <3>2 DEF Posting, Put
      <4>2. QED
        BY <4>1 DEF IdsInv, Origin
    <3>3. QED
      BY <3>1, <3>2
  <2>3. QED
    BY <2>2 DEF Origin
<1>3. QED
  BY <1>1, <1>2, DatabaseSteps DEF IdsInv, TypeInv

LEMMA PlainKept ==
  ASSUME IdsInv, NEW u \in Uploaders, Acts(u)
  PROVE  Plain'
<1>1. CASE UNCHANGED docs
  BY <1>1 DEF IdsInv, Plain
<1>2. CASE Posting(u)
  <2>1. \A d \in DOMAIN docs' : d \in DOMAIN docs \/ d = DocId(u)
    BY <1>2 DEF Posting, Put
  <2>2. DocId(u)[1] = item[u][1] /\ DocId(u)[2] = Object(u).id /\ DocId(u)[3] = bangs[u]
    BY DEF DocId, Object
  <2>3. Banged(u) /\ Plain
    BY DEF IdsInv
  <2>4. QED
    BY <1>2, <2>1, <2>2, <2>3 DEF Posting, Banged, Plain
<1>3. QED
  BY <1>1, <1>2, DatabaseSteps DEF IdsInv, TypeInv

LEMMA OthersIds ==
  ASSUME IdsInv, NEW u \in Uploaders, Acts(u), NEW v \in Uploaders, v # u
  PROVE  Banged(v)' /\ Covered(v)' /\ Referred(v)'
<1>1. /\ pc'[v] = pc[v] /\ package'[v] = package[v] /\ todo'[v] = todo[v]
      /\ item'[v] = item[v] /\ bangs'[v] = bangs[v] /\ ids'[v] = ids[v]
      /\ (DryRun(v)' <=> DryRun(v))
  BY OthersKept DEF IdsInv, TypeInv
<1>2. DOMAIN docs \subseteq DOMAIN docs'
  BY NothingLost DEF IdsInv
<1>3. Banged(v) /\ Covered(v) /\ Referred(v)
  BY DEF IdsInv
<1>4. Banged(v)'
  BY <1>1, <1>3 DEF Banged, Object
<1>5. Covered(v)'
  BY <1>1, <1>3 DEF Covered
<1>6. Referred(v)'
  BY <1>1, <1>2, <1>3 DEF Referred, Idle
<1>7. QED
  BY <1>4, <1>5, <1>6

(* A document that is found to be another object makes the ID shared.      *)
LEMMA OtherIsShared ==
  ASSUME IdsInv, NEW u \in Uploaders, pc[u] = "get", Stored(u), docs[DocId(u)] # Object(u)
  PROVE  <<item[u][1], Object(u).id>> \in Shared
<1>1. PICK o \in Packages : \E it \in Items(o) :
         it[1] = DocId(u)[1] /\ docs[DocId(u)] = Packaged[o][it]
  BY DEF Stored, IdsInv, Origin
<1>2. PICK it \in Items(o) : it[1] = item[u][1] /\ docs[DocId(u)] = Packaged[o][it]
  BY <1>1 DEF DocId
<1>3. package[u] \in Packages /\ item[u] \in Items(package[u])
  BY DEF IdsInv, TypeInv, LocalOK, Idle
<1>4. docs[DocId(u)].id = Object(u).id
  BY DEF IdsInv, TypeInv, DocsOK, DocId, Object, Stored
<1>5. QED
  BY <1>2, <1>3, <1>4, SharedId DEF Object

LEMMA OwnIds ==
  ASSUME IdsInv, NEW u \in Uploaders, Acts(u)
  PROVE  Banged(u)' /\ Covered(u)' /\ Referred(u)'
<1>0. Domains /\ LocalOK(u) /\ Banged(u) /\ Covered(u) /\ Referred(u)
  BY DEF IdsInv, TypeInv
<1>1. CASE Start(u)
  <2>1. PICK o \in Ready(u, Commands[u][attempt[u] + 1]) :
           /\ package' = [package EXCEPT ![u] = o] /\ todo' = [todo EXCEPT ![u] = Items(o)]
    BY <1>1 DEF Start
  <2>2. package'[u] = o /\ todo'[u] = Items(o) /\ ids'[u] = <<>> /\ pc'[u] = "next"
    BY <1>0, <1>1, <2>1 DEF Start, Domains, LocalOK
  <2>3. QED
    BY <2>2 DEF Banged, Covered, Referred
<1>2. CASE StartFails(u)
  <2>1. ids'[u] = <<>> /\ pc'[u] = "failed"
    BY <1>0, <1>2 DEF StartFails, Domains, LocalOK
  <2>2. QED
    BY <2>1 DEF Banged, Covered, Referred
<1>3. CASE NextFingerprint(u)
  <2>1. PICK it \in NextItems(todo[u]) : /\ item' = [item EXCEPT ![u] = it]
                                        /\ todo' = [todo EXCEPT ![u] = Remaining(u, it)]
    BY <1>3 DEF NextFingerprint
  <2>2. /\ pc[u] = "next" /\ pc'[u] = "get" /\ bangs'[u] = 0 /\ item'[u] = it
        /\ todo'[u] = todo[u] \ {it} /\ UNCHANGED <<docs, attempt, package, ids>>
    BY <1>0, <1>3, <2>1 DEF NextFingerprint, Domains, Remaining
  <2>3. QED
    BY <1>0, <2>2 DEF Banged, Covered, Referred, Idle, DryRun
<1>4. ASSUME NEW id, Register(u, id), pc[u] \in {"get", "post"},
             ~DryRun(u) => /\ id \in DOMAIN docs'
                           /\ id[1] = item[u][1] /\ id[2] = Object(u).id
      PROVE  Banged(u)' /\ Covered(u)' /\ Referred(u)'
  <2>1. /\ pc'[u] = "next" /\ DOMAIN ids'[u] = DOMAIN ids[u] \union {item[u]}
        /\ ids'[u][item[u]] = id
        /\ \A it \in DOMAIN ids[u] : it # item[u] => ids'[u][it] = ids[u][it]
        /\ UNCHANGED <<attempt, package, todo>>
    BY <1>0, <1>4 DEF Register, Domains
  <2>2. DOMAIN docs \subseteq DOMAIN docs'
    BY NothingLost DEF IdsInv
  <2>3. Referred(u)'
    BY <1>0, <1>4, <2>1, <2>2 DEF Referred, Object, Idle, DryRun
  <2>4. Covered(u)'
    BY <1>0, <1>4, <2>1 DEF Covered
  <2>5. QED
    BY <2>1, <2>3, <2>4 DEF Banged
<1>5. CASE GetSame(u)
  BY <1>4, <1>5 DEF GetSame, Getting, Stored, Object, DocId
<1>6. CASE Post(u)
  <2>1. Register(u, DocId(u)) /\ pc[u] = "post"
    BY <1>6 DEF Post, PostedId
  <2>2. ~DryRun(u) => /\ DocId(u) \in DOMAIN docs'
                      /\ DocId(u)[1] = item[u][1] /\ DocId(u)[2] = Object(u).id
    BY <1>6 DEF Post, PostedId, Put, Object, DocId
  <2>3. QED
    BY <1>4, <2>1, <2>2
<1>7. CASE GetError(u)
  <2>1. /\ pc[u] = "get" /\ pc'[u] = "post"
        /\ UNCHANGED <<docs, attempt, package, todo, item, bangs, ids>>
    BY <1>0, <1>7 DEF GetError, Domains
  <2>2. QED
    BY <1>0, <2>1 DEF Banged, Covered, Referred, Object, Idle, DryRun
<1>8. CASE GetOther(u) /\ ~RetriesExhausted(bangs[u] + 1)
  <2>1. /\ pc[u] = "get" /\ UNCHANGED <<docs, attempt, pc, package, todo, item, ids>>
    BY <1>8 DEF GetOther, Getting
  <2>2. Stored(u) /\ docs[DocId(u)] # Object(u)
    BY <1>8 DEF GetOther, SameFingerprint, Object
  <2>3. <<item[u][1], Object(u).id>> \in Shared
    BY <2>1, <2>2, OtherIsShared
  <2>4. Banged(u)'
    BY <2>1, <2>3 DEF Banged, Object
  <2>5. QED
    BY <1>0, <2>1, <2>4 DEF Covered, Referred, Idle, DryRun
<1>9. CASE AllRegistered(u)
  <2>1. /\ pc[u] = "next" /\ todo[u] = {} /\ pc'[u] = "batch"
        /\ UNCHANGED <<docs, attempt, package, todo, ids>>
    BY <1>0, <1>9 DEF AllRegistered, Domains
  <2>2. QED
    BY <1>0, <2>1 DEF Banged, Covered, Referred, LocalOK, Idle, DryRun
<1>10. CASE SendBatch(u)
  BY <1>0, <1>10 DEF SendBatch, Banged, Covered, Referred, Idle, DryRun
<1>11. ASSUME NEW outcome \in {"done", "failed"}, End(u, outcome)
       PROVE  Banged(u)' /\ Covered(u)' /\ Referred(u)'
  <2>1. pc'[u] = outcome /\ ids'[u] = <<>>
    BY <1>0, <1>11 DEF End, Domains
  <2>2. QED
    BY <2>1 DEF Banged, Covered, Referred
<1>12. CASE PostFails(u) \/ BatchFails(u) \/ Finish(u) \/ (GetOther(u) /\ RetriesExhausted(bangs[u] + 1))
  BY <1>11, <1>12 DEF PostFails, BatchFails, Finish, GetOther
<1>13. QED
  BY <1>1, <1>2, <1>3, <1>5, <1>6, <1>7, <1>8, <1>9, <1>10, <1>12 DEF Acts, Working

LEMMA IdsInvKept ==
  ASSUME IdsInv, [Next]_vars
  PROVE  IdsInv'
<1>1. TypeInv'
  BY TypeInvKept DEF IdsInv
<1>2. CASE UNCHANGED vars
  <2>1. Origin' /\ Plain'
    BY <1>2 DEF IdsInv, Origin, Plain, vars, uploader
  <2>2. ASSUME NEW u \in Uploaders PROVE Banged(u)' /\ Covered(u)' /\ Referred(u)'
    BY <1>2 DEF IdsInv, Banged, Covered, Referred, Object, Idle, DryRun, vars, uploader
  <2>3. QED
    BY <1>1, <2>1, <2>2 DEF IdsInv
<1>3. CASE Next
  <2>1. PICK u \in Uploaders : Acts(u)
    BY <1>3 DEF Next, Acts
  <2>2. ASSUME NEW v \in Uploaders PROVE Banged(v)' /\ Covered(v)' /\ Referred(v)'
    BY <2>1, OwnIds, OthersIds
  <2>3. QED
    BY <1>1, <2>1, <2>2, OriginKept, PlainKept DEF IdsInv
<1>4. QED
  BY <1>2, <1>3

LEMMA InitIdsInv == Init => IdsInv
<1> SUFFICES ASSUME Init PROVE IdsInv
  OBVIOUS
<1>1. DOMAIN docs = {} /\ \A u \in Uploaders : pc[u] = "idle" /\ ids[u] = <<>>
  BY DEF Init
<1>2. Origin /\ Plain
  BY <1>1 DEF Origin, Plain
<1>3. ASSUME NEW u \in Uploaders PROVE Banged(u) /\ Covered(u) /\ Referred(u)
  BY <1>1 DEF Banged, Covered, Referred
<1>4. QED
  BY <1>2, <1>3, InitTypeInv DEF IdsInv

-----------------------------------------------------------------------------
(***************************************************************************)
(* Documents, as long as no uploads that fight over an ID have met and no  *)
(* GET has hidden another object.                                          *)
(***************************************************************************)
(* Uploads at work at the same time do not fight over an ID.               *)
Apart ==
  \A u, v \in Uploaders :
     u # v /\ ~Idle(u) /\ ~Idle(v) /\ ~DryRun(u) /\ ~DryRun(v)
       => <<package[u], package[v]>> \in Compatible

(* The same ID with fewer `!`s belongs to other objects.                   *)
Chain ==
  \A d \in DOMAIN docs : \A n \in 0..(d[3] - 1) :
     <<d[1], d[2], n>> \in DOMAIN docs /\ docs[<<d[1], d[2], n>>] # docs[d]

(* What create_if_not_exists has found out in the tries so far.            *)
Passed(u) ==
  pc[u] \in {"get", "post"} /\ ~DryRun(u) =>
    \A n \in 0..(bangs[u] - 1) :
       /\ <<item[u][1], Object(u).id, n>> \in DOMAIN docs
       /\ docs[<<item[u][1], Object(u).id, n>>] # Object(u)

(* It posts to a free ID, or to one that holds the same object.            *)
Free(u) ==
  pc[u] = "post" /\ ~DryRun(u) /\ DocId(u) \in DOMAIN docs
    => docs[DocId(u)] = Object(u)

Registered(u) ==
  ~Idle(u) /\ ~DryRun(u) =>
    \A it \in DOMAIN ids[u] : docs[ids[u][it]] = Packaged[package[u]][it]

Calm == Apart /\ Chain /\ \A u \in Uploaders : Passed(u) /\ Free(u) /\ Registered(u)

DocsInv == IdsInv /\ (~disturbed => Calm)

(* No document is replaced.                                                *)
Grown == \A d \in DOMAIN docs : d \in DOMAIN docs' /\ docs'[d] = docs[d]

LEMMA CompatibleSymmetric ==
  ASSUME NEW o, NEW p, <<o, p>> \in Compatible
  PROVE  <<p, o>> \in Compatible
BY DEF Compatible

LEMMA Growth ==
  ASSUME IdsInv, Calm, NEW u \in Uploaders, Acts(u)
  PROVE  Grown
<1>1. CASE UNCHANGED docs
  BY <1>1 DEF Grown
<1>2. CASE Posting(u)
  <2>1. Free(u)
    BY DEF Calm
  <2>2. QED
    BY <1>2, <2>1 DEF Grown, Posting, Put, Free, Object
<1>3. QED
  BY <1>1, <1>2, DatabaseSteps DEF IdsInv, TypeInv

LEMMA ApartKept ==
  ASSUME IdsInv, Calm, ~disturbed', NEW u \in Uploaders, Acts(u)
  PROVE  Apart'
<1>0. Domains
  BY DEF IdsInv, TypeInv
<1> SUFFICES ASSUME NEW v \in Uploaders, NEW w \in Uploaders, v # w, ~Idle(v)', ~Idle(w)',
                    ~DryRun(v)', ~DryRun(w)'
             PROVE  <<package'[v], package'[w]>> \in Compatible
  BY DEF Apart, Compatible, Packages, Packaged, CanPackage, FingerprintOf, Items
<1>1. ASSUME NEW x \in Uploaders, x # u
      PROVE  package'[x] = package[x] /\ (Idle(x)' <=> Idle(x)) /\ (DryRun(x)' <=> DryRun(x))
  BY <1>0, <1>1, OthersKept DEF Idle
<1>2. CASE Start(u)
  <2>1. PICK o \in Ready(u, Commands[u][attempt[u] + 1]) :
           /\ package' = [package EXCEPT ![u] = o]
           /\ disturbed' = (disturbed \/ ("--dry-run" \notin Commands[u][attempt[u] + 1] /\ Clash(o)))
    BY <1>2 DEF Start
  <2>2. package'[u] = o /\ attempt'[u] = attempt[u] + 1
    BY <1>0, <1>2, <2>1 DEF Start, Domains
  <2>3. ASSUME ~DryRun(u)', NEW x \in Uploaders, ~Idle(x), ~DryRun(x)
        PROVE  <<o, package[x]>> \in Compatible
    BY <2>1, <2>2, <2>3 DEF Clash, DryRun, Idle
  <2>4. CASE v = u
    BY <1>1, <2>2, <2>3, <2>4
  <2>5. CASE w = u
    BY <1>1, <2>2, <2>3, <2>5, CompatibleSymmetric
  <2>6. CASE v # u /\ w # u
    BY <1>1, <2>6 DEF Calm, Apart
  <2>7. QED
    BY <2>4, <2>5, <2>6
<1>3. CASE StartFails(u)
  <2>1. package' = package /\ Idle(u)'
    BY <1>0, <1>3 DEF StartFails, Domains, Idle
  <2>2. QED
    BY <1>1, <2>1 DEF Calm, Apart
<1>4. CASE Working(u)
  <2>1. package' = package /\ attempt' = attempt
    BY <1>4 DEF Working, NextFingerprint, GetSame, GetOther, GetError, Post, PostFails,
                AllRegistered, SendBatch, BatchFails, Finish, Register, End
  <2>2. ~Idle(u) /\ (DryRun(u)' <=> DryRun(u))
    BY <1>4, <2>1 DEF Working, NextFingerprint, GetSame, GetOther, Getting, GetError, Post,
                      PostFails, AllRegistered, SendBatch, BatchFails, Finish, Idle, DryRun
  <2>3. QED
    BY <1>1, <2>1, <2>2 DEF Calm, Apart
<1>5. QED
  BY <1>2, <1>3, <1>4 DEF Acts

LEMMA ChainKept ==
  ASSUME IdsInv, Calm, NEW u \in Uploaders, Acts(u)
  PROVE  Chain'
<1>0. Grown
  BY Growth
<1>1. CASE UNCHANGED docs
  BY <1>1 DEF Calm, Chain
<1>2. CASE Posting(u)
  <2> SUFFICES ASSUME NEW d \in DOMAIN docs', NEW n \in 0..(d[3] - 1)
               PROVE  /\ <<d[1], d[2], n>> \in DOMAIN docs'
                      /\ docs'[<<d[1], d[2], n>>] # docs'[d]
    BY DEF Chain
  <2>1. CASE d \in DOMAIN docs
    BY <1>0, <2>1 DEF Calm, Chain, Grown
  <2>2. CASE d \notin DOMAIN docs
    <3>1. d = DocId(u) /\ docs'[d] = Object(u)
      BY <1>2, <2>2 DEF Posting, Put, Object
    <3>2. Passed(u)
      BY DEF Calm
    <3>3. d[1] = item[u][1] /\ d[2] = Object(u).id /\ d[3] = bangs[u]
      BY <3>1 DEF DocId, Object
    <3>4. QED
      BY <1>0, <1>2, <3>1, <3>2, <3>3 DEF Passed, Posting, Grown
  <2>3. QED
    BY <2>1, <2>2
<1>3. QED
  BY <1>1, <1>2, DatabaseSteps DEF IdsInv, TypeInv

(* What an uploader knows stays true while others work.                    *)
LEMMA OthersCalm ==
  ASSUME IdsInv, Calm, NEW u \in Uploaders, Acts(u), NEW v \in Uploaders, v # u
  PROVE  Passed(v)' /\ Free(v)' /\ Registered(v)'
<1>0. Grown /\ TypeInv /\ Passed(v) /\ Free(v) /\ Registered(v) /\ Referred(v)
  BY Growth DEF IdsInv, Calm
<1>1. /\ pc'[v] = pc[v] /\ package'[v] = package[v]
      /\ item'[v] = item[v] /\ bangs'[v] = bangs[v] /\ ids'[v] = ids[v]
      /\ (DryRun(v)' <=> DryRun(v))
  BY OthersKept DEF IdsInv, TypeInv
<1>2. Object(v)' = Object(v) /\ DocId(v)' = DocId(v)
  BY <1>1 DEF Object, DocId
<1>3. Passed(v)'
  BY <1>0, <1>1, <1>2 DEF Passed, Grown
<1>4. Registered(v)'
  BY <1>0, <1>1 DEF Registered, Referred, Grown, Idle
<1>5. Free(v)'
  <2> SUFFICES ASSUME pc[v] = "post", ~DryRun(v), DocId(v) \in DOMAIN docs'
               PROVE  docs'[DocId(v)] = Object(v)
    BY <1>1, <1>2 DEF Free
  <2>1. CASE DocId(v) \in DOMAIN docs
    BY <1>0, <2>1 DEF Free, Grown
  <2>2. CASE DocId(v) \notin DOMAIN docs
    <3>1. Posting(u)
      BY <2>2, DatabaseSteps DEF IdsInv, TypeInv
    <3>2. DocId(v) = DocId(u) /\ docs'[DocId(v)] = Object(u)
      BY <2>2, <3>1 DEF Posting, Put, Object
    <3>3. /\ item[u] \in Items(package[u]) /\ item[v] \in Items(package[v])
          /\ <<package[u], package[v]>> \in Compatible
      BY <1>0, <3>1 DEF Posting, TypeInv, LocalOK, Idle, Calm, Apart
    <3>4. item[u][1] = item[v][1] /\ Object(u).id = Object(v).id
      BY <3>2 DEF DocId, Object
    <3>5. Object(u) = Object(v)
      BY <3>3, <3>4 DEF Compatible, Object
    <3>6. QED
      BY <3>2, <3>5
  <2>3. QED
    BY <2>1, <2>2
<1>6. QED
  BY <1>3, <1>4, <1>5

LEMMA OwnCalm ==
  ASSUME IdsInv, Calm, ~disturbed', NEW u \in Uploaders, Acts(u)
  PROVE  Passed(u)' /\ Free(u)' /\ Registered(u)'
<1>0. /\ Grown /\ Domains /\ LocalOK(u)
      /\ Passed(u) /\ Free(u) /\ Registered(u) /\ Referred(u)
  BY Growth DEF IdsInv, TypeInv, Calm
<1>1. CASE Start(u) \/ StartFails(u)
  <2>1. ids'[u] = <<>> /\ pc'[u] \in {"next", "failed"}
    BY <1>0, <1>1 DEF Start, StartFails, Domains, LocalOK
  <2>2. QED
    BY <2>1 DEF Passed, Free, Registered
<1>3. CASE NextFingerprint(u)
  <2>1. PICK it \in NextItems(todo[u]) : item' = [item EXCEPT ![u] = it]
    BY <1>3 DEF NextFingerprint
  <2>2. /\ pc[u] = "next" /\ pc'[u] = "get" /\ bangs'[u] = 0
        /\ UNCHANGED <<docs, attempt, package, ids>>
    BY <1>0, <1>3, <2>1 DEF NextFingerprint, Domains
  <2>3. QED
    BY <1>0, <2>2 DEF Passed, Free, Registered, Idle, DryRun
<1>4. ASSUME NEW id, Register(u, id), pc[u] \in {"get", "post"},
             ~DryRun(u) => docs'[id] = Object(u)
      PROVE  Passed(u)' /\ Free(u)' /\ Registered(u)'
  <2>1. /\ pc'[u] = "next" /\ DOMAIN ids'[u] = DOMAIN ids[u] \union {item[u]}
        /\ ids'[u][item[u]] = id
        /\ \A it \in DOMAIN ids[u] : it # item[u] => ids'[u][it] = ids[u][it]
        /\ UNCHANGED <<attempt, package>>
    BY <1>0, <1>4 DEF Register, Domains
  <2>2. Registered(u)'
    BY <1>0, <1>4, <2>1 DEF Registered, Referred, Grown, Object, Idle, DryRun
  <2>3. QED
    BY <2>1, <2>2 DEF Passed, Free
<1>5. CASE GetSame(u)
  BY <1>4, <1>5 DEF GetSame, Getting, SameFingerprint, Object
<1>6. CASE Post(u)
  <2>1. Register(u, DocId(u)) /\ pc[u] = "post"
    BY <1>6 DEF Post, PostedId
  <2>2. ~DryRun(u) => docs'[DocId(u)] = Object(u)
    BY <1>6 DEF Post, PostedId, Put, Object
  <2>3. QED
    BY <1>4, <2>1, <2>2
<1>7. CASE GetError(u)
  <2>1. /\ pc[u] = "get" /\ pc'[u] = "post"
        /\ UNCHANGED <<docs, attempt, package, todo, item, bangs, ids>>
    BY <1>0, <1>7 DEF GetError, Domains
  <2>2. Passed(u)' /\ Registered(u)'
    BY <1>0, <2>1 DEF Passed, Registered, Object, Idle, DryRun
  <2>3. ~DryRun(u) /\ DocId(u) \in DOMAIN docs => docs[DocId(u)] = Object(u)
    BY <1>7, <2>1 DEF GetError, Getting, Stored, Object
  <2>4. Free(u)'
    BY <2>1, <2>3 DEF Free, Object, DocId, DryRun
  <2>5. QED
    BY <2>2, <2>4
<1>8. CASE GetOther(u) /\ ~RetriesExhausted(bangs[u] + 1)
  <2>1. /\ pc[u] = "get" /\ bangs'[u] = bangs[u] + 1 /\ bangs[u] \in Nat
        /\ UNCHANGED <<docs, pc, attempt, package, todo, item, ids>>
    BY <1>0, <1>8 DEF GetOther, Getting, Domains, LocalOK
  <2>2. DocId(u) \in DOMAIN docs /\ docs[DocId(u)] # Object(u)
    BY <1>8 DEF GetOther, Stored, SameFingerprint, Object
  <2>3. Passed(u)'
    BY <1>0, <2>1, <2>2 DEF Passed, Object, DocId, DryRun
  <2>4. QED
    BY <1>0, <2>1, <2>3 DEF Free, Registered, Idle, DryRun
<1>9. CASE AllRegistered(u)
  <2>1. /\ pc[u] = "next" /\ pc'[u] = "batch"
        /\ UNCHANGED <<docs, attempt, package, ids>>
    BY <1>0, <1>9 DEF AllRegistered, Domains
  <2>2. QED
    BY <1>0, <2>1 DEF Passed, Free, Registered, Idle, DryRun
<1>10. CASE SendBatch(u)
  BY <1>0, <1>10 DEF SendBatch, Passed, Free, Registered, Idle, DryRun
<1>11. ASSUME NEW outcome \in {"done", "failed"}, End(u, outcome)
       PROVE  Passed(u)' /\ Free(u)' /\ Registered(u)'
  <2>1. pc'[u] = outcome /\ ids'[u] = <<>>
    BY <1>0, <1>11 DEF End, Domains
  <2>2. QED
    BY <2>1 DEF Passed, Free, Registered
<1>12. CASE PostFails(u) \/ BatchFails(u) \/ Finish(u) \/ (GetOther(u) /\ RetriesExhausted(bangs[u] + 1))
  BY <1>11, <1>12 DEF PostFails, BatchFails, Finish, GetOther
<1>13. QED
  BY <1>1, <1>3, <1>5, <1>6, <1>7, <1>8, <1>9, <1>10, <1>12 DEF Acts, Working

LEMMA CalmKept ==
  ASSUME IdsInv, Calm, ~disturbed', NEW u \in Uploaders, Acts(u)
  PROVE  Calm'
<1>1. Apart' /\ Chain'
  BY ApartKept, ChainKept
<1>2. ASSUME NEW v \in Uploaders PROVE Passed(v)' /\ Free(v)' /\ Registered(v)'
  BY OwnCalm, OthersCalm
<1>3. QED
  BY <1>1, <1>2 DEF Calm

LEMMA DocsInvKept ==
  ASSUME DocsInv, [Next]_vars
  PROVE  DocsInv'
<1>1. IdsInv'
  BY IdsInvKept DEF DocsInv
<1>2. CASE UNCHANGED vars
  <2>1. UNCHANGED <<docs, disturbed, pc, attempt, package, item, bangs, ids>>
    BY <1>2 DEF vars, uploader
  <2>2. Apart' <=> Apart
    BY <2>1 DEF Apart, Idle, DryRun, Compatible, Packages, Packaged, CanPackage, FingerprintOf, Items
  <2>3. Chain' <=> Chain
    BY <2>1 DEF Chain
  <2>4. ASSUME Calm, NEW u \in Uploaders PROVE Passed(u)' /\ Free(u)' /\ Registered(u)'
    <3>1. Passed(u) /\ Free(u) /\ Registered(u)
      BY <2>4 DEF Calm
    <3>2. Object(u)' = Object(u) /\ DocId(u)' = DocId(u) /\ (DryRun(u)' <=> DryRun(u))
      BY <2>1 DEF Object, DocId, DryRun
    <3>3. Passed(u)'
      BY <2>1, <3>1, <3>2 DEF Passed
    <3>4. Free(u)'
      BY <2>1, <3>1, <3>2 DEF Free
    <3>5. Registered(u)'
      BY <2>1, <3>1, <3>2 DEF Registered, Idle
    <3>6. QED
      BY <3>3, <3>4, <3>5
  <2>5. Calm => Calm'
    BY <2>2, <2>3, <2>4 DEF Calm
  <2>6. QED
    BY <1>1, <2>1, <2>5 DEF DocsInv
<1>3. CASE Next
  <2>1. PICK u \in Uploaders : Acts(u)
    BY <1>3 DEF Next, Acts
  <2>2. disturbed => disturbed'
    BY <2>1, DisturbedKept DEF DocsInv, IdsInv, TypeInv
  <2>3. QED
    BY <1>1, <2>1, <2>2, CalmKept DEF DocsInv
<1>4. QED
  BY <1>2, <1>3

LEMMA InitDocsInv == Init => DocsInv
<1> SUFFICES ASSUME Init PROVE DocsInv
  OBVIOUS
<1>1. DOMAIN docs = {} /\ \A u \in Uploaders : pc[u] = "idle" /\ ids[u] = <<>>
  BY DEF Init
<1>2. Apart /\ Chain
  BY <1>1 DEF Apart, Idle, Chain
<1>3. ASSUME NEW u \in Uploaders PROVE Passed(u) /\ Free(u) /\ Registered(u)
  BY <1>1 DEF Passed, Free, Registered
<1>4. QED
  BY <1>2, <1>3, InitIdsInv DEF DocsInv, Calm

THEOREM DocumentsInvariance == Spec => []DocsInv
BY InitDocsInv, DocsInvKept, PTL DEF Spec

(* An upload replaces a document of the database, be it its own or someone *)
(* else's, only after uploads that fight over an ID met or a GET hid       *)
(* another object.                                                         *)
THEOREM NothingOverwritten == Spec => NoOverwriteUndisturbed
<1>1. ASSUME DocsInv, [Next]_vars
      PROVE  [~disturbed' => \A d \in DOMAIN docs : d \in DOMAIN docs' /\ docs'[d] = docs[d]]_docs
  <2>1. CASE UNCHANGED vars
    BY <2>1 DEF vars
  <2>2. CASE Next
    <3>1. PICK u \in Uploaders : Acts(u)
      BY <2>2 DEF Next, Acts
    <3>2. disturbed => disturbed'
      BY <1>1, <3>1, DisturbedKept DEF DocsInv, IdsInv, TypeInv
    <3>3. QED
      BY <1>1, <3>1, <3>2, Growth DEF DocsInv, Grown
  <2>3. QED
    BY <1>1, <2>1, <2>2
<1>2. QED
  BY <1>1, DocumentsInvariance, PTL DEF Spec, NoOverwriteUndisturbed

(* Two documents hold the same fingerprint only if others have its ID, and *)
(* even so not before uploads that fight over an ID met or a GET hid       *)
(* another object: the ID of an object that has one already leads to it.   *)
THEOREM OneDocument == Spec => []OneDocumentPerObject
<1>1. ASSUME DocsInv PROVE OneDocumentPerObject
  <2> SUFFICES ASSUME NEW d \in DOMAIN docs, NEW e \in DOMAIN docs,
                      d[1] = e[1], docs[d] = docs[e],
                      ~disturbed \/ <<d[1], d[2]>> \notin Shared
               PROVE  d = e
    BY DEF OneDocumentPerObject
  <2>1. /\ d = <<d[1], d[2], d[3]>> /\ e = <<e[1], e[2], e[3]>>
        /\ d[3] \in Nat /\ e[3] \in Nat /\ d[2] = e[2]
    BY <1>1, UploadAssumption DEF DocsInv, IdsInv, TypeInv, DocsOK
  <2>2. CASE d[3] = e[3]
    BY <2>1, <2>2
  <2>3. CASE ~disturbed
    <3>1. Chain
      BY <1>1, <2>3 DEF DocsInv, Calm
    <3>2. ASSUME d[3] < e[3] PROVE FALSE
      <4>1. d[3] \in 0..(e[3] - 1) /\ <<e[1], e[2], d[3]>> = d
        BY <2>1, <3>2
      <4>2. QED
        BY <3>1, <4>1 DEF Chain
    <3>3. ASSUME e[3] < d[3] PROVE FALSE
      <4>1. e[3] \in 0..(d[3] - 1) /\ <<d[1], d[2], e[3]>> = e
        BY <2>1, <3>3
      <4>2. QED
        BY <3>1, <4>1 DEF Chain
    <3>4. QED
      BY <2>1, <2>2, <3>2, <3>3
  <2>4. CASE <<d[1], d[2]>> \notin Shared
    <3>1. <<e[1], e[2]>> \notin Shared
      BY <2>1, <2>4
    <3>2. d[3] = 0 /\ e[3] = 0
      BY <1>1, <2>4, <3>1 DEF DocsInv, IdsInv, Plain
    <3>3. QED
      BY <2>2, <3>2
  <2>5. QED
    BY <2>3, <2>4
<1>2. QED
  BY <1>1, DocumentsInvariance, PTL

-----------------------------------------------------------------------------
(***************************************************************************)
(* Measurements.                                                           *)
(***************************************************************************)
MeasurementItems(o, k) ==
  {<<"engines", Measured[o][k].engine>>, <<"benchmarks", Measured[o][k].wasm>>,
   <<"machines", "this">>}

LEMMA ItemsOfMeasurement ==
  ASSUME NEW o, NEW k \in DOMAIN Measured[o]
  PROVE  MeasurementItems(o, k) \subseteq Items(o)
BY DEF MeasurementItems, Items

Refers(d, it, o) == d \in DOMAIN docs /\ d[1] = it[1] /\ d[2] = Packaged[o][it].id

(* A stored measurement, the attempt that stored it and what it refers to. *)
Row(r) ==
  /\ r.by \in Uploaders /\ r.attempt \in DOMAIN Commands[r.by]
  /\ r.of \in Packages /\ r.measurement \in DOMAIN Measured[r.of]
  /\ Refers(r.engine, <<"engines", Measured[r.of][r.measurement].engine>>, r.of)
  /\ Refers(r.benchmark, <<"benchmarks", Measured[r.of][r.measurement].wasm>>, r.of)
  /\ Refers(r.machine, <<"machines", "this">>, r.of)

RowsInv == DocsInv /\ (\A r \in DOMAIN stored : Row(r)) /\ ReferencesDescribe

(* Its documents hold what it was packaged with.                           *)
Describes(r) ==
  LET m == Measured[r.of][r.measurement]
  IN  /\ {r.engine, r.benchmark, r.machine} \subseteq DOMAIN docs
      /\ docs[r.engine] = Packaged[r.of][<<"engines", m.engine>>]
      /\ docs[r.benchmark] = Packaged[r.of][<<"benchmarks", m.wasm>>]
      /\ docs[r.machine] = Packaged[r.of][<<"machines", "this">>]

(* The rows of the current batch.                                          *)
LEMMA ConvertedRow ==
  ASSUME DocsInv, NEW u \in Uploaders, ~DryRun(u), pc[u] = "batch", NEW k \in Batch(u),
         NEW r, r = Converted(u, k)
  PROVE  Row(r) /\ (~disturbed => Describes(r))
<1>1. /\ package[u] \in Packages /\ k \in DOMAIN Measured[package[u]]
      /\ attempt[u] \in DOMAIN Commands[u]
  <2>1. LocalOK(u) /\ ~Idle(u)
    BY DEF DocsInv, IdsInv, TypeInv, Idle
  <2>2. attempt[u] \in 1..Len(Commands[u])
    BY <2>1 DEF LocalOK
  <2>3. DOMAIN Commands[u] = 1..Len(Commands[u])
    BY UploadAssumption
  <2> QED BY <2>1, <2>2, <2>3 DEF LocalOK, Batch
<1>2. MeasurementItems(package[u], k) \subseteq DOMAIN ids[u]
  BY <1>1, ItemsOfMeasurement DEF DocsInv, IdsInv, Covered
<1>3. \A it \in MeasurementItems(package[u], k) : Refers(ids[u][it], it, package[u])
  BY <1>2 DEF DocsInv, IdsInv, Referred, Idle, Refers
<1>4. /\ r.by = u /\ r.attempt = attempt[u] /\ r.of = package[u] /\ r.measurement = k
      /\ r.engine = ids[u][<<"engines", Measured[package[u]][k].engine>>]
      /\ r.benchmark = ids[u][<<"benchmarks", Measured[package[u]][k].wasm>>]
      /\ r.machine = ids[u][<<"machines", "this">>]
  BY DEF Converted
<1>5. Row(r)
  <2>1. /\ Refers(r.engine, <<"engines", Measured[r.of][k].engine>>, r.of)
        /\ Refers(r.benchmark, <<"benchmarks", Measured[r.of][k].wasm>>, r.of)
        /\ Refers(r.machine, <<"machines", "this">>, r.of)
    BY <1>3, <1>4 DEF MeasurementItems
  <2>2. QED
    BY <1>1, <1>4, <2>1 DEF Row
<1>6. ASSUME ~disturbed PROVE Describes(r)
  <2>1. \A it \in MeasurementItems(package[u], k) :
          ids[u][it] \in DOMAIN docs /\ docs[ids[u][it]] = Packaged[package[u]][it]
    BY <1>2, <1>3, <1>6 DEF DocsInv, Calm, Registered, Idle, Refers
  <2>2. QED
    BY <1>4, <2>1 DEF MeasurementItems, Describes
<1>7. QED
  BY <1>5, <1>6

(* A row was there, or is one of the batch that is being sent.             *)
LEMMA NewRows ==
  ASSUME TypeInv, NEW u \in Uploaders, Acts(u), NEW r \in DOMAIN stored'
  PROVE  \/ r \in DOMAIN stored
         \/ /\ pc[u] = "batch" /\ ~DryRun(u) /\ UNCHANGED docs
            /\ \E k \in Batch(u) : r = Converted(u, k)
<1>1. CASE UNCHANGED <<stored, refused>>
  BY <1>1
<1>2. CASE Sending(u) /\ UNCHANGED docs
  <2>1. PICK part \in SUBSET Batch(u) : stored' = stored (+) Rows(u, part)
    BY <1>2 DEF Sending
  <2>2. DOMAIN stored' = DOMAIN stored \union {Converted(u, k) : k \in part}
    BY <2>1, BagsAdd DEF TypeInv, Rows
  <2>3. QED
    BY <1>2, <2>2 DEF Sending
<1>3. QED
  BY <1>1, <1>2, DatabaseSteps DEF TypeInv

LEMMA RowsKept ==
  ASSUME RowsInv, NEW u \in Uploaders, Acts(u), NEW r \in DOMAIN stored'
  PROVE  Row(r)' /\ (~disturbed' => Describes(r)')
<1>0. /\ DocsInv /\ IdsInv /\ TypeInv /\ disturbed \in BOOLEAN
      /\ DOMAIN docs \subseteq DOMAIN docs' /\ (~disturbed' => ~disturbed)
  BY NothingLost, DisturbedKept DEF RowsInv, DocsInv, IdsInv, TypeInv
<1>1. CASE r \in DOMAIN stored
  <2>1. Row(r) /\ (~disturbed => Describes(r))
    BY <1>1 DEF RowsInv, ReferencesDescribe, Describes
  <2>2. Row(r)'
    BY <1>0, <2>1 DEF Row, Refers
  <2>3. ASSUME ~disturbed' PROVE Describes(r)'
    <3>1. Grown /\ Describes(r)
      BY <1>0, <2>1, <2>3, Growth DEF DocsInv
    <3>2. QED
      BY <3>1 DEF Grown, Describes
  <2>4. QED
    BY <2>2, <2>3
<1>2. CASE r \notin DOMAIN stored
  <2>1. pc[u] = "batch" /\ ~DryRun(u) /\ UNCHANGED docs
    BY <1>0, <1>2, NewRows
  <2>2. PICK k \in Batch(u) : r = Converted(u, k)
    BY <1>0, <1>2, NewRows
  <2>3. Row(r) /\ (~disturbed => Describes(r))
    BY <1>0, <2>1, <2>2, ConvertedRow
  <2>4. Row(r)'
    BY <2>1, <2>3 DEF Row, Refers
  <2>5. Describes(r) => Describes(r)'
    BY <2>1 DEF Describes
  <2>6. QED
    BY <1>0, <2>3, <2>4, <2>5
<1>3. QED
  BY <1>1, <1>2

LEMMA InitRowsInv == Init => RowsInv
<1> SUFFICES ASSUME Init PROVE RowsInv
  OBVIOUS
<1>1. DOMAIN stored = {}
  BY DEF Init, EmptyBag, SetToBag
<1>2. QED
  BY <1>1, InitDocsInv DEF RowsInv, ReferencesDescribe

LEMMA RowsInvKept ==
  ASSUME RowsInv, [Next]_vars
  PROVE  RowsInv'
<1>1. DocsInv'
  BY DocsInvKept DEF RowsInv
<1>2. CASE UNCHANGED vars
  <2>1. UNCHANGED <<docs, stored, disturbed>>
    BY <1>2 DEF vars
  <2>2. \A r \in DOMAIN stored : Row(r)'
    BY <2>1 DEF RowsInv, Row, Refers
  <2>3. ReferencesDescribe'
    BY <2>1 DEF RowsInv, ReferencesDescribe
  <2>4. QED
    BY <1>1, <2>1, <2>2, <2>3 DEF RowsInv
<1>3. CASE Next
  <2>1. PICK u \in Uploaders : Acts(u)
    BY <1>3 DEF Next, Acts
  <2>2. ASSUME NEW r \in DOMAIN stored' PROVE Row(r)' /\ (~disturbed' => Describes(r)')
    BY <2>1, RowsKept
  <2>3. ReferencesDescribe'
    BY <2>2 DEF ReferencesDescribe, Describes
  <2>4. QED
    BY <1>1, <2>2, <2>3 DEF RowsInv
<1>4. QED
  BY <1>2, <1>3

THEOREM RowsInvariance == Spec => []RowsInv
BY InitRowsInv, RowsInvKept, PTL DEF Spec

(* Unless uploads that fight over an ID met or a GET hid another object, a *)
(* stored measurement refers to the very objects it was packaged with.     *)
THEOREM StoredAreDescribed == Spec => []ReferencesDescribe
<1>1. RowsInv => ReferencesDescribe
  BY DEF RowsInv
<1>2. QED
  BY <1>1, RowsInvariance, PTL

-----------------------------------------------------------------------------
(***************************************************************************)
(* The database is a catalog.                                              *)
(***************************************************************************)
Catalogue == {Resolved(r) : r \in DOMAIN stored}

Entry(r) ==
  [attempt |-> <<r.by, r.attempt>>, measurement |-> Description(r.of, r.measurement)]

(* A document that a measurement refers to is seen as the packaged object. *)
LEMMA FoundReference ==
  ASSUME IdsInv, NEW o \in Packages, NEW it \in Items(o), NEW d, Refers(d, it, o)
  PROVE  Found(it[1], d) = Seen(it[1], Packaged[o][it])
<1>1. PICK p \in Packages : \E jt \in Items(p) : jt[1] = d[1] /\ docs[d] = Packaged[p][jt]
  BY DEF Refers, IdsInv, Origin
<1>2. PICK jt \in Items(p) : jt[1] = d[1] /\ docs[d] = Packaged[p][jt]
  BY <1>1
<1>3. it[1] = jt[1] /\ Packaged[o][it].id = Packaged[p][jt].id
  BY <1>2 DEF Refers, IdsInv, TypeInv, DocsOK
<1>4. Seen(it[1], Packaged[o][it]) = Seen(it[1], Packaged[p][jt])
  BY <1>3, SeenSame
<1>5. QED
  BY <1>2, <1>4 DEF Found, Refers

(* What one finds for a stored measurement is its description.             *)
LEMMA ResolvedRow ==
  ASSUME IdsInv, NEW r, Row(r)
  PROVE  Resolved(r) = Entry(r)
<1> DEFINE m == Measured[r.of][r.measurement]
           e == <<"engines", m.engine>>
           b == <<"benchmarks", m.wasm>>
           h == <<"machines", "this">>
<1>1. r.of \in Packages /\ {e, b, h} \subseteq Items(r.of)
  BY ItemsOfMeasurement DEF Row, MeasurementItems
<1>2. Refers(r.engine, e, r.of) /\ Refers(r.benchmark, b, r.of) /\ Refers(r.machine, h, r.of)
  BY DEF Row
<1>3. e[1] = "engines" /\ b[1] = "benchmarks" /\ h[1] = "machines"
  OBVIOUS
<1>4. /\ Found("engines", r.engine) = Seen("engines", Packaged[r.of][e])
      /\ Found("benchmarks", r.benchmark) = Seen("benchmarks", Packaged[r.of][b])
      /\ Found("machines", r.machine) = Seen("machines", Packaged[r.of][h])
  <2> HIDE DEF e, b, h
  <2>1. QED
    BY <1>1, <1>2, <1>3, FoundReference
<1>5. QED
  BY <1>4 DEF Resolved, Entry, Description

Resolving == \A r \in DOMAIN stored : Resolved(r) = Entry(r)

LEMMA CatalogStep ==
  ASSUME RowsInv, Resolving, Resolving', NEW u \in Uploaders, Acts(u)
  PROVE  Catalogued!Next \/ UNCHANGED Catalogue
<1>0. TypeInv
  BY DEF RowsInv, DocsInv, IdsInv
<1>1. \A r : Entry(r)' = Entry(r)
  BY DEF Entry, Description, Packaged, Packages, CanPackage, FingerprintOf, Items, Seen, Shared, Objects
<1>2. \A r \in DOMAIN stored' : Resolved(r)' = Entry(r)
  BY <1>1 DEF Resolving
<1>3. Catalogue = {Entry(r) : r \in DOMAIN stored} /\ Catalogue' = {Entry(r) : r \in DOMAIN stored'}
  BY <1>2 DEF Catalogue, Resolving
<1>4. CASE UNCHANGED <<stored, refused>>
  BY <1>3, <1>4
<1>5. CASE Sending(u) /\ UNCHANGED docs
  <2> DEFINE me == <<u, attempt[u]>>
             tries == UNION {{v} \X DOMAIN Commands[v] : v \in Uploaders}
  <2>1. package[u] \in Packages /\ attempt[u] \in DOMAIN Commands[u]
    BY <1>0, <1>5, UploadAssumption DEF TypeInv, LocalOK, Idle, Sending
  <2>2. me \in tries
    BY <2>1
  <2>3. DOMAIN stored \subseteq DOMAIN stored'
    <3>1. PICK part \in SUBSET Batch(u) : stored' = stored (+) Rows(u, part)
      BY <1>5 DEF Sending
    <3>2. IsABag(stored)
      BY <1>0 DEF TypeInv
    <3>3. QED
      BY <3>1, <3>2, BagsAdd DEF Rows
  <2>4. ASSUME NEW e \in Catalogue' \ Catalogue
        PROVE  e \in [attempt : {me}, measurement : Descriptions[package[u]]]
    <3>1. PICK r \in DOMAIN stored' \ DOMAIN stored : e = Entry(r)
      BY <1>3, <2>4
    <3>2. PICK k \in Batch(u) : r = Converted(u, k)
      BY <1>0, <3>1, NewRows
    <3>3. r.by = u /\ r.attempt = attempt[u] /\ r.of = package[u] /\ r.measurement = k
      BY <3>2 DEF Converted
    <3>4. e = [attempt |-> me, measurement |-> Description(package[u], k)]
      BY <3>1, <3>3 DEF Entry
    <3>5. Description(package[u], k) \in Descriptions[package[u]]
      BY <2>1, <3>2 DEF Descriptions, Batch
    <3>6. QED
      BY <3>4, <3>5
  <2>5. Catalogued!Add(package[u], me)
    BY <1>3, <2>3, <2>4 DEF Catalogued!Add, Catalogue
  <2>6. QED
    BY <2>1, <2>2, <2>5 DEF Catalogued!Next
<1>6. QED
  BY <1>0, <1>4, <1>5, DatabaseSteps DEF TypeInv

(* Whichever uploads overlap and whichever requests fail, a measurement in *)
(* the database is described for good by what it was packaged with, as far *)
(* as IDs tell objects apart.                                              *)
THEOREM ImplementsCatalog == Spec => KeepsCatalog
<1>1. Init => Catalogued!Init
  <2> SUFFICES ASSUME Init PROVE Catalogued!Init
    OBVIOUS
  <2>1. DOMAIN stored = {}
    BY DEF Init, EmptyBag, SetToBag
  <2>2. QED
    BY <2>1 DEF Catalogued!Init
<1>2. ASSUME RowsInv, Resolving, Resolving', [Next]_vars
      PROVE  [Catalogued!Next]_Catalogue
  <2>1. CASE UNCHANGED vars
    BY <2>1 DEF vars, Catalogue, Resolved, Found
  <2>2. CASE Next
    <3>1. PICK u \in Uploaders : Acts(u)
      BY <2>2 DEF Next, Acts
    <3>2. QED
      BY <1>2, <3>1, CatalogStep
  <2>3. QED
    BY <1>2, <2>1, <2>2
<1>3. RowsInv => Resolving
  BY ResolvedRow DEF RowsInv, DocsInv, Resolving
<1>4. QED
  BY <1>1, <1>2, <1>3, RowsInvariance, PTL DEF Spec, KeepsCatalog, Catalogued!Spec, Catalogue
-----------------------------------------------------------------------------
(***************************************************************************)
(* What an attempt stores, with any overlap of uploads.                    *)
(***************************************************************************)
Answered == stored (+) refused

Mine(u) == {r \in DOMAIN Answered : r.by = u /\ r.attempt = attempt[u]}

SentSoFar(u) == {k \in DOMAIN Measured[package[u]] : k <= sent[u]}

Complete(u) ==
  /\ {r.measurement : r \in Mine(u)} = DOMAIN Measured[package[u]]
  /\ \A k \in DOMAIN Measured[package[u]] :
       \E r \in Mine(u) : Answered[r] = 1 /\ {q \in Mine(u) : q.measurement = k} = {r}

(* What the current attempt has sent was stored or refused, each of it     *)
(* once.                                                                   *)
ExactSoFar(u) ==
  /\ attempt[u] # 0 /\ DryRun(u) => Mine(u) = {}
  /\ pc[u] \in {"next", "get", "post"} => Mine(u) = {}
  /\ pc[u] = "batch" /\ ~DryRun(u) =>
       /\ Mine(u) = {Converted(u, k) : k \in SentSoFar(u)}
       /\ \A r \in Mine(u) : Answered[r] = 1
  /\ pc[u] = "done" => attempt[u] # 0 /\ (~DryRun(u) => Complete(u))

Owned == \A r \in DOMAIN Answered : r.by \in Uploaders /\ r.attempt \in 1..attempt[r.by]

SentInv == TypeInv /\ Owned /\ \A u \in Uploaders : ExactSoFar(u)

LEMMA AttemptsGrow ==
  ASSUME TypeInv, NEW u \in Uploaders, Acts(u), NEW v \in Uploaders
  PROVE  attempt[v] \in Nat /\ attempt'[v] \in Nat /\ attempt[v] <= attempt'[v]
<1>1. attempt[v] \in Nat
  BY UploadAssumption DEF TypeInv, LocalOK
<1>2. CASE v # u
  BY <1>1, <1>2, OthersKept DEF TypeInv
<1>3. CASE v = u /\ (Start(u) \/ StartFails(u))
  BY <1>1, <1>3 DEF Start, StartFails, TypeInv, Domains
<1>4. CASE v = u /\ Working(u)
  BY <1>1, <1>4 DEF Working, NextFingerprint, GetSame, GetOther, GetError, Post, PostFails,
                AllRegistered, SendBatch, BatchFails, Finish, Register, End
<1>5. QED
  BY <1>2, <1>3, <1>4 DEF Acts

RowsAdded(u, new) ==
  /\ DOMAIN Answered' = DOMAIN Answered \union new
  /\ \A r \in new : r.by = u /\ r.attempt = attempt[u]
  /\ \A r \in DOMAIN Answered \ new : Answered'[r] = Answered[r]
  /\ \A r \in new \ DOMAIN Answered : Answered'[r] = 1

(* Rows that are answered belong to the attempt that sent them.            *)
LEMMA AddedRows ==
  ASSUME TypeInv, NEW u \in Uploaders, NEW part, NEW rest, part \intersect rest = {},
         stored' = stored (+) Rows(u, part), refused' = refused (+) Rows(u, rest),
         NEW new, new = {Converted(u, k) : k \in part \union rest}
  PROVE  RowsAdded(u, new)
<1> DEFINE S == {Converted(u, k) : k \in part}
           T == {Converted(u, k) : k \in rest}
<1>1. \A k : /\ Converted(u, k).by = u /\ Converted(u, k).attempt = attempt[u]
             /\ Converted(u, k).measurement = k
  BY DEF Converted
<1>2. S \intersect T = {} /\ new = S \union T
  BY <1>1
<1>3. IsABag(stored) /\ IsABag(refused)
  BY DEF TypeInv
<1>4. Answered' = (stored (+) SetToBag(S)) (+) (refused (+) SetToBag(T))
  BY DEF Answered, Rows
<1>5. \A r \in new : r.by = u /\ r.attempt = attempt[u]
  BY <1>1
<1> HIDE DEF S, T
<1>6. /\ DOMAIN Answered' = DOMAIN Answered \union S \union T
      /\ \A r \in DOMAIN Answered \ (S \union T) : Answered'[r] = Answered[r]
      /\ \A r \in (S \union T) \ DOMAIN Answered : Answered'[r] = 1
  <2>1. Answered = stored (+) refused
    BY DEF Answered
  <2> DEFINE D == stored (+) refused
             E == (stored (+) SetToBag(S)) (+) (refused (+) SetToBag(T))
  <2>2. /\ DOMAIN E = DOMAIN D \union S \union T
        /\ \A r \in DOMAIN D \ (S \union T) : E[r] = D[r]
        /\ \A r \in (S \union T) \ DOMAIN D : E[r] = 1
    <3>1. BothAdded(stored, refused, S, T)
      BY <1>2, <1>3, BagsAddBoth
    <3>2. QED
      BY <3>1 DEF BothAdded
  <2>3. Answered = D /\ Answered' = E
    BY <1>4, <2>1
  <2> HIDE DEF D, E
  <2>4. QED
    BY <2>2, <2>3
<1>7. QED
  BY <1>2, <1>5, <1>6 DEF RowsAdded

(* What a step adds, if anything.                                          *)
LEMMA AnsweredSteps ==
  ASSUME TypeInv, NEW u \in Uploaders, Acts(u)
  PROVE  \/ Answered' = Answered
         \/ /\ ~DryRun(u) /\ ~Idle(u)
            /\ DOMAIN Answered \subseteq DOMAIN Answered'
            /\ \A r \in DOMAIN Answered' \ DOMAIN Answered : r.by = u /\ r.attempt = attempt[u]
            /\ \A r \in DOMAIN Answered : r.by # u => Answered'[r] = Answered[r]
<1>1. CASE UNCHANGED <<stored, refused>>
  BY <1>1 DEF Answered
<1>2. CASE Sending(u)
  <2>1. PICK part, rest \in SUBSET Batch(u) : /\ part \intersect rest = {}
                                             /\ stored' = stored (+) Rows(u, part)
                                             /\ refused' = refused (+) Rows(u, rest)
    BY <1>2 DEF Sending
  <2> DEFINE new == {Converted(u, k) : k \in part \union rest}
  <2>2. RowsAdded(u, new)
    <3>1. new = {Converted(u, k) : k \in part \union rest}
      OBVIOUS
    <3> HIDE DEF new
    <3>2. part \intersect rest = {}
      BY <2>1
    <3>3. QED
      BY <2>1, <3>1, <3>2, AddedRows
  <2> HIDE DEF new
  <2>3. QED
    BY <1>2, <2>2 DEF RowsAdded, Sending, Idle
<1>3. QED
  BY <1>1, <1>2, DatabaseSteps DEF TypeInv

LEMMA OwnedKept ==
  ASSUME SentInv, NEW u \in Uploaders, Acts(u)
  PROVE  Owned'
<1>1. ASSUME NEW r \in DOMAIN Answered
      PROVE  r.by \in Uploaders /\ r.attempt \in 1..attempt'[r.by]
  <2>1. r.by \in Uploaders /\ r.attempt \in 1..attempt[r.by]
    BY DEF SentInv, Owned
  <2>2. attempt[r.by] \in Nat /\ attempt'[r.by] \in Nat /\ attempt[r.by] <= attempt'[r.by]
    BY <2>1, AttemptsGrow DEF SentInv
  <2>3. QED
    BY <2>1, <2>2
<1>2. ASSUME NEW r \in DOMAIN Answered' \ DOMAIN Answered
      PROVE  r.by \in Uploaders /\ r.attempt \in 1..attempt'[r.by]
  <2>1. r.by = u /\ r.attempt = attempt[u] /\ ~Idle(u)
    BY <1>2, AnsweredSteps DEF SentInv
  <2>2. attempt[u] # 0
    BY <2>1 DEF SentInv, TypeInv, LocalOK
  <2>3. attempt[u] \in Nat /\ attempt'[u] \in Nat /\ attempt[u] <= attempt'[u]
    BY AttemptsGrow DEF SentInv
  <2>4. QED
    BY <2>1, <2>2, <2>3
<1>3. QED
  BY <1>1, <1>2 DEF Owned

LEMMA OthersExact ==
  ASSUME SentInv, NEW u \in Uploaders, Acts(u), NEW v \in Uploaders, v # u
  PROVE  ExactSoFar(v)'
<1>1. /\ pc'[v] = pc[v] /\ attempt'[v] = attempt[v] /\ package'[v] = package[v]
      /\ ids'[v] = ids[v] /\ sent'[v] = sent[v] /\ (DryRun(v)' <=> DryRun(v))
  BY OthersKept DEF SentInv, TypeInv
<1>2. Mine(v)' = Mine(v) /\ \A r \in Mine(v) : Answered'[r] = Answered[r]
  <2>1. CASE Answered' = Answered
    BY <1>1, <2>1 DEF Mine
  <2>2. CASE Answered' # Answered
    <3>1. /\ DOMAIN Answered \subseteq DOMAIN Answered'
          /\ \A r \in DOMAIN Answered' \ DOMAIN Answered : r.by = u
          /\ \A r \in DOMAIN Answered : r.by # u => Answered'[r] = Answered[r]
      BY <2>2, AnsweredSteps DEF SentInv
    <3>2. QED
      BY <1>1, <3>1 DEF Mine
  <2>3. QED
    BY <2>1, <2>2
<1>3. \A k \in SentSoFar(v) : Converted(v, k)' = Converted(v, k)
  BY <1>1 DEF Converted
<1>4. SentSoFar(v)' = SentSoFar(v)
  BY <1>1 DEF SentSoFar
<1>5. Complete(v) => Complete(v)'
  BY <1>1, <1>2 DEF Complete
<1>6. ExactSoFar(v)
  BY DEF SentInv
<1>7. {Converted(v, k) : k \in SentSoFar(v)}' = {Converted(v, k) : k \in SentSoFar(v)}
  BY <1>3, <1>4
<1>8. QED
  BY <1>1, <1>2, <1>5, <1>6, <1>7 DEF ExactSoFar

LEMMA OwnExact ==
  ASSUME SentInv, NEW u \in Uploaders, Acts(u)
  PROVE  ExactSoFar(u)'
<1>0. TypeInv /\ Domains /\ LocalOK(u) /\ ExactSoFar(u)
  BY DEF SentInv, TypeInv
<1>1. CASE Start(u) \/ StartFails(u)
  <2>1. /\ pc'[u] \in {"next", "failed"} /\ attempt'[u] = attempt[u] + 1
        /\ UNCHANGED <<stored, refused>>
    BY <1>0, <1>1 DEF Start, StartFails, Domains
  <2>2. \A r \in DOMAIN Answered : r.by = u => r.attempt \in 1..attempt[u]
    BY DEF SentInv, Owned
  <2>3. attempt[u] \in Nat
    BY AttemptsGrow DEF SentInv
  <2>4. Mine(u)' = {}
    BY <2>1, <2>2, <2>3 DEF Mine, Answered
  <2>5. QED
    BY <2>1, <2>4 DEF ExactSoFar
<1>2. ASSUME Working(u) PROVE attempt'[u] = attempt[u] /\ (DryRun(u)' <=> DryRun(u)) /\ attempt[u] # 0
  <2>1. attempt' = attempt
    BY <1>2 DEF Working, NextFingerprint, GetSame, GetOther, GetError, Post, PostFails,
                AllRegistered, SendBatch, BatchFails, Finish, Register, End
  <2>2. ~Idle(u)
    BY <1>2 DEF Working, NextFingerprint, GetSame, GetOther, Getting, GetError, Post,
                PostFails, AllRegistered, SendBatch, BatchFails, Finish, Idle
  <2>3. QED
    BY <1>0, <2>1, <2>2 DEF DryRun, LocalOK
<1>3. CASE NextFingerprint(u) \/ GetSame(u) \/ GetError(u) \/ Post(u)
           \/ (GetOther(u) /\ ~RetriesExhausted(bangs[u] + 1))
  <2>1. /\ pc[u] \in {"next", "get", "post"} /\ pc'[u] \in {"next", "get", "post"}
        /\ UNCHANGED <<stored, refused, attempt>>
    BY <1>0, <1>3 DEF NextFingerprint, GetSame, Getting, GetError, Post, GetOther, Register, Domains
  <2>2. Mine(u)' = Mine(u)
    BY <2>1 DEF Mine, Answered
  <2>3. QED
    BY <1>0, <2>1, <2>2 DEF ExactSoFar
<1>4. CASE AllRegistered(u)
  <2>1. /\ pc[u] = "next" /\ pc'[u] = "batch" /\ sent[u] = 0
        /\ UNCHANGED <<stored, refused, attempt, package, sent>>
    BY <1>0, <1>4 DEF AllRegistered, Domains, LocalOK
  <2>2. Mine(u)' = {}
    BY <1>0, <2>1 DEF ExactSoFar, Mine, Answered
  <2>3. SentSoFar(u)' = {}
    <3>1. \A k \in DOMAIN Measured[package[u]] : ~(k <= 0)
      BY <1>0, UploadAssumption DEF LocalOK
    <3>2. QED
      BY <2>1, <3>1 DEF SentSoFar
  <2>4. QED
    BY <2>1, <2>2, <2>3 DEF ExactSoFar
<1>5. CASE SendBatch(u) /\ DryRun(u)
  <2>1. /\ pc'[u] = "batch" /\ attempt' = attempt /\ attempt[u] # 0
        /\ UNCHANGED <<stored, refused>>
    BY <1>2, <1>5 DEF SendBatch, Working
  <2>2. Mine(u)' = Mine(u)
    BY <2>1 DEF Mine, Answered
  <2>3. DryRun(u)'
    BY <1>5, <2>1 DEF DryRun
  <2>4. Mine(u)' = {}
    BY <1>0, <1>5, <2>1, <2>2 DEF ExactSoFar
  <2>5. QED
    BY <2>1, <2>3, <2>4 DEF ExactSoFar
<1>6. CASE SendBatch(u) /\ ~DryRun(u)
  <2>1. PICK part \in SUBSET Batch(u) : /\ stored' = stored (+) Rows(u, part)
                                       /\ refused' = refused (+) Rows(u, Batch(u) \ part)
    BY <1>6 DEF SendBatch
  <2>2. /\ pc[u] = "batch" /\ UNCHANGED <<pc, attempt, package, ids>>
        /\ sent'[u] = sent[u] + BatchSize[u]
    BY <1>0, <1>6 DEF SendBatch, Domains
  <2> DEFINE old == {Converted(u, k) : k \in SentSoFar(u)}
             new == {Converted(u, k) : k \in Batch(u)}
  <2>3. Mine(u) = old /\ \A r \in Mine(u) : Answered[r] = 1
    BY <1>0, <1>6, <2>2 DEF ExactSoFar
  <2>4. RowsAdded(u, new)
    <3>1. part \union (Batch(u) \ part) = Batch(u) /\ part \intersect (Batch(u) \ part) = {}
      OBVIOUS
    <3>2. new = {Converted(u, k) : k \in part \union (Batch(u) \ part)}
      BY <3>1
    <3> HIDE DEF new
    <3>3. QED
      BY <1>0, <2>1, <3>1, <3>2, AddedRows
  <2>5. Mine(u)' = old \union new
    BY <2>2, <2>3, <2>4 DEF RowsAdded, Mine
  <2>6. old \intersect new = {}
    <3>1. \A k : Converted(u, k).measurement = k
      BY DEF Converted
    <3>2. SentSoFar(u) \intersect Batch(u) = {}
      <4>1. ASSUME NEW k \in SentSoFar(u), k \in Batch(u) PROVE FALSE
        <5>1. k \in Nat /\ sent[u] \in Nat
          BY <1>0, UploadAssumption DEF SentSoFar, LocalOK
        <5>2. QED
          BY <4>1, <5>1 DEF SentSoFar, Batch
      <4>2. QED
        BY <4>1
    <3>3. QED
      BY <3>1, <3>2
  <2>7. SentSoFar(u)' = SentSoFar(u) \union Batch(u)
    <3>1. \A k \in DOMAIN Measured[package[u]] : k \in Nat
      BY <1>0, UploadAssumption DEF LocalOK
    <3>2. sent[u] \in Nat /\ BatchSize[u] \in Nat
      BY <1>0, UploadAssumption DEF LocalOK
    <3>3. QED
      BY <2>2, <3>1, <3>2 DEF SentSoFar, Batch
  <2>8. {Converted(u, k) : k \in SentSoFar(u)}' = old \union new
    <3>1. \A k : Converted(u, k)' = Converted(u, k)
      BY <2>2 DEF Converted
    <3>2. QED
      BY <2>7, <3>1
  <2>9. \A r \in Mine(u)' : Answered'[r] = 1
    <3>1. \A r \in old : r \in DOMAIN Answered
      BY <2>3 DEF Mine
    <3>2. \A r \in new : r \notin DOMAIN Answered
      BY <2>3, <2>4, <2>6 DEF RowsAdded, Mine
    <3>3. QED
      BY <2>3, <2>4, <2>5, <2>6, <3>1, <3>2 DEF RowsAdded
  <2>10. DryRun(u)' <=> DryRun(u)
    BY <2>2 DEF DryRun
  <2>11. QED
    BY <1>6, <2>2, <2>5, <2>8, <2>9, <2>10 DEF ExactSoFar
<1>7. CASE Finish(u)
  <2>1. /\ pc[u] = "batch" /\ ~BatchLeft(u) /\ pc'[u] = "done"
        /\ UNCHANGED <<stored, refused, attempt, package>>
    BY <1>0, <1>7 DEF Finish, End, Domains
  <2>2. Mine(u)' = Mine(u) /\ (\A r \in Mine(u) : Answered'[r] = Answered[r])
    BY <2>1 DEF Mine, Answered
  <2>3. ASSUME ~DryRun(u) PROVE Complete(u)'
    <3>1. Mine(u) = {Converted(u, k) : k \in SentSoFar(u)} /\ \A r \in Mine(u) : Answered[r] = 1
      BY <1>0, <2>1, <2>3 DEF ExactSoFar
    <3>2. SentSoFar(u) = DOMAIN Measured[package[u]]
      BY <1>0, <2>1, UploadAssumption DEF SentSoFar, BatchLeft, LocalOK
    <3>3. \A k : Converted(u, k).measurement = k
      BY DEF Converted
    <3>4. {r.measurement : r \in Mine(u)} = DOMAIN Measured[package[u]]
      BY <3>1, <3>2, <3>3
    <3>5. ASSUME NEW k \in DOMAIN Measured[package[u]]
          PROVE  \E r \in Mine(u) : Answered[r] = 1 /\ {q \in Mine(u) : q.measurement = k} = {r}
      <4>1. Converted(u, k) \in Mine(u) /\ Answered[Converted(u, k)] = 1
        BY <3>1, <3>2, <3>5
      <4>2. {q \in Mine(u) : q.measurement = k} = {Converted(u, k)}
        BY <3>1, <3>3, <4>1
      <4>3. QED
        BY <4>1, <4>2
    <3>6. QED
      BY <2>1, <2>2, <3>4, <3>5 DEF Complete
  <2>4. attempt[u] # 0 /\ (DryRun(u)' <=> DryRun(u))
    BY <1>2, <1>7 DEF Working
  <2>5. QED
    BY <1>0, <2>1, <2>2, <2>3, <2>4 DEF ExactSoFar
<1>8. CASE PostFails(u) \/ BatchFails(u) \/ (GetOther(u) /\ RetriesExhausted(bangs[u] + 1))
  <2>1. pc'[u] = "failed" /\ attempt'[u] = attempt[u]
    BY <1>0, <1>8 DEF PostFails, BatchFails, GetOther, End, Domains
  <2>2. (DryRun(u)' <=> DryRun(u)) /\ attempt[u] # 0
    BY <1>2, <1>8 DEF Working
  <2>3. DryRun(u) => Answered' = Answered
    BY <1>0, AnsweredSteps
  <2>4. DryRun(u) => Mine(u)' = {}
    BY <1>0, <2>1, <2>2, <2>3 DEF ExactSoFar, Mine
  <2>5. QED
    BY <2>1, <2>2, <2>4 DEF ExactSoFar
<1>9. QED
  BY <1>1, <1>3, <1>4, <1>5, <1>6, <1>7, <1>8 DEF Acts, Working

LEMMA SentInvKept ==
  ASSUME SentInv, [Next]_vars
  PROVE  SentInv'
<1>1. TypeInv'
  BY TypeInvKept DEF SentInv
<1>2. CASE UNCHANGED vars
  <2>0. UNCHANGED <<stored, refused, pc, attempt, package, ids, sent>> /\ Answered' = Answered
    BY <1>2 DEF vars, uploader, Answered
  <2>1. Owned'
    BY <2>0 DEF SentInv, Owned
  <2>2. ASSUME NEW u \in Uploaders PROVE ExactSoFar(u)'
    <3>1. /\ Mine(u)' = Mine(u) /\ SentSoFar(u)' = SentSoFar(u)
          /\ (Complete(u) => Complete(u)') /\ (DryRun(u)' <=> DryRun(u))
      BY <2>0 DEF Mine, SentSoFar, Complete, DryRun
    <3>2. {Converted(u, k) : k \in SentSoFar(u)}' = {Converted(u, k) : k \in SentSoFar(u)}
      <4>1. \A k : Converted(u, k)' = Converted(u, k)
        BY <2>0 DEF Converted
      <4>2. QED
        BY <3>1, <4>1
    <3>3. QED
      BY <2>0, <3>1, <3>2 DEF SentInv, ExactSoFar
  <2>3. QED
    BY <1>1, <2>1, <2>2 DEF SentInv
<1>3. CASE Next
  <2>1. PICK u \in Uploaders : Acts(u)
    BY <1>3 DEF Next, Acts
  <2>2. ASSUME NEW v \in Uploaders PROVE ExactSoFar(v)'
    BY <2>1, OwnExact, OthersExact
  <2>3. QED
    BY <1>1, <2>1, <2>2, OwnedKept DEF SentInv
<1>4. QED
  BY <1>2, <1>3

(* However uploads overlap, one that succeeds has had each measurement of  *)
(* its package stored or refused once, and a dry run none.                 *)
THEOREM SuccessIsExact == Spec => []UploadExact
<1>1. Init => SentInv
  <2> SUFFICES ASSUME Init PROVE SentInv
    OBVIOUS
  <2>1. DOMAIN Answered = {}
    BY DEF Init, Answered, EmptyBag, SetToBag, BagToSet, (+)
  <2>2. QED
    BY <2>1, InitTypeInv DEF Init, SentInv, Owned, ExactSoFar
<1>2. SentInv /\ [Next]_vars => SentInv'
  BY SentInvKept
<1>3. SentInv => UploadExact
  <2> SUFFICES ASSUME SentInv, NEW u \in Uploaders, pc[u] = "done"
               PROVE  IF DryRun(u) THEN Mine(u) = {} ELSE Complete(u)
    BY DEF UploadExact, Mine, Complete, Answered
  <2>1. QED
    BY DEF SentInv, ExactSoFar
<1>4. QED
  BY <1>1, <1>2, <1>3, PTL DEF Spec
=============================================================================
