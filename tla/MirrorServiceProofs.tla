-------------------------- MODULE MirrorServiceProofs --------------------------
(* The safety properties of MirrorService, for any number of workers, keys *)
(* and contents: IInv is inductive, and so are, while nobody repairs,      *)
(* FillInv, SuccessMeansStored and AllWhole beside it, which give the      *)
(* refinement of ImmutableMirror.                                          *)
EXTENDS MirrorService, TLAPS

USE MirrorAssumption

(***************************************************************************)
(* Which steps change what.                                                *)
(***************************************************************************)

(* The cache call of a worker, and a request of it that gets no answer.    *)
Getting(p)  == GetHits(p) \/ GetMisses(p) \/ GetFetches(p) \/ GetRetries(p)
NoAnswer(p) == Unanswered(p) \/ CreateUnanswered(p)
Act(p)      == Begin(p) \/ Work(p) \/ Crash(p) \/ NoAnswer(p)

(* What is a worker's own is not touched by another one's step.            *)
LEMMA Others ==
    ASSUME TypeOK, NEW p \in Worker, Act(p), NEW q \in Worker \ {p}
    PROVE  /\ pc'[q] = pc[q] /\ job'[q] = job[q] /\ key'[q] = key[q]
           /\ pin'[q] = pin[q] /\ draft'[q] = draft[q]
           /\ meta'[q] = meta[q] /\ etag'[q] = etag[q]
           /\ served'[q] = served[q]
           /\ lock' = q <=> lock = q
<1> USE DEF TypeOK, cacheVars, s3Vars, fileVars, jobVars, putVars, Goto
<1>1. CASE Begin(p)
  BY <1>1 DEF Begin, StartServe, StartRepair, StartMirror, ReadManifest, Start
<1>2. CASE \/ NextArtifact(p) \/ AllDone(p) \/ HeadHit(p) \/ HeadMiss(p)
           \/ Redirect(p) \/ Error(p) \/ Crash(p) \/ NoAnswer(p)
  BY <1>2 DEF NextArtifact, AllDone, HeadHit, HeadMiss, Redirect, Error,
     Crash, NoAnswer, Unanswered, CreateUnanswered, End, Unlock, Cache!Forget,
     Cache!Answer
<1>3. CASE \/ Inspect(p) \/ Observe(p) \/ ExamineGood(p) \/ ExamineBad(p)
           \/ RepairDone(p) \/ PinDigest(p)
  BY <1>3 DEF Inspect, Observe, ExamineGood, ExamineBad, RepairDone, PinDigest,
              PinAt, NextOne, Cache!Forget, Cache!Answer
<1>4. CASE Get(p) \/ Getting(p) \/ ReadEntry(p)
  BY <1>4 DEF Get, Getting, GetHits, GetMisses, GetFetches, GetRetries,
     ReadEntry, Cache!Ask, Cache!Publish, Cache!Bind, Cache!Hit, Cache!Answer
<1>5. CASE \/ Hash(p) \/ PutAbsent(p) \/ PutPresent(p) \/ CreateUpload(p)
           \/ UploadParts(p) \/ Accepted(p) \/ Refused(p) \/ Conflict(p)
           \/ Discard(p)
  BY <1>5 DEF Hash, AfterHash, PutAbsent, PutPresent, CreateUpload, Creating,
              UploadParts, Accepted, Refused, Conflict, Discard
<1> QED BY <1>1, <1>2, <1>3, <1>4, <1>5 DEF Act, Work, Getting

(***************************************************************************)
(* Types.                                                                  *)
(***************************************************************************)

CacheOK == /\ cached \in [Key -> Pinned]
           /\ stored \subseteq Digest /\ decayed \subseteq Digest
           /\ asked \in [Worker \cup {Other} -> Artifact \cup {None}]
           /\ served \in [Worker \cup {Other} -> Pinned]

LEMMA CacheTypes ==
    ASSUME IInv, [Next]_vars
    PROVE  CacheOK'
<1> USE DEF Pinned
<1>0. CacheOK
  BY DEF IInv, TypeOK, CacheOK
<1>1. CASE UNCHANGED cacheVars
  BY <1>0, <1>1 DEF CacheOK, cacheVars
<1>2. CASE \E p \in Worker : Cache!Forget(p)
  BY <1>0, <1>2 DEF CacheOK, Cache!Forget, Cache!Answer, Cache!dirVars
<1>3. CASE \E p \in Worker : Get(p)
  <2> PICK p \in Worker : Get(p)
    BY <1>3
  <2>1. key[p] \in Key /\ pin[p] \in Pinned
    BY DEF IInv, TypeOK, JobInv, Get
  <2>2. [key |-> key[p], pin |-> pin[p]] \in Artifact
    BY <2>1 DEF Artifact
  <2> QED BY <1>0, <2>2 DEF CacheOK, Get, Cache!Ask, Cache!dirVars
<1>4. CASE \E p \in Worker : Getting(p)
  <2> PICK p \in Worker : Getting(p)
    BY <1>4
  <2>1. CASE GetMisses(p)
    BY <1>1, <2>1 DEF GetMisses
  <2>2. CASE GetHits(p)
    BY <1>0, <2>2 DEF CacheOK, GetHits, Cache!Hit, Cache!Answer, Cache!dirVars
  <2>3. CASE GetFetches(p)
    <3> PICK d \in Digest : Cache!Publish(p, d)
      BY <2>3 DEF GetFetches
    <3> QED BY <1>0 DEF CacheOK, Cache!Publish, Cache!Answer
  <2>4. CASE GetRetries(p)
    <3> PICK d \in Digest : Cache!Bind(p, d)
      BY <2>4 DEF GetRetries
    <3> QED BY <1>0 DEF CacheOK, Cache!Bind, Cache!Answer
  <2> QED BY <2>1, <2>2, <2>3, <2>4 DEF Getting
<1>5. CASE CacheStep
  <2>1. CASE \E k \in Key : Cache!Ask(Other, [key |-> k, pin |-> None])
    <3> PICK k \in Key : Cache!Ask(Other, [key |-> k, pin |-> None])
      BY <2>1
    <3>1. [key |-> k, pin |-> None] \in Artifact
      BY DEF Artifact
    <3> QED BY <1>0, <3>1 DEF CacheOK, Cache!Ask, Cache!dirVars
  <2>2. ASSUME NEW d \in Digest,
               Cache!Publish(Other, d) \/ Cache!Bind(Other, d)
        PROVE  CacheOK'
    BY <1>0, <2>2 DEF CacheOK, Cache!Publish, Cache!Bind, Cache!Answer
  <2>3. ASSUME NEW d \in Digest, Cache!Reclaim(Other, d)
        PROVE  CacheOK'
    BY <1>0, <2>3 DEF CacheOK, Cache!Reclaim, Cache!Answer
  <2>4. CASE \/ \E d \in Digest : Cache!Store(Other, d)
             \/ \E k \in Key : Cache!Drop(k)
    BY <1>0, <2>4 DEF CacheOK, Cache!Store, Cache!Drop, Cache!Answer
  <2> QED BY <1>5, <2>1, <2>2, <2>3, <2>4 DEF CacheStep
<1>6. \A p \in Worker : Act(p) =>
         \/ UNCHANGED cacheVars \/ Cache!Forget(p) \/ Get(p) \/ Getting(p)
  <2> SUFFICES ASSUME NEW p \in Worker, Act(p), ~Get(p), ~Getting(p)
               PROVE  UNCHANGED cacheVars \/ Cache!Forget(p)
    OBVIOUS
  <2>1. CASE \/ Begin(p) \/ NextArtifact(p) \/ AllDone(p) \/ HeadHit(p)
             \/ HeadMiss(p) \/ Redirect(p) \/ Error(p) \/ Crash(p)
             \/ NoAnswer(p)
    BY <2>1 DEF Begin, StartServe, StartRepair, StartMirror, ReadManifest,
                Start, NextArtifact, AllDone, HeadHit, HeadMiss, Redirect,
                Error, Crash, NoAnswer, Unanswered, CreateUnanswered, End
  <2>2. CASE \/ Inspect(p) \/ Observe(p) \/ ExamineGood(p) \/ ExamineBad(p)
             \/ RepairDone(p) \/ PinDigest(p) \/ ReadEntry(p)
    BY <2>2 DEF Inspect, Observe, ExamineGood, ExamineBad, RepairDone,
                PinDigest, PinAt, NextOne, ReadEntry
  <2>3. CASE \/ Hash(p) \/ PutAbsent(p) \/ PutPresent(p) \/ CreateUpload(p)
             \/ UploadParts(p) \/ Accepted(p) \/ Refused(p) \/ Conflict(p)
             \/ Discard(p)
    BY <2>3 DEF Hash, PutAbsent, PutPresent, CreateUpload, Creating,
       UploadParts, Accepted, Refused, Conflict, Discard
  <2> QED BY <2>1, <2>2, <2>3 DEF Act, Work, Getting
<1>7. LateArrives \/ Damage \/ UNCHANGED vars => UNCHANGED cacheVars
  BY DEF LateArrives, Damage, vars
<1> QED BY <1>1, <1>2, <1>3, <1>4, <1>5, <1>6, <1>7 DEF Next, Act, NoAnswer

(* What a write sends is well-formed.                                      *)
LEMMA RequestTypes ==
    ASSUME IInv, NEW p \in Worker, Sending(p)
    PROVE  /\ Request(p) \in Put
           /\ Request(p).key \in Key
           /\ Request(p).body = Request(p).sha
BY DEF IInv, TypeOK, JobInv, SendInv, Sends, Sending, Request, Put, Pinned

LEMMA TypeStep ==
    ASSUME IInv, [Next]_vars
    PROVE  TypeOK'
<1> USE DEF Pinned
<1>c. CacheOK'
  BY CacheTypes
<1>t. TypeOK /\ JobInv /\ SendInv
  BY DEF IInv
<1> USE DEF s3Vars, fileVars, jobVars, putVars, Goto, Labels
<1>1. ASSUME NEW p \in Worker, Begin(p)
      PROVE  TypeOK'
  <2>1. CASE StartServe(p)
    <3>1. PICK k \in Key, w \in Pinned :
             /\ Start(p, "serve", k, w, "head")
             /\ UNCHANGED <<lock, todo, draft>>
      BY <1>t, <2>1 DEF StartServe, TypeOK
    <3> QED BY <1>c, <1>t, <3>1 DEF TypeOK, CacheOK, Start
  <2>2. CASE StartRepair(p)
    BY <1>c, <1>t, <2>2 DEF TypeOK, CacheOK, StartRepair, ReadManifest, Start
  <2>3. CASE StartMirror(p)
    BY <1>c, <1>t, <2>3 DEF TypeOK, CacheOK, StartMirror, ReadManifest, Start
  <2> QED BY <1>1, <2>1, <2>2, <2>3 DEF Begin
<1>2. ASSUME NEW p \in Worker,
             AllDone(p) \/ Redirect(p) \/ Error(p) \/ Crash(p)
      PROVE  TypeOK'
  <2>1. /\ End(p) /\ UNCHANGED <<object, nameless>>
        /\ \/ UNCHANGED <<uploads, late, faults>>
           \/ Abandon(p)
           \/ faults' = faults + 1 /\ UNCHANGED <<uploads, late>>
    BY <1>2 DEF AllDone, Redirect, Error, Crash
  <2> QED
    BY <1>c, <1>t, <2>1 DEF TypeOK, CacheOK, End, Unlock, NoPins, Abandon
<1>3. ASSUME NEW p \in Worker,
             NextArtifact(p) \/ HeadHit(p) \/ HeadMiss(p)
             \/ Inspect(p) \/ Observe(p) \/ ExamineBad(p)
      PROVE  TypeOK'
  <2>1. CASE NextArtifact(p)
    BY <1>c, <1>t, <2>1 DEF TypeOK, CacheOK, NextArtifact
  <2>2. CASE HeadHit(p) \/ Inspect(p)
    <3>1. key[p] \in Key
      BY <1>t, <2>2 DEF JobInv, HeadHit, Inspect
    <3>2. Readable(key[p]) => object[key[p]].sha \in Digest
      BY <1>t, <3>1 DEF TypeOK, Readable, Object
    <3>3. meta' \in [Worker -> Pinned]
      BY <1>t, <2>2, <3>2 DEF TypeOK, HeadHit, Inspect
    <3> QED BY <1>c, <1>t, <2>2, <3>3 DEF TypeOK, CacheOK, HeadHit, Inspect
  <2>3. CASE Observe(p)
    <3>1. key[p] \in Key
      BY <1>t, <2>3 DEF JobInv, Observe
    <3>2. ~Absent(key[p]) => object[key[p]].body \in Digest \cup {Garbage}
      BY <1>t, <3>1 DEF TypeOK, Absent, Object
    <3> QED BY <1>c, <1>t, <2>3, <3>2 DEF TypeOK, CacheOK, Observe
  <2>4. CASE HeadMiss(p) \/ ExamineBad(p)
    BY <1>c, <1>t, <2>4 DEF TypeOK, CacheOK, HeadMiss, ExamineBad
  <2> QED BY <1>3, <2>1, <2>2, <2>3, <2>4
<1>4. ASSUME NEW p \in Worker,
             ExamineGood(p) \/ RepairDone(p) \/ PinDigest(p)
      PROVE  TypeOK'
  <2>1. CASE ExamineGood(p) \/ RepairDone(p)
    <3>1. NextOne(p) /\ UNCHANGED <<manifest, draft>>
      BY <2>1 DEF ExamineGood, RepairDone
    <3> QED BY <1>c, <1>t, <3>1 DEF TypeOK, CacheOK, NextOne
  <2>2. CASE PinDigest(p)
    <3>1. /\ draft' = [draft EXCEPT ![p][key[p]] = meta[p]]
          /\ manifest' = draft'[p]
          /\ NextOne(p)
      BY <2>2 DEF PinDigest, PinAt
    <3>2. draft' \in [Worker -> [Key -> Pinned]]
      BY <1>t, <3>1 DEF TypeOK
    <3>3. manifest' \in [Key -> Pinned]
      BY <3>1, <3>2
    <3> QED BY <1>c, <1>t, <3>1, <3>2, <3>3 DEF TypeOK, CacheOK, NextOne
  <2> QED BY <1>4, <2>1, <2>2
<1>5. ASSUME NEW p \in Worker,
             Get(p) \/ Getting(p) \/ ReadEntry(p) \/ Hash(p)
             \/ PutAbsent(p) \/ PutPresent(p) \/ CreateUpload(p)
             \/ UploadParts(p)
      PROVE  TypeOK'
  <2>1. CASE Get(p) \/ Getting(p) \/ Hash(p) \/ PutAbsent(p)
    BY <1>c, <1>t, <2>1 DEF TypeOK, CacheOK, Get, Getting, GetHits, GetMisses,
       GetFetches, GetRetries, Hash, AfterHash, PutAbsent
  <2>2. CASE PutPresent(p) \/ UploadParts(p)
    BY <1>c, <1>t, <2>2 DEF TypeOK, CacheOK, PutPresent, UploadParts
  <2>3. CASE CreateUpload(p)
    BY <1>c, <1>t, <2>3 DEF TypeOK, CacheOK, CreateUpload, Creating
  <2>4. CASE ReadEntry(p)
    BY <1>c, <1>t, <2>4 DEF TypeOK, CacheOK, ReadEntry
  <2> QED BY <1>5, <2>1, <2>2, <2>3, <2>4
<1>6. ASSUME NEW p \in Worker, Accepted(p)
      PROVE  TypeOK'
  BY <1>c, <1>t, <1>6, RequestTypes DEF TypeOK, CacheOK, Accepted, Apply,
        Object, Put
<1>7. ASSUME NEW p \in Worker, Refused(p) \/ Conflict(p) \/ Discard(p)
      PROVE  TypeOK'
  <2>1. CASE Refused(p)
    BY <1>c, <1>t, <2>1 DEF TypeOK, CacheOK, Refused
  <2>2. CASE Conflict(p)
    <3>1. attempt[p] + 1 \in 0..2
      <4>1. attempt[p] \in 0..2
        BY <1>t DEF TypeOK
      <4>2. attempt[p] < 2
        BY <2>2 DEF Conflict
      <4> QED BY <4>1, <4>2
    <3> QED BY <1>c, <1>t, <2>2, <3>1 DEF TypeOK, CacheOK, Conflict
  <2>3. CASE Discard(p)
    BY <1>c, <1>t, <2>3 DEF TypeOK, CacheOK, Discard, Abandon
  <2> QED BY <1>7, <2>1, <2>2, <2>3
<1>8. ASSUME NEW p \in Worker, NoAnswer(p)
      PROVE  TypeOK'
  BY <1>c, <1>t, <1>8, RequestTypes DEF TypeOK, CacheOK, NoAnswer, Unanswered,
     CreateUnanswered
<1>9. CASE LateArrives
  <2>1. PICK r \in late : Apply(r) \/ UNCHANGED <<object, uploads>>
    BY <1>9 DEF LateArrives
  <2>2. r.sha \in Digest /\ r.body \in Digest
    BY <1>t DEF TypeOK, Put
  <2>3. object' \in [Key -> Object \cup {None}] /\ uploads' \subseteq Worker
    BY <1>t, <2>1, <2>2 DEF TypeOK, Apply, Object
  <2> QED BY <1>c, <1>t, <1>9, <2>3 DEF TypeOK, CacheOK, LateArrives
<1>10. CASE CacheStep \/ UNCHANGED vars
  BY <1>c, <1>t, <1>10 DEF TypeOK, CacheOK, CacheStep, vars
<1>11. CASE Damage
  <2>1. PICK k \in Key :
           /\ ~Absent(k)
           /\ \/ object' = [object EXCEPT ![k].sha = NoMeta]
              \/ object' = [object EXCEPT ![k].body = Garbage]
              \/ object' = [object EXCEPT ![k] = None]
    BY <1>11 DEF Damage
  <2>2. object[k] \in Object
    BY <1>t, <2>1 DEF TypeOK, Absent
  <2>3. object' \in [Key -> Object \cup {None}]
    <3>1. /\ [object[k] EXCEPT !.sha = NoMeta] \in Object
          /\ [object[k] EXCEPT !.body = Garbage] \in Object
      BY <2>2 DEF Object
    <3> QED BY <1>t, <2>1, <3>1 DEF TypeOK
  <2> QED BY <1>c, <1>t, <1>11, <2>3 DEF TypeOK, CacheOK, Damage
<1> QED
  BY <1>1, <1>2, <1>3, <1>4, <1>5, <1>6, <1>7, <1>8, <1>9, <1>10, <1>11
     DEF Next, Work, Getting, NoAnswer

(***************************************************************************)
(* The inductive invariant.                                                *)
(***************************************************************************)

(* What no worker does leaves all workers as they are.                     *)
LEMMA WorldSteps ==
    ASSUME TypeOK, LateArrives \/ CacheStep \/ Damage \/ UNCHANGED vars
    PROVE  /\ UNCHANGED <<fileVars, pc, jobVars, putVars>>
           /\ \A p \in Worker : served'[p] = served[p]
<1>1. CASE LateArrives \/ Damage \/ UNCHANGED vars
  BY <1>1 DEF LateArrives, Damage, vars, cacheVars
<1>2. CASE CacheStep
  BY <1>2 DEF CacheStep, TypeOK, Cache!Store, Cache!Bind, Cache!Publish,
              Cache!Reclaim, Cache!Drop, Cache!Ask, Cache!Answer, Cache!dirVars
<1> QED BY <1>1, <1>2

(* The parts of JobInv and SendInv that speak of worker p.                 *)
JobOf(p) ==
    /\ pc[p] = "idle" => job[p] = None
    /\ pc[p] \notin {"idle", "next"} => key[p] \in Key
    /\ pc[p] = "next" => job[p] \in {"mirror", "repair"}
    /\ pc[p] \in Examining => job[p] = "repair"
    /\ etag[p] # None => job[p] = "repair"

SendOf(p) == pc[p] \in Sends => meta[p] \in Digest /\ served[p] = meta[p]

LEMMA OwnJob ==
    ASSUME IInv, NEW p \in Worker, Act(p)
    PROVE  JobOf(p)' /\ SendOf(p)'
<1> USE DEF jobVars, putVars, Goto, JobOf, SendOf, Sends, Examining
<1>t. TypeOK
  BY DEF IInv
<1>i. JobOf(p) /\ SendOf(p)
  BY DEF IInv, JobInv, SendInv
<1>1. CASE Begin(p)
  BY <1>t, <1>i, <1>1 DEF TypeOK, Begin, StartServe, StartRepair, StartMirror,
        ReadManifest, Start, Pinned
<1>2. CASE AllDone(p) \/ Redirect(p) \/ Error(p) \/ Crash(p)
  <2>1. End(p)
    BY <1>2 DEF AllDone, Redirect, Error, Crash
  <2> QED BY <1>t, <2>1 DEF TypeOK, End
<1>3. CASE NextArtifact(p) \/ HeadHit(p) \/ HeadMiss(p)
  BY <1>t, <1>i, <1>3 DEF TypeOK, NextArtifact, HeadHit, HeadMiss
<1>4. CASE Inspect(p) \/ Observe(p) \/ ExamineBad(p)
  BY <1>t, <1>i, <1>4 DEF TypeOK, Inspect, Observe, ExamineBad
<1>5. CASE ExamineGood(p) \/ RepairDone(p) \/ PinDigest(p)
  <2>1. NextOne(p) /\ job[p] \in {"mirror", "repair"}
    BY <1>i, <1>5 DEF ExamineGood, RepairDone, PinDigest, PinAt
  <2> QED BY <1>t, <2>1 DEF TypeOK, NextOne
<1>6. CASE Get(p) \/ Getting(p) \/ ReadEntry(p)
  BY <1>t, <1>i, <1>6 DEF TypeOK, Get, Getting, GetHits, GetMisses,
     GetFetches, GetRetries, ReadEntry
<1>7. CASE Hash(p)
  BY <1>t, <1>i, <1>7 DEF TypeOK, Hash, AfterHash, cacheVars
<1>8. CASE \/ PutAbsent(p) \/ PutPresent(p) \/ CreateUpload(p)
           \/ UploadParts(p) \/ Accepted(p) \/ Refused(p) \/ Conflict(p)
           \/ Discard(p) \/ NoAnswer(p)
  BY <1>t, <1>i, <1>8 DEF TypeOK, PutAbsent, PutPresent, CreateUpload,
     Creating, UploadParts, Accepted, Refused, Conflict, Discard, NoAnswer,
     Unanswered, CreateUnanswered, cacheVars, Sending
<1> QED BY <1>1, <1>2, <1>3, <1>4, <1>5, <1>6, <1>7, <1>8 DEF Act, Work,
           Getting

LEMMA JobStep ==
    ASSUME IInv, [Next]_vars
    PROVE  JobInv' /\ \A p \in Worker : SendOf(p)'
<1>t. TypeOK /\ (\A p \in Worker : JobOf(p) /\ SendOf(p))
  BY DEF IInv, JobInv, SendInv, JobOf, SendOf
<1>1. ASSUME NEW p \in Worker, Act(p), NEW q \in Worker
      PROVE  JobOf(q)' /\ SendOf(q)'
  <2>1. CASE q = p
    BY <1>1, <2>1, OwnJob
  <2>2. CASE q # p
    BY <1>t, <1>1, <2>2, Others DEF JobOf, SendOf
  <2> QED BY <2>1, <2>2
<1>2. ASSUME LateArrives \/ CacheStep \/ Damage \/ UNCHANGED vars,
             NEW q \in Worker
      PROVE  JobOf(q)' /\ SendOf(q)'
  BY <1>t, <1>2, WorldSteps DEF JobOf, SendOf, jobVars, putVars
<1>3. \A q \in Worker : JobOf(q)' /\ SendOf(q)'
  BY <1>1, <1>2 DEF Next, Act, NoAnswer
<1> QED BY <1>3 DEF JobInv, JobOf

(* Objects change by a write or a request that arrives late, both on a     *)
(* precondition, or by damage; late requests only by Unanswered.           *)
LEMMA ObjectSteps ==
    ASSUME IInv, [Next]_vars
    PROVE  \/ object' = object
           \/ \E p \in Worker : Accepted(p)
           \/ \E r \in late : LateArrives /\ Holds(r) /\ Apply(r)
           \/ Damage
<1>1. ASSUME NEW p \in Worker, Act(p), ~Accepted(p)
      PROVE  object' = object
  <2> USE DEF s3Vars
  <2>1. CASE \/ Begin(p) \/ NextArtifact(p) \/ AllDone(p) \/ HeadHit(p)
             \/ HeadMiss(p) \/ Redirect(p) \/ Error(p) \/ Crash(p)
             \/ NoAnswer(p)
    BY <2>1 DEF Begin, StartServe, StartRepair, StartMirror, ReadManifest,
          Start, NextArtifact, AllDone, HeadHit, HeadMiss, Redirect, Error,
          Crash, NoAnswer, Unanswered, CreateUnanswered
  <2>2. CASE \/ Inspect(p) \/ Observe(p) \/ ExamineGood(p) \/ ExamineBad(p)
             \/ RepairDone(p) \/ PinDigest(p)
    BY <2>2 DEF Inspect, Observe, ExamineGood, ExamineBad, RepairDone,
          PinDigest, PinAt, NextOne
  <2>3. CASE \/ Get(p) \/ Getting(p) \/ ReadEntry(p) \/ Hash(p)
             \/ PutAbsent(p) \/ PutPresent(p) \/ CreateUpload(p)
             \/ UploadParts(p) \/ Refused(p) \/ Conflict(p) \/ Discard(p)
    BY <2>3 DEF Get, Getting, GetHits, GetMisses, GetFetches, GetRetries,
       ReadEntry, Hash, PutAbsent, PutPresent, CreateUpload, Creating,
       UploadParts, Refused, Conflict, Discard
  <2> QED BY <1>1, <2>1, <2>2, <2>3 DEF Act, Work, Getting
<1>2. CASE LateArrives
  BY <1>2 DEF LateArrives
<1>3. CASE CacheStep \/ UNCHANGED vars
  BY <1>3 DEF CacheStep, vars, s3Vars
<1> QED BY <1>1, <1>2, <1>3 DEF Next, Act, NoAnswer

LEMMA LateSteps ==
    ASSUME IInv, [Next]_vars
    PROVE  late' \subseteq late
              \cup {Request(p) : p \in {q \in Worker : Unanswered(q)}}
<1>1. ASSUME NEW p \in Worker, Act(p), ~Unanswered(p)
      PROVE  late' \subseteq late
  <2> USE DEF s3Vars
  <2>1. CASE \/ Begin(p) \/ NextArtifact(p) \/ AllDone(p) \/ HeadHit(p)
             \/ HeadMiss(p) \/ Redirect(p) \/ Error(p) \/ Crash(p)
    BY <2>1 DEF Begin, StartServe, StartRepair, StartMirror, ReadManifest,
          Start, NextArtifact, AllDone, HeadHit, HeadMiss, Redirect, Error,
          Crash, Abandon
  <2>2. CASE \/ Inspect(p) \/ Observe(p) \/ ExamineGood(p) \/ ExamineBad(p)
             \/ RepairDone(p) \/ PinDigest(p)
    BY <2>2 DEF Inspect, Observe, ExamineGood, ExamineBad, RepairDone,
          PinDigest, PinAt, NextOne
  <2>3. CASE \/ Get(p) \/ Getting(p) \/ ReadEntry(p) \/ Hash(p)
             \/ PutAbsent(p) \/ PutPresent(p) \/ CreateUpload(p)
             \/ UploadParts(p) \/ Accepted(p) \/ Refused(p) \/ Conflict(p)
             \/ Discard(p)
    BY <2>3 DEF Get, Getting, GetHits, GetMisses, GetFetches, GetRetries,
       ReadEntry, Hash, PutAbsent, PutPresent, CreateUpload, Creating,
       UploadParts, Accepted, Refused, Conflict, Discard, Abandon
  <2>4. CASE CreateUnanswered(p)
    BY <2>4 DEF CreateUnanswered
  <2> QED BY <1>1, <2>1, <2>2, <2>3, <2>4 DEF Act, Work, Getting, NoAnswer
<1>2. CASE LateArrives \/ Damage \/ CacheStep \/ UNCHANGED vars
  BY <1>2 DEF LateArrives, Damage, CacheStep, vars, s3Vars
<1>3. ASSUME NEW p \in Worker, Unanswered(p)
      PROVE  late' = late \cup {Request(p)}
  BY <1>3 DEF Unanswered
<1> QED BY <1>1, <1>2, <1>3 DEF Next, Act, NoAnswer

LEMMA FaithfulStep ==
    ASSUME IInv, [Next]_vars
    PROVE  UploadsFaithful'
<1>i. TypeOK /\ UploadsFaithful /\ (\A r \in late : r \in Put /\ r.body = r.sha)
  BY DEF IInv, SendInv, TypeOK
<1>1. CASE object' = object
  BY <1>i, <1>1 DEF UploadsFaithful
<1>2. ASSUME NEW p \in Worker, Accepted(p)
      PROVE  UploadsFaithful'
  BY <1>i, <1>2, RequestTypes DEF Accepted, Apply, UploadsFaithful, TypeOK
<1>3. ASSUME NEW r \in late, Apply(r)
      PROVE  UploadsFaithful'
  BY <1>i, <1>3 DEF Apply, UploadsFaithful, TypeOK
<1>4. CASE Damage
  <2>1. PICK k \in Key :
           /\ object[k] # None
           /\ \/ object' = [object EXCEPT ![k].sha = NoMeta]
              \/ object' = [object EXCEPT ![k].body = Garbage]
              \/ object' = [object EXCEPT ![k] = None]
    BY <1>4 DEF Damage, Absent
  <2>2. object[k] \in Object
    BY <1>i, <2>1 DEF TypeOK
  <2>3. /\ [object[k] EXCEPT !.sha = NoMeta].sha = NoMeta
        /\ [object[k] EXCEPT !.body = Garbage].body = Garbage
    BY <2>2 DEF Object
  <2> QED BY <1>i, <2>1, <2>3 DEF UploadsFaithful, TypeOK
<1> QED BY <1>1, <1>2, <1>3, <1>4, ObjectSteps

(* The manifest changes only when a batch run pins a digest.               *)
LEMMA ManifestSteps ==
    ASSUME IInv, [Next]_vars
    PROVE  UNCHANGED manifest \/ \E p \in Worker : PinDigest(p)
<1>1. ASSUME NEW p \in Worker, Act(p), ~PinDigest(p)
      PROVE  UNCHANGED manifest
  <2> USE DEF fileVars
  <2>1. CASE \/ Begin(p) \/ NextArtifact(p) \/ AllDone(p) \/ HeadHit(p)
             \/ HeadMiss(p) \/ Redirect(p) \/ Error(p) \/ Crash(p)
             \/ NoAnswer(p)
    BY <2>1 DEF Begin, StartServe, StartRepair, StartMirror, ReadManifest,
          Start, NextArtifact, AllDone, HeadHit, HeadMiss, Redirect, Error,
          Crash, NoAnswer, Unanswered, CreateUnanswered, End
  <2>2. CASE \/ Inspect(p) \/ Observe(p) \/ ExamineGood(p) \/ ExamineBad(p)
             \/ RepairDone(p) \/ Get(p) \/ Getting(p) \/ ReadEntry(p)
    BY <2>2 DEF Inspect, Observe, ExamineGood, ExamineBad, RepairDone, Get,
          Getting, GetHits, GetMisses, GetFetches, GetRetries, ReadEntry
  <2>3. CASE \/ Hash(p) \/ PutAbsent(p) \/ PutPresent(p) \/ CreateUpload(p)
             \/ UploadParts(p) \/ Accepted(p) \/ Refused(p) \/ Conflict(p)
             \/ Discard(p)
    BY <2>3 DEF Hash, PutAbsent, PutPresent, CreateUpload, Creating,
       UploadParts, Accepted, Refused, Conflict, Discard
  <2> QED BY <1>1, <2>1, <2>2, <2>3 DEF Act, Work, Getting
<1> QED BY <1>1, WorldSteps DEF Next, Act, IInv, fileVars, NoAnswer

LEMMA BatchStep ==
    ASSUME IInv, [Next]_vars
    PROVE  BatchInv'
<1>t. TypeOK /\ JobInv /\ BatchInv
  BY DEF IInv
<1> USE DEF fileVars, jobVars, putVars, Goto
<1>1. ASSUME NEW p \in Worker, Act(p), UNCHANGED manifest
      PROVE  BatchInv'
  <2>1. /\ lock' = p <=> job'[p] = "mirror"
        /\ job'[p] = "mirror" =>
              /\ draft'[p] = manifest
              /\ key'[p] # None => pin'[p] = manifest[key'[p]]
    <3>1. CASE Begin(p)
      BY <1>t, <3>1 DEF TypeOK, JobInv, BatchInv, Begin, StartServe,
            StartRepair, StartMirror, ReadManifest, Start
    <3>2. CASE AllDone(p) \/ Redirect(p) \/ Error(p) \/ Crash(p)
      <4>1. End(p)
        BY <3>2 DEF AllDone, Redirect, Error, Crash
      <4> QED BY <1>t, <4>1 DEF TypeOK, End, Unlock
    <3>3. CASE NextArtifact(p)
      BY <1>t, <3>3 DEF TypeOK, BatchInv, NextArtifact
    <3>4. CASE ExamineGood(p) \/ RepairDone(p)
      BY <1>t, <3>4 DEF TypeOK, BatchInv, ExamineGood, RepairDone, NextOne
    <3>5. CASE PinDigest(p)
      BY <1>1, <1>t, <3>5 DEF TypeOK, BatchInv, PinDigest, PinAt, NextOne
    <3>6. CASE \/ HeadHit(p) \/ HeadMiss(p) \/ Inspect(p) \/ Observe(p)
               \/ ExamineBad(p) \/ Get(p) \/ Getting(p) \/ ReadEntry(p)
      BY <1>t, <3>6 DEF BatchInv, HeadHit, HeadMiss, Inspect, Observe,
         ExamineBad, Get, Getting, GetHits, GetMisses, GetFetches, GetRetries,
         ReadEntry
    <3>7. CASE \/ Hash(p) \/ PutAbsent(p) \/ PutPresent(p)
               \/ CreateUpload(p) \/ UploadParts(p) \/ Accepted(p)
               \/ Refused(p) \/ Conflict(p) \/ Discard(p) \/ NoAnswer(p)
      BY <1>t, <3>7 DEF BatchInv, Hash, PutAbsent, PutPresent, CreateUpload,
         Creating, UploadParts, Accepted, Refused, Conflict, Discard,
         NoAnswer, Unanswered, CreateUnanswered
    <3> QED BY <1>1, <3>1, <3>2, <3>3, <3>4, <3>5, <3>6, <3>7 DEF Act, Work,
               Getting
  <2> QED BY <1>t, <1>1, <2>1, Others DEF BatchInv
<1>2. ASSUME NEW p \in Worker, PinDigest(p)
      PROVE  BatchInv'
  <2>1. /\ job[p] = "mirror" /\ manifest' = draft'[p] /\ NextOne(p)
        /\ draft' = [draft EXCEPT ![p][key[p]] = meta[p]]
    BY <1>2 DEF PinDigest, PinAt
  <2>2. \A q \in Worker : job[q] = "mirror" => q = p
    BY <1>t, <2>1 DEF BatchInv
  <2>3. \A q \in Worker : lock' = q <=> job'[q] = "mirror"
    BY <1>t, <2>1 DEF BatchInv, NextOne
  <2> QED BY <1>t, <2>1, <2>2, <2>3 DEF BatchInv, NextOne, TypeOK
<1>3. CASE LateArrives \/ CacheStep \/ Damage \/ UNCHANGED vars
  BY <1>t, <1>3, WorldSteps DEF BatchInv
<1> QED BY <1>1, <1>2, <1>3, ManifestSteps DEF Next, Act, NoAnswer

LEMMA Inductive ==
    Spec => []IInv
<1>1. Init => IInv
  <2> SUFFICES ASSUME Init PROVE IInv
    OBVIOUS
  <2> USE DEF Init
  <2>1. TypeOK
    BY DEF TypeOK, Cache!Init, Pinned, NoPins, Labels
  <2>2. JobInv /\ SendInv /\ BatchInv /\ UploadsFaithful
    BY DEF JobInv, SendInv, BatchInv, UploadsFaithful, Sends, Examining
  <2> QED BY <2>1, <2>2 DEF IInv
<1>2. IInv /\ [Next]_vars => IInv'
  <2> SUFFICES ASSUME IInv, [Next]_vars PROVE IInv'
    OBVIOUS
  <2>1. TypeOK' /\ JobInv' /\ BatchInv' /\ UploadsFaithful'
    BY TypeStep, JobStep, BatchStep, FaithfulStep
  <2>2. \A r \in late' : r.body = r.sha
    <3>1. \A r \in late : r.body = r.sha
      BY DEF IInv, SendInv
    <3>2. \A p \in Worker : Unanswered(p) => Request(p).body = Request(p).sha
      BY RequestTypes DEF Unanswered
    <3> QED BY <3>1, <3>2, LateSteps
  <2>3. SendInv'
    BY <2>2, JobStep DEF SendInv, SendOf
  <2> QED BY <2>1, <2>3 DEF IInv
<1> QED BY <1>1, <1>2, PTL DEF Spec

(* The inductive invariant: a write under way or late carries the body its *)
(* metadata names (s3.rs:287-340), and a batch run's copy is the manifest  *)
(* while it holds the lock (bin:375-418).                                  *)
THEOREM Invariance == Spec => []IInv
BY Inductive

(* All state has its type; in particular put_object is tried at most three *)
(* times (s3.rs:310-342).                                                  *)
THEOREM TypeCorrect == Spec => []TypeOK
<1>1. IInv => TypeOK
  BY DEF IInv
<1> QED BY <1>1, Inductive, PTL

(* Whatever worker, of the service or of a command, writes an object, its  *)
(* body is the content that its metadata names.                            *)
THEOREM BodiesMatch == Spec => []UploadsFaithful
<1>1. IInv => UploadsFaithful
  BY DEF IInv
<1> QED BY <1>1, Inductive, PTL

(* The lock of mirror_manifest keeps batch runs from undoing pins.         *)
THEOREM PinsStay == Spec => PinsKept
<1>1. IInv /\ [Next]_vars =>
         \A k \in Key : manifest[k] # None => manifest'[k] = manifest[k]
  <2> SUFFICES ASSUME IInv, [Next]_vars, NEW k \in Key, manifest[k] # None
               PROVE  manifest'[k] = manifest[k]
    OBVIOUS
  <2>1. ASSUME NEW p \in Worker, PinDigest(p)
        PROVE  manifest'[k] = manifest[k]
    <3>1. /\ job[p] = "mirror" /\ pc[p] = "stored"
          /\ Allows(p, meta[p])
          /\ draft' = [draft EXCEPT ![p][key[p]] = meta[p]]
          /\ manifest' = draft'[p]
      BY <2>1 DEF PinDigest, PinAt
    <3>2. /\ draft[p] = manifest /\ key[p] \in Key
          /\ pin[p] = manifest[key[p]]
      BY <3>1 DEF IInv, BatchInv, JobInv
    <3>3. manifest' = [manifest EXCEPT ![key[p]] = meta[p]]
      BY <3>1, <3>2 DEF IInv, TypeOK
    <3> QED BY <3>1, <3>2, <3>3 DEF Allows, IInv, TypeOK
  <2> QED BY <2>1, ManifestSteps
<1> QED BY <1>1, Inductive, PTL DEF Spec, PinsKept

(* S3's preconditions, and etags taken before anything is examined, let a  *)
(* repair replace only what it has observed, and nobody else overwrite.    *)
THEOREM ObservedOnly == Spec => ReplaceObserved
<1>1. ASSUME IInv, [Next]_vars, NEW k \in Key, Overwrites(k)
      PROVE  \/ \E p \in Worker : job[p] = "repair" /\ key[p] = k
                                      /\ etag[p] = object[k].body
             \/ \E r \in late : r.key = k /\ r.etag = object[k].body
  <2>t. TypeOK /\ JobInv
    BY <1>1 DEF IInv
  <2>1. ASSUME NEW p \in Worker, Accepted(p)
        PROVE  job[p] = "repair" /\ key[p] = k /\ etag[p] = object[k].body
    <3>1. key[p] = k /\ Holds(Request(p))
      BY <1>1, <2>t, <2>1 DEF Accepted, Apply, Request, Overwrites, TypeOK
    <3>2. etag[p] # None /\ etag[p] = object[k].body
      BY <1>1, <3>1 DEF Holds, Request, Absent, Overwrites
    <3> QED BY <2>t, <3>1, <3>2 DEF JobInv
  <2>2. ASSUME NEW r \in late, Holds(r), Apply(r)
        PROVE  r.key = k /\ r.etag = object[k].body
    BY <1>1, <2>t, <2>2 DEF Apply, Holds, Absent, Overwrites, TypeOK
  <2>3. ASSUME Damage
        PROVE  FALSE
    <3>1. PICK j \in Key :
             \/ object' = [object EXCEPT ![j].sha = NoMeta]
             \/ object' = [object EXCEPT ![j].body = Garbage]
             \/ object' = [object EXCEPT ![j] = None]
      BY <2>3 DEF Damage
    <3>2. j = k
      BY <1>1, <2>t, <3>1 DEF Overwrites, TypeOK
    <3>3. object[k] \in Object
      BY <1>1, <2>t DEF Overwrites, TypeOK
    <3>4. /\ [object[k] EXCEPT !.sha = NoMeta].sha = NoMeta
          /\ [object[k] EXCEPT !.body = Garbage].body = Garbage
      BY <3>3 DEF Object
    <3> QED BY <1>1, <2>t, <3>1, <3>2, <3>4 DEF Overwrites, TypeOK
  <2> QED BY <1>1, <2>1, <2>2, <2>3, ObjectSteps DEF Overwrites
<1>2. IInv /\ [Next]_vars =>
         [\A k \in Key : Overwrites(k) =>
            \/ \E p \in Worker : job[p] = "repair" /\ key[p] = k
                                   /\ etag[p] = object[k].body
            \/ \E r \in late : r.key = k /\ r.etag = object[k].body]_vars
  BY <1>1
<1> QED BY <1>2, Inductive, PTL DEF Spec, ReplaceObserved

(* Every path out of a multipart write completes or aborts its upload,     *)
(* unless that very step is a fault of it.                                 *)
THEOREM UploadsAborted == Spec => NoStrayUpload
<1>1. ASSUME IInv, [Next]_vars, faults' = faults
      PROVE  /\ nameless' = nameless
             /\ \A q \in Worker : Stray(q)' => Stray(q)
  <2>t. TypeOK
    BY <1>1 DEF IInv
  <2> DEFINE Kept == /\ nameless' = nameless
                     /\ \A q \in Worker : Stray(q)' => Stray(q)
  <2>1. ASSUME NEW p \in Worker, Act(p)
        PROVE  Kept
    <3> USE DEF s3Vars, Goto
    <3>f. faults + 1 # faults
      BY <2>t DEF TypeOK
    <3>o. \A q \in Worker \ {p} : pc'[q] = pc[q]
      BY <2>t, <2>1, Others
    <3>1. CASE \/ Begin(p) \/ NextArtifact(p) \/ AllDone(p) \/ HeadHit(p)
               \/ HeadMiss(p) \/ Redirect(p)
      <4>1. UNCHANGED <<uploads, nameless>> /\ (p \notin uploads \/ ~Open(p))
        BY <3>1 DEF Begin, StartServe, StartRepair, StartMirror, ReadManifest,
              Start, NextArtifact, AllDone, HeadHit, HeadMiss, Redirect, Open
      <4> QED BY <3>o, <4>1 DEF Stray, Open
    <3>2. CASE \/ Inspect(p) \/ Observe(p) \/ ExamineGood(p) \/ ExamineBad(p)
               \/ RepairDone(p) \/ PinDigest(p) \/ Get(p) \/ Getting(p)
               \/ ReadEntry(p) \/ Hash(p) \/ PutAbsent(p)
      <4>1. UNCHANGED <<uploads, nameless>>
        BY <3>2 DEF Inspect, Observe, ExamineGood, ExamineBad, RepairDone,
              PinDigest, PinAt, NextOne, Get, Getting, GetHits, GetMisses,
              GetFetches, GetRetries, ReadEntry, Hash, PutAbsent
      <4>2. ~Open(p)
        BY <3>2 DEF Inspect, Observe, ExamineGood, ExamineBad, RepairDone,
              PinDigest, PinAt, Get, Getting, GetHits, GetMisses, GetFetches,
              GetRetries, ReadEntry, Hash, PutAbsent, Open
      <4> QED BY <3>o, <4>1, <4>2 DEF Stray, Open
    <3>3. CASE CreateUpload(p)
      <4>1. /\ nameless' = nameless /\ uploads' = uploads \cup {p}
            /\ pc'[p] = "parts"
        BY <2>t, <3>3 DEF TypeOK, CreateUpload
      <4> QED BY <3>o, <4>1 DEF Stray, Open
    <3>8. CASE PutPresent(p) \/ UploadParts(p) \/ Refused(p)
      <4>1. UNCHANGED <<uploads, nameless>>
        BY <3>8 DEF PutPresent, UploadParts, Refused
      <4>2. Open(p) => pc'[p] \in {"complete", "race", "discard"}
        BY <2>t, <3>8 DEF TypeOK, PutPresent, UploadParts, Refused, Sending,
              Open
      <4> QED BY <3>o, <4>1, <4>2 DEF Stray, Open
    <3>4. CASE Accepted(p)
      <4>1. /\ uploads' = uploads \ {Request(p).upload}
            /\ nameless' = nameless
        BY <3>4 DEF Accepted, Apply
      <4>2. p \in uploads' => ~Open(p)
        BY <3>4, <4>1 DEF Accepted, Sending, Request, Open
      <4> QED BY <3>o, <4>1, <4>2 DEF Stray, Open
    <3>5. CASE Conflict(p)
      BY <3>5 DEF Conflict, Stray, Open
    <3>6. CASE NoAnswer(p) \/ Crash(p)
      BY <1>1, <3>f, <3>6 DEF NoAnswer, Unanswered, CreateUnanswered, Crash
    <3>7. CASE Discard(p) \/ Error(p)
      <4>1. /\ nameless' = nameless
            /\ \/ uploads' = uploads \ {p}
               \/ ~Open(p) /\ uploads' = uploads
        BY <1>1, <3>f, <3>7 DEF Discard, Error, Abandon
      <4> QED BY <3>o, <4>1 DEF Stray, Open
    <3> QED BY <2>1, <3>1, <3>2, <3>3, <3>4, <3>5, <3>6, <3>7,
               <3>8
            DEF Act, Work, Getting
  <2>2. CASE LateArrives
    BY <2>2 DEF LateArrives, Apply, Stray, Open
  <2>3. CASE Damage \/ CacheStep \/ UNCHANGED vars
    BY <2>3 DEF Damage, CacheStep, vars, s3Vars, Stray, Open
  <2> QED BY <1>1, <2>1, <2>2, <2>3 DEF Next, Act, NoAnswer
<1>2. IInv /\ [Next]_vars =>
         [ faults' = faults =>
             /\ nameless' = nameless
             /\ \A p \in Worker : Stray(p)' => Stray(p) ]_vars
  BY <1>1
<1> QED BY <1>2, Inductive, PTL DEF Spec, NoStrayUpload

(***************************************************************************)
(* While nobody repairs.                                                   *)
(***************************************************************************)

LEMMA JobSteps ==
    ASSUME IInv, NEW p \in Worker, Act(p)
    PROVE  job'[p] \in {job[p], None} \cup Jobs
<1>t. TypeOK
  BY DEF IInv
<1> USE DEF jobVars
<1>1. CASE Begin(p)
  BY <1>t, <1>1 DEF TypeOK, Begin, StartServe, StartRepair, StartMirror,
        ReadManifest, Start
<1>2. CASE AllDone(p) \/ Redirect(p) \/ Error(p) \/ Crash(p)
  BY <1>t, <1>2 DEF TypeOK, AllDone, Redirect, Error, Crash, End
<1>3. CASE \/ NextArtifact(p) \/ HeadHit(p) \/ HeadMiss(p) \/ Inspect(p)
           \/ Observe(p) \/ ExamineGood(p) \/ ExamineBad(p) \/ RepairDone(p)
           \/ PinDigest(p) \/ NoAnswer(p)
  BY <1>3 DEF NextArtifact, HeadHit, HeadMiss, Inspect, Observe, ExamineGood,
     ExamineBad, RepairDone, PinDigest, PinAt, NextOne, NoAnswer, Unanswered,
     CreateUnanswered
<1>4. CASE \/ Get(p) \/ Getting(p) \/ ReadEntry(p) \/ Hash(p)
           \/ PutAbsent(p) \/ PutPresent(p) \/ CreateUpload(p)
           \/ UploadParts(p) \/ Accepted(p) \/ Refused(p) \/ Conflict(p)
           \/ Discard(p)
  BY <1>4 DEF Get, Getting, GetHits, GetMisses, GetFetches, GetRetries,
     ReadEntry, Hash, PutAbsent, PutPresent, CreateUpload, Creating,
     UploadParts, Accepted, Refused, Conflict, Discard
<1> QED BY <1>1, <1>2, <1>3, <1>4 DEF Act, Work, Getting

(* Every write under way, or late, is an If-None-Match.                    *)
LEMMA OnlyFills ==
    ASSUME WithoutRepair
    PROVE  Spec => []FillInv
<1>1. Init => FillInv
  BY DEF Init, FillInv
<1>2. IInv /\ FillInv /\ [Next]_vars => FillInv'
  <2> SUFFICES ASSUME IInv, FillInv, [Next]_vars PROVE FillInv'
    OBVIOUS
  <2>1. ASSUME NEW q \in Worker
        PROVE  job'[q] # "repair"
    <3>1. ASSUME NEW p \in Worker, Act(p)
          PROVE  job'[q] # "repair"
      <4>1. CASE q = p
        BY <3>1, <4>1, JobSteps DEF FillInv, WithoutRepair
      <4>2. CASE q # p
        BY <3>1, <4>2, Others DEF FillInv, IInv
      <4> QED BY <4>1, <4>2
    <3>2. CASE LateArrives \/ CacheStep \/ Damage \/ UNCHANGED vars
      BY <3>2, WorldSteps DEF FillInv, IInv, jobVars
    <3> QED BY <3>1, <3>2 DEF Next, Act, NoAnswer
  <2>2. \A p \in Worker : Request(p).etag = None
    BY DEF FillInv, IInv, JobInv, Request
  <2>3. \A r \in late' : r.etag = None
    BY <2>2, LateSteps DEF FillInv
  <2> QED BY <2>1, <2>3 DEF FillInv
<1> QED BY <1>1, <1>2, Inductive, PTL DEF Spec

LEMMA ObjectsStay ==
    ASSUME WithoutRepair, IInv, FillInv, [Next]_vars,
           NEW k \in Key, object[k] # None
    PROVE  object'[k] = object[k]
<1>t. TypeOK
  BY DEF IInv
<1>1. ASSUME NEW p \in Worker, Accepted(p)
      PROVE  object'[k] = object[k]
  <2>1. Absent(key[p])
    BY <1>1 DEF Accepted, Holds, Request, FillInv, IInv, JobInv
  <2> QED BY <1>t, <1>1, <2>1 DEF Accepted, Apply, Request, Absent, TypeOK
<1>2. ASSUME NEW r \in late, Holds(r), Apply(r)
      PROVE  object'[k] = object[k]
  BY <1>t, <1>2 DEF Holds, Apply, Absent, FillInv, TypeOK
<1>3. CASE Damage
  BY <1>3 DEF Damage, WithoutRepair
<1> QED BY <1>1, <1>2, <1>3, ObjectSteps

(* The objects of the mirror are immutable: no fill, retry, completion or  *)
(* late request of any number of workers overwrites one.                   *)
THEOREM ObjectsImmutable ==
    ASSUME WithoutRepair
    PROVE  Spec => Immutable
<1>1. IInv /\ FillInv /\ [Next]_vars =>
         \A k \in Key : object[k] # None => object'[k] = object[k]
  BY ObjectsStay
<1> QED BY <1>1, Inductive, OnlyFills, PTL DEF Spec, Immutable

(* A put that reports success, by whatever answer, is right.               *)
THEOREM SuccessRight ==
    ASSUME WithoutRepair
    PROVE  Spec => []SuccessMeansStored
<1> DEFINE StoredOf(p) == pc[p] \in {"stored", "discard"} =>
              Readable(key[p]) /\ object[key[p]].sha = meta[p]
<1>1. Init => SuccessMeansStored
  BY DEF Init, SuccessMeansStored
<1>2. IInv /\ FillInv /\ SuccessMeansStored /\ [Next]_vars
      => SuccessMeansStored'
  <2> SUFFICES ASSUME IInv, FillInv, SuccessMeansStored, [Next]_vars,
                      NEW q \in Worker
               PROVE  StoredOf(q)'
    BY DEF SuccessMeansStored
  <2>t. TypeOK /\ JobInv
    BY DEF IInv
  <2>i. StoredOf(q)
    BY DEF SuccessMeansStored
  <2>o. \A k \in Key : object[k] # None => object'[k] = object[k]
    BY ObjectsStay
  <2>1. CASE pc'[q] = pc[q] /\ key'[q] = key[q] /\ meta'[q] = meta[q]
    BY <2>t, <2>i, <2>o, <2>1 DEF JobInv, Readable
  <2>2. ASSUME Act(q)
        PROVE  StoredOf(q)'
    <3> USE DEF Goto, jobVars, putVars, s3Vars
    <3>1. CASE Begin(q)
      BY <2>t, <3>1 DEF TypeOK, Begin, StartServe, StartRepair, StartMirror,
            ReadManifest, Start
    <3>2. CASE AllDone(q) \/ Redirect(q) \/ Error(q) \/ Crash(q)
      BY <2>t, <3>2 DEF TypeOK, AllDone, Redirect, Error, Crash, End
    <3>3. CASE \/ NextArtifact(q) \/ HeadMiss(q) \/ Inspect(q) \/ Observe(q)
               \/ ExamineBad(q) \/ Get(q) \/ Getting(q) \/ ReadEntry(q)
      BY <2>t, <3>3 DEF TypeOK, NextArtifact, HeadMiss, Inspect, Observe,
         ExamineBad, Get, Getting, GetHits, GetMisses, GetFetches, GetRetries,
         ReadEntry
    <3>4. CASE ExamineGood(q) \/ RepairDone(q) \/ PinDigest(q)
      BY <2>t, <3>4 DEF TypeOK, ExamineGood, RepairDone, PinDigest, PinAt,
            NextOne
    <3>5. CASE HeadHit(q)
      BY <2>t, <3>5 DEF TypeOK, HeadHit, Readable
    <3>6. CASE PutPresent(q)
      BY <2>t, <3>6 DEF TypeOK, PutPresent, Matches, Readable
    <3>7. CASE Accepted(q)
      <4>1. key[q] \in Key /\ meta[q] \in Digest
        BY <3>7, RequestTypes DEF Accepted, Request, Put
      <4>2. object'[key[q]] = [sha |-> meta[q], body |-> served[q]]
        BY <2>t, <3>7, <4>1 DEF Accepted, Apply, Request, TypeOK
      <4>3. object'[key[q]] # None
        <5>1. object'[key[q]] \in Object
          BY <4>1, <4>2, <3>7, RequestTypes DEF Accepted, Request, Put, Object
        <5> QED BY <5>1
      <4> QED BY <3>7, <4>1, <4>2, <4>3 DEF Accepted, Readable
    <3>8. CASE Discard(q)
      BY <2>t, <2>i, <3>8 DEF TypeOK, Discard, Readable
    <3>9. CASE \/ Hash(q) \/ PutAbsent(q) \/ CreateUpload(q) \/ UploadParts(q)
               \/ Refused(q) \/ Conflict(q) \/ NoAnswer(q)
      BY <2>t, <2>i, <3>9 DEF TypeOK, Hash, AfterHash, PutAbsent,
         CreateUpload, Creating, UploadParts, Refused, Conflict, NoAnswer,
         Unanswered, CreateUnanswered, Sending, Readable
    <3> QED BY <2>2, <3>1, <3>2, <3>3, <3>4, <3>5, <3>6, <3>7, <3>8, <3>9 DEF
               Act, Work, Getting
  <2>3. CASE LateArrives \/ CacheStep \/ Damage \/ UNCHANGED vars
    BY <2>t, <2>1, <2>3, WorldSteps DEF jobVars, putVars
  <2>4. ASSUME NEW p \in Worker, Act(p), p # q
        PROVE  StoredOf(q)'
    BY <2>t, <2>1, <2>4, Others
  <2> QED BY <2>2, <2>3, <2>4 DEF Next, Act, NoAnswer
<1> QED BY <1>1, <1>2, Inductive, OnlyFills, PTL DEF Spec

(* A digest is pinned only when the object of the key has it.              *)
THEOREM PinsNameObjects ==
    ASSUME WithoutRepair
    PROVE  Spec => PinNamesObject
<1>1. IInv /\ SuccessMeansStored /\ [Next]_vars =>
         \A k \in Key : manifest'[k] # manifest[k] =>
            object[k] # None /\ object[k].sha = manifest'[k]
  <2> SUFFICES ASSUME IInv, SuccessMeansStored, [Next]_vars,
                      NEW k \in Key, manifest'[k] # manifest[k]
               PROVE  object[k] # None /\ object[k].sha = manifest'[k]
    OBVIOUS
  <2>1. PICK p \in Worker : PinDigest(p)
    BY ManifestSteps
  <2>2. /\ job[p] = "mirror" /\ pc[p] = "stored"
        /\ draft' = [draft EXCEPT ![p][key[p]] = meta[p]]
        /\ manifest' = draft'[p]
    BY <2>1 DEF PinDigest, PinAt
  <2>3. manifest' = [manifest EXCEPT ![key[p]] = meta[p]]
    BY <2>2 DEF IInv, BatchInv, TypeOK
  <2> QED BY <2>2, <2>3 DEF SuccessMeansStored, Readable, IInv, TypeOK
<1> QED BY <1>1, Inductive, SuccessRight, PTL DEF Spec, PinNamesObject

(***************************************************************************)
(* The refinement of the immutable mirror.                                 *)
(***************************************************************************)

(* Without damage every object is the content that its metadata names.     *)
AllWhole == \A k \in Key : object[k] # None =>
    object[k].sha \in Digest /\ object[k] = Mirror!Whole(object[k].sha)

LEMMA ObjectsWhole ==
    ASSUME WithoutRepair
    PROVE  Spec => []AllWhole
<1> USE DEF Mirror!Whole
<1>1. Init => AllWhole
  BY DEF Init, AllWhole
<1>2. IInv /\ AllWhole /\ [Next]_vars => AllWhole'
  <2> SUFFICES ASSUME IInv, AllWhole, [Next]_vars PROVE AllWhole'
    OBVIOUS
  <2>t. TypeOK /\ (\A r \in late : r \in Put /\ r.body = r.sha)
    BY DEF IInv, SendInv, TypeOK
  <2>1. CASE object' = object
    BY <2>1 DEF AllWhole
  <2>2. ASSUME NEW p \in Worker, Accepted(p)
        PROVE  AllWhole'
    <3>1. Request(p) \in Put /\ Request(p).body = Request(p).sha
      BY <2>2, RequestTypes DEF Accepted
    <3> QED BY <2>t, <2>2, <3>1 DEF Accepted, Apply, AllWhole, TypeOK, Put
  <2>3. ASSUME NEW r \in late, Apply(r)
        PROVE  AllWhole'
    BY <2>t, <2>3 DEF Apply, AllWhole, TypeOK, Put
  <2>4. CASE Damage
    BY <2>4 DEF Damage, WithoutRepair
  <2> QED BY <2>1, <2>2, <2>3, <2>4, ObjectSteps
<1> QED BY <1>1, <1>2, Inductive, PTL DEF Spec

(* A worker's step concerns its own key and what it alone was told.        *)
LEMMA OwnTold ==
    ASSUME IInv, NEW p \in Worker, Act(p)
    PROVE  /\ key' = [key EXCEPT ![p] = key'[p]]
           /\ Told' = [Told EXCEPT ![p] =
                 IF pc'[p] = "stored" THEN meta'[p] ELSE None]
<1>1. \A q \in Worker \ {p} :
         pc'[q] = pc[q] /\ key'[q] = key[q] /\ meta'[q] = meta[q]
  BY Others DEF IInv
<1>2. key' \in [Worker -> Key \cup {None}] /\ key \in [Worker -> Key \cup {None}]
  <2>1. TypeOK'
    BY TypeStep DEF Next, Act, NoAnswer
  <2> QED BY <2>1 DEF TypeOK, IInv
<1> QED BY <1>1, <1>2 DEF Told

(* What the steps of a worker are in the abstract mirror.                  *)
LEMMA WorkerMaps ==
    ASSUME WithoutRepair, IInv, FillInv, SuccessMeansStored, AllWhole,
           NEW p \in Worker, Act(p)
    PROVE  Mirror!Next \/ UNCHANGED Mirror!vars
<1> USE DEF Mirror!vars
<1>t. TypeOK /\ JobInv /\ BatchInv
  BY DEF IInv
<1>o. /\ key' = [key EXCEPT ![p] = key'[p]]
      /\ Told' = [Told EXCEPT ![p] =
            IF pc'[p] = "stored" THEN meta'[p] ELSE None]
  BY OwnTold
<1>y. /\ Told \in [Worker -> Pinned]
      /\ Told[p] = IF pc[p] = "stored" THEN meta[p] ELSE None
      /\ key \in [Worker -> Key \cup {None}]
  BY <1>t DEF Told, TypeOK, Pinned
<1>r. job[p] # "repair" /\ "repair" \notin Jobs
  BY DEF FillInv, WithoutRepair
<1> USE DEF s3Vars, fileVars, jobVars, putVars, Goto
<1>1. CASE \/ HeadMiss(p) \/ Get(p) \/ Getting(p) \/ ReadEntry(p)
           \/ Hash(p) \/ PutAbsent(p) \/ (PutPresent(p) /\ Open(p))
           \/ CreateUpload(p) \/ UploadParts(p) \/ Refused(p)
           \/ Conflict(p) \/ NoAnswer(p)
  <2>1. /\ UNCHANGED <<object, manifest, key>>
        /\ pc[p] # "stored" /\ pc'[p] # "stored"
    BY <1>t, <1>1 DEF TypeOK, HeadMiss, Get, Getting, GetHits, GetMisses,
       GetFetches, GetRetries, ReadEntry, Hash, AfterHash, PutAbsent,
       PutPresent, CreateUpload, Creating, UploadParts, Refused, Conflict,
       NoAnswer, Unanswered, CreateUnanswered, Sending
  <2> QED BY <1>o, <1>y, <2>1
<1>2. CASE StartServe(p) \/ NextArtifact(p)
  <2>1. /\ UNCHANGED <<object, manifest>>
        /\ pc[p] # "stored" /\ pc'[p] # "stored"
        /\ key'[p] \in Key
    BY <1>t, <1>2 DEF TypeOK, StartServe, Start, NextArtifact
  <2>2. Mirror!Want(p, key'[p])
    BY <1>o, <1>y, <2>1 DEF Mirror!Want
  <2> QED BY <2>1, <2>2 DEF Mirror!Next
<1>3. CASE \/ StartMirror(p) \/ AllDone(p) \/ Redirect(p) \/ Error(p)
           \/ Crash(p)
  <2>1. /\ UNCHANGED <<object, manifest>>
        /\ pc'[p] # "stored" /\ key'[p] = None
    BY <1>t, <1>3 DEF TypeOK, StartMirror, ReadManifest, Start, AllDone,
          Redirect, Error, Crash, End
  <2>2. Mirror!Finish(p)
    BY <1>o, <2>1 DEF Mirror!Finish, Mirror!LetGo
  <2> QED BY <2>2 DEF Mirror!Next
<1>4. CASE HeadHit(p) \/ (PutPresent(p) /\ ~Open(p)) \/ Discard(p)
  <2>1. /\ UNCHANGED <<object, manifest, key>>
        /\ pc[p] # "stored" /\ pc'[p] = "stored" /\ key[p] \in Key
        /\ Readable(key[p]) /\ meta'[p] = object[key[p]].sha
    BY <1>t, <1>4 DEF TypeOK, JobInv, SuccessMeansStored, HeadHit, PutPresent,
          Discard, Matches
  <2>2. meta'[p] \in Digest /\ object[key[p]] = Mirror!Whole(meta'[p])
    BY <2>1 DEF AllWhole, Readable
  <2>3. Mirror!Tell(p, meta'[p])
    BY <1>o, <1>y, <2>1, <2>2 DEF Mirror!Tell
  <2> QED BY <2>2, <2>3 DEF Mirror!Next
<1>5. CASE Accepted(p)
  <2>1. /\ UNCHANGED <<manifest, key, meta>>
        /\ pc[p] # "stored" /\ pc'[p] = "stored"
        /\ object' = [object EXCEPT ![key[p]] =
                         [sha |-> meta[p], body |-> served[p]]]
        /\ Holds(Request(p)) /\ Sending(p)
    BY <1>t, <1>5 DEF TypeOK, Accepted, Sending, Apply, Request
  <2>2. key[p] \in Key /\ meta[p] \in Digest /\ served[p] = meta[p]
    BY <2>1, RequestTypes DEF Request, Put
  <2>3. object[key[p]] = None
    BY <1>t, <1>r, <2>1 DEF JobInv, Holds, Request, Absent
  <2>4. Mirror!Tell(p, meta[p])
    BY <1>o, <1>y, <2>1, <2>2, <2>3
       DEF Mirror!Tell, Mirror!Insert, Mirror!Whole
  <2> QED BY <2>2, <2>4 DEF Mirror!Next
<1>6. CASE PinDigest(p)
  <2>1. /\ pc[p] = "stored" /\ job[p] = "mirror" /\ key[p] \in Key
        /\ Allows(p, meta[p])
        /\ draft' = [draft EXCEPT ![p][key[p]] = meta[p]]
        /\ manifest' = draft'[p]
        /\ UNCHANGED object
        /\ pc'[p] # "stored" /\ key'[p] = None
    BY <1>t, <1>6 DEF TypeOK, JobInv, PinDigest, PinAt, NextOne
  <2>2. draft[p] = manifest /\ pin[p] = manifest[key[p]]
    BY <1>t, <2>1 DEF BatchInv
  <2>3. manifest' = [manifest EXCEPT ![key[p]] = meta[p]]
    BY <1>t, <2>1, <2>2 DEF TypeOK
  <2>4. Readable(key[p]) /\ object[key[p]].sha = meta[p]
    BY <2>1 DEF SuccessMeansStored
  <2>5. meta[p] \in Digest /\ object[key[p]] = Mirror!Whole(meta[p])
    BY <2>1, <2>4 DEF AllWhole, Readable
  <2>6. Mirror!Pin(p)
    BY <1>o, <1>y, <2>1, <2>2, <2>3, <2>5
       DEF Mirror!Pin, Mirror!LetGo, Allows
  <2> QED BY <2>6 DEF Mirror!Next
<1>7. CASE \/ StartRepair(p) \/ Inspect(p) \/ Observe(p) \/ ExamineGood(p)
           \/ ExamineBad(p) \/ RepairDone(p)
  BY <1>t, <1>r, <1>7 DEF JobInv, Examining, StartRepair, ReadManifest, Start,
        Inspect, Observe, ExamineGood, ExamineBad, RepairDone
<1> QED BY <1>1, <1>2, <1>3, <1>4, <1>5, <1>6, <1>7 DEF Act, Begin, Work,
           Getting

(* Fills, batch runs, retries, completions and late requests are together  *)
(* one map that only grows, and pins that follow it.                       *)
THEOREM Refinement ==
    ASSUME WithoutRepair
    PROVE  Spec => ImplementsMirror
<1>1. Init => Mirror!Init
  BY DEF Init, Mirror!Init, Told
<1>2. /\ IInv /\ FillInv /\ SuccessMeansStored /\ AllWhole /\ [Next]_vars
      => [Mirror!Next]_(Mirror!vars)
  <2> SUFFICES ASSUME IInv, FillInv, SuccessMeansStored, AllWhole,
                      [Next]_vars
               PROVE  Mirror!Next \/ UNCHANGED Mirror!vars
    OBVIOUS
  <2>1. ASSUME NEW p \in Worker, Act(p)
        PROVE  Mirror!Next \/ UNCHANGED Mirror!vars
    BY <2>1, WorkerMaps
  <2>2. ASSUME LateArrives \/ CacheStep \/ Damage \/ UNCHANGED vars
        PROVE  Mirror!Next \/ UNCHANGED Mirror!vars
    <3>1. UNCHANGED <<manifest, key, Told>>
      BY <2>2, WorldSteps DEF IInv, fileVars, jobVars, putVars, Told
    <3>2. CASE object' = object
      BY <3>1, <3>2 DEF Mirror!vars
    <3>3. CASE object' # object
      <4>1. PICK r \in late : Holds(r) /\ Apply(r)
        <5>1. CASE LateArrives
          BY <3>3, <5>1 DEF LateArrives
        <5>2. CASE CacheStep \/ Damage \/ UNCHANGED vars
          BY <3>3, <5>2 DEF CacheStep, Damage, WithoutRepair, vars, s3Vars
        <5> QED BY <2>2, <5>1, <5>2
      <4>2. r.key \in Key /\ r.sha \in Digest /\ r.body = r.sha
        BY DEF IInv, TypeOK, SendInv, Put
      <4>3. object[r.key] = None
        BY <4>1 DEF FillInv, Holds, Absent
      <4>4. Mirror!Store(r.key, r.sha)
        BY <3>1, <4>1, <4>2, <4>3
           DEF Apply, Mirror!Store, Mirror!Insert, Mirror!Whole
      <4> QED BY <4>2, <4>4 DEF Mirror!Next
    <3> QED BY <3>2, <3>3
  <2> QED BY <2>1, <2>2 DEF Next, Act, NoAnswer
<1> QED
  BY <1>1, <1>2, Inductive, OnlyFills, SuccessRight, ObjectsWhole, PTL
     DEF Spec, ImplementsMirror, Mirror!Spec
===============================================================================
