----------------------------- MODULE MirrorService -----------------------------
(***************************************************************************)
(* The S3 mirror and those who write it: on-demand fills of the tailnet    *)
(* service (src/src/server.rs), the batch `mirror' run and                 *)
(* `verify --at --repair' (src/src/bin/starfield-datastore.rs), through    *)
(* the conditional writes of src/src/s3.rs.                                *)
(*                                                                         *)
(* Workers share one local cache, which is the abstract ContentCache; the  *)
(* caller Other stands for everyone else who uses it and for gc.  A worker *)
(* takes its path and its index entry from two separate calls.  One action *)
(* is one request to S3, one call on the cache or one file written.  A     *)
(* request may get lost, be delayed or lose its answer.                    *)
(*                                                                         *)
(* S3's ETag is a function of the body: two uploads of the same body have  *)
(* the same one.                                                           *)
(*                                                                         *)
(* Operators whose comment begins with "Mutant" are wrong on purpose: a    *)
(* property is known to notice when one replaces the operator after it.    *)
(***************************************************************************)
EXTENDS Naturals, FiniteSets

CONSTANTS
    Worker,     \* blocking workers of the service and command-line runs
    Other,      \* everyone else who uses the local cache
    Key,        \* artifact keys
    Digest,     \* contents, named by their digest
    Large,      \* contents above PART_BYTES, uploaded in parts
    Jobs,       \* what workers do
    Damages,    \* what befalls objects, and a verifier's reads, from outside
    MaxFaults,  \* bound on crashes, unanswered requests and damages together
    NoMeta,     \* object metadata that head_async refuses
    Garbage,    \* a body that matches no digest
    None

\* An object of the bucket: the digest of its metadata, and its body.
Object == [sha : Digest \cup {NoMeta}, body : Digest \cup {Garbage}]

ASSUME MirrorAssumption ==
    /\ Other \notin Worker
    /\ Large \subseteq Digest
    /\ None \notin Digest \cup Key \cup Worker \cup {"serve", "repair", "mirror"}
    /\ NoMeta \notin Digest \cup {None}
    /\ Garbage \notin Digest \cup {None}
    /\ None \notin Object
    /\ MaxFaults \in Nat

VARIABLES
    cached, stored, decayed, asked, served,     \* the local cache
    object,     \* the bucket: metadata digest and body of each key, or None
    late,       \* requests whose sender has no answer and that may yet arrive
    uploads,    \* workers whose multipart upload is open at S3
    nameless,   \* number of open uploads whose id nobody has learnt
    manifest,   \* digest pins of the manifest file
    lock,       \* holder of the manifest's lock file
    faults,
    pc, job, key,
    pin,        \* the artifact's pin as the worker's manifest has it
    todo,       \* keys a batch run has still to mirror
    draft,      \* a batch run's copy of the manifest's pins
    meta,       \* digest of the MirrorObject the worker has
    etag,       \* If-Match of its write; None is If-None-Match
    attempt     \* of put_object

cacheVars == <<cached, stored, decayed, asked, served>>
s3Vars    == <<object, late, uploads, nameless>>
fileVars  == <<manifest, lock>>
jobVars   == <<job, key, pin, todo, draft>>
putVars   == <<meta, etag, attempt>>
vars == <<cacheVars, s3Vars, fileVars, faults, pc, jobVars, putVars>>

-----------------------------------------------------------------------------
(* An artifact is a key with the pin some version of the manifest has.     *)
Artifact == [key : Key, pin : Digest \cup {None}]

Cache == INSTANCE ContentCache WITH
    Proc <- Worker \cup {Other},
    KeyOf <- [a \in Artifact |-> a.key],
    Pins <- [a \in Artifact |-> {a.pin} \ {None}],
    Passes <- [a \in Artifact |-> Digest],
    Malformed <- NoMeta

Goto(p, label) == pc' = [pc EXCEPT ![p] = label]

\* head_async: an object whose metadata is damaged is an error.
Absent(k)   == object[k] = None
Readable(k) == object[k] # None /\ object[k].sha # NoMeta

\* The pin has not moved on, or there is none.
Allows(p, d) == pin[p] \in {None, d}

Unlock(p) == lock' = IF lock = p THEN None ELSE lock

NoPins == [k \in Key |-> None]

\* The job ends, with or without success, and the worker forgets its path.
End(p) ==
    /\ Goto(p, "idle")
    /\ Cache!Forget(p)
    /\ Unlock(p)
    /\ job' = [job EXCEPT ![p] = None]
    /\ key' = [key EXCEPT ![p] = None]
    /\ pin' = [pin EXCEPT ![p] = None]
    /\ todo' = [todo EXCEPT ![p] = {}]
    /\ draft' = [draft EXCEPT ![p] = NoPins]
    /\ meta' = [meta EXCEPT ![p] = None]
    /\ etag' = [etag EXCEPT ![p] = None]
    /\ attempt' = [attempt EXCEPT ![p] = 0]
    /\ UNCHANGED manifest

-----------------------------------------------------------------------------
(* Jobs.  A batch run reads the manifest under its lock, a verifier        *)
(* without; both go through its artifacts.  The service has read it at     *)
(* some earlier time, before or after the key was pinned.  A worker whose  *)
(* upload was left open is not used again: its name stands for the upload. *)

Start(p, j, k, w, label) ==
    /\ j \in Jobs
    /\ pc[p] = "idle" /\ p \notin uploads
    /\ Goto(p, label)
    /\ job' = [job EXCEPT ![p] = j]
    /\ key' = [key EXCEPT ![p] = k]
    /\ pin' = [pin EXCEPT ![p] = w]
    /\ UNCHANGED <<cacheVars, s3Vars, manifest, faults, putVars>>

StartServe(p) == \E k \in Key : \E w \in {None, manifest[k]} :
    /\ Start(p, "serve", k, w, "head")
    /\ UNCHANGED <<lock, todo, draft>>

ReadManifest(p, j) ==
    /\ Start(p, j, None, None, "next")
    /\ todo' = [todo EXCEPT ![p] = Key]
    /\ draft' = [draft EXCEPT ![p] = manifest]

StartRepair(p) == ReadManifest(p, "repair") /\ UNCHANGED lock

\* Mutant: batch runs do not exclude each other.
StartMirrorUnlocked(p) == ReadManifest(p, "mirror") /\ lock' = p

StartMirror(p) ==
    /\ lock = None
    /\ ReadManifest(p, "mirror")
    /\ lock' = p

NextArtifact(p) ==
    /\ pc[p] = "next"
    /\ \E k \in todo[p] :
          /\ key' = [key EXCEPT ![p] = k]
          /\ pin' = [pin EXCEPT ![p] = draft[p][k]]
          /\ todo' = [todo EXCEPT ![p] = @ \ {k}]
    /\ Goto(p, IF job[p] = "mirror" THEN "get" ELSE "inspect")
    /\ UNCHANGED <<cacheVars, s3Vars, fileVars, faults, job, draft, putVars>>

\* One artifact is dealt with.
NextOne(p) ==
    /\ Goto(p, "next")
    /\ Cache!Forget(p)
    /\ key' = [key EXCEPT ![p] = None]
    /\ pin' = [pin EXCEPT ![p] = None]
    /\ meta' = [meta EXCEPT ![p] = None]
    /\ etag' = [etag EXCEPT ![p] = None]
    /\ attempt' = [attempt EXCEPT ![p] = 0]
    /\ UNCHANGED <<s3Vars, lock, faults, job, todo>>

AllDone(p) ==
    /\ pc[p] = "next"
    /\ todo[p] = {}
    /\ End(p)
    /\ UNCHANGED <<s3Vars, faults>>

-----------------------------------------------------------------------------
(* The service: HEAD, and again once the fill is admitted.                 *)

HeadHit(p) ==
    /\ pc[p] \in {"head", "headAgain"}
    /\ Readable(key[p])
    /\ meta' = [meta EXCEPT ![p] = object[key[p]].sha]
    /\ Goto(p, "stored")
    /\ UNCHANGED <<cacheVars, s3Vars, fileVars, faults, jobVars, etag, attempt>>

HeadMiss(p) ==
    /\ \/ pc[p] = "head" /\ Goto(p, "headAgain")
       \/ pc[p] = "headAgain" /\ Goto(p, "get")
    /\ Absent(key[p])
    /\ UNCHANGED <<cacheVars, s3Vars, fileVars, faults, jobVars, putVars>>

\* The metadata agrees with the pins and a URL is presigned for the key, or
\* the client is told to have the mirror repaired.
Redirect(p) ==
    /\ pc[p] = "stored" /\ job[p] = "serve"
    /\ End(p)
    /\ UNCHANGED <<s3Vars, faults>>

-----------------------------------------------------------------------------
(* The repairing verifier: HEAD for the metadata, HEAD for the ETag, GET.  *)
(* A failure of the first or the last is taken for a bad object.           *)

Inspect(p) ==
    /\ pc[p] = "inspect"
    /\ \/ /\ Readable(key[p]) => "outage" \in Damages
          /\ meta' = [meta EXCEPT ![p] = None]
       \/ /\ Readable(key[p])
          /\ meta' = [meta EXCEPT ![p] = object[key[p]].sha]
    /\ Goto(p, "observe")
    /\ UNCHANGED <<cacheVars, s3Vars, fileVars, faults, jobVars, etag, attempt>>

Observe(p) ==
    /\ pc[p] = "observe"
    /\ etag' = [etag EXCEPT ![p] =
                   IF Absent(key[p]) THEN None ELSE object[key[p]].body]
    /\ Goto(p, "examine")
    /\ UNCHANGED <<cacheVars, s3Vars, fileVars, faults, jobVars, meta, attempt>>

\* The body has the digest of the metadata read before, and the artifact
\* accepts it.
Sound(p) == /\ ~Absent(key[p])
            /\ meta[p] # None
            /\ object[key[p]].body = meta[p]
            /\ Allows(p, meta[p])

ExamineGood(p) ==
    /\ pc[p] = "examine"
    /\ Sound(p)
    /\ NextOne(p)
    /\ UNCHANGED <<manifest, draft>>

ExamineBad(p) ==
    /\ pc[p] = "examine"
    /\ Sound(p) => "outage" \in Damages
    /\ meta' = [meta EXCEPT ![p] = None]
    /\ Goto(p, "get")
    /\ UNCHANGED <<cacheVars, s3Vars, fileVars, faults, jobVars, etag, attempt>>

-----------------------------------------------------------------------------
(* get for the path, entry for the metadata: two calls on the cache.       *)

Get(p) ==
    /\ pc[p] = "get"
    /\ Cache!Ask(p, [key |-> key[p], pin |-> pin[p]])
    /\ Goto(p, "getting")
    /\ UNCHANGED <<s3Vars, fileVars, faults, jobVars, putVars>>

\* The lookup of get, under the key's lock.
GetHits(p) ==
    /\ pc[p] = "getting"
    /\ \E d \in Digest : Cache!Hit(p, d)
    /\ Goto(p, "entry")
    /\ UNCHANGED <<s3Vars, fileVars, faults, jobVars, putVars>>

GetMisses(p) ==
    /\ pc[p] = "getting"
    /\ \A d \in stored \ decayed : cached[key[p]] = d => ~Allows(p, d)
    /\ Goto(p, "fetching")
    /\ UNCHANGED <<cacheVars, s3Vars, fileVars, faults, jobVars, putVars>>

GetFetches(p) ==
    /\ pc[p] = "fetching"
    /\ \E d \in Digest : Cache!Publish(p, d)
    /\ Goto(p, "entry")
    /\ UNCHANGED <<s3Vars, fileVars, faults, jobVars, putVars>>

\* A fetched content is bound to the key, but flushing its directory fails
\* and get goes on to the next layer.
GetRetries(p) ==
    /\ pc[p] = "fetching"
    /\ \E d \in Digest : Cache!Bind(p, d)
    /\ UNCHANGED <<asked, served, s3Vars, fileVars, faults, pc, jobVars,
                   putVars>>

ReadEntry(p) ==
    /\ pc[p] = "entry"
    /\ cached[key[p]] \in stored
    /\ meta' = [meta EXCEPT ![p] = cached[key[p]]]
    /\ Goto(p, "hash")
    /\ UNCHANGED <<cacheVars, s3Vars, fileVars, faults, jobVars, etag, attempt>>

-----------------------------------------------------------------------------
(* S3Mirror::write.                                                        *)

AfterHash(p) == Goto(p, IF etag[p] = None THEN "putHead" ELSE "send")

\* Mutant: the path is uploaded under the entry's digest unseen.
HashSkipped(p) ==
    /\ pc[p] = "hash"
    /\ served[p] \in stored \ decayed
    /\ AfterHash(p)
    /\ UNCHANGED <<cacheVars, s3Vars, fileVars, faults, jobVars, putVars>>

Hash(p) ==
    /\ pc[p] = "hash"
    /\ served[p] \in stored \ decayed
    /\ served[p] = meta[p]
    /\ AfterHash(p)
    /\ UNCHANGED <<cacheVars, s3Vars, fileVars, faults, jobVars, putVars>>

PutAbsent(p) ==
    /\ pc[p] = "putHead"
    /\ Absent(key[p])
    /\ Goto(p, "send")
    /\ UNCHANGED <<cacheVars, s3Vars, fileVars, faults, jobVars, putVars>>

\* matching_existing
Matches(p) == Readable(key[p]) /\ object[key[p]].sha = meta[p]

\* A multipart upload of the write under way.
Open(p) == p \in uploads /\ pc[p] \in {"parts", "complete", "race", "discard"}

\* It is aborted; that request is only tried.
Abandon(p) ==
    \/ /\ uploads' = uploads \ {p}
       /\ late' = {r \in late : r.upload # p}
       /\ UNCHANGED faults
    \/ /\ faults < MaxFaults /\ faults' = faults + 1
       /\ UNCHANGED <<uploads, late>>

\* Mutant: an object that is there is taken for the one that was to be put.
PutPresentAnyhow(p) ==
    /\ pc[p] \in {"putHead", "race"}
    /\ Readable(key[p])
    /\ Goto(p, IF Open(p) THEN "discard" ELSE "stored")
    /\ UNCHANGED <<cacheVars, s3Vars, fileVars, faults, jobVars, putVars>>

\* AlreadyPresent, before the write or after it was refused.
PutPresent(p) ==
    /\ pc[p] \in {"putHead", "race"}
    /\ Matches(p)
    /\ Goto(p, IF Open(p) THEN "discard" ELSE "stored")
    /\ UNCHANGED <<cacheVars, s3Vars, fileVars, faults, jobVars, putVars>>

Creating(p) == pc[p] = "send" /\ meta[p] \in Large /\ p \notin uploads

CreateUpload(p) ==
    /\ Creating(p)
    /\ uploads' = uploads \cup {p}
    /\ Goto(p, "parts")
    /\ UNCHANGED <<cacheVars, object, late, nameless, fileVars, faults, jobVars,
                   putVars>>

\* S3 opens an upload, now or later, but its id does not arrive: the SDK asks
\* for another one or gives up (Error).
CreateUnanswered(p) ==
    /\ Creating(p)
    /\ faults < MaxFaults /\ faults' = faults + 1
    /\ nameless' = nameless + 1
    /\ UNCHANGED <<cacheVars, object, late, uploads, fileVars, pc, jobVars,
                   putVars>>

\* Every part opens the path again.
UploadParts(p) ==
    /\ pc[p] = "parts"
    /\ served[p] \in stored
    /\ Goto(p, "complete")
    /\ UNCHANGED <<cacheVars, s3Vars, fileVars, faults, jobVars, putVars>>

\* put_object, and the completion of a multipart upload.
Sending(p) == \/ pc[p] = "send" /\ meta[p] \notin Large /\ served[p] \in stored
              \/ pc[p] = "complete"

\* Mutant: the precondition is what is there now, not what was observed.
RequestFresh(p) ==
    [key |-> key[p], sha |-> meta[p], body |-> served[p],
     etag |-> IF Absent(key[p]) THEN None ELSE object[key[p]].body,
     upload |-> IF pc[p] = "complete" THEN p ELSE None]

Request(p) == [key |-> key[p], sha |-> meta[p], body |-> served[p],
               etag |-> etag[p],
               upload |-> IF pc[p] = "complete" THEN p ELSE None]

\* S3 applies a request only if its precondition holds at that moment.
Holds(r) == IF r.etag = None THEN Absent(r.key)
                             ELSE ~Absent(r.key) /\ object[r.key].body = r.etag

Apply(r) == /\ object' = [object EXCEPT ![r.key] = [sha |-> r.sha, body |-> r.body]]
            /\ uploads' = uploads \ {r.upload}

Accepted(p) ==
    /\ Sending(p)
    /\ Holds(Request(p))
    /\ Apply(Request(p))
    /\ Goto(p, "stored")
    /\ UNCHANGED <<cacheVars, late, nameless, fileVars, faults, jobVars, putVars>>

\* 412 to If-None-Match; to If-Match it is an error like others.
Refused(p) ==
    /\ Sending(p)
    /\ ~Holds(Request(p))
    /\ etag[p] = None
    /\ Goto(p, "race")
    /\ UNCHANGED <<cacheVars, s3Vars, fileVars, faults, jobVars, putVars>>

\* 409: put_object is tried three times.
Conflict(p) ==
    /\ Sending(p)
    /\ pc[p] = "send" /\ attempt[p] < 2
    /\ attempt' = [attempt EXCEPT ![p] = @ + 1]
    /\ UNCHANGED <<cacheVars, s3Vars, fileVars, faults, pc, jobVars, meta, etag>>

\* No answer: the SDK sends the same request again or gives up (Error).
Unanswered(p) ==
    /\ Sending(p)
    /\ faults < MaxFaults
    /\ faults' = faults + 1
    /\ late' = late \cup {Request(p)}
    /\ UNCHANGED <<cacheVars, object, uploads, nameless, fileVars, pc, jobVars,
                   putVars>>

LateArrives == \E r \in late :
    /\ late' = late \ {r}
    /\ \/ Holds(r) /\ r.upload \in uploads \cup {None} /\ Apply(r)
       \/ UNCHANGED <<object, uploads>>
    /\ UNCHANGED <<cacheVars, nameless, fileVars, faults, pc, jobVars, putVars>>

\* Mutant: only failed uploads are aborted.
DiscardForgotten(p) ==
    /\ pc[p] = "discard"
    /\ Goto(p, "stored")
    /\ UNCHANGED <<cacheVars, s3Vars, fileVars, faults, jobVars, putVars>>

\* The upload is aborted because its content is there already.
Discard(p) ==
    /\ pc[p] = "discard"
    /\ Abandon(p)
    /\ Goto(p, "stored")
    /\ UNCHANGED <<cacheVars, object, nameless, fileVars, jobVars, putVars>>

-----------------------------------------------------------------------------
(* After the write.                                                        *)

RepairDone(p) ==
    /\ pc[p] = "stored" /\ job[p] = "repair"
    /\ NextOne(p)
    /\ UNCHANGED <<manifest, draft>>

PinAt(p, label) ==
    /\ pc[p] = label /\ job[p] = "mirror"
    /\ Allows(p, meta[p])
    /\ draft' = [draft EXCEPT ![p][key[p]] = meta[p]]
    /\ manifest' = draft'[p]
    /\ NextOne(p)

\* Mutant: the batch pins what it holds and leaves the upload for later.
PinEarly(p) == PinAt(p, "putHead")

\* pin_sha256 and atomic_manifest, then the next artifact.
PinDigest(p) == PinAt(p, "stored")

\* Any request, call or file operation may fail, and `?' ends the job; a
\* failed multipart upload is abandoned first.
Error(p) ==
    /\ pc[p] # "idle"
    /\ End(p)
    /\ \/ Open(p) /\ Abandon(p)
       \/ ~Open(p) /\ UNCHANGED <<uploads, late, faults>>
    /\ UNCHANGED <<object, nameless>>

\* The process dies with an upload open.  (Elsewhere that is like Error.)
Crash(p) ==
    /\ Open(p)
    /\ faults < MaxFaults /\ faults' = faults + 1
    /\ End(p)
    /\ UNCHANGED s3Vars

-----------------------------------------------------------------------------
(* The rest of the world.                                                  *)

\* Other callers of the cache fetch (without a pin they may fetch what any
\* manifest allows), remove and collect.
CacheStep ==
    /\ \/ \E d \in Digest : \/ Cache!Store(Other, d)
                            \/ Cache!Bind(Other, d)
                            \/ Cache!Publish(Other, d)
                            \/ Cache!Reclaim(Other, d)
       \/ \E k \in Key : Cache!Drop(k)
       \/ \E k \in Key : Cache!Ask(Other, [key |-> k, pin |-> None])
    /\ UNCHANGED <<s3Vars, fileVars, faults, pc, jobVars, putVars>>

Damage == \E k \in Key :
    /\ ~Absent(k)
    /\ faults < MaxFaults /\ faults' = faults + 1
    /\ \/ "metadata" \in Damages /\ object' = [object EXCEPT ![k].sha = NoMeta]
       \/ "body" \in Damages /\ object' = [object EXCEPT ![k].body = Garbage]
       \/ "deletion" \in Damages /\ object' = [object EXCEPT ![k] = None]
    /\ UNCHANGED <<cacheVars, late, uploads, nameless, fileVars, pc, jobVars,
                   putVars>>

-----------------------------------------------------------------------------
Init ==
    /\ Cache!Init
    /\ object = [k \in Key |-> None]
    /\ late = {} /\ uploads = {} /\ nameless = 0
    /\ manifest \in [Key -> Digest \cup {None}]
    /\ lock = None
    /\ faults = 0
    /\ pc = [p \in Worker |-> "idle"]
    /\ job = [p \in Worker |-> None]
    /\ key = [p \in Worker |-> None]
    /\ pin = [p \in Worker |-> None]
    /\ todo = [p \in Worker |-> {}]
    /\ draft = [p \in Worker |-> NoPins]
    /\ meta = [p \in Worker |-> None]
    /\ etag = [p \in Worker |-> None]
    /\ attempt = [p \in Worker |-> 0]

Begin(p) == StartServe(p) \/ StartRepair(p) \/ StartMirror(p)

Work(p) == \/ NextArtifact(p) \/ AllDone(p)
           \/ HeadHit(p) \/ HeadMiss(p) \/ Redirect(p)
           \/ Inspect(p) \/ Observe(p) \/ ExamineGood(p) \/ ExamineBad(p)
           \/ Get(p) \/ GetHits(p) \/ GetMisses(p)
           \/ GetFetches(p) \/ GetRetries(p) \/ ReadEntry(p)
           \/ Hash(p) \/ PutAbsent(p) \/ PutPresent(p)
           \/ CreateUpload(p) \/ UploadParts(p)
           \/ Accepted(p) \/ Refused(p) \/ Conflict(p) \/ Discard(p)
           \/ RepairDone(p) \/ PinDigest(p) \/ Error(p)

Next == \/ \E p \in Worker : \/ Begin(p) \/ Work(p) \/ Crash(p)
                            \/ Unanswered(p) \/ CreateUnanswered(p)
        \/ LateArrives \/ CacheStep \/ Damage

Spec == Init /\ [][Next]_vars

-----------------------------------------------------------------------------
(* Properties.                                                             *)

Labels == {"idle", "head", "headAgain", "inspect", "observe", "examine",
           "next", "get", "getting", "fetching", "entry", "hash", "putHead",
           "send", "parts", "complete", "race", "discard", "stored"}
Pinned  == Digest \cup {None}
Put     == [key : Key, sha : Digest, body : Digest,
            etag : Pinned \cup {Garbage}, upload : Worker \cup {None}]

TypeOK ==
    /\ cached \in [Key -> Pinned]
    /\ stored \subseteq Digest /\ decayed \subseteq Digest
    /\ asked \in [Worker \cup {Other} -> Artifact \cup {None}]
    /\ served \in [Worker \cup {Other} -> Pinned]
    /\ object \in [Key -> Object \cup {None}]
    /\ late \subseteq Put
    /\ uploads \subseteq Worker /\ nameless \in Nat
    /\ manifest \in [Key -> Pinned]
    /\ lock \in Worker \cup {None}
    /\ faults \in Nat
    /\ pc \in [Worker -> Labels]
    /\ job \in [Worker -> {"serve", "repair", "mirror", None}]
    /\ key \in [Worker -> Key \cup {None}]
    /\ pin \in [Worker -> Pinned]
    /\ todo \in [Worker -> SUBSET Key]
    /\ draft \in [Worker -> [Key -> Pinned]]
    /\ meta \in [Worker -> Pinned]
    /\ etag \in [Worker -> Pinned \cup {Garbage}]
    /\ attempt \in [Worker -> 0..2]

(* Without repair a key is immutable once it has an object, through        *)
(* retries, races with other fills, multipart completions and requests     *)
(* that arrive late (docs/deploy.md:15).                                   *)
Immutable ==
    [][\A k \in Key : object[k] # None => object'[k] = object[k]]_vars

(* A put that succeeds, stored or found, means that the key's object has   *)
(* this digest, however the success was learnt (s3.rs:268-356, 455-470).   *)
SuccessMeansStored ==
    \A p \in Worker : pc[p] \in {"stored", "discard"} =>
        Readable(key[p]) /\ object[key[p]].sha = meta[p]

(* The digest that a batch run pins is the object's, though a run may die  *)
(* between put and pin, the cache may lose the content meanwhile and the   *)
(* next run fetch another (bin/starfield-datastore.rs:387-401).            *)
PinNamesObject ==
    [][\A k \in Key : manifest'[k] # manifest[k] =>
          object[k] # None /\ object[k].sha = manifest'[k]]_vars

(* Concurrent batch runs do not undo each other's pins: each writes the    *)
(* whole manifest from its own copy (bin/starfield-datastore.rs:379-401).  *)
PinsKept ==
    [][\A k \in Key : manifest[k] # None => manifest'[k] = manifest[k]]_vars

(* The path and the entry come from two calls on a cache that others       *)
(* change in between: what is uploaded is nevertheless the content that    *)
(* the metadata names (server.rs:66-84, s3.rs:276), unless it is damaged   *)
(* at S3.                                                                  *)
UploadsFaithful ==
    \A k \in Key : object[k] # None =>
        \/ object[k].sha = NoMeta
        \/ object[k].body = Garbage
        \/ object[k].body = object[k].sha

(* The inductive invariant behind these: what a write that is under way,   *)
(* or late, carries; and that a batch run's copy is the manifest.          *)
Sends     == {"putHead", "send", "parts", "complete"}
Examining == {"inspect", "observe", "examine"}

JobInv == \A p \in Worker :
    /\ pc[p] = "idle" => job[p] = None
    /\ pc[p] \notin {"idle", "next"} => key[p] \in Key
    /\ pc[p] = "next" => job[p] \in {"mirror", "repair"}
    /\ pc[p] \in Examining => job[p] = "repair"
    /\ etag[p] # None => job[p] = "repair"

SendInv ==
    /\ \A p \in Worker :
          pc[p] \in Sends => meta[p] \in Digest /\ served[p] = meta[p]
    /\ \A r \in late : r.body = r.sha

BatchInv == \A p \in Worker :
    /\ lock = p <=> job[p] = "mirror"
    /\ job[p] = "mirror" =>
          /\ draft[p] = manifest
          /\ key[p] # None => pin[p] = manifest[key[p]]

IInv == TypeOK /\ JobInv /\ SendInv /\ BatchInv /\ UploadsFaithful

\* While nobody repairs, nobody sends If-Match.
WithoutRepair == "repair" \notin Jobs /\ Damages = {}

FillInv ==
    /\ \A p \in Worker : job[p] # "repair"
    /\ \A r \in late : r.etag = None

\* What a worker that is at "stored" knows of the object of its key.
Told == [p \in Worker |-> IF pc[p] = "stored" THEN meta[p] ELSE None]

Mirror == INSTANCE ImmutableMirror WITH
    bucket <- object, pins <- manifest, wanted <- key, told <- Told

(* While nobody repairs, all of this is an implementation of one map that  *)
(* only grows and of pins that follow it: whoever is at "stored" has been  *)
(* told, truthfully and for good, what the object of its key is, by HEAD,  *)
(* write, refusal or completion (docs/deploy.md:15, s3.rs:268-356).        *)
ImplementsMirror == Mirror!Spec

(* An upload that no write works on any more is owed to a fault in the     *)
(* very step that left it: its worker died, the request to abort it failed *)
(* or the answer with its id was lost.  Every other way out of a multipart *)
(* write completes or aborts its upload: an error in any part, a refused   *)
(* completion, an object that is already there (s3.rs:386-488).            *)
Stray(p) == p \in uploads /\ ~Open(p)
NoStrayUpload ==
    [][ faults' = faults =>
          /\ nameless' = nameless
          /\ \A p \in Worker : Stray(p)' => Stray(p) ]_vars

(* An object is overwritten by a repair only, and only while its body is   *)
(* one that this repair has observed: never a fill's that came after the   *)
(* observation, not even by a request that arrives late (s3.rs:253-265).   *)
Overwrites(k) == /\ object[k] # None /\ object'[k] # None
                 /\ object'[k].sha # NoMeta /\ object'[k].body # Garbage
                 /\ object'[k] # object[k]
ReplaceObserved ==
    [][\A k \in Key : Overwrites(k) =>
          \/ \E p \in Worker : job[p] = "repair" /\ key[p] = k
                                 /\ etag[p] = object[k].body
          \/ \E r \in late : r.key = k /\ r.etag = object[k].body]_vars

(* docs/deploy.md:51: repair replaces a bad object.  An object is bad if   *)
(* its body is not the content its metadata names, or not one that the     *)
(* repairing worker's manifest accepts (bin:459-482).                      *)
Acceptable(p) == /\ object[key[p]].sha = object[key[p]].body
                 /\ Allows(p, object[key[p]].sha)
RepairReplacesBad ==
    [][\A p \in Worker :
          Accepted(p) /\ Overwrites(key[p]) => ~Acceptable(p)]_vars
===============================================================================
