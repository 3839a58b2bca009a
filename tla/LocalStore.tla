------------------------------ MODULE LocalStore ------------------------------
(***************************************************************************)
(* The local content-addressed cache (src/src/store/mod.rs, layout.rs).    *)
(*                                                                         *)
(* Threads and processes (Proc) call get, import, remove, gc, verify and   *)
(* peek/entry on one cache directory.  The directory holds an index of     *)
(* sidecars, key -> digest, and a set of blobs named by their digest.  Two *)
(* kinds of advisory lock, one per key and one for the store, serialise    *)
(* the callers; verify and peek take neither.  One action is one visible   *)
(* step on the directory or one lock operation, so that a crash or another *)
(* caller can come between any two of them.                                *)
(*                                                                         *)
(* Content is abstracted to the digest that names it; where the bytes of a *)
(* fetch come from (mirror, upstream, imported file) does not matter here, *)
(* only which content arrives and whether the artifact accepts it.         *)
(*                                                                         *)
(* Operators whose comment begins with "Mutant" are wrong on purpose: a    *)
(* property is known to notice when one replaces the operator after it.    *)
(***************************************************************************)
EXTENDS Naturals, Sequences, FiniteSets

CONSTANTS
    Proc,       \* threads and processes sharing the cache directory
    Key,        \* artifact keys
    Digest,     \* contents, named by their digest
    Artifact,   \* manifest artifacts: what a caller of get or import asks for
    KeyOf,      \* the key of an artifact
    Pins,       \* the digests its check pins
    Passes,     \* the contents its size pin and content check accept
    Bytes,      \* total length of a set of blobs
    Limits,     \* the max_bytes arguments gc is called with
    Ops,        \* the operations callers use
    Faults,     \* damage done to the directory from outside
    MaxSources, \* layers a get may try: the mirror and each upstream source
    MaxClock,   \* bound on now_unix()
    Malformed,  \* a sidecar that does not parse
    None

ASSUME ArtifactAssumption ==
    /\ KeyOf \in [Artifact -> Key]
    /\ Pins \in [Artifact -> SUBSET Digest]
    /\ Passes \in [Artifact -> SUBSET Digest]

(* Bytes is a measure: lengths of disjoint sets of blobs add up. *)
ASSUME BytesAssumption ==
    /\ Bytes \in [SUBSET Digest -> Nat]
    /\ Bytes[{}] = 0
    /\ \A S \in SUBSET Digest : \A d \in Digest \ S :
           Bytes[S \cup {d}] = Bytes[S] + Bytes[{d}]

ASSUME BoundsAssumption ==
    /\ Limits \subseteq Nat
    /\ MaxSources \in Nat \ {0}
    /\ MaxClock \in Nat
    /\ IsFiniteSet(Key)

Calls == {"get", "import", "remove", "peek", "verify", "gc"}

ASSUME NoneAssumption ==
    /\ None \notin Digest \cup Key \cup Proc \cup Artifact \cup Calls
    /\ Malformed \notin Digest \cup {None}

VARIABLES
    entry,      \* index sidecar of each key: a digest, None or Malformed
    fetchedAt,  \* its fetched_at
    blob,       \* blob file of each digest: absent, intact or rotten
    keyLock,    \* holder of each key's lock file
    storeLock,  \* holder of .store.lock
    clock,      \* last value of now_unix()
    pc,         \* next step of each caller
    op,         \* operation it executes
    key,        \* key it works on
    artifact,   \* artifact it was given
    bound,      \* history: what a publication of this call that failed all
                \* the same has left in the index
    sources,    \* layers its get has not tried yet
    digest,     \* digest it read from a sidecar or received
    stamp,      \* fetched_at of the entry it is about to write
    plan,       \* gc's and verify's snapshot
    path        \* path its last call returned

dirVars   == <<entry, fetchedAt, blob>>
lockVars  == <<keyLock, storeLock>>
callVars  == <<op, key, artifact, bound>>
localVars == <<sources, digest, stamp, plan, path>>
vars == <<dirVars, lockVars, clock, pc, callVars, localVars>>

-----------------------------------------------------------------------------
Present  == {d \in Digest : blob[d] # "absent"}
Indexed  == {k \in Key : entry[k] # None}
Readable == \A k \in Key : entry[k] # Malformed

\* digest_referenced: some sidecar names d
Referenced(d) == \E k \in Key : entry[k] = d

\* Every pin must equal the digest: two different pins accept nothing.
PinsMatch(a, d) == \A pin \in Pins[a] : pin = d

\* validate: the size pin, the digest pins and the artifact's own check
Valid(a, d) == d \in Passes[a] /\ PinsMatch(a, d)

Min0(m, n) == IF m > n THEN m - n ELSE 0

NoPlan == [queue |-> <<>>, sizes |-> {}, total |-> 0, max |-> 0]

\* Orders in which gc and verify may visit the keys of the index: gc sorts
\* by fetched_at, and the order of equal stamps is left open.
Visits == {q \in [1..Cardinality(Indexed) -> Indexed] :
             \A i, j \in DOMAIN q : i # j => q[i] # q[j]}

\* Mutant: the newest go first.
Newest == {q \in Visits : \A i, j \in DOMAIN q :
             i < j => fetchedAt[q[i]] >= fetchedAt[q[j]]}

Oldest == {q \in Visits : \A i, j \in DOMAIN q :
             i < j => fetchedAt[q[i]] <= fetchedAt[q[j]]}

Items(q) == [i \in DOMAIN q |-> [key |-> q[i], digest |-> entry[q[i]]]]

-----------------------------------------------------------------------------
Goto(p, label) == pc' = [pc EXCEPT ![p] = label]

ReleaseStore(p) == storeLock' = IF storeLock = p THEN None ELSE storeLock

Release(p) ==
    /\ keyLock' = [k \in Key |-> IF keyLock[k] = p THEN None ELSE keyLock[k]]
    /\ ReleaseStore(p)

\* The call returns: its lock guards drop and its locals go.
Return(p, result) ==
    /\ Goto(p, "idle")
    /\ Release(p)
    /\ op' = [op EXCEPT ![p] = None]
    /\ key' = [key EXCEPT ![p] = None]
    /\ artifact' = [artifact EXCEPT ![p] = None]
    /\ bound' = [bound EXCEPT ![p] = None]
    /\ sources' = [sources EXCEPT ![p] = 0]
    /\ digest' = [digest EXCEPT ![p] = None]
    /\ stamp' = [stamp EXCEPT ![p] = 0]
    /\ plan' = [plan EXCEPT ![p] = NoPlan]
    /\ path' = [path EXCEPT ![p] = result]

\* Mutant: the key's guard outlives the iteration.
NextVictimKeepsKey(p) ==
    /\ Goto(p, "pick")
    /\ ReleaseStore(p)
    /\ key' = [key EXCEPT ![p] = None]
    /\ digest' = [digest EXCEPT ![p] = None]
    /\ UNCHANGED <<keyLock, op, artifact, bound, sources, stamp, path>>

\* gc leaves the iteration for one key and drops both guards.
NextVictim(p) ==
    /\ Goto(p, "pick")
    /\ Release(p)
    /\ key' = [key EXCEPT ![p] = None]
    /\ digest' = [digest EXCEPT ![p] = None]
    /\ UNCHANGED <<op, artifact, bound, sources, stamp, path>>

-----------------------------------------------------------------------------
(* Calls.                                                                  *)

Start(p, o, k, a, n, label) ==
    /\ o \in Ops
    /\ pc[p] = "idle"
    /\ Goto(p, label)
    /\ op' = [op EXCEPT ![p] = o]
    /\ key' = [key EXCEPT ![p] = k]
    /\ artifact' = [artifact EXCEPT ![p] = a]
    /\ sources' = [sources EXCEPT ![p] = n]
    /\ path' = [path EXCEPT ![p] = None]
    /\ UNCHANGED <<dirVars, lockVars, clock, bound, digest, stamp>>

StartGet(p) == \E a \in Artifact :
    /\ Start(p, "get", KeyOf[a], a, MaxSources, "lockKey")
    /\ UNCHANGED plan

StartImport(p) == \E a \in Artifact :
    /\ Start(p, "import", KeyOf[a], a, 1, "lockKey")
    /\ UNCHANGED plan

StartRemove(p) == \E k \in Key :
    /\ Start(p, "remove", k, None, 0, "lockKey")
    /\ UNCHANGED plan

StartPeek(p) == \E k \in Key :
    /\ Start(p, "peek", k, None, 0, "peekRead")
    /\ UNCHANGED plan

StartVerify(p) ==
    /\ Start(p, "verify", None, None, 0, "verifyScan")
    /\ UNCHANGED plan

StartGc(p) == \E m \in Limits :
    /\ Start(p, "gc", None, None, 0, "lockStore")
    /\ plan' = [plan EXCEPT ![p] = [NoPlan EXCEPT !.max = m]]

-----------------------------------------------------------------------------
(* Locks: flock, exclusive, blocking.                                      *)

\* Mutant: the key's lock does not exclude.
LockKeyShared(p) ==
    /\ pc[p] = "lockKey"
    /\ keyLock' = [keyLock EXCEPT ![key[p]] = p]
    /\ \/ op[p] = "get" /\ Goto(p, "lookup")
       \/ op[p] = "import" /\ Goto(p, "receive")
       \/ op[p] \in {"remove", "gc"} /\ Goto(p, "lockStore")
    /\ UNCHANGED <<dirVars, storeLock, clock, callVars, localVars>>

LockKey(p) ==
    /\ pc[p] = "lockKey"
    /\ keyLock[key[p]] = None
    /\ keyLock' = [keyLock EXCEPT ![key[p]] = p]
    /\ \/ op[p] = "get" /\ Goto(p, "lookup")
       \/ op[p] = "import" /\ Goto(p, "receive")
       \/ op[p] \in {"remove", "gc"} /\ Goto(p, "lockStore")
    /\ UNCHANGED <<dirVars, storeLock, clock, callVars, localVars>>

\* Mutant: the store lock does not exclude.
LockStoreShared(p) ==
    /\ pc[p] = "lockStore"
    /\ storeLock' = p
    /\ \/ op[p] \in {"get", "import"} /\ Goto(p, "publishBlob")
       \/ op[p] = "gc" /\ key[p] = None /\ Goto(p, "gcScan")
       \/ op[p] \in {"remove", "gc"} /\ key[p] # None /\ Goto(p, "unlinkEntry")
    /\ UNCHANGED <<dirVars, keyLock, clock, callVars, localVars>>

LockStore(p) ==
    /\ pc[p] = "lockStore"
    /\ storeLock = None
    /\ storeLock' = p
    /\ \/ op[p] \in {"get", "import"} /\ Goto(p, "publishBlob")
       \/ op[p] = "gc" /\ key[p] = None /\ Goto(p, "gcScan")
       \/ op[p] \in {"remove", "gc"} /\ key[p] # None /\ Goto(p, "unlinkEntry")
    /\ UNCHANGED <<dirVars, keyLock, clock, callVars, localVars>>

-----------------------------------------------------------------------------
(* get: the local layer.  Every step runs under the key's lock only.       *)

LookupMiss(p) ==
    /\ pc[p] = "lookup"
    /\ entry[key[p]] = None
    /\ Goto(p, "receive")
    /\ UNCHANGED <<dirVars, lockVars, clock, callVars, localVars>>

LookupEntry(p) ==
    /\ pc[p] = "lookup"
    /\ entry[key[p]] \in Digest
    /\ digest' = [digest EXCEPT ![p] = entry[key[p]]]
    /\ Goto(p, "probe")
    /\ UNCHANGED <<dirVars, lockVars, clock, callVars,
                   sources, stamp, plan, path>>

LookupError(p) ==
    /\ pc[p] = "lookup"
    /\ entry[key[p]] = Malformed
    /\ Return(p, None)
    /\ UNCHANGED <<dirVars, clock>>

\* A missing blob or a pin that has moved on is a miss, not an error.
ProbeMiss(p) ==
    /\ pc[p] = "probe"
    /\ blob[digest[p]] = "absent" \/ ~PinsMatch(artifact[p], digest[p])
    /\ digest' = [digest EXCEPT ![p] = None]
    /\ Goto(p, "receive")
    /\ UNCHANGED <<dirVars, lockVars, clock, callVars,
                   sources, stamp, plan, path>>

ProbeHit(p) ==
    /\ pc[p] = "probe"
    /\ blob[digest[p]] # "absent" /\ PinsMatch(artifact[p], digest[p])
    /\ Goto(p, "rehash")
    /\ UNCHANGED <<dirVars, lockVars, clock, callVars, localVars>>

\* Mutant: a hit is rehashed but not re-validated against the check.
RehashOnly(p) ==
    /\ pc[p] = "rehash"
    /\ Return(p, IF blob[digest[p]] = "intact" THEN digest[p] ELSE None)
    /\ UNCHANGED <<dirVars, clock>>

\* Rehash and re-validate.  A rotten blob, one the check rejects, or one
\* that is gone by now, is an error.
Rehash(p) ==
    /\ pc[p] = "rehash"
    /\ Return(p, IF blob[digest[p]] = "intact" /\ Valid(artifact[p], digest[p])
                 THEN digest[p] ELSE None)
    /\ UNCHANGED <<dirVars, clock>>

-----------------------------------------------------------------------------
(* get and import: content arrives in a temp file, is validated there and  *)
(* is then published under the store lock.                                 *)

Receive(p) ==
    /\ pc[p] = "receive"
    /\ \E n \in 0..(sources[p] - 1) : sources' = [sources EXCEPT ![p] = n]
    /\ \E d \in Digest :
          /\ Valid(artifact[p], d)
          /\ digest' = [digest EXCEPT ![p] = d]
    /\ \E now \in {clock, clock + 1} \cap 0..MaxClock :
          /\ clock' = now
          /\ stamp' = [stamp EXCEPT ![p] = now]
    /\ Goto(p, "lockStore")
    /\ UNCHANGED <<dirVars, lockVars, callVars, plan, path>>

\* Offline, every layer failed, or content rejected with no layer to go on to.
GiveUp(p) ==
    /\ pc[p] = "receive"
    /\ Return(p, None)
    /\ UNCHANGED <<dirVars, clock>>

PublishBlob(p) ==
    /\ pc[p] = "publishBlob"
    /\ blob[digest[p]] # "rotten"
    /\ blob' = [blob EXCEPT ![digest[p]] = "intact"]
    /\ Goto(p, "publishEntry")
    /\ UNCHANGED <<entry, fetchedAt, lockVars, clock, callVars, localVars>>

\* get collects the error of this layer and asks the next one; the guard of
\* the key stays, the one of the store drops.  `left' is what a publication
\* that failed has bound to the key nevertheless.
NextLayer(p, left) ==
    /\ sources[p] > 0
    /\ ReleaseStore(p)
    /\ digest' = [digest EXCEPT ![p] = None]
    /\ stamp' = [stamp EXCEPT ![p] = 0]
    /\ bound' = [bound EXCEPT ![p] = left]
    /\ Goto(p, "receive")
    /\ UNCHANGED <<keyLock, op, key, artifact, sources, plan, path>>

\* An existing blob that does not hash to its address is never overwritten.
PublishRejected(p) ==
    /\ pc[p] = "publishBlob"
    /\ blob[digest[p]] = "rotten"
    /\ Return(p, None) \/ NextLayer(p, bound[p])
    /\ UNCHANGED <<dirVars, clock>>

PublishEntry(p) ==
    /\ pc[p] = "publishEntry"
    /\ entry' = [entry EXCEPT ![key[p]] = digest[p]]
    /\ fetchedAt' = [fetchedAt EXCEPT ![key[p]] = stamp[p]]
    /\ Return(p, digest[p])
    /\ UNCHANGED <<blob, clock>>

\* An I/O error of the last layer, or of an import, ends the call.
LayerFails(p, left) == NextLayer(p, left) \/ (sources[p] = 0 /\ Return(p, None))

\* publish fails with an I/O error: before the file it writes has got its
\* name, or after, when the directory of the blob or sidecar cannot be synced.
\* (If it fails before it has the store lock, the layer is one of those that
\* Receive or GiveUp passes over.)
PublishFails(p) ==
    /\ "io" \in Faults
    /\ \/ /\ pc[p] \in {"publishBlob", "publishEntry"}
          /\ LayerFails(p, bound[p])
          /\ UNCHANGED dirVars
       \/ /\ pc[p] = "publishBlob" /\ blob[digest[p]] = "absent"
          /\ blob' = [blob EXCEPT ![digest[p]] = "intact"]
          /\ LayerFails(p, bound[p])
          /\ UNCHANGED <<entry, fetchedAt>>
       \/ /\ pc[p] = "publishEntry"
          /\ entry' = [entry EXCEPT ![key[p]] = digest[p]]
          /\ fetchedAt' = [fetchedAt EXCEPT ![key[p]] = stamp[p]]
          /\ LayerFails(p, digest[p])
          /\ UNCHANGED blob
    /\ UNCHANGED clock

-----------------------------------------------------------------------------
(* remove, and gc's eviction of one key: sidecar first, then the blob if   *)
(* no other sidecar names it.  Every step runs under both locks.           *)

Victim(p) == Head(plan[p].queue)

\* gc moves on if the key was removed or refetched since the snapshot.
StillWanted(p) ==
    /\ entry[key[p]] \in Digest
    /\ op[p] = "gc" => entry[key[p]] = Victim(p).digest

\* One key is dealt with: remove is over, gc goes to its next key.
KeyDone(p, total) ==
    \/ /\ op[p] = "remove"
       /\ Return(p, None)
    \/ /\ op[p] = "gc"
       /\ NextVictim(p)
       /\ plan' = [plan EXCEPT ![p].queue = Tail(@), ![p].total = total]

UnlinkEntry(p) ==
    /\ pc[p] = "unlinkEntry"
    /\ StillWanted(p)
    /\ digest' = [digest EXCEPT ![p] = entry[key[p]]]
    /\ entry' = [entry EXCEPT ![key[p]] = None]
    /\ fetchedAt' = [fetchedAt EXCEPT ![key[p]] = 0]
    /\ Goto(p, "refScan")
    /\ UNCHANGED <<blob, lockVars, clock, callVars, sources, stamp, plan, path>>

UnlinkSkipped(p) ==
    /\ pc[p] = "unlinkEntry"
    /\ entry[key[p]] # Malformed
    /\ ~StillWanted(p)
    /\ KeyDone(p, plan[p].total)
    /\ UNCHANGED <<dirVars, clock>>

\* digest_referenced reads every sidecar; one it cannot parse fails the call.
ScanError(p) ==
    /\ \/ pc[p] = "unlinkEntry" /\ entry[key[p]] = Malformed
       \/ pc[p] = "refScan" /\ ~Readable
       \/ pc[p] = "gcScan" /\ ~Readable
       \/ pc[p] = "verifyScan" /\ ~Readable
       \/ pc[p] = "peekRead" /\ entry[key[p]] = Malformed
    /\ Return(p, None)
    /\ UNCHANGED <<dirVars, clock>>

\* Mutant: the blob's length is subtracted although the blob stays.
ScanReferencedCounted(p) ==
    /\ pc[p] = "refScan"
    /\ Readable
    /\ Referenced(digest[p])
    /\ KeyDone(p, Min0(plan[p].total, Bytes[plan[p].sizes \cap {digest[p]}]))
    /\ UNCHANGED <<dirVars, clock>>

ScanReferenced(p) ==
    /\ pc[p] = "refScan"
    /\ Readable
    /\ Referenced(digest[p])
    /\ KeyDone(p, plan[p].total)
    /\ UNCHANGED <<dirVars, clock>>

ScanUnreferenced(p) ==
    /\ pc[p] = "refScan"
    /\ Readable
    /\ ~Referenced(digest[p])
    /\ Goto(p, "unlinkBlob")
    /\ UNCHANGED <<dirVars, lockVars, clock, callVars, localVars>>

UnlinkBlob(p) ==
    /\ pc[p] = "unlinkBlob"
    /\ blob' = [blob EXCEPT ![digest[p]] = "absent"]
    /\ KeyDone(p, Min0(plan[p].total, Bytes[plan[p].sizes \cap {digest[p]}]))
    /\ UNCHANGED <<entry, fetchedAt, clock>>

-----------------------------------------------------------------------------
(* gc: snapshot and orphan sweep under the store lock alone, then eviction *)
(* key by key, the locks taken afresh for each.                            *)

\* Mutant: sidecars that do not parse are skipped.
GcSnapshotLenient(p) ==
    /\ pc[p] = "gcScan"
    /\ LET sizes == {d \in Present : Referenced(d)} IN
       plan' = [plan EXCEPT ![p] = [queue |-> <<>>, sizes |-> sizes,
                                    total |-> Bytes[sizes], max |-> @.max]]
    /\ Goto(p, "sweep")
    /\ UNCHANGED <<dirVars, lockVars, clock, callVars,
                   sources, digest, stamp, path>>

GcSnapshot(p) ==
    /\ pc[p] = "gcScan"
    /\ Readable
    /\ LET sizes == {d \in Present : Referenced(d)} IN
       \E q \in Oldest :
          plan' = [plan EXCEPT ![p] = [queue |-> Items(q), sizes |-> sizes,
                                       total |-> Bytes[sizes], max |-> @.max]]
    /\ Goto(p, "sweep")
    /\ UNCHANGED <<dirVars, lockVars, clock, callVars,
                   sources, digest, stamp, path>>

SweepOrphan(p) ==
    /\ pc[p] = "sweep"
    /\ \E d \in Present \ plan[p].sizes : blob' = [blob EXCEPT ![d] = "absent"]
    /\ UNCHANGED <<entry, fetchedAt, lockVars, clock, pc, callVars, localVars>>

\* Mutant: the store lock is kept while the first key's is awaited.
SweepDoneLocked(p) ==
    /\ pc[p] = "sweep"
    /\ Present \subseteq plan[p].sizes
    /\ Goto(p, "pick")
    /\ UNCHANGED <<dirVars, lockVars, clock, callVars, localVars>>

SweepDone(p) ==
    /\ pc[p] = "sweep"
    /\ Present \subseteq plan[p].sizes
    /\ NextVictim(p)
    /\ UNCHANGED <<dirVars, clock, plan>>

OverBudget(p) == plan[p].total > plan[p].max

PickVictim(p) ==
    /\ pc[p] = "pick"
    /\ OverBudget(p) /\ plan[p].queue # <<>>
    /\ key' = [key EXCEPT ![p] = Victim(p).key]
    /\ Goto(p, "lockKey")
    /\ UNCHANGED <<dirVars, lockVars, clock, op, artifact, bound, localVars>>

GcDone(p) ==
    /\ pc[p] = "pick"
    /\ ~OverBudget(p) \/ plan[p].queue = <<>>
    /\ Return(p, None)
    /\ UNCHANGED <<dirVars, clock>>

-----------------------------------------------------------------------------
(* verify and peek: no lock at all.                                        *)

VerifySnapshot(p) ==
    /\ pc[p] = "verifyScan"
    /\ Readable
    /\ \E q \in Visits :
          plan' = [plan EXCEPT ![p] = [NoPlan EXCEPT !.queue = Items(q)]]
    /\ Goto(p, "verify")
    /\ UNCHANGED <<dirVars, lockVars, clock, callVars,
                   sources, digest, stamp, path>>

VerifyGood(p) ==
    /\ pc[p] = "verify"
    /\ plan[p].queue # <<>>
    /\ blob[Victim(p).digest] = "intact"
    /\ plan' = [plan EXCEPT ![p].queue = Tail(@)]
    /\ UNCHANGED <<dirVars, lockVars, clock, pc, callVars,
                   sources, digest, stamp, path>>

\* A VerifyFailure: this key, this expected digest.
VerifyReport(p) ==
    /\ pc[p] = "verify"
    /\ plan[p].queue # <<>>
    /\ blob[Victim(p).digest] # "intact"
    /\ key' = [key EXCEPT ![p] = Victim(p).key]
    /\ digest' = [digest EXCEPT ![p] = Victim(p).digest]
    /\ plan' = [plan EXCEPT ![p].queue = Tail(@)]
    /\ UNCHANGED <<dirVars, lockVars, clock, pc, op, artifact, bound,
                   sources, stamp, path>>

VerifyDone(p) ==
    /\ pc[p] = "verify"
    /\ plan[p].queue = <<>>
    /\ Return(p, None)
    /\ UNCHANGED <<dirVars, clock>>

PeekRead(p) ==
    /\ pc[p] = "peekRead"
    /\ \/ /\ entry[key[p]] = None
          /\ Return(p, None)
       \/ /\ entry[key[p]] \in Digest
          /\ digest' = [digest EXCEPT ![p] = entry[key[p]]]
          /\ Goto(p, "peekProbe")
          /\ UNCHANGED <<lockVars, callVars, sources, stamp, plan, path>>
    /\ UNCHANGED <<dirVars, clock>>

PeekProbe(p) ==
    /\ pc[p] = "peekProbe"
    /\ Return(p, IF blob[digest[p]] = "absent" THEN None ELSE digest[p])
    /\ UNCHANGED <<dirVars, clock>>

-----------------------------------------------------------------------------
(* The process dies, or a system call fails and `?' drops the guards (of   *)
(* get, one before or after its layers: see PublishFails).  The kernel     *)
(* releases a dead process's flocks; files stay as they are.               *)
Abort(p) ==
    /\ "abort" \in Faults
    /\ pc[p] # "idle"
    /\ Return(p, None)
    /\ UNCHANGED <<dirVars, clock>>

(* Damage from outside: a blob's bytes change, a sidecar is truncated.     *)
Rot == \E d \in Digest :
    /\ "rot" \in Faults
    /\ blob[d] = "intact"
    /\ blob' = [blob EXCEPT ![d] = "rotten"]
    /\ UNCHANGED <<entry, fetchedAt, lockVars, clock, pc, callVars, localVars>>

Mangle == \E k \in Key :
    /\ "mangle" \in Faults
    /\ entry[k] \in Digest
    /\ entry' = [entry EXCEPT ![k] = Malformed]
    /\ UNCHANGED <<fetchedAt, blob, lockVars, clock, pc, callVars, localVars>>

-----------------------------------------------------------------------------
Init ==
    /\ entry = [k \in Key |-> None]
    /\ fetchedAt = [k \in Key |-> 0]
    /\ blob = [d \in Digest |-> "absent"]
    /\ keyLock = [k \in Key |-> None]
    /\ storeLock = None
    /\ clock = 0
    /\ pc = [p \in Proc |-> "idle"]
    /\ op = [p \in Proc |-> None]
    /\ key = [p \in Proc |-> None]
    /\ artifact = [p \in Proc |-> None]
    /\ bound = [p \in Proc |-> None]
    /\ sources = [p \in Proc |-> 0]
    /\ digest = [p \in Proc |-> None]
    /\ stamp = [p \in Proc |-> 0]
    /\ plan = [p \in Proc |-> NoPlan]
    /\ path = [p \in Proc |-> None]

Begin(p) == StartGet(p) \/ StartImport(p) \/ StartRemove(p) \/ StartPeek(p)
            \/ StartVerify(p) \/ StartGc(p)

\* A step of a call under way, locks apart.
Work(p) ==
    \/ LookupMiss(p) \/ LookupEntry(p) \/ LookupError(p)
    \/ ProbeMiss(p) \/ ProbeHit(p) \/ Rehash(p)
    \/ Receive(p) \/ GiveUp(p)
    \/ PublishBlob(p) \/ PublishRejected(p) \/ PublishEntry(p) \/ PublishFails(p)
    \/ UnlinkEntry(p) \/ UnlinkSkipped(p) \/ ScanError(p)
    \/ ScanReferenced(p) \/ ScanUnreferenced(p) \/ UnlinkBlob(p)
    \/ GcSnapshot(p) \/ SweepOrphan(p) \/ SweepDone(p)
    \/ PickVictim(p) \/ GcDone(p)
    \/ VerifySnapshot(p) \/ VerifyGood(p) \/ VerifyReport(p) \/ VerifyDone(p)
    \/ PeekRead(p) \/ PeekProbe(p)

Step(p) == LockKey(p) \/ LockStore(p) \/ Work(p)

Next == \/ \E p \in Proc : Begin(p) \/ Step(p) \/ Abort(p)
        \/ Rot
        \/ Mangle

Spec == Init /\ [][Next]_vars

\* Threads keep running; which waiter an unlock wakes is up to the kernel.
\* That a transfer ends is assumed of the archives: there is no read or total
\* timeout (mod.rs:158-159).
Fairness == \A p \in Proc : WF_vars(Step(p))
FairSpec == Spec /\ Fairness

-----------------------------------------------------------------------------
(* Properties.                                                             *)

Callers == Proc \cup {None}
Sidecar == Digest \cup {None, Malformed}
Labels  == {"idle", "lockKey", "lockStore", "lookup", "probe", "rehash",
            "receive", "publishBlob", "publishEntry", "unlinkEntry",
            "refScan", "unlinkBlob", "gcScan", "sweep", "pick",
            "verifyScan", "verify", "peekRead", "peekProbe"}
Item    == [key : Key, digest : Digest]
Plan    == [queue : Seq(Item), sizes : SUBSET Digest, total : Nat, max : Nat]

TypeOK ==
    /\ entry \in [Key -> Sidecar]
    /\ fetchedAt \in [Key -> Nat]
    /\ blob \in [Digest -> {"absent", "intact", "rotten"}]
    /\ keyLock \in [Key -> Callers]
    /\ storeLock \in Callers
    /\ clock \in Nat
    /\ pc \in [Proc -> Labels]
    /\ op \in [Proc -> Calls \cup {None}]
    /\ key \in [Proc -> Key \cup {None}]
    /\ artifact \in [Proc -> Artifact \cup {None}]
    /\ bound \in [Proc -> Digest \cup {None}]
    /\ sources \in [Proc -> Nat]
    /\ digest \in [Proc -> Digest \cup {None}]
    /\ stamp \in [Proc -> Nat]
    /\ plan \in [Proc -> Plan]
    /\ path \in [Proc -> Digest \cup {None}]

(* Whatever get, import, remove and gc do to a shared blob, in whatever    *)
(* order and wherever one of them dies, a sidecar never names a blob that  *)
(* is not there (publish writes the blob first and remove unlinks it last, *)
(* mod.rs:359-370 and 626-650).                                            *)
NoDanglingEntry ==
    \A k \in Key : entry[k] \in Digest => blob[entry[k]] # "absent"

(* A hit is checked under its key's lock only, while gc and remove unlink  *)
(* blobs under the store lock and other keys' locks: the entry the hit has *)
(* read and the blob it is about to rehash stay (mod.rs:258-259).          *)
HitStable ==
    \A p \in Proc : pc[p] \in {"probe", "rehash"} =>
        /\ entry[key[p]] \in {digest[p], Malformed}
        /\ blob[digest[p]] # "absent"

(* One fetch per key: while get fetches, the index holds nothing for its   *)
(* key that the artifact's pins allow; callers that waited for the lock    *)
(* find a hit instead (spec section 7, mod.rs:256-265).  The one exception *)
(* is of get's own making: it asks the next layer although its publication *)
(* has bound an entry, because publish failed after that (mod.rs:279, 309, *)
(* layout.rs:133).                                                         *)
Refetches(p) == /\ entry[key[p]] \in Digest \ {bound[p]}
                /\ PinsMatch(artifact[p], entry[key[p]])

OneFetchPerKey ==
    \A p \in Proc : pc[p] = "receive" /\ op[p] = "get" => ~Refetches(p)

(* No cycle of waiting callers: one that waits for a key's lock holds no   *)
(* lock at all, and one that waits for the store lock holds at most the    *)
(* lock of the key it works on (layout.rs:95-99).                          *)
NoLockCycle ==
    \A p \in Proc :
        /\ pc[p] = "lockKey" =>
              storeLock # p /\ \A k \in Key : keyLock[k] # p
        /\ pc[p] = "lockStore" =>
              storeLock # p /\ \A k \in Key \ {key[p]} : keyLock[k] # p

(* The inductive invariant behind these: who holds which lock at which     *)
(* step, what a call has established when it gets there, and what the      *)
(* holder of the store lock may rely on until it unlinks a blob.           *)
Checking == {"probe", "rehash"}
Fetching == {"lookup", "probe", "rehash", "receive",
             "publishBlob", "publishEntry"}
HoldsKey == Fetching \cup {"unlinkEntry", "refScan", "unlinkBlob"}
HoldsStore == {"publishBlob", "publishEntry", "unlinkEntry", "refScan",
               "unlinkBlob", "gcScan", "sweep"}

KeyLockInv ==
    \A p \in Proc :
        /\ pc[p] \in HoldsKey \cup {"lockKey", "peekRead"} => key[p] \in Key
        /\ pc[p] = "lockStore" => key[p] \in Key \/ op[p] = "gc"
        /\ pc[p] \in HoldsKey \cup {"lockStore"} /\ key[p] \in Key =>
              keyLock[key[p]] = p
        /\ \A k \in Key : keyLock[k] = p =>
              key[p] = k /\ pc[p] \in HoldsKey \cup {"lockStore"}

StoreLockInv == \A p \in Proc : pc[p] \in HoldsStore <=> storeLock = p

CallInv ==
    \A p \in Proc :
        /\ op[p] \in {"get", "import"} =>
              artifact[p] \in Artifact /\ key[p] = KeyOf[artifact[p]]
        /\ pc[p] \in Fetching => op[p] \in {"get", "import"}
        /\ pc[p] \in {"idle", "peekRead", "peekProbe"} => artifact[p] = None
        /\ pc[p] \in {"verifyScan", "verify"} => op[p] = "verify"
        /\ pc[p] \in {"gcScan", "sweep", "pick"} => op[p] = "gc"
        /\ \/ pc[p] \in {"publishBlob", "publishEntry"}
           \/ pc[p] = "lockStore" /\ op[p] \in {"get", "import"}
           => digest[p] \in Digest /\ Valid(artifact[p], digest[p])
        /\ pc[p] \in Checking \cup {"refScan", "unlinkBlob", "peekProbe"} =>
              digest[p] \in Digest

\* While gc works on a key, that key is the head of its queue.
QueueInv == \A p \in Proc : op[p] = "gc" /\ key[p] # None =>
                plan[p].queue # <<>> /\ pc[p] \notin {"gcScan", "sweep", "pick"}

\* A get on its way from a miss to its publication.
FetchInv ==
    \A p \in Proc :
        /\ pc[p] \in {"receive", "lockStore", "publishBlob", "publishEntry"}
        /\ op[p] = "get"
        => ~Refetches(p)

PublishInv == \A p \in Proc : pc[p] = "publishEntry" =>
                  blob[digest[p]] # "absent"

UnlinkInv ==
    \A p \in Proc : pc[p] = "unlinkBlob" =>
        /\ ~Referenced(digest[p])
        /\ \A q \in Proc : pc[q] \in Checking => digest[q] # digest[p]

SweepInv ==
    \A p \in Proc : pc[p] = "sweep" =>
        /\ \A k \in Key : entry[k] \in Digest => entry[k] \in plan[p].sizes
        /\ \A q \in Proc : pc[q] \in Checking => digest[q] \in plan[p].sizes

IInv == /\ TypeOK
        /\ KeyLockInv /\ StoreLockInv /\ CallInv /\ QueueInv
        /\ FetchInv /\ PublishInv /\ UnlinkInv /\ SweepInv
        /\ NoDanglingEntry /\ HitStable

(* The cache seen through its files implements the abstract content cache. *)
Cache == INSTANCE ContentCache WITH
    cached <- entry, stored <- Present,
    decayed <- {d \in Digest : blob[d] = "rotten"},
    asked <- artifact, served <- path

(* Every answer is a stored content that the artifact asked for accepts    *)
(* and the index binds to its key when the call returns; blobs go only     *)
(* when unbound; a rotten one is never overwritten (mod.rs:496-535, 626).  *)
ImplementsContentCache == Cache!Spec

(* If transfers end, a call that never returns is starved by other callers *)
(* whose calls keep returning, never by a deadlock or a loop of its own:   *)
(* get runs out of sources, gc and verify out of keys, and every lock is   *)
(* given back.  The kernel may still hand a lock to the others for ever.   *)
Hangs(p) == <>[](pc[p] # "idle")
Busy(p)  == []<>(pc[p] = "idle") /\ []<>(pc[p] # "idle")
NoCallHangs ==
    \A p \in Proc : Hangs(p) => \E q \in Proc \ {p} : Busy(q)

(* gc's loop is over (mod.rs:443-446) with the blobs within max_bytes.     *)
GcMeetsBudget ==
    \A p \in Proc :
        pc[p] = "pick" /\ (~OverBudget(p) \/ plan[p].queue = <<>>) =>
            Bytes[Present] <= plan[p].max

Evicts(k) == /\ op[keyLock[k]] = "gc"
             /\ entry[k] \in Digest /\ entry'[k] = None

(* When nothing else runs, gc evicts a key only while the store is above    *)
(* max_bytes, and the least recently fetched: none it leaves is older than *)
(* the one it takes (mod.rs:418-419).                                      *)
EvictsInOrder ==
    [][\A k \in Key : keyLock[k] # None /\ Evicts(k) =>
          /\ Bytes[Present] > plan[keyLock[k]].max
          /\ \A j \in Key : entry[j] \in Digest => fetchedAt[k] <= fetchedAt[j]]_vars

(* Behind the last two: while gc is alone its count is the length of the   *)
(* blobs that are there, every one of them is named by an item of the      *)
(* queue, and the queue holds every bound key once, oldest first.          *)
Alone == \A p, q \in Proc : p = q

Evicting(p) == op[p] = "gc" /\ (pc[p] \in {"sweep", "pick"} \/ key[p] # None)

Counted(p) == Present \cap plan[p].sizes

CountOf(p) ==
    /\ plan[p].total = Bytes[Counted(p)]
    /\ pc[p] = "sweep" => plan[p].sizes \subseteq Present
    /\ pc[p] # "sweep" => Present \subseteq plan[p].sizes
    /\ \A d \in Counted(p) : \E i \in DOMAIN plan[p].queue : plan[p].queue[i].digest = d

OrderOf(p, queue) ==
    /\ \A k \in Key : entry[k] \in Digest =>
          \E i \in DOMAIN queue : queue[i].key = k
    /\ \A i, j \in DOMAIN queue : i < j =>
          /\ queue[i].key # queue[j].key
          /\ fetchedAt[queue[i].key] <= fetchedAt[queue[j].key]
    /\ \A i \in DOMAIN queue :
          \/ entry[queue[i].key] \in {queue[i].digest, Malformed}
          \/ i = 1 /\ pc[p] \in {"refScan", "unlinkBlob"}

HeadOf(p) ==
    /\ plan[p].queue # <<>> /\ key[p] = Victim(p).key
    /\ pc[p] \in {"lockKey", "lockStore", "unlinkEntry", "refScan", "unlinkBlob"}
    /\ pc[p] \in {"refScan", "unlinkBlob"} =>
          /\ entry[key[p]] = None /\ digest[p] = Victim(p).digest
          /\ blob[digest[p]] # "absent"
    /\ pc[p] \notin {"refScan", "unlinkBlob"} => OverBudget(p)

GcInv == \A p \in Proc : Evicting(p) =>
    /\ CountOf(p) /\ OrderOf(p, plan[p].queue)
    /\ pc[p] \notin {"sweep", "pick"} => HeadOf(p)

(* mod.rs:644: when publication meets a corrupt blob, verify reports keys  *)
(* whose removal repairs it: some sidecar names the blob.                  *)
RejectionNamesKeys ==
    \A p \in Proc : pc[p] = "publishBlob" /\ blob[digest[p]] = "rotten" =>
        ~Readable \/ Referenced(digest[p])
===============================================================================
