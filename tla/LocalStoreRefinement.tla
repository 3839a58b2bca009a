------------------------- MODULE LocalStoreRefinement -------------------------
(* The local store implements the abstract content cache, for any number   *)
(* of callers, keys, contents and artifacts.                               *)
EXTENDS LocalStoreProofs

USE NoneAssumption, ArtifactAssumption

Decayed == {d \in Digest : blob[d] = "rotten"}

(* The call of p ends with the answer d. *)
Answered(p, d) == /\ artifact' = [artifact EXCEPT ![p] = None]
                  /\ path' = [path EXCEPT ![p] = d]

(* The abstract state is unchanged when the index, the blobs, the requests *)
(* and the answers are.                                                    *)
LEMMA Stutter ==
    ASSUME UNCHANGED <<entry, blob, artifact, path>>
    PROVE  UNCHANGED Cache!vars
BY DEF Cache!vars, Cache!dirVars, Present

(* A call that fails, or that asks for no artifact, has no answer. *)
LEMMA ForgetStep ==
    ASSUME NEW p \in Proc, UNCHANGED <<entry, blob>>, Answered(p, None)
    PROVE  Cache!Next
<1>1. Cache!Forget(p)
  BY DEF Cache!Forget, Cache!Answer, Cache!dirVars, Answered, Present
<1> QED BY <1>1 DEF Cache!Next

(* get and import begin with a request. *)
LEMMA AskStep ==
    ASSUME IInv, NEW p \in Proc, StartGet(p) \/ StartImport(p)
    PROVE  Cache!Next
<1>1. PICK a \in Artifact : /\ pc[p] = "idle"
                            /\ artifact' = [artifact EXCEPT ![p] = a]
                            /\ path' = [path EXCEPT ![p] = None]
                            /\ UNCHANGED <<entry, blob>>
  BY DEF StartGet, StartImport, Start, dirVars
<1>2. artifact[p] = None
  BY <1>1 DEF IInv, CallInv
<1>3. Cache!Ask(p, a)
  BY <1>1, <1>2 DEF Cache!Ask, Cache!dirVars, Present
<1> QED BY <1>3 DEF Cache!Next

(* A hit is answered with what is stored and bound to the key. *)
LEMMA RehashStep ==
    ASSUME IInv, NEW p \in Proc, Rehash(p)
    PROVE  Cache!Next
<1>1. /\ UNCHANGED <<entry, blob>>
      /\ \/ Answered(p, None)
         \/ /\ Answered(p, digest[p])
            /\ blob[digest[p]] = "intact"
            /\ Valid(artifact[p], digest[p])
  BY DEF Rehash, Return, dirVars, Answered
<1>2. CASE /\ Answered(p, digest[p])
           /\ blob[digest[p]] = "intact" /\ Valid(artifact[p], digest[p])
  <2>1. /\ artifact[p] \in Artifact /\ key[p] = KeyOf[artifact[p]]
        /\ digest[p] \in Digest
    BY DEF IInv, CallInv, Rehash, Fetching, Checking
  <2>2. entry[key[p]] \in {digest[p], Malformed}
    BY DEF IInv, HitStable, Rehash
  <2>3. Cache!Accepts(artifact[p], digest[p])
    BY <1>2 DEF Cache!Accepts, Valid, PinsMatch
  <2>4. Cache!Hit(p, digest[p])
    BY <1>1, <1>2, <2>1, <2>2, <2>3
       DEF Cache!Hit, Cache!Answer, Cache!dirVars, Answered, Present
  <2> QED BY <2>1, <2>4 DEF Cache!Next
<1> QED BY <1>1, <1>2, ForgetStep

LEMMA PeekStep ==
    ASSUME IInv, NEW p \in Proc, PeekProbe(p)
    PROVE  Cache!Next
<1>1. /\ UNCHANGED <<entry, blob>>
      /\ \/ Answered(p, None)
         \/ Answered(p, digest[p]) /\ blob[digest[p]] # "absent"
  BY DEF PeekProbe, Return, dirVars, Answered
<1>2. CASE Answered(p, digest[p]) /\ blob[digest[p]] # "absent"
  <2>1. digest[p] \in Digest /\ artifact[p] = None
    BY DEF IInv, CallInv, PeekProbe
  <2>2. Cache!Glance(p, digest[p])
    BY <1>1, <1>2, <2>1
       DEF Cache!Glance, Cache!Answer, Cache!dirVars, Answered, Present
  <2> QED BY <2>1, <2>2 DEF Cache!Next
<1> QED BY <1>1, <1>2, ForgetStep

(* The blob is stored before the key is bound to it; the call goes on, or  *)
(* has failed.                                                             *)
LEMMA StoreStep ==
    ASSUME IInv, NEW p \in Proc, NEW d \in Digest,
           blob[d] # "rotten", blob' = [blob EXCEPT ![d] = "intact"],
           UNCHANGED entry,
           Answered(p, None) \/ UNCHANGED <<artifact, path>>
    PROVE  [Cache!Next]_(Cache!vars)
<1>1. blob \in [Digest -> {"absent", "intact", "rotten"}]
  BY DEF IInv, TypeOK
<1>2. Decayed' = Decayed /\ Present' = Present \cup {d}
  BY <1>1 DEF Decayed, Present
<1>3. CASE d \in Present
  <2>1. blob' = blob
    BY <1>1, <1>3 DEF Present
  <2> QED BY <2>1, Stutter, ForgetStep
<1>4. CASE d \notin Present
  <2>1. Cache!Store(p, d)
    BY <1>2, <1>4 DEF Cache!Store, Cache!Answer, Answered, Decayed
  <2> QED BY <2>1 DEF Cache!Next
<1> QED BY <1>3, <1>4

LEMMA PublishBlobStep ==
    ASSUME IInv, NEW p \in Proc, PublishBlob(p)
    PROVE  [Cache!Next]_(Cache!vars)
<1>1. /\ digest[p] \in Digest /\ blob[digest[p]] # "rotten"
      /\ blob' = [blob EXCEPT ![digest[p]] = "intact"]
      /\ UNCHANGED <<entry, artifact, path>>
  BY DEF IInv, CallInv, PublishBlob, callVars, localVars
<1> QED BY <1>1, StoreStep

(* What a call that publishes knows of its content.                        *)
LEMMA Publishing ==
    ASSUME IInv, NEW p \in Proc, pc[p] \in {"publishBlob", "publishEntry"}
    PROVE  /\ artifact[p] \in Artifact /\ key[p] = KeyOf[artifact[p]]
           /\ digest[p] \in Digest
           /\ Cache!Accepts(artifact[p], digest[p])
           /\ pc[p] = "publishEntry" => digest[p] \in Present
<1>1. /\ op[p] \in {"get", "import"}
      /\ digest[p] \in Digest /\ Valid(artifact[p], digest[p])
  BY DEF IInv, CallInv, Fetching
<1>2. pc[p] = "publishEntry" => blob[digest[p]] # "absent"
  BY DEF IInv, PublishInv
<1> QED BY <1>1, <1>2 DEF IInv, CallInv, Cache!Accepts, Valid, PinsMatch, Present

LEMMA PublishEntryStep ==
    ASSUME IInv, NEW p \in Proc, PublishEntry(p)
    PROVE  Cache!Next
<1>1. /\ entry' = [entry EXCEPT ![key[p]] = digest[p]]
      /\ Answered(p, digest[p])
      /\ blob' = blob
  BY DEF PublishEntry, Return, Answered
<1>2. pc[p] = "publishEntry"
  BY DEF PublishEntry
<1>3. Cache!Publish(p, digest[p])
  BY <1>1, <1>2, Publishing DEF Cache!Publish, Cache!Answer, Answered, Present
<1> QED BY <1>2, <1>3, Publishing DEF Cache!Next

(* A publication that fails may have stored the blob, or bound the key.    *)
LEMMA PublishFailsStep ==
    ASSUME IInv, NEW p \in Proc, PublishFails(p)
    PROVE  [Cache!Next]_(Cache!vars)
<1>p. pc[p] \in {"publishBlob", "publishEntry"}
  BY DEF PublishFails
<1>1. Answered(p, None) \/ UNCHANGED <<artifact, path>>
  BY DEF PublishFails, LayerFails, NextLayer, Return, Answered
<1>2. CASE UNCHANGED dirVars
  BY <1>1, <1>2, Stutter, ForgetStep DEF dirVars
<1>3. CASE /\ blob[digest[p]] = "absent"
           /\ blob' = [blob EXCEPT ![digest[p]] = "intact"]
           /\ UNCHANGED entry
  BY <1>p, <1>1, <1>3, Publishing, StoreStep
<1>4. CASE /\ pc[p] = "publishEntry"
           /\ entry' = [entry EXCEPT ![key[p]] = digest[p]]
           /\ UNCHANGED blob
  <2>1. Cache!Bind(p, digest[p])
    BY <1>1, <1>4, Publishing DEF Cache!Bind, Cache!Answer, Answered, Present
  <2> QED BY <1>4, <2>1, Publishing DEF Cache!Next
<1> QED BY <1>2, <1>3, <1>4 DEF PublishFails

(* remove and gc unbind the key first. *)
LEMMA UnlinkEntryStep ==
    ASSUME IInv, NEW p \in Proc, UnlinkEntry(p)
    PROVE  Cache!Next
<1>1. /\ entry[key[p]] \in Digest /\ entry' = [entry EXCEPT ![key[p]] = None]
      /\ UNCHANGED <<blob, artifact, path>>
  BY DEF UnlinkEntry, StillWanted, callVars
<1>2. key[p] \in Key
  BY DEF IInv, KeyLockInv, HoldsKey, UnlinkEntry
<1>3. Cache!Drop(key[p])
  BY <1>1 DEF Cache!Drop, Present
<1> QED BY <1>2, <1>3 DEF Cache!Next

(* A blob that goes is bound to no key. *)
LEMMA ReclaimStep ==
    ASSUME IInv, NEW p \in Proc, NEW d \in Digest,
           \A k \in Key : entry[k] # d,
           blob' = [blob EXCEPT ![d] = "absent"],
           UNCHANGED entry,
           Answered(p, None) \/ UNCHANGED <<artifact, path>>
    PROVE  [Cache!Next]_(Cache!vars)
<1>1. blob \in [Digest -> {"absent", "intact", "rotten"}]
  BY DEF IInv, TypeOK
<1>2. Present' = Present \ {d} /\ Decayed' = Decayed \ {d}
  BY <1>1 DEF Present, Decayed
<1>3. CASE d \in Present
  <2>1. Cache!Reclaim(p, d)
    BY <1>2, <1>3 DEF Cache!Reclaim, Cache!Answer, Answered, Decayed
  <2> QED BY <2>1 DEF Cache!Next
<1>4. CASE d \notin Present
  <2>1. blob' = blob
    BY <1>1, <1>4 DEF Present
  <2> QED BY <2>1, Stutter, ForgetStep
<1> QED BY <1>3, <1>4

LEMMA UnlinkBlobStep ==
    ASSUME IInv, NEW p \in Proc, UnlinkBlob(p) \/ SweepOrphan(p)
    PROVE  [Cache!Next]_(Cache!vars)
<1>1. CASE UnlinkBlob(p)
  <2>1. /\ blob' = [blob EXCEPT ![digest[p]] = "absent"] /\ entry' = entry
        /\ Answered(p, None) \/ UNCHANGED <<artifact, path>>
    BY <1>1 DEF UnlinkBlob, KeyDone, NextVictim, Return, Answered
  <2>2. digest[p] \in Digest /\ \A k \in Key : entry[k] # digest[p]
    BY <1>1 DEF IInv, CallInv, UnlinkInv, Referenced, UnlinkBlob
  <2> QED BY <2>1, <2>2, ReclaimStep
<1>2. CASE SweepOrphan(p)
  <2>1. PICK d \in Present \ plan[p].sizes : blob' = [blob EXCEPT ![d] = "absent"]
    BY <1>2 DEF SweepOrphan
  <2>2. UNCHANGED <<entry, artifact, path>>
    BY <1>2 DEF SweepOrphan, callVars, localVars
  <2>3. d \in Digest /\ \A k \in Key : entry[k] # d
    BY <1>2, <2>1 DEF IInv, SweepInv, SweepOrphan, Present
  <2> QED BY <2>1, <2>2, <2>3, ReclaimStep
<1> QED BY <1>1, <1>2

(* Any other step of a caller changes neither index nor blobs; it may end  *)
(* the call without an answer.                                             *)
LEMMA QuietStep ==
    ASSUME NEW p \in Proc, Own(p),
           ~PublishBlob(p), ~PublishEntry(p), ~PublishFails(p),
           ~UnlinkEntry(p), ~UnlinkBlob(p), ~SweepOrphan(p), ~Rehash(p), ~PeekProbe(p),
           ~StartGet(p), ~StartImport(p)
    PROVE  /\ UNCHANGED <<entry, blob>>
           /\ Answered(p, None) \/ UNCHANGED <<artifact, path>>
<1> USE DEF dirVars, lockVars, callVars, localVars, Answered
<1>1. CASE Begin(p)
  BY <1>1 DEF Begin, StartRemove, StartPeek, StartVerify, StartGc, Start
<1>2. CASE LockKey(p) \/ LockStore(p)
  BY <1>2 DEF LockKey, LockStore
<1>3. CASE Work(p)
  <2>1. CASE \/ LookupMiss(p) \/ LookupEntry(p) \/ LookupError(p)
             \/ ProbeMiss(p) \/ ProbeHit(p)
             \/ Receive(p) \/ GiveUp(p) \/ PublishRejected(p)
    BY <2>1 DEF LookupMiss, LookupEntry, LookupError, ProbeMiss, ProbeHit,
                Receive, GiveUp, PublishRejected, NextLayer, Return
  <2>2. CASE \/ UnlinkSkipped(p) \/ ScanError(p) \/ ScanReferenced(p)
             \/ ScanUnreferenced(p) \/ GcSnapshot(p) \/ SweepDone(p)
             \/ PickVictim(p) \/ GcDone(p)
    BY <2>2 DEF UnlinkSkipped, ScanError, ScanReferenced, ScanUnreferenced,
                GcSnapshot, SweepDone, PickVictim, GcDone, KeyDone,
                NextVictim, Return
  <2>3. CASE \/ VerifySnapshot(p) \/ VerifyGood(p) \/ VerifyReport(p)
             \/ VerifyDone(p) \/ PeekRead(p)
    BY <2>3 DEF VerifySnapshot, VerifyGood, VerifyReport, VerifyDone,
                PeekRead, Return
  <2> QED BY <1>3, <2>1, <2>2, <2>3 DEF Work
<1>4. CASE Abort(p)
  BY <1>4 DEF Abort, Return
<1> QED BY <1>1, <1>2, <1>3, <1>4 DEF Own, Step

LEMMA DamageMapped ==
    ASSUME IInv, Rot \/ Mangle
    PROVE  Cache!Next
<1>t. /\ blob \in [Digest -> {"absent", "intact", "rotten"}]
  BY DEF IInv, TypeOK
<1>1. CASE Rot
  <2>1. PICK d \in Digest : /\ blob[d] = "intact"
                            /\ blob' = [blob EXCEPT ![d] = "rotten"]
                            /\ UNCHANGED <<entry, artifact, path>>
    BY <1>1 DEF Rot, callVars, localVars
  <2>2. Present' = Present /\ Decayed' = Decayed \cup {d}
        /\ d \in Present \ Decayed
    BY <1>t, <2>1 DEF Present, Decayed
  <2>3. Cache!Decay(d)
    BY <2>1, <2>2 DEF Cache!Decay, Decayed
  <2> QED BY <2>3 DEF Cache!Next
<1>2. CASE Mangle
  <2>1. PICK k \in Key : /\ entry[k] \in Digest
                         /\ entry' = [entry EXCEPT ![k] = Malformed]
                         /\ UNCHANGED <<blob, artifact, path>>
    BY <1>2 DEF Mangle, callVars, localVars
  <2>2. Cache!Damage(k)
    BY <2>1 DEF Cache!Damage, Present
  <2> QED BY <2>2 DEF Cache!Next
<1> QED BY <1>1, <1>2

LEMMA RefinementInit == Init => Cache!Init
BY DEF Init, Cache!Init, Present

LEMMA RefinementStep == IInv /\ [Next]_vars => [Cache!Next]_(Cache!vars)
<1>1. ASSUME IInv, NEW p \in Proc, Own(p)
      PROVE  [Cache!Next]_(Cache!vars)
  <2>1. CASE \/ PublishBlob(p) \/ PublishEntry(p) \/ PublishFails(p)
             \/ UnlinkEntry(p) \/ UnlinkBlob(p) \/ SweepOrphan(p) \/ Rehash(p) \/ PeekProbe(p)
             \/ StartGet(p) \/ StartImport(p)
    BY <1>1, <2>1, PublishBlobStep, PublishEntryStep, PublishFailsStep, UnlinkEntryStep,
       UnlinkBlobStep, RehashStep, PeekStep, AskStep
  <2>2. CASE ~(\/ PublishBlob(p) \/ PublishEntry(p) \/ PublishFails(p)
               \/ UnlinkEntry(p) \/ UnlinkBlob(p) \/ SweepOrphan(p) \/ Rehash(p) \/ PeekProbe(p)
               \/ StartGet(p) \/ StartImport(p))
    BY <1>1, <2>2, QuietStep, Stutter, ForgetStep
  <2> QED BY <2>1, <2>2
<1>2. ASSUME UNCHANGED vars
      PROVE  UNCHANGED Cache!vars
  BY <1>2, Stutter DEF vars, dirVars, callVars, localVars
<1> QED BY <1>1, <1>2, DamageMapped DEF Next, Own

(* Whatever steps, crashes and damage intervene, callers see a content     *)
(* cache: every answer of get and import is stored, accepted by the        *)
(* artifact asked for and bound to its key; blobs go only when no key is bound to    *)
(* them; one that has decayed is never overwritten (mod.rs:499-535,        *)
(* 626-650, layout.rs:158-169).                                            *)
THEOREM Refinement == Spec => ImplementsContentCache
<1>1. Init => Cache!Init
  BY RefinementInit
<1>2. IInv /\ [Next]_vars => [Cache!Next]_(Cache!vars)
  BY RefinementStep
<1> QED BY <1>1, <1>2, Inductive, PTL DEF Spec, ImplementsContentCache, Cache!Spec
===============================================================================
