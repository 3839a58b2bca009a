-------------------------- MODULE LocalRepairProofs --------------------------
(* `verify [--repair]' on a directory that others use, for any manifest,   *)
(* any number of callers and any damage done before it starts.             *)
EXTENDS LocalRepair, LocalStoreProofs

USE NoneAssumption, ArtifactAssumption, CliAssumption

(***************************************************************************)
(* Sequences of artifacts and of items.                                    *)
(***************************************************************************)

LEMMA ElemsTail ==
    ASSUME NEW S, NEW s \in Seq(S), s # <<>>
    PROVE  /\ Elems(s) = {Head(s)} \cup Elems(Tail(s))
           /\ Head(s) \in S /\ Tail(s) \in Seq(S)
<1>1. /\ Head(s) = s[1] /\ 1 \in DOMAIN s
      /\ \A i \in DOMAIN Tail(s) : i + 1 \in DOMAIN s /\ Tail(s)[i] = s[i + 1]
      /\ \A i \in DOMAIN s : i # 1 => i - 1 \in DOMAIN Tail(s) /\ Tail(s)[i - 1] = s[i]
  OBVIOUS
<1>2. Head(s) \in S /\ Tail(s) \in Seq(S)
  OBVIOUS
<1>3. ASSUME NEW a \in Elems(s)
      PROVE  a = Head(s) \/ a \in Elems(Tail(s))
  <2>1. PICK i \in DOMAIN s : a = s[i]
    BY DEF Elems
  <2>2. i # 1 => i - 1 \in DOMAIN Tail(s) /\ Tail(s)[i - 1] = a
    BY <1>1, <2>1
  <2> QED BY <1>1, <2>1, <2>2 DEF Elems
<1>4. \A a \in Elems(Tail(s)) : a \in Elems(s)
  BY <1>1 DEF Elems
<1>5. Head(s) \in Elems(s)
  BY <1>1 DEF Elems
<1> QED BY <1>2, <1>3, <1>4, <1>5

LEMMA ElemsAppend ==
    ASSUME NEW s \in Seq(Artifact), NEW a \in Artifact
    PROVE  Elems(Append(s, a)) = Elems(s) \cup {a} /\ Append(s, a) \in Seq(Artifact)
           /\ Append(s, a) # <<>>
<1> DEFINE r == Append(s, a)
           n == Len(s) + 1
<1>1. /\ r \in Seq(Artifact) /\ r # <<>> /\ r[n] = a /\ n \in DOMAIN r
      /\ \A i \in DOMAIN s : i \in DOMAIN r /\ r[i] = s[i]
      /\ \A i \in DOMAIN r : i # n => i \in DOMAIN s
  OBVIOUS
<1> HIDE DEF r, n
<1>2. Elems(r) = Elems(s) \cup {a}
  BY <1>1 DEF Elems
<1> QED BY <1>1, <1>2 DEF r

LEMMA ElemsType ==
    ASSUME NEW s \in Seq(Artifact)
    PROVE  Elems(s) \subseteq Artifact /\ (s = <<>> => Elems(s) = {})
BY DEF Elems

(* The keys of a sequence are those of its elements. *)
LEMMA KeysElems == \A s : Keys(s) = {KeyOf[a] : a \in Elems(s)}
BY DEF Keys, Elems

(***************************************************************************)
(* LocalStore's invariant under the script: a call of the script begins as *)
(* any call does, but may be offline.                                      *)
(***************************************************************************)

LEMMA StartKeeps ==
    ASSUME IInv, NEW p \in Proc, NEW o, NEW k, NEW a, NEW n \in Nat, NEW label,
           Start(p, o, k, a, n, label), plan' = plan,
           \/ o = "get" /\ a \in Artifact /\ k = KeyOf[a] /\ label = "lockKey"
           \/ o = "remove" /\ k \in Key /\ a = None /\ label = "lockKey"
           \/ o = "verify" /\ k = None /\ a = None /\ label = "verifyScan"
    PROVE  IInv'
<1>t. TypeOK /\ TypeOK'
  <2>1. TypeOK
    BY DEF IInv
  <2>2. o \in Calls /\ k \in Key \cup {None} /\ a \in Artifact \cup {None}
        /\ label \in Labels /\ plan' \in [Proc -> Plan]
    BY <2>1 DEF Calls, Labels, TypeOK
  <2> QED BY <2>1, <2>2, StartType
<1>1. /\ UNCHANGED <<entry, fetchedAt, blob, keyLock, storeLock, bound, digest, plan>>
      /\ pc[p] = "idle" /\ pc'[p] = label /\ op'[p] = o /\ key'[p] = k /\ artifact'[p] = a
      /\ \A q \in Proc : q # p => /\ pc'[q] = pc[q] /\ op'[q] = op[q] /\ key'[q] = key[q]
                                 /\ artifact'[q] = artifact[q]
  BY <1>t DEF Start, Goto, TypeOK, dirVars, lockVars
<1>2. \A q \in Proc : pc'[q] \notin {"lockKey", "verifyScan"} =>
          /\ pc'[q] = pc[q] /\ op'[q] = op[q] /\ key'[q] = key[q] /\ artifact'[q] = artifact[q]
  BY <1>1
<1>3. KeyLockInv'
  BY <1>1 DEF IInv, KeyLockInv, HoldsKey, Fetching
<1>4. StoreLockInv'
  BY <1>1 DEF IInv, StoreLockInv, HoldsStore
<1>5. CallInv'
  BY <1>1 DEF IInv, CallInv, Fetching, Checking, Valid, PinsMatch
<1>6. QueueInv'
  BY <1>1 DEF IInv, QueueInv
<1>7. FetchInv' /\ PublishInv' /\ UnlinkInv' /\ SweepInv'
  BY <1>1, <1>2 DEF IInv, FetchInv, Refetches, PublishInv, UnlinkInv, SweepInv, Referenced,
                    PinsMatch, Checking
<1>8. NoDanglingEntry' /\ HitStable'
  BY <1>1, <1>2 DEF IInv, NoDanglingEntry, HitStable, Checking
<1> QED BY <1>t, <1>3, <1>4, <1>5, <1>6, <1>7, <1>8 DEF IInv

LEMMA RepairInitInv == RepairInit => IInv
<1> SUFFICES ASSUME RepairInit
             PROVE  IInv
  OBVIOUS
<1> USE DEF RepairInit
<1>1. TypeOK
  <2>1. NoPlan \in Plan
    BY DEF NoPlan, Plan
  <2> QED BY <2>1 DEF TypeOK, Callers, Labels
<1>2. KeyLockInv /\ StoreLockInv /\ CallInv /\ QueueInv
  BY \A c \in Calls : c # None
     DEF KeyLockInv, StoreLockInv, CallInv, QueueInv, HoldsKey, HoldsStore,
         Fetching, Checking, Calls
<1>3. FetchInv /\ PublishInv /\ UnlinkInv /\ SweepInv /\ HitStable
  BY DEF FetchInv, PublishInv, UnlinkInv, SweepInv, HitStable
<1> QED BY <1>1, <1>2, <1>3 DEF IInv

(* The next call of the script, by phase. *)
LEMMA CallCases ==
    ASSUME RepairInv, Call
    PROVE  /\ IInv' /\ pc[Cli] = "idle"
           /\ UNCHANGED <<entry, blob, digest, plan, scriptVars>>
           /\ \A p \in Proc : pc'[p] \in {"lockKey", "verifyScan"} \/ pc'[p] = pc[p]
           /\ \A p \in Proc : pc'[p] = pc[p] => key'[p] = key[p]
           /\ \/ /\ phase \in {"check", "fetch"} /\ pc'[Cli] = "lockKey"
                 /\ op'[Cli] = "get" /\ artifact'[Cli] = Head(todo)
              \/ /\ phase = "remove" /\ pc'[Cli] = "lockKey"
                 /\ op'[Cli] = "remove" /\ key'[Cli] = KeyOf[Head(todo)]
              \/ /\ phase = "verify" /\ pc'[Cli] = "verifyScan" /\ op'[Cli] = "verify"
<1>t. TypeOK
  BY DEF RepairInv, IInv
<1>1. /\ phase \in {"check", "remove", "fetch"} =>
            Head(todo) \in Artifact /\ KeyOf[Head(todo)] \in Key
      /\ 0 \in Nat /\ MaxSources \in Nat
  BY ElemsTail, BoundsAssumption DEF RepairInv, ScriptInv
<1>2. plan' = plan /\ UNCHANGED scriptVars
  BY DEF Call
<1>3. ASSUME NEW o, NEW k, NEW a, NEW n \in Nat, NEW label,
             Start(Cli, o, k, a, n, label),
             \/ o = "get" /\ a \in Artifact /\ k = KeyOf[a] /\ label = "lockKey"
             \/ o = "remove" /\ k \in Key /\ a = None /\ label = "lockKey"
             \/ o = "verify" /\ k = None /\ a = None /\ label = "verifyScan"
      PROVE  /\ IInv' /\ pc[Cli] = "idle" /\ UNCHANGED <<entry, blob, digest>>
             /\ pc'[Cli] = label /\ op'[Cli] = o /\ key'[Cli] = k /\ artifact'[Cli] = a
             /\ \A p \in Proc : pc'[p] \in {"lockKey", "verifyScan"} \/ pc'[p] = pc[p]
             /\ \A p \in Proc : pc'[p] = pc[p] => key'[p] = key[p]
  <2>1. IInv'
    BY <1>2, <1>3, StartKeeps DEF RepairInv
  <2>2. /\ pc[Cli] = "idle" /\ pc' = [pc EXCEPT ![Cli] = label]
        /\ op' = [op EXCEPT ![Cli] = o] /\ key' = [key EXCEPT ![Cli] = k]
        /\ artifact' = [artifact EXCEPT ![Cli] = a]
        /\ UNCHANGED <<entry, blob, digest>>
    BY <1>3 DEF Start, Goto, dirVars
  <2>3. /\ pc'[Cli] = label /\ op'[Cli] = o /\ key'[Cli] = k /\ artifact'[Cli] = a
        /\ \A p \in Proc : p # Cli => pc'[p] = pc[p] /\ key'[p] = key[p]
    BY <1>t, <2>2 DEF TypeOK
  <2> QED BY <1>3, <2>1, <2>2, <2>3
<1>4. CASE phase = "check"
  <2>1. Start(Cli, "get", KeyOf[Head(todo)], Head(todo), 0, "lockKey")
    BY <1>4 DEF Call
  <2> QED BY <1>1, <1>2, <1>3, <1>4, <2>1
<1>5. CASE phase = "fetch"
  <2>1. Start(Cli, "get", KeyOf[Head(todo)], Head(todo), MaxSources, "lockKey")
    BY <1>5 DEF Call
  <2> QED BY <1>1, <1>2, <1>3, <1>5, <2>1
<1>6. CASE phase = "remove"
  <2>1. Start(Cli, "remove", KeyOf[Head(todo)], None, 0, "lockKey")
    BY <1>6 DEF Call
  <2> QED BY <1>1, <1>2, <1>3, <1>6, <2>1
<1>7. CASE phase = "verify"
  <2>1. Start(Cli, "verify", None, None, 0, "verifyScan")
    BY <1>7 DEF Call
  <2> QED BY <1>1, <1>2, <1>3, <1>7, <2>1
<1>8. CASE phase = "over"
  BY <1>8 DEF Call
<1> QED BY <1>4, <1>5, <1>6, <1>7, <1>8 DEF RepairInv, ScriptInv

(***************************************************************************)
(* What any caller's step does to damaged and whole keys.                  *)
(***************************************************************************)

(* Bytes that a sidecar names stay as they are: they are neither unlinked  *)
(* nor swept, and publication writes intact ones only.                     *)
LEMMA BoundBlobStays ==
    ASSUME IInv, NEW p \in Proc, Own(p), NEW k \in Key, entry[k] \in Digest
    PROVE  blob'[entry[k]] # blob[entry[k]] => blob'[entry[k]] = "intact"
<1>1. pc[p] = "unlinkBlob" => digest[p] # entry[k]
  BY DEF IInv, UnlinkInv, Referenced
<1>2. pc[p] = "sweep" => entry[k] \in plan[p].sizes
  BY DEF IInv, SweepInv
<1> QED BY <1>1, <1>2, BlobChange

(* A key that comes to be bound is bound to intact bytes.                  *)
LEMMA BoundIntact ==
    ASSUME IInv, BindInv, NEW p \in Proc, Own(p), NEW k \in Key,
           entry'[k] # entry[k], entry'[k] \in Digest
    PROVE  /\ pc[p] = "publishEntry" /\ key[p] = k /\ entry'[k] = digest[p]
           /\ blob'[entry'[k]] = "intact"
<1>1. pc[p] = "publishEntry" /\ key[p] = k /\ entry'[k] = digest[p]
  BY EntryChange
<1>2. blob[digest[p]] = "intact"
  BY <1>1 DEF BindInv
<1> QED BY <1>1, <1>2, BlobChange

(* Nothing becomes damaged, and what is keeps the digest it had.           *)
LEMMA DamageShrinks ==
    ASSUME IInv, BindInv, NEW p \in Proc, Own(p)
    PROVE  Damaged' \subseteq Damaged /\ \A k \in Damaged' : entry'[k] = entry[k]
<1>1. ASSUME NEW k \in Key, entry'[k] \in Digest, blob'[entry'[k]] # "intact"
      PROVE  entry'[k] = entry[k] /\ blob[entry[k]] # "intact"
  BY <1>1, BoundIntact, BoundBlobStays
<1> QED BY <1>1 DEF Damaged

(* What is whole stays whole while everybody works with one manifest.      *)
LEMMA WholeStays ==
    ASSUME IInv, BindInv, OneManifest, NEW p \in Proc, Own(p), NEW a \in Artifact, Whole(a)
    PROVE  Whole(a)'
<1> DEFINE k == KeyOf[a]
<1>1. k \in Key
  OBVIOUS
<1>v. \A b \in Artifact, d \in Digest : Valid(b, d)' <=> Valid(b, d)
  BY DEF Valid, PinsMatch
<1> SUFFICES ASSUME entry'[k] \in Digest
             PROVE  blob'[entry'[k]] = "intact" /\ Valid(a, entry'[k])
  BY <1>v DEF Whole
<1>2. CASE entry'[k] = entry[k]
  BY <1>1, <1>2, BoundBlobStays DEF Whole
<1>3. CASE entry'[k] # entry[k]
  <2>1. /\ pc[p] = "publishEntry" /\ key[p] = k /\ entry'[k] = digest[p]
        /\ blob'[entry'[k]] = "intact"
    BY <1>1, <1>3, BoundIntact
  <2>2. artifact[p] \in Artifact /\ key[p] = KeyOf[artifact[p]] /\ Valid(artifact[p], digest[p])
    BY <2>1 DEF IInv, CallInv, Fetching
  <2>3. artifact[p] = a
    BY <2>1, <2>2 DEF OneManifest
  <2> QED BY <2>1, <2>2, <2>3
<1> QED BY <1>2, <1>3

LEMMA BindStep ==
    ASSUME IInv, BindInv, NEW p \in Proc, Own(p)
    PROVE  BindInv'
<1>t. TypeOK /\ TypeOK'
  BY TypeStep DEF IInv, Own, Next
<1>1. ASSUME NEW q \in Proc, pc'[q] = "publishEntry"
      PROVE  blob'[digest'[q]] = "intact"
  <2>1. CASE q = p
    <3>1. PublishBlob(p)
      BY <1>1, <2>1, Arrivals
    <3>2. digest[p] \in Digest
      BY <3>1 DEF IInv, CallInv, PublishBlob
    <3> QED BY <1>t, <2>1, <3>1, <3>2 DEF PublishBlob, localVars, TypeOK
  <2>2. CASE q # p
    <3>1. pc[q] = "publishEntry" /\ digest'[q] = digest[q]
      BY <1>t, <1>1, <2>2, OtherLocals
    <3>2. digest[q] \in Digest /\ blob[digest[q]] = "intact"
      BY <3>1 DEF IInv, CallInv, BindInv
    <3>3. pc[p] \notin {"unlinkBlob", "sweep"}
      BY <2>2, <3>1, Exclusion DEF HoldsStore
    <3> QED BY <3>1, <3>2, <3>3, BlobChange
  <2> QED BY <2>1, <2>2
<1>2. ASSUME NEW q \in Proc, pc'[q] \in {"refScan", "unlinkBlob"}
      PROVE  entry'[key'[q]] = None
  <2>1. CASE q = p /\ UnlinkEntry(p)
    <3>1. key[p] \in Key
      BY <2>1 DEF UnlinkEntry, IInv, KeyLockInv, HoldsKey
    <3> QED BY <1>t, <2>1, <3>1 DEF UnlinkEntry, TypeOK, callVars
  <2>2. CASE q = p /\ ScanUnreferenced(p)
    BY <2>2 DEF ScanUnreferenced, BindInv, dirVars, callVars
  <2>3. CASE q # p
    <3>1. pc[q] \in {"refScan", "unlinkBlob"} /\ key'[q] = key[q]
      BY <1>t, <1>2, <2>3, OtherLocals
    <3>2. key[q] \in Key /\ entry[key[q]] = None
      BY <3>1 DEF IInv, KeyLockInv, HoldsKey, BindInv
    <3>3. entry'[key[q]] = entry[key[q]]
      <4> SUFFICES ASSUME entry'[key[q]] # entry[key[q]]
                   PROVE  FALSE
        OBVIOUS
      <4>1. key[p] = key[q] /\ pc[p] \in {"publishEntry", "unlinkEntry"}
        BY <3>2, EntryChange
      <4> QED BY <2>3, <3>1, <4>1, Exclusion DEF HoldsKey, Fetching
    <3> QED BY <3>1, <3>2, <3>3
  <2> QED BY <1>2, <2>1, <2>2, <2>3, Arrivals
<1> QED BY <1>1, <1>2 DEF BindInv

(***************************************************************************)
(* The three calls of the script, step by step.                            *)
(***************************************************************************)

GetLabels    == Fetching \cup {"lockKey", "lockStore"}
RemoveLabels == {"lockKey", "lockStore", "unlinkEntry", "refScan", "unlinkBlob"}
VerifyLabels == {"verifyScan", "verify"}

(* A get goes on with its artifact, or returns; a path that it returns is  *)
(* that of intact bytes which the artifact accepts and its key is bound to.*)
LEMMA GetSteps ==
    ASSUME IInv, BindInv, NEW p \in Proc, Step(p), op[p] = "get", pc[p] \in GetLabels,
           NEW a, a = artifact[p]
    PROVE  /\ pc'[p] # "idle" =>
                 pc'[p] \in GetLabels /\ op'[p] = "get" /\ artifact'[p] = a
           /\ pc'[p] = "idle" /\ path'[p] # None => Whole(a)'
<1>t. TypeOK
  BY DEF IInv
<1>v. \A b \in Artifact, d \in Digest : Valid(b, d)' <=> Valid(b, d)
  BY DEF Valid, PinsMatch
<1>a. a \in Artifact /\ key[p] = KeyOf[a] /\ key[p] \in Key
  BY DEF IInv, CallInv
<1>1. \/ LockKey(p) \/ LockStore(p)
      \/ LookupMiss(p) \/ LookupEntry(p) \/ LookupError(p)
      \/ ProbeMiss(p) \/ ProbeHit(p) \/ Rehash(p)
      \/ Receive(p) \/ GiveUp(p)
      \/ PublishBlob(p) \/ PublishRejected(p) \/ PublishEntry(p) \/ PublishFails(p)
  BY DEF Step, Work, GetLabels, Fetching, UnlinkEntry, UnlinkSkipped, ScanError,
         ScanReferenced, ScanUnreferenced, UnlinkBlob, GcSnapshot, SweepOrphan, SweepDone,
         PickVictim, GcDone, VerifySnapshot, VerifyGood, VerifyReport, VerifyDone,
         PeekRead, PeekProbe
<1>2. CASE Rehash(p)
  <2>1. UNCHANGED <<entry, blob>> /\ pc'[p] = "idle"
        /\ path'[p] = IF blob[digest[p]] = "intact" /\ Valid(a, digest[p]) THEN digest[p] ELSE None
    BY <1>t, <1>2 DEF Rehash, Return, Goto, TypeOK, dirVars
  <2>2. entry[key[p]] \in {digest[p], Malformed}
    BY <1>2 DEF Rehash, IInv, HitStable
  <2> QED BY <1>a, <1>v, <2>1, <2>2 DEF Whole
<1>3. CASE PublishEntry(p)
  <2>1. /\ entry' = [entry EXCEPT ![key[p]] = digest[p]] /\ blob' = blob /\ pc'[p] = "idle"
        /\ blob[digest[p]] = "intact" /\ digest[p] \in Digest /\ Valid(a, digest[p])
    BY <1>t, <1>3 DEF PublishEntry, Return, Goto, TypeOK, BindInv, IInv, CallInv
  <2> QED BY <1>t, <1>a, <1>v, <2>1 DEF Whole, TypeOK
<1>4. CASE LookupError(p) \/ GiveUp(p)
  BY <1>t, <1>4 DEF LookupError, GiveUp, Return, Goto, TypeOK
<1>5. CASE LockKey(p) \/ LockStore(p)
  BY <1>t, <1>5 DEF LockKey, LockStore, Goto, TypeOK, callVars, GetLabels, Fetching
<1>6. CASE LookupMiss(p) \/ LookupEntry(p) \/ ProbeMiss(p) \/ ProbeHit(p)
           \/ Receive(p) \/ PublishBlob(p)
  BY <1>t, <1>6 DEF LookupMiss, LookupEntry, ProbeMiss, ProbeHit, Receive, PublishBlob,
         Goto, TypeOK, callVars, GetLabels, Fetching
<1>7. CASE PublishRejected(p) \/ PublishFails(p)
  <2>1. Return(p, None) \/ \E left : NextLayer(p, left)
    BY <1>7 DEF PublishRejected, PublishFails, LayerFails
  <2> QED BY <1>t, <2>1 DEF NextLayer, Return, Goto, TypeOK, GetLabels, Fetching
<1> QED BY <1>1, <1>2, <1>3, <1>4, <1>5, <1>6, <1>7

(* A remove goes on with its key, or returns; then the key is unbound,     *)
(* unless a sidecar that does not parse failed it.                         *)
LEMMA RemoveSteps ==
    ASSUME IInv, BindInv, NEW p \in Proc, Step(p), op[p] = "remove", pc[p] \in RemoveLabels
    PROVE  /\ pc'[p] # "idle" =>
                 pc'[p] \in RemoveLabels /\ op'[p] = "remove" /\ key'[p] = key[p]
           /\ pc'[p] = "idle" =>
                 \/ pc[p] = "unlinkEntry" /\ entry[key[p]] = Malformed
                 \/ pc[p] = "refScan" /\ ~Readable
                 \/ entry'[key[p]] \notin Digest
<1>t. TypeOK
  BY DEF IInv
<1>1. \/ LockKey(p) \/ LockStore(p)
      \/ UnlinkEntry(p) \/ UnlinkSkipped(p) \/ ScanError(p)
      \/ ScanReferenced(p) \/ ScanUnreferenced(p) \/ UnlinkBlob(p)
  BY DEF Step, Work, RemoveLabels, LookupMiss, LookupEntry, LookupError, ProbeMiss, ProbeHit,
         Rehash, Receive, GiveUp, PublishBlob, PublishRejected, PublishEntry, PublishFails,
         GcSnapshot, SweepOrphan, SweepDone, PickVictim, GcDone, VerifySnapshot, VerifyGood,
         VerifyReport, VerifyDone, PeekRead, PeekProbe
<1>2. CASE LockKey(p) \/ LockStore(p)
  BY <1>t, <1>2 DEF LockKey, LockStore, Goto, TypeOK, callVars, RemoveLabels
<1>3. CASE UnlinkEntry(p) \/ ScanUnreferenced(p)
  BY <1>t, <1>3 DEF UnlinkEntry, ScanUnreferenced, Goto, TypeOK, callVars, RemoveLabels
<1>4. CASE UnlinkSkipped(p)
  BY <1>t, <1>4 DEF UnlinkSkipped, StillWanted, KeyDone, Return, Goto, TypeOK, dirVars
<1>5. CASE ScanReferenced(p) \/ UnlinkBlob(p)
  BY <1>t, <1>5 DEF ScanReferenced, UnlinkBlob, KeyDone, Return, Goto, TypeOK, dirVars, BindInv
<1>6. CASE ScanError(p)
  BY <1>t, <1>6 DEF ScanError, Return, Goto, TypeOK, RemoveLabels
<1> QED BY <1>1, <1>2, <1>3, <1>4, <1>5, <1>6

(* A verify takes its snapshot, then one item of it at a time.             *)
LEMMA VerifySteps ==
    ASSUME IInv, NEW p \in Proc, Step(p), op[p] = "verify", pc[p] \in VerifyLabels
    PROVE  /\ UNCHANGED <<entry, blob>>
           /\ pc'[p] # "idle" => pc'[p] = "verify" /\ op'[p] = "verify"
           /\ pc[p] = "verifyScan" => VerifySnapshot(p) \/ (~Readable /\ pc'[p] = "idle")
           /\ pc[p] = "verify" =>
                 \/ plan[p].queue = <<>> /\ pc'[p] = "idle"
                 \/ /\ plan[p].queue # <<>> /\ pc'[p] = "verify"
                    /\ plan'[p].queue = Tail(plan[p].queue)
<1>t. TypeOK
  BY DEF IInv
<1>1. VerifySnapshot(p) \/ VerifyGood(p) \/ VerifyReport(p) \/ VerifyDone(p) \/ ScanError(p)
  BY DEF Step, Work, VerifyLabels, LockKey, LockStore, LookupMiss, LookupEntry, LookupError,
         ProbeMiss, ProbeHit, Rehash, Receive, GiveUp, PublishBlob, PublishRejected,
         PublishEntry, PublishFails, UnlinkEntry, UnlinkSkipped, ScanReferenced, ScanUnreferenced, UnlinkBlob,
         GcSnapshot, SweepOrphan, SweepDone, PickVictim, GcDone, PeekRead, PeekProbe
<1>2. CASE VerifySnapshot(p)
  BY <1>t, <1>2 DEF VerifySnapshot, Goto, TypeOK, dirVars, callVars
<1>3. CASE VerifyGood(p) \/ VerifyReport(p)
  <2>1. plan[p] \in Plan
    BY <1>t DEF TypeOK
  <2>2. plan'[p].queue = Tail(plan[p].queue)
    BY <1>t, <1>3, <2>1 DEF VerifyGood, VerifyReport, TypeOK, Plan
  <2> QED BY <1>t, <1>3, <2>2 DEF VerifyGood, VerifyReport, TypeOK, dirVars, callVars
<1>4. CASE VerifyDone(p) \/ ScanError(p)
  <2>1. UNCHANGED <<entry, blob>> /\ pc'[p] = "idle"
    BY <1>t, <1>4 DEF VerifyDone, ScanError, Return, Goto, TypeOK, dirVars
  <2>2. pc[p] = "verifyScan" => ~Readable
    BY <1>4 DEF VerifyDone, ScanError
  <2>3. pc[p] = "verify" => plan[p].queue = <<>>
    BY <1>4 DEF VerifyDone, ScanError
  <2> QED BY <2>1, <2>2, <2>3
<1> QED BY <1>1, <1>2, <1>3, <1>4

(***************************************************************************)
(* The script's invariant, step by step.                                   *)
(***************************************************************************)

LEMMA RepairInvInit == RepairInit => RepairInv
<1> SUFFICES ASSUME RepairInit
             PROVE  RepairInv
  OBVIOUS
<1>1. /\ repair \in BOOLEAN /\ todo = Manifest /\ failed = <<>> /\ outside = {}
      /\ Manifest = <<>> => phase = "over" /\ status = "clean"
      /\ Manifest # <<>> => phase = "check" /\ status = None
      /\ \A p \in Proc : pc[p] = "idle"
  BY DEF RepairInit
<1>2. IInv
  BY RepairInitInv
<1>3. ScriptInv
  BY <1>1 DEF ScriptInv, Verdicts
<1>4. CliInv /\ BindInv
  BY <1>1 DEF CliInv, BindInv
<1>5. DamageInv
  BY <1>1 DEF DamageInv
<1>6. Elems(Manifest) \ Pending = {}
  BY <1>1, ElemsType DEF Pending
<1> QED BY <1>2, <1>3, <1>4, <1>5, <1>6 DEF RepairInv, WholeInv

(* What any step on the directory leaves for the script to do.             *)
LEMMA DirectoryStep ==
    ASSUME RepairInv, NEW p \in Proc, Own(p)
    PROVE  /\ IInv' /\ BindInv'
           /\ Damaged' \subseteq Damaged
           /\ \A k \in Damaged' : entry'[k] = entry[k]
           /\ OneManifest => \A a \in Elems(Manifest) \ Pending : Whole(a)'
<1>1. IInv'
  BY InvStep DEF RepairInv, Own, Next
<1>2. BindInv'
  BY BindStep DEF RepairInv
<1>3. Damaged' \subseteq Damaged /\ \A k \in Damaged' : entry'[k] = entry[k]
  BY DamageShrinks DEF RepairInv
<1>4. ASSUME OneManifest, NEW a \in Elems(Manifest) \ Pending
      PROVE  Whole(a)'
  BY <1>4, WholeStays, ElemsType DEF RepairInv, WholeInv
<1> QED BY <1>1, <1>2, <1>3, <1>4

(* The script makes of a call's return what its phase says.                *)
LEMMA CallStepCases ==
    ASSUME RepairInv, CallStep
    PROVE  /\ pc[Cli] # "idle" /\ Step(Cli) /\ Own(Cli) /\ Notice /\ repair' = repair
           /\ \/ pc'[Cli] # "idle" /\ UNCHANGED <<phase, todo, failed, status>>
              \/ /\ pc'[Cli] = "idle"
                 /\ \/ End("error") /\ UNCHANGED failed
                    \/ phase = "check" /\ Checked
                    \/ phase = "verify" /\ ~CallFails /\ Verified
                    \/ phase = "remove" /\ ~CallFails /\ Removed
                    \/ phase = "fetch" /\ Fetched
<1>1. Step(Cli) /\ Own(Cli) /\ Notice /\ repair' = repair
  BY DEF CallStep, Own
<1>2. pc[Cli] # "idle"
  BY <1>1 DEF Step, Work, LockKey, LockStore, LookupMiss, LookupEntry, LookupError, ProbeMiss,
         ProbeHit, Rehash, Receive, GiveUp, PublishBlob, PublishRejected, PublishEntry, PublishFails,
         UnlinkEntry, UnlinkSkipped, ScanError, ScanReferenced, ScanUnreferenced, UnlinkBlob,
         GcSnapshot, SweepOrphan, SweepDone, PickVictim, GcDone, VerifySnapshot, VerifyGood,
         VerifyReport, VerifyDone, PeekRead, PeekProbe
<1>3. phase \in {"check", "verify", "remove", "fetch"}
  BY <1>2 DEF RepairInv, CliInv
<1>4. CASE pc'[Cli] # "idle"
  BY <1>1, <1>2, <1>4 DEF CallStep
<1>5. CASE pc'[Cli] = "idle" /\ CallFails /\ phase \in {"verify", "remove"}
  BY <1>1, <1>2, <1>5 DEF CallStep
<1>6. CASE pc'[Cli] = "idle" /\ phase = "check"
  BY <1>1, <1>2, <1>6 DEF CallStep
<1>7. CASE pc'[Cli] = "idle" /\ ~CallFails /\ phase = "verify"
  BY <1>1, <1>2, <1>7 DEF CallStep
<1>8. CASE pc'[Cli] = "idle" /\ ~CallFails /\ phase = "remove"
  BY <1>1, <1>2, <1>8 DEF CallStep
<1>9. CASE pc'[Cli] = "idle" /\ phase = "fetch"
  BY <1>1, <1>2, <1>9 DEF CallStep
<1> QED BY <1>3, <1>4, <1>5, <1>6, <1>7, <1>8, <1>9

(* Once it is over without success there is nothing left to keep.          *)
LEMMA OverStep ==
    ASSUME RepairInv, IInv', BindInv', pc'[Cli] = "idle",
           NEW r \in {"error", "refused", "damaged", None}, End(r),
           repair' = repair, failed' = failed, outside' \in SUBSET Key
    PROVE  RepairInv'
<1>1. /\ phase' = "over" /\ todo' = <<>> /\ status' = r
      /\ r \in Verdicts \cup {None} /\ r \notin {"clean", "repaired"}
  BY DEF End, Enter, Verdicts
<1>2. ScriptInv'
  BY <1>1 DEF RepairInv, ScriptInv
<1>3. CliInv' /\ DamageInv'
  BY <1>1 DEF CliInv, DamageInv
<1>4. Pending' = Artifact
  BY <1>1 DEF Pending
<1>5. (Elems(Manifest) \ Pending)' = {}
  BY <1>4, ElemsType DEF Elems
<1> QED BY <1>2, <1>3, <1>5 DEF RepairInv, WholeInv

(* Artifacts the script has dealt with are whole if those it had dealt     *)
(* with before are and the one it takes off the list is.                   *)
LEMMA WholeStep ==
    ASSUME RepairInv, NEW p \in Proc, Own(p), NEW a \in Artifact,
           Pending \subseteq Pending' \cup {a},
           a \in Pending' \/ Whole(a)'
    PROVE  WholeInv'
<1> SUFFICES ASSUME OneManifest', NEW b \in (Elems(Manifest) \ Pending)'
             PROVE  Whole(b)'
  BY DEF WholeInv
<1>1. OneManifest /\ b \in Elems(Manifest) /\ b \notin Pending'
  BY DEF OneManifest, Elems
<1>2. b \notin Pending \/ b = a
  BY <1>1
<1> QED BY <1>1, <1>2, DirectoryStep

(* Verify reports every damaged key that is not the manifest's: those it   *)
(* has not come to yet are in its snapshot, with the digest they have now. *)
LEMMA VerifyAccounts ==
    ASSUME RepairInv, Step(Cli), Notice, phase = "verify", pc[Cli] # "idle"
    PROVE  /\ outside' \in SUBSET Key
           /\ pc'[Cli] # "idle" => pc'[Cli] = "verify" /\ op'[Cli] = "verify"
           /\ pc'[Cli] = "verify" => \A k \in Damaged' \ Keys(Manifest) :
                 k \in outside' \/ [key |-> k, digest |-> entry'[k]] \in Elems(plan'[Cli].queue)
           /\ pc'[Cli] = "idle" => outside' = outside
           /\ pc'[Cli] = "idle" /\ ~CallFails => Damaged' \ Keys(Manifest) \subseteq outside'
<1>t. /\ TypeOK /\ IInv /\ outside \in SUBSET Key
      /\ op[Cli] = "verify" /\ pc[Cli] \in VerifyLabels
  BY DEF RepairInv, IInv, ScriptInv, CliInv, VerifyLabels
<1>1. /\ entry' = entry /\ blob' = blob
      /\ pc'[Cli] # "idle" => pc'[Cli] = "verify" /\ op'[Cli] = "verify"
      /\ pc[Cli] = "verifyScan" => VerifySnapshot(Cli) \/ (~Readable /\ pc'[Cli] = "idle")
      /\ pc[Cli] = "verify" =>
            \/ plan[Cli].queue = <<>> /\ pc'[Cli] = "idle"
            \/ /\ plan[Cli].queue # <<>> /\ pc'[Cli] = "verify"
               /\ plan'[Cli].queue = Tail(plan[Cli].queue)
  BY <1>t, VerifySteps
<1>2. \A k \in Damaged' : k \in Damaged /\ k \in Key /\ entry[k] \in Digest
                           /\ blob[entry[k]] # "intact"
  BY <1>1 DEF Damaged
<1>3. CASE pc[Cli] = "verifyScan" /\ VerifySnapshot(Cli)
  <2>1. PICK q \in Visits : plan' = [plan EXCEPT ![Cli] = [NoPlan EXCEPT !.queue = Items(q)]]
    BY <1>3 DEF VerifySnapshot
  <2>2. plan'[Cli].queue = Items(q)
    BY <1>t, <2>1 DEF TypeOK, NoPlan
  <2>3. pc'[Cli] = "verify" /\ outside' = outside
    BY <1>t, <1>3 DEF VerifySnapshot, Goto, TypeOK, Notice
  <2>4. ASSUME NEW k \in Damaged'
        PROVE  [key |-> k, digest |-> entry[k]] \in Elems(Items(q))
    <3>1. k \in Indexed
      BY <1>2, <2>4 DEF Indexed
    <3>2. PICK i \in DOMAIN q : q[i] = k
      BY <3>1, VisitsAll
    <3>3. i \in DOMAIN Items(q) /\ Items(q)[i] = [key |-> k, digest |-> entry[k]]
      BY <3>2 DEF Items
    <3> QED BY <3>3 DEF Elems
  <2> QED BY <1>t, <1>1, <2>2, <2>3, <2>4
<1>4. CASE pc[Cli] = "verifyScan" /\ ~Readable /\ pc'[Cli] = "idle"
  BY <1>t, <1>4 DEF CallFails, Notice
<1>5. CASE pc[Cli] = "verify" /\ plan[Cli].queue = <<>> /\ pc'[Cli] = "idle"
  <2>1. outside' = outside
    BY <1>5 DEF Notice
  <2>2. Elems(plan[Cli].queue) = {}
    BY <1>5 DEF Elems
  <2>3. \A k \in Damaged \ Keys(Manifest) : k \in outside
    BY <1>5, <2>2 DEF RepairInv, DamageInv
  <2> QED BY <1>t, <1>2, <1>5, <2>1, <2>3
<1>6. CASE /\ pc[Cli] = "verify" /\ plan[Cli].queue # <<>> /\ pc'[Cli] = "verify"
           /\ plan'[Cli].queue = Tail(plan[Cli].queue)
  <2>1. plan[Cli].queue \in Seq(Item)
    BY <1>t DEF TypeOK, Plan
  <2>2. /\ Elems(plan[Cli].queue) = {Victim(Cli)} \cup Elems(plan'[Cli].queue)
        /\ Victim(Cli).key \in Key
    <3>1. ASSUME NEW s \in Seq(Item), s # <<>>
          PROVE  Elems(s) = {Head(s)} \cup Elems(Tail(s)) /\ Head(s) \in Item
      BY <3>1, ElemsTail
    <3>2. Victim(Cli) \in Item /\ Victim(Cli) = Head(plan[Cli].queue)
      BY <1>6, <2>1, <3>1 DEF Victim
    <3>3. Elems(plan[Cli].queue) = {Victim(Cli)} \cup Elems(Tail(plan[Cli].queue))
      BY <1>6, <2>1, <3>1, <3>2
    <3> QED BY <1>6, <3>2, <3>3 DEF Item
  <2>3. /\ outside \subseteq outside' /\ outside' \in SUBSET Key
        /\ blob[Victim(Cli).digest] # "intact" /\ Victim(Cli).key \notin Keys(Manifest)
           => Victim(Cli).key \in outside'
    BY <1>t, <1>6, <2>2 DEF Notice
  <2>4. ASSUME NEW k \in Damaged' \ Keys(Manifest), k \notin outside'
        PROVE  [key |-> k, digest |-> entry'[k]] \in Elems(plan'[Cli].queue)
    <3>1. [key |-> k, digest |-> entry[k]] \in Elems(plan[Cli].queue)
      BY <1>2, <1>6, <2>3, <2>4 DEF RepairInv, DamageInv
    <3>2. [key |-> k, digest |-> entry[k]] # Victim(Cli)
      <4>1. ASSUME Victim(Cli) = [key |-> k, digest |-> entry[k]]
            PROVE  FALSE
        <5>1. Victim(Cli).key = k /\ Victim(Cli).digest = entry[k]
          BY <4>1
        <5> QED BY <1>2, <2>3, <2>4, <5>1
      <4> QED BY <4>1
    <3> QED BY <1>1, <2>2, <3>1, <3>2
  <2> QED BY <1>1, <1>6, <2>3, <2>4
<1> QED BY <1>t, <1>1, <1>3, <1>4, <1>5, <1>6 DEF VerifyLabels

(* Only verify adds to what is damaged outside the manifest.               *)
LEMMA NoticeElse ==
    ASSUME RepairInv, Notice, pc[Cli] # "idle", phase # "verify"
    PROVE  outside' = outside
<1>1. pc[Cli] # "verify"
  BY DEF RepairInv, CliInv, Fetching
<1> QED BY <1>1 DEF Notice

(* The call of a phase that gets or removes the next artifact.             *)
LEMMA NextArtifact ==
    ASSUME RepairInv, phase \in {"check", "remove", "fetch"}, NEW a, a = Head(todo)
    PROVE  /\ a \in Artifact /\ Tail(todo) \in Seq(Artifact)
           /\ Elems(todo) = {a} \cup Elems(Tail(todo))
           /\ Keys(todo) = {KeyOf[a]} \cup Keys(Tail(todo))
           /\ Elems(Tail(todo)) \subseteq Elems(todo)
<1>1. todo \in Seq(Artifact) /\ todo # <<>>
  BY DEF RepairInv, ScriptInv
<1>2. /\ a \in Artifact /\ Tail(todo) \in Seq(Artifact)
      /\ Elems(todo) = {a} \cup Elems(Tail(todo))
  BY <1>1, ElemsTail
<1> QED BY <1>2, KeysElems

LEMMA GetReturns ==
    ASSUME RepairInv, Step(Cli), phase \in {"check", "fetch"}, pc[Cli] # "idle",
           NEW a, a = Head(todo)
    PROVE  /\ pc'[Cli] # "idle" =>
                 pc'[Cli] \in GetLabels /\ op'[Cli] = "get" /\ artifact'[Cli] = a
           /\ pc'[Cli] = "idle" /\ path'[Cli] # None => Whole(a)'
<1>1. /\ op[Cli] = "get" /\ a = artifact[Cli] /\ pc[Cli] \in GetLabels
      /\ IInv /\ BindInv
  BY DEF RepairInv, CliInv, GetLabels
<1> QED BY <1>1, GetSteps

LEMMA RemoveReturns ==
    ASSUME RepairInv, Step(Cli), phase = "remove", pc[Cli] # "idle"
    PROVE  /\ pc'[Cli] # "idle" =>
                 pc'[Cli] \in RemoveLabels /\ op'[Cli] = "remove" /\ key'[Cli] = key[Cli]
           /\ key[Cli] = KeyOf[Head(todo)]
           /\ pc'[Cli] = "idle" /\ ~CallFails => key[Cli] \notin Damaged'
<1>1. /\ op[Cli] = "remove" /\ key[Cli] = KeyOf[Head(todo)] /\ pc[Cli] \in RemoveLabels
      /\ IInv /\ BindInv
  BY DEF RepairInv, CliInv, RemoveLabels
<1>2. pc'[Cli] = "idle" /\ ~CallFails => entry'[key[Cli]] \notin Digest
  BY <1>1, RemoveSteps DEF CallFails
<1> QED BY <1>1, <1>2, RemoveSteps DEF Damaged

(* What the script still has to deal with does not shrink: nothing to show.*)
LEMMA WholeKept ==
    ASSUME RepairInv, NEW p \in Proc, Own(p), Pending \subseteq Pending'
    PROVE  WholeInv'
<1> SUFFICES ASSUME OneManifest', NEW b \in (Elems(Manifest) \ Pending)'
             PROVE  Whole(b)'
  BY DEF WholeInv
<1>1. OneManifest /\ b \in Elems(Manifest) \ Pending
  BY DEF OneManifest, Elems
<1> QED BY <1>1, DirectoryStep

LEMMA SamePending ==
    ASSUME UNCHANGED <<phase, todo, failed, status>>
    PROVE  Pending' = Pending
BY DEF Pending, Elems

LEMMA GoesOn ==
    ASSUME RepairInv, Step(Cli), Notice, repair' = repair, pc[Cli] # "idle",
           pc'[Cli] # "idle", UNCHANGED <<phase, todo, failed, status>>
    PROVE  RepairInv'
<1>o. Own(Cli)
  BY DEF Own
<1>d. /\ IInv' /\ BindInv' /\ Damaged' \subseteq Damaged
      /\ \A k \in Damaged' : entry'[k] = entry[k]
  BY <1>o, DirectoryStep
<1>1. outside' \in SUBSET Key /\ (phase # "verify" => outside' = outside)
  BY NoticeElse, VerifyAccounts DEF RepairInv, ScriptInv
<1>2. ScriptInv'
  <2>1. ScriptInv
    BY DEF RepairInv
  <2>2. Elems(todo)' = Elems(todo) /\ Elems(failed)' = Elems(failed)
    BY DEF Elems
  <2> QED BY <1>1, <2>1, <2>2 DEF ScriptInv
<1>3. CliInv'
  <2>1. CASE phase \in {"check", "fetch"}
    BY <2>1, GetReturns DEF CliInv, GetLabels
  <2>2. CASE phase = "remove"
    BY <2>2, RemoveReturns DEF CliInv, RemoveLabels
  <2>3. CASE phase = "verify"
    BY <2>3, VerifyAccounts DEF CliInv
  <2> QED BY <2>1, <2>2, <2>3 DEF RepairInv, CliInv
<1>4. DamageInv'
  <2>1. phase' = phase /\ Keys(failed)' = Keys(failed) /\ Keys(todo)' = Keys(todo)
        /\ Keys(Manifest)' = Keys(Manifest)
    BY DEF Keys
  <2>2. phase = "verify" /\ pc'[Cli] = "verify" => \A k \in Damaged' \ Keys(Manifest) :
            k \in outside' \/ [key |-> k, digest |-> entry'[k]] \in Elems(plan'[Cli].queue)
    BY VerifyAccounts
  <2>3. (phase = "verify" /\ pc[Cli] = "verify" => \A k \in Damaged \ Keys(Manifest) :
            k \in outside \/ [key |-> k, digest |-> entry[k]] \in Elems(plan[Cli].queue))'
    BY <2>1, <2>2 DEF Elems
  <2> QED BY <1>d, <2>1, <2>3 DEF RepairInv, DamageInv
<1>5. WholeInv'
  BY <1>o, SamePending, WholeKept
<1> QED BY <1>d, <1>2, <1>3, <1>4, <1>5 DEF RepairInv

LEMMA CheckedStep ==
    ASSUME RepairInv, Step(Cli), Notice, repair' = repair, pc[Cli] # "idle",
           pc'[Cli] = "idle", phase = "check", Checked
    PROVE  RepairInv'
<1>o. Own(Cli)
  BY DEF Own
<1>d. IInv' /\ BindInv' /\ Damaged' \subseteq Damaged
  BY <1>o, DirectoryStep
<1>1. outside' = outside
  BY NoticeElse
<1>2. PICK a : a = Head(todo)
  OBVIOUS
<1>3. /\ a \in Artifact /\ Tail(todo) \in Seq(Artifact)
      /\ Elems(todo) = {a} \cup Elems(Tail(todo))
      /\ Keys(todo) = {KeyOf[a]} \cup Keys(Tail(todo))
  BY <1>2, NextArtifact
<1>4. path'[Cli] # None => Whole(a)'
  BY <1>2, GetReturns
<1>5. /\ failed' \in Seq(Artifact) /\ Elems(failed) \subseteq Elems(failed')
      /\ Keys(failed) \subseteq Keys(failed')
      /\ a \in Elems(failed') \/ path'[Cli] # None
  <2>1. failed \in Seq(Artifact)
    BY DEF RepairInv, ScriptInv
  <2>2. failed' = IF path'[Cli] = None THEN Append(failed, a) ELSE failed
    BY <1>2 DEF Checked
  <2>3. /\ failed' \in Seq(Artifact) /\ Elems(failed) \subseteq Elems(failed')
        /\ a \in Elems(failed') \/ path'[Cli] # None
    BY <1>3, <2>1, <2>2, ElemsAppend
  <2> QED BY <2>3, KeysElems
<1>6. CliInv'
  BY DEF CliInv
<1>7. KeyOf[a] \in Damaged' => KeyOf[a] \in Keys(failed')
  <2>1. a \in Elems(failed') => KeyOf[a] \in Keys(failed')
    BY KeysElems
  <2>2. Whole(a)' => KeyOf[a] \notin Damaged'
    BY DEF Whole, Damaged
  <2> QED BY <1>4, <1>5, <2>1, <2>2
<1>8. Damaged' \cap Keys(Manifest) \subseteq Keys(failed') \cup Keys(Tail(todo))
  <2>1. Damaged \cap Keys(Manifest) \subseteq Keys(failed) \cup Keys(todo)
    BY DEF RepairInv, DamageInv
  <2> QED BY <1>d, <1>3, <1>5, <1>7, <2>1
<1>9. Pending = Elems(todo) \cup Elems(failed)
  BY DEF Pending
<1>k. Keys(failed)' = Keys(failed') /\ Keys(Manifest)' = Keys(Manifest)
      /\ Keys(todo)' = Keys(todo')
  BY DEF Keys
<1>e. Elems(failed)' = Elems(failed') /\ Elems(todo)' = Elems(todo')
  BY DEF Elems
<1>0. \A as : as = <<>> => Keys(as) = {} /\ Elems(as) = {}
  BY DEF Keys, Elems
<1>10. CASE Tail(todo) # <<>>
  <2>1. phase' = "check" /\ todo' = Tail(todo) /\ status' = status
    BY <1>10 DEF Checked, Enter
  <2>2. ScriptInv'
    BY <1>1, <1>3, <1>5, <1>10, <2>1 DEF RepairInv, ScriptInv
  <2>3. DamageInv'
    BY <1>8, <1>k, <2>1 DEF DamageInv
  <2>4. Pending' = Elems(Tail(todo)) \cup Elems(failed')
    BY <1>e, <2>1 DEF Pending
  <2>5. WholeInv'
    BY <1>o, <1>3, <1>4, <1>5, <1>9, <2>4, WholeStep
  <2> QED BY <1>d, <1>6, <2>2, <2>3, <2>5 DEF RepairInv
<1>11. CASE Tail(todo) = <<>> /\ failed' = <<>>
  <2>1. phase' = "over" /\ todo' = <<>> /\ status' = "clean"
    BY <1>2, <1>11 DEF Checked, End, Enter
  <2>2. ScriptInv'
    BY <1>1, <1>11, <2>1 DEF RepairInv, ScriptInv, Verdicts
  <2>3. DamageInv'
    BY <2>1 DEF DamageInv
  <2>4. Pending' = {}
    BY <2>1 DEF Pending
  <2>5. WholeInv'
    BY <1>o, <1>0, <1>3, <1>4, <1>5, <1>9, <1>11, <2>4, WholeStep
  <2> QED BY <1>d, <1>6, <2>2, <2>3, <2>5 DEF RepairInv
<1>12. CASE Tail(todo) = <<>> /\ failed' # <<>>
  <2>1. phase' = "verify" /\ todo' = <<>> /\ status' = status
    BY <1>2, <1>12 DEF Checked, Enter
  <2>2. ScriptInv'
    BY <1>1, <1>5, <1>12, <2>1 DEF RepairInv, ScriptInv
  <2>3. DamageInv'
    BY <1>0, <1>8, <1>k, <1>12, <2>1 DEF DamageInv
  <2>4. Pending' = Elems(failed')
    BY <1>e, <2>1 DEF Pending
  <2>5. WholeInv'
    BY <1>o, <1>0, <1>3, <1>4, <1>5, <1>9, <1>12, <2>4, WholeStep
  <2> QED BY <1>d, <1>6, <2>2, <2>3, <2>5 DEF RepairInv
<1> QED BY <1>10, <1>11, <1>12

LEMMA VerifiedStep ==
    ASSUME RepairInv, Step(Cli), Notice, repair' = repair, pc[Cli] # "idle",
           pc'[Cli] = "idle", phase = "verify", ~CallFails, Verified
    PROVE  RepairInv'
<1>o. Own(Cli)
  BY DEF Own
<1>d. IInv' /\ BindInv' /\ Damaged' \subseteq Damaged
  BY <1>o, DirectoryStep
<1>1. /\ outside' = outside /\ outside' \in SUBSET Key
      /\ Damaged' \ Keys(Manifest) \subseteq outside
  BY VerifyAccounts
<1>2. CASE repair /\ outside = {}
  <2>1. /\ phase' = "remove" /\ todo' = failed /\ failed' = failed /\ status' = status
    BY <1>2 DEF Verified, Enter
  <2>2. ScriptInv'
    <3>1. ScriptInv /\ Elems(todo)' = Elems(failed) /\ Elems(failed)' = Elems(failed)
      BY <2>1 DEF RepairInv, Elems
    <3> QED BY <1>1, <1>2, <2>1, <3>1 DEF ScriptInv
  <2>3. DamageInv'
    <3>1. Damaged \cap Keys(Manifest) \subseteq Keys(failed) /\ Keys(todo)' = Keys(failed)
      BY <2>1 DEF RepairInv, DamageInv, Keys
    <3> QED BY <1>d, <1>1, <1>2, <2>1, <3>1 DEF DamageInv
  <2>4. CliInv'
    BY DEF CliInv
  <2>5. Pending' = Pending
    BY <2>1 DEF Pending, Elems
  <2> QED BY <1>o, <1>d, <2>2, <2>3, <2>4, <2>5, WholeKept DEF RepairInv
<1>3. CASE ~(repair /\ outside = {})
  <2>1. failed' = failed /\ (End("refused") \/ End("damaged"))
    BY <1>3 DEF Verified
  <2> QED BY <1>d, <1>1, <2>1, OverStep
<1> QED BY <1>2, <1>3

LEMMA RemovedStep ==
    ASSUME RepairInv, Step(Cli), Notice, repair' = repair, pc[Cli] # "idle",
           pc'[Cli] = "idle", phase = "remove", ~CallFails, Removed
    PROVE  RepairInv'
<1>o. Own(Cli)
  BY DEF Own
<1>d. IInv' /\ BindInv' /\ Damaged' \subseteq Damaged
  BY <1>o, DirectoryStep
<1>1. outside' = outside
  BY NoticeElse
<1>2. PICK a : a = Head(todo)
  OBVIOUS
<1>3. /\ a \in Artifact /\ Tail(todo) \in Seq(Artifact)
      /\ Elems(Tail(todo)) \subseteq Elems(todo)
      /\ Keys(todo) = {KeyOf[a]} \cup Keys(Tail(todo))
  BY <1>2, NextArtifact
<1>4. Damaged' \subseteq Keys(Tail(todo))
  <2>1. Damaged \subseteq Keys(todo)
    BY DEF RepairInv, DamageInv
  <2>2. KeyOf[a] \notin Damaged'
    BY <1>2, RemoveReturns
  <2> QED BY <1>d, <1>3, <2>1, <2>2
<1>5. CliInv'
  BY DEF CliInv
<1>s. /\ failed' = failed /\ status' = status /\ ScriptInv
      /\ Elems(todo)' = Elems(todo') /\ Elems(failed)' = Elems(failed)
      /\ Keys(todo)' = Keys(todo')
  BY DEF Removed, RepairInv, Elems, Keys
<1>6. CASE Tail(todo) = <<>>
  <2>1. phase' = "fetch" /\ todo' = failed
    BY <1>6 DEF Removed, Enter
  <2>2. ScriptInv'
    BY <1>1, <1>s, <2>1 DEF ScriptInv
  <2>3. DamageInv'
    <3>1. Keys(Tail(todo)) = {}
      BY <1>6 DEF Keys
    <3> QED BY <1>4, <2>1, <3>1 DEF DamageInv
  <2>4. Pending' = Pending
    BY <1>s, <2>1 DEF Pending
  <2> QED BY <1>o, <1>d, <1>5, <2>2, <2>3, <2>4, WholeKept DEF RepairInv
<1>7. CASE Tail(todo) # <<>>
  <2>1. phase' = "remove" /\ todo' = Tail(todo)
    BY <1>7 DEF Removed, Enter
  <2>2. ScriptInv'
    BY <1>1, <1>3, <1>7, <1>s, <2>1 DEF ScriptInv
  <2>3. DamageInv'
    BY <1>4, <1>s, <2>1 DEF DamageInv
  <2>4. Pending' = Pending
    BY <1>s, <2>1 DEF Pending
  <2> QED BY <1>o, <1>d, <1>5, <2>2, <2>3, <2>4, WholeKept DEF RepairInv
<1> QED BY <1>6, <1>7

LEMMA FetchedStep ==
    ASSUME RepairInv, Step(Cli), Notice, repair' = repair, pc[Cli] # "idle",
           pc'[Cli] = "idle", phase = "fetch", Fetched
    PROVE  RepairInv'
<1>o. Own(Cli)
  BY DEF Own
<1>d. IInv' /\ BindInv' /\ Damaged' \subseteq Damaged
  BY <1>o, DirectoryStep
<1>1. outside' = outside /\ outside \in SUBSET Key
  BY NoticeElse DEF RepairInv, ScriptInv
<1>2. PICK a : a = Head(todo)
  OBVIOUS
<1>3. /\ a \in Artifact /\ Tail(todo) \in Seq(Artifact)
      /\ Elems(todo) = {a} \cup Elems(Tail(todo))
  BY <1>2, NextArtifact
<1>4. path'[Cli] # None => Whole(a)'
  BY <1>2, GetReturns
<1>5. CliInv'
  BY DEF CliInv
<1>s. /\ failed' = failed /\ ScriptInv /\ Damaged = {}
      /\ Elems(todo)' = Elems(todo') /\ Elems(failed)' = Elems(failed)
  BY DEF Fetched, RepairInv, DamageInv, Elems
<1>6. CASE path'[Cli] = None
  <2>1. End("error")
    BY <1>6 DEF Fetched
  <2> QED BY <1>d, <1>1, <1>s, <2>1, OverStep
<1>7. CASE path'[Cli] # None /\ Tail(todo) = <<>>
  <2>1. phase' = "over" /\ todo' = <<>> /\ status' = "repaired"
    BY <1>7 DEF Fetched, End, Enter
  <2>2. ScriptInv'
    BY <1>1, <1>s, <2>1 DEF ScriptInv, Verdicts
  <2>3. DamageInv'
    BY <2>1 DEF DamageInv
  <2>4. Pending' = {} /\ Pending = Elems(todo) /\ Elems(Tail(todo)) = {}
    BY <1>7, <2>1 DEF Pending, Elems
  <2>5. WholeInv'
    BY <1>o, <1>3, <1>4, <1>7, <2>4, WholeStep
  <2> QED BY <1>d, <1>5, <2>2, <2>3, <2>5 DEF RepairInv
<1>8. CASE path'[Cli] # None /\ Tail(todo) # <<>>
  <2>1. phase' = "fetch" /\ todo' = Tail(todo) /\ status' = status
    BY <1>8 DEF Fetched, Enter
  <2>2. ScriptInv'
    BY <1>1, <1>3, <1>8, <1>s, <2>1 DEF ScriptInv
  <2>3. DamageInv'
    BY <1>d, <1>s, <2>1 DEF DamageInv
  <2>4. Pending' = Elems(Tail(todo)) /\ Pending = Elems(todo)
    BY <1>s, <2>1 DEF Pending
  <2>5. WholeInv'
    BY <1>o, <1>3, <1>4, <1>8, <2>4, WholeStep
  <2> QED BY <1>d, <1>5, <2>2, <2>3, <2>5 DEF RepairInv
<1> QED BY <1>6, <1>7, <1>8

LEMMA CallKeeps ==
    ASSUME RepairInv, Call
    PROVE  RepairInv'
<1>1. /\ IInv' /\ pc[Cli] = "idle"
      /\ UNCHANGED <<entry, blob, digest, plan, scriptVars>>
      /\ \A p \in Proc : pc'[p] \in {"lockKey", "verifyScan"} \/ pc'[p] = pc[p]
      /\ \A p \in Proc : pc'[p] = pc[p] => key'[p] = key[p]
  BY CallCases
<1>s. UNCHANGED <<repair, phase, todo, failed, outside, status>>
  BY <1>1 DEF scriptVars
<1>2. ScriptInv'
  <2>1. ScriptInv /\ Elems(todo)' = Elems(todo) /\ Elems(failed)' = Elems(failed)
    BY <1>s DEF Elems, RepairInv
  <2> QED BY <1>s, <2>1 DEF ScriptInv
<1>3. CliInv'
  BY <1>s, CallCases DEF CliInv
<1>4. BindInv'
  BY <1>1 DEF RepairInv, BindInv
<1>5. DamageInv'
  <2>1. /\ Damaged' = Damaged /\ Keys(failed)' = Keys(failed) /\ Keys(todo)' = Keys(todo)
        /\ Keys(Manifest)' = Keys(Manifest) /\ pc'[Cli] # "verify"
    BY <1>1, <1>s, CallCases DEF Damaged, Keys
  <2> QED BY <1>s, <2>1 DEF RepairInv, DamageInv
<1>6. WholeInv'
  <2>1. Pending' = Pending /\ Elems(Manifest)' = Elems(Manifest)
    BY <1>s, SamePending DEF Elems
  <2>2. \A a \in Artifact : Whole(a)' <=> Whole(a)
    BY <1>1 DEF Whole, Valid, PinsMatch
  <2>3. Elems(Manifest) \subseteq Artifact /\ WholeInv
    BY ElemsType DEF RepairInv
  <2> QED BY <2>1, <2>2, <2>3 DEF WholeInv, OneManifest
<1> QED BY <1>1, <1>2, <1>3, <1>4, <1>5, <1>6 DEF RepairInv

LEMMA NeighbourKeeps ==
    ASSUME RepairInv, NEW p \in Proc \ {Cli}, Neighbour(p)
    PROVE  RepairInv'
<1>o. Own(p) /\ UNCHANGED <<repair, phase, todo, failed, outside, status>>
  BY DEF Neighbour, Own, scriptVars
<1>d. /\ IInv' /\ BindInv' /\ Damaged' \subseteq Damaged
      /\ \A k \in Damaged' : entry'[k] = entry[k]
  BY <1>o, DirectoryStep
<1>1. /\ pc'[Cli] = pc[Cli] /\ op'[Cli] = op[Cli] /\ key'[Cli] = key[Cli]
      /\ artifact'[Cli] = artifact[Cli] /\ plan'[Cli] = plan[Cli]
  BY <1>o, OtherLocals DEF RepairInv, IInv
<1>2. ScriptInv'
  <2>1. ScriptInv /\ Elems(todo)' = Elems(todo) /\ Elems(failed)' = Elems(failed)
    BY <1>o DEF Elems, RepairInv
  <2> QED BY <1>o, <2>1 DEF ScriptInv
<1>3. CliInv'
  BY <1>o, <1>1 DEF RepairInv, CliInv
<1>4. DamageInv'
  <2>1. Keys(failed)' = Keys(failed) /\ Keys(todo)' = Keys(todo)
        /\ Keys(Manifest)' = Keys(Manifest)
    BY <1>o DEF Keys
  <2>2. (phase = "verify" /\ pc[Cli] = "verify" => \A k \in Damaged \ Keys(Manifest) :
            k \in outside \/ [key |-> k, digest |-> entry[k]] \in Elems(plan[Cli].queue))'
    BY <1>o, <1>d, <1>1, <2>1 DEF RepairInv, DamageInv, Elems
  <2> QED BY <1>o, <1>d, <2>1, <2>2 DEF RepairInv, DamageInv
<1>5. WholeInv'
  BY <1>o, SamePending, WholeKept
<1> QED BY <1>d, <1>2, <1>3, <1>4, <1>5 DEF RepairInv

LEMMA KilledKeeps ==
    ASSUME RepairInv, Killed
    PROVE  RepairInv'
<1>1. Own(Cli) /\ pc'[Cli] = "idle"
  BY DEF Killed, Own, Abort, Return, Goto, RepairInv, IInv, TypeOK
<1>2. IInv' /\ BindInv'
  BY <1>1, DirectoryStep
<1>3. End(None) /\ repair' = repair /\ failed' = failed /\ outside' \in SUBSET Key
  BY DEF Killed, RepairInv, ScriptInv
<1> QED BY <1>1, <1>2, <1>3, OverStep

LEMMA RepairStep == RepairInv /\ [RepairNext]_allVars => RepairInv'
<1> SUFFICES ASSUME RepairInv, [RepairNext]_allVars
             PROVE  RepairInv'
  OBVIOUS
<1>1. CASE CallStep
  <2>1. /\ Step(Cli) /\ Notice /\ repair' = repair /\ Own(Cli) /\ pc[Cli] # "idle"
    BY <1>1, CallStepCases
  <2>2. CASE pc'[Cli] # "idle" /\ UNCHANGED <<phase, todo, failed, status>>
    BY <2>1, <2>2, GoesOn
  <2>3. CASE pc'[Cli] = "idle" /\ End("error") /\ UNCHANGED failed
    <3>1. IInv' /\ BindInv'
      BY <2>1, DirectoryStep
    <3>2. outside' \in SUBSET Key
      BY <2>1, NoticeElse, VerifyAccounts DEF RepairInv, ScriptInv
    <3> QED BY <2>1, <2>3, <3>1, <3>2, OverStep
  <2>4. CASE pc'[Cli] = "idle" /\ phase = "check" /\ Checked
    BY <2>1, <2>4, CheckedStep
  <2>5. CASE pc'[Cli] = "idle" /\ phase = "verify" /\ ~CallFails /\ Verified
    BY <2>1, <2>5, VerifiedStep
  <2>6. CASE pc'[Cli] = "idle" /\ phase = "remove" /\ ~CallFails /\ Removed
    BY <2>1, <2>6, RemovedStep
  <2>7. CASE pc'[Cli] = "idle" /\ phase = "fetch" /\ Fetched
    BY <2>1, <2>7, FetchedStep
  <2> QED BY <1>1, <2>2, <2>3, <2>4, <2>5, <2>6, <2>7, CallStepCases
<1>2. CASE UNCHANGED allVars
  <2>1. UNCHANGED vars /\ UNCHANGED <<repair, phase, todo, failed, outside, status>>
    BY <1>2 DEF allVars, scriptVars
  <2>2. IInv'
    BY <2>1, InvStep DEF RepairInv
  <2>3. UNCHANGED <<entry, blob, pc, op, key, artifact, digest, plan>>
    BY <2>1 DEF vars, dirVars, callVars, localVars
  <2>e. /\ Elems(todo)' = Elems(todo) /\ Elems(failed)' = Elems(failed)
        /\ Elems(plan[Cli].queue)' = Elems(plan[Cli].queue)
        /\ Keys(todo)' = Keys(todo) /\ Keys(failed)' = Keys(failed)
        /\ Keys(Manifest)' = Keys(Manifest) /\ Damaged' = Damaged
    BY <2>1, <2>3 DEF Elems, Keys, Damaged
  <2>6. ScriptInv'
    BY <2>1, <2>e DEF RepairInv, ScriptInv
  <2>4. CliInv' /\ BindInv'
    BY <2>1, <2>3 DEF RepairInv, CliInv, BindInv
  <2>7. DamageInv'
    BY <2>1, <2>3, <2>e DEF RepairInv, DamageInv
  <2>5. WholeInv'
    BY <2>1, <2>3, SamePending DEF RepairInv, WholeInv, OneManifest, Elems, Whole, Valid,
                                   PinsMatch
  <2> QED BY <2>2, <2>4, <2>5, <2>6, <2>7 DEF RepairInv
<1> QED BY <1>1, <1>2, CallKeeps, KilledKeeps, NeighbourKeeps DEF RepairNext

(***************************************************************************)
(* Theorems.                                                               *)
(***************************************************************************)

(* Whoever shares the directory, the script keeps account of every damaged *)
(* key and of every artifact it has not yet found whole.                   *)
THEOREM RepairInvariance == RepairSpec => []RepairInv
BY RepairInvInit, RepairStep, PTL DEF RepairSpec

(* No sidecar names damaged bytes once the repair fetches, for any damage  *)
(* done before it started and any calls of others (bin:321-325): all the   *)
(* failed keys are removed first, and a key outside the manifest whose     *)
(* bytes are damaged stops it.                                             *)
THEOREM CleanBeforeFetch == RepairSpec => []RepairClean
<1>1. RepairInv => RepairClean
  BY DEF RepairInv, DamageInv, RepairClean
<1> QED BY <1>1, RepairInvariance, PTL

(* A verification that reported success leaves every key of its manifest   *)
(* unbound or bound to intact bytes that the artifact accepts, for good    *)
(* (bin:283-294), as long as all callers name artifacts of one manifest.   *)
THEOREM SuccessHolds ==
    ASSUME OneManifest
    PROVE  RepairSpec => []SuccessMeansWhole
<1>1. RepairInv => SuccessMeansWhole
  <2> SUFFICES ASSUME RepairInv, status \in {"clean", "repaired"},
                      NEW a \in Elems(Manifest)
               PROVE  Whole(a)
    BY DEF SuccessMeansWhole
  <2>1. phase \notin {"check", "verify", "remove", "fetch"}
    BY DEF RepairInv, ScriptInv, Verdicts
  <2>2. Pending = {}
    BY <2>1 DEF Pending
  <2> QED BY <2>2 DEF RepairInv, WholeInv
<1> QED BY <1>1, RepairInvariance, PTL

(* The script takes a key from the index only with --repair, only if its   *)
(* artifact failed the check and nothing outside the manifest is damaged   *)
(* (spec.md:668, bin:313-325).                                             *)
THEOREM OnlyFailedRemoved == RepairSpec => RemovesFailedOnly
<1> DEFINE A == \A k \in Key : entry[k] # None /\ entry'[k] = None /\ keyLock[k] = Cli =>
                    repair /\ outside = {} /\ k \in Keys(failed)
<1>1. ASSUME RepairInv, NEW p \in Proc, Own(p),
             NEW k \in Key, entry[k] # None, entry'[k] = None, keyLock[k] = Cli
      PROVE  repair /\ outside = {} /\ k \in Keys(failed)
  <2>1. /\ key[p] = k
        /\ pc[p] = "unlinkEntry" \/ (pc[p] = "publishEntry" /\ entry'[k] = digest[p])
    BY <1>1, EntryChange DEF RepairInv
  <2>2. pc[p] = "publishEntry" => digest[p] \in Digest
    BY <1>1 DEF RepairInv, IInv, CallInv
  <2>3. pc[p] = "unlinkEntry"
    BY <1>1, <2>1, <2>2
  <2>4. p = Cli
    BY <1>1, <2>1, <2>3 DEF RepairInv, IInv, KeyLockInv, HoldsKey
  <2>5. phase = "remove" /\ k = KeyOf[Head(todo)]
    BY <1>1, <2>1, <2>3, <2>4 DEF RepairInv, CliInv, Fetching
  <2>6. repair /\ outside = {} /\ Elems(todo) \subseteq Elems(failed)
    BY <1>1, <2>5 DEF RepairInv, ScriptInv
  <2>7. PICK a : a = Head(todo)
    OBVIOUS
  <2>8. a \in Elems(todo) /\ k = KeyOf[a]
    BY <1>1, <2>5, <2>7, NextArtifact
  <2> QED BY <2>6, <2>8, KeysElems
<1>2. RepairInv /\ [RepairNext]_allVars => A \/ UNCHANGED allVars
  <2> SUFFICES ASSUME RepairInv, RepairNext
               PROVE  A
    OBVIOUS
  <2>1. CASE Call
    <3>1. entry' = entry
      BY <2>1, CallCases
    <3> QED BY <3>1
  <2>2. CASE CallStep \/ Killed \/ \E p \in Proc \ {Cli} : Neighbour(p)
    <3>1. \E p \in Proc : Own(p)
      BY <2>2 DEF CallStep, Killed, Neighbour, Own
    <3> QED BY <3>1, <1>1
  <2> QED BY <2>1, <2>2 DEF RepairNext
<1>3. RepairInv /\ [RepairNext]_allVars => [A]_allVars
  BY <1>2
<1> QED BY <1>3, RepairInvariance, PTL DEF RepairSpec, RemovesFailedOnly
===============================================================================
