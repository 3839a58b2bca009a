--------------------------- MODULE LocalStoreProofs ---------------------------
(* The safety invariants of LocalStore, for any number of callers, keys,   *)
(* contents and artifacts: IInv is inductive, and implies the others.      *)
EXTENDS LocalStore, FiniteSetTheorems, TLAPS

USE NoneAssumption, ArtifactAssumption

(***************************************************************************)
(* Type correctness.                                                       *)
(***************************************************************************)

(* Releasing the locks of a caller leaves well-typed locks. *)
LEMMA ReleaseType ==
    ASSUME TypeOK, NEW p \in Proc, Release(p)
    PROVE  keyLock' \in [Key -> Callers] /\ storeLock' \in Callers
BY DEF TypeOK, Release, ReleaseStore, Callers

(* A call that returns leaves its locals well typed. *)
LEMMA ReturnType ==
    ASSUME TypeOK, NEW p \in Proc, NEW r \in Digest \cup {None},
           Return(p, r),
           entry' \in [Key -> Sidecar], fetchedAt' \in [Key -> Nat],
           blob' \in [Digest -> {"absent", "intact", "rotten"}],
           clock' \in Nat
    PROVE  TypeOK'
<1>1. keyLock' \in [Key -> Callers] /\ storeLock' \in Callers
  BY ReleaseType DEF Return
<1>2. NoPlan \in Plan
  BY DEF NoPlan, Plan
<1> QED BY <1>1, <1>2 DEF TypeOK, Return, Goto, Labels

(* So does get when it goes on to its next layer. *)
LEMMA NextLayerType ==
    ASSUME TypeOK, NEW p \in Proc, NEW left \in Digest \cup {None},
           NextLayer(p, left),
           entry' \in [Key -> Sidecar], fetchedAt' \in [Key -> Nat],
           blob' \in [Digest -> {"absent", "intact", "rotten"}],
           clock' \in Nat
    PROVE  TypeOK'
BY DEF TypeOK, NextLayer, ReleaseStore, Goto, Labels, Callers

(* And gc when it goes on to its next key. *)
LEMMA NextVictimType ==
    ASSUME TypeOK, NEW p \in Proc, NextVictim(p),
           entry' \in [Key -> Sidecar], fetchedAt' \in [Key -> Nat],
           blob' \in [Digest -> {"absent", "intact", "rotten"}],
           plan' \in [Proc -> Plan], clock' \in Nat
    PROVE  TypeOK'
<1>1. keyLock' \in [Key -> Callers] /\ storeLock' \in Callers
  BY ReleaseType DEF NextVictim
<1> QED BY <1>1 DEF TypeOK, NextVictim, Goto, Labels

(* A snapshot of a readable index is a sequence of well-typed items. *)
LEMMA ItemsType ==
    ASSUME TypeOK, Readable, NEW q \in Visits
    PROVE  Items(q) \in Seq(Item)
<1> DEFINE n == Cardinality(Indexed)
<1>1. n \in Nat
  BY BoundsAssumption, FS_Subset, FS_CardinalityType DEF Indexed
<1>a. q \in [1..n -> Indexed]
  BY DEF Visits
<1>b. \A k \in Indexed : k \in Key /\ entry[k] \in Digest
  BY DEF Indexed, TypeOK, Sidecar, Readable
<1>2. \A i \in 1..n : q[i] \in Key /\ entry[q[i]] \in Digest
  BY <1>a, <1>b
<1>3. DOMAIN q = 1..n
  BY <1>a
<1>4. Items(q) \in [1..n -> Item]
  BY <1>2, <1>3 DEF Items, Item
<1> QED BY <1>1, <1>4

(* A visit leaves out no sidecar: it has as many places as there are keys. *)
LEMMA VisitsAll ==
    ASSUME NEW q \in Visits, NEW k \in Indexed
    PROVE  \E i \in DOMAIN q : q[i] = k
<1> DEFINE n == Cardinality(Indexed)
<1>1. IsFiniteSet(Indexed) /\ n \in Nat
  BY BoundsAssumption, FS_Subset, FS_CardinalityType DEF Indexed
<1>2. q \in [1..n -> Indexed] /\ \A i, j \in DOMAIN q : i # j => q[i] # q[j]
  BY DEF Visits
<1> SUFFICES ASSUME \A i \in 1..n : q[i] # k
             PROVE  FALSE
  BY <1>2
<1>3. q \in [1..n -> Indexed \ {k}]
  BY <1>2
<1>4. IsFiniteSet(Indexed \ {k}) /\ Cardinality(Indexed \ {k}) = n - 1
  BY <1>1, FS_RemoveElement
<1>5. IsFiniteSet(1..n) /\ Cardinality(1..n) = n
  BY <1>1, FS_Interval
<1>6. \E i, j \in 1..n : i # j /\ q[i] = q[j]
  <2> DEFINE I == 1..n
             T == Indexed \ {k}
  <2>1. Cardinality(T) < Cardinality(I)
    BY <1>1, <1>4, <1>5
  <2>2. IsFiniteSet(I) /\ IsFiniteSet(T) /\ q \in [I -> T]
    BY <1>3, <1>4, <1>5
  <2> HIDE DEF I, T
  <2>3. \E i, j \in I : i # j /\ q[i] = q[j]
    BY <2>1, <2>2, FS_PigeonHole
  <2> QED BY <2>3 DEF I
<1> QED BY <1>2, <1>6

(* The first item of a plan, and the rest. *)
LEMMA QueueType ==
    ASSUME TypeOK, NEW p \in Proc, plan[p].queue # <<>>
    PROVE  /\ Victim(p).key \in Key
           /\ Victim(p).digest \in Digest
           /\ Tail(plan[p].queue) \in Seq(Item)
<1>1. plan[p].queue \in Seq(Item)
  BY DEF TypeOK, Plan
<1>2. Head(plan[p].queue) \in Item /\ Tail(plan[p].queue) \in Seq(Item)
  BY <1>1
<1> QED BY <1>2 DEF Victim, Item

(* The end of the work on one key, for remove and for gc. *)
LEMMA KeyDoneType ==
    ASSUME TypeOK, NEW p \in Proc, NEW n \in Nat, KeyDone(p, n),
           plan[p].queue # <<>> \/ op[p] = "remove",
           entry' \in [Key -> Sidecar], fetchedAt' \in [Key -> Nat],
           blob' \in [Digest -> {"absent", "intact", "rotten"}],
           clock' \in Nat
    PROVE  TypeOK'
<1>1. CASE Return(p, None)
  BY <1>1, ReturnType
<1>2. CASE /\ op[p] = "gc" /\ NextVictim(p)
           /\ plan' = [plan EXCEPT ![p].queue = Tail(@), ![p].total = n]
  <2>1. Tail(plan[p].queue) \in Seq(Item)
    BY <1>2, QueueType
  <2>2. [plan[p] EXCEPT !.queue = Tail(@), !.total = n] \in Plan
    <3>1. plan[p] \in Plan
      BY DEF TypeOK
    <3>2. Seq(Item) # {}
      BY <2>1
    <3> QED BY <2>1, <3>1 DEF Plan
  <2>3. plan' \in [Proc -> Plan]
    BY <1>2, <2>2 DEF TypeOK
  <2> QED BY <1>2, <2>3, NextVictimType
<1> QED BY <1>1, <1>2 DEF KeyDone

(* A call that starts. *)
LEMMA StartType ==
    ASSUME TypeOK, NEW p \in Proc, NEW o \in Calls, NEW k \in Key \cup {None},
           NEW a \in Artifact \cup {None}, NEW n \in Nat, NEW label \in Labels,
           Start(p, o, k, a, n, label), plan' \in [Proc -> Plan]
    PROVE  TypeOK'
BY DEF TypeOK, Start, Goto, dirVars, lockVars

(* Lengths of sets of blobs are numbers, and gc's count stays one. *)
LEMMA BytesType == \A S \in SUBSET Digest : Bytes[S] \in Nat
BY BytesAssumption

LEMMA Min0Type == \A m, n \in Nat : Min0(m, n) \in Nat
BY DEF Min0

LEMMA TypeStep ==
    ASSUME IInv, [Next]_vars
    PROVE  TypeOK'
<1> USE DEF dirVars, lockVars, callVars, localVars
<1>t. TypeOK
  BY DEF IInv
<1>n. NoPlan \in Plan
  BY DEF NoPlan, Plan
<1>1. ASSUME NEW p \in Proc, Begin(p)
      PROVE  TypeOK'
  <2>1. CASE StartGet(p)
    BY <1>t, <2>1, StartType, BoundsAssumption DEF StartGet, Calls, Labels, TypeOK
  <2>2. CASE StartImport(p)
    BY <1>t, <2>2, StartType DEF StartImport, Calls, Labels, TypeOK
  <2>3. CASE StartRemove(p)
    BY <1>t, <2>3, StartType DEF StartRemove, Calls, Labels, TypeOK
  <2>4. CASE StartPeek(p)
    BY <1>t, <2>4, StartType DEF StartPeek, Calls, Labels, TypeOK
  <2>5. CASE StartVerify(p)
    BY <1>t, <2>5, StartType DEF StartVerify, Calls, Labels, TypeOK
  <2>6. CASE StartGc(p)
    <3>1. PICK m \in Limits :
             /\ Start(p, "gc", None, None, 0, "lockStore")
             /\ plan' = [plan EXCEPT ![p] = [NoPlan EXCEPT !.max = m]]
      BY <2>6 DEF StartGc
    <3>2. [NoPlan EXCEPT !.max = m] \in Plan
      BY <1>n, BoundsAssumption DEF Plan
    <3>3. plan' \in [Proc -> Plan]
      BY <1>t, <3>1, <3>2 DEF TypeOK
    <3> QED BY <1>t, <3>1, <3>3, StartType DEF Calls, Labels
  <2> QED BY <1>1, <2>1, <2>2, <2>3, <2>4, <2>5, <2>6 DEF Begin
<1>2. ASSUME NEW p \in Proc, LockKey(p) \/ LockStore(p)
      PROVE  TypeOK'
  BY <1>t, <1>2 DEF TypeOK, LockKey, LockStore, Goto, Labels, Callers
<1>3. ASSUME NEW p \in Proc,
             \/ LookupMiss(p) \/ ProbeMiss(p) \/ ProbeHit(p)
             \/ ScanUnreferenced(p)
      PROVE  TypeOK'
  BY <1>t, <1>3 DEF TypeOK, LookupMiss, ProbeMiss, ProbeHit, ScanUnreferenced,
                    Goto, Labels
<1>4. ASSUME NEW p \in Proc, LookupEntry(p)
      PROVE  TypeOK'
  BY <1>t, <1>4 DEF TypeOK, LookupEntry, Goto, Labels
<1>5. ASSUME NEW p \in Proc,
             LookupError(p) \/ GiveUp(p) \/ ScanError(p) \/ GcDone(p)
             \/ VerifyDone(p) \/ Abort(p)
      PROVE  TypeOK'
  <2>1. Return(p, None) /\ UNCHANGED <<dirVars, clock>>
    BY <1>5 DEF LookupError, GiveUp, ScanError, GcDone, VerifyDone, Abort
  <2> QED BY <1>t, <2>1, ReturnType DEF TypeOK
<1>6. ASSUME NEW p \in Proc, Rehash(p) \/ PeekProbe(p)
      PROVE  TypeOK'
  <2>1. digest[p] \in Digest \cup {None}
    BY <1>t DEF TypeOK
  <2>2. PICK r \in Digest \cup {None} :
           Return(p, r) /\ UNCHANGED <<dirVars, clock>>
    BY <1>6, <2>1 DEF Rehash, PeekProbe
  <2> QED BY <1>t, <2>2, ReturnType DEF TypeOK
<1>7. ASSUME NEW p \in Proc, Receive(p)
      PROVE  TypeOK'
  BY <1>t, <1>7, BoundsAssumption DEF TypeOK, Receive, Goto, Labels
<1>8. ASSUME NEW p \in Proc, PublishBlob(p)
      PROVE  TypeOK'
  BY <1>t, <1>8 DEF TypeOK, PublishBlob, Goto, Labels
<1>9. ASSUME NEW p \in Proc, PublishRejected(p)
      PROVE  TypeOK'
  <2>1. CASE Return(p, None) /\ UNCHANGED <<dirVars, clock>>
    BY <1>t, <2>1, ReturnType DEF TypeOK
  <2>2. CASE NextLayer(p, bound[p]) /\ UNCHANGED <<dirVars, clock>>
    BY <1>t, <2>2, NextLayerType DEF TypeOK
  <2> QED BY <1>9, <2>1, <2>2 DEF PublishRejected
<1>10. ASSUME NEW p \in Proc, PublishEntry(p)
       PROVE  TypeOK'
  <2>1. digest[p] \in Digest
    BY <1>10 DEF IInv, CallInv, PublishEntry
  <2>2. /\ entry' \in [Key -> Sidecar]
        /\ fetchedAt' \in [Key -> Nat]
        /\ UNCHANGED <<blob, clock>>
        /\ Return(p, digest[p])
    BY <1>t, <1>10, <2>1 DEF TypeOK, PublishEntry, Sidecar
  <2> QED BY <1>t, <2>1, <2>2, ReturnType DEF TypeOK
<1>22. ASSUME NEW p \in Proc, PublishFails(p)
       PROVE  TypeOK'
  <2>1. digest[p] \in Digest
    BY <1>22 DEF IInv, CallInv, PublishFails
  <2>2. PICK left \in {bound[p], digest[p]} : LayerFails(p, left)
    BY <1>22 DEF PublishFails
  <2>3. /\ entry' \in [Key -> Sidecar] /\ fetchedAt' \in [Key -> Nat]
        /\ blob' \in [Digest -> {"absent", "intact", "rotten"}]
        /\ clock' = clock
    BY <1>t, <1>22, <2>1 DEF TypeOK, PublishFails, Sidecar
  <2>4. CASE Return(p, None)
    BY <1>t, <2>3, <2>4, ReturnType DEF TypeOK
  <2>5. CASE NextLayer(p, left)
    BY <1>t, <2>1, <2>3, <2>5, NextLayerType DEF TypeOK
  <2> QED BY <2>2, <2>4, <2>5 DEF LayerFails
<1>11. ASSUME NEW p \in Proc, UnlinkEntry(p)
       PROVE  TypeOK'
  BY <1>t, <1>11 DEF TypeOK, UnlinkEntry, StillWanted, Goto, Labels, Sidecar
<1>12. ASSUME NEW p \in Proc,
              UnlinkSkipped(p) \/ ScanReferenced(p) \/ UnlinkBlob(p)
       PROVE  TypeOK'
  <2>1. key[p] # None
    BY <1>12 DEF IInv, KeyLockInv, HoldsKey, UnlinkSkipped, ScanReferenced,
                 UnlinkBlob
  <2>2. plan[p].total \in Nat
    BY <1>t DEF TypeOK, Plan
  <2>3. Min0(plan[p].total, Bytes[plan[p].sizes \cap {digest[p]}]) \in Nat
    <3>1. plan[p].sizes \cap {digest[p]} \in SUBSET Digest
      BY <1>t DEF TypeOK, Plan
    <3> QED BY <2>2, <3>1, BytesType, Min0Type
  <2>4. PICK n \in Nat : KeyDone(p, n)
    BY <1>12, <2>2, <2>3 DEF UnlinkSkipped, ScanReferenced, UnlinkBlob
  <2>5. /\ UNCHANGED <<entry, fetchedAt, clock>>
        /\ blob' \in [Digest -> {"absent", "intact", "rotten"}]
    BY <1>t, <1>12 DEF TypeOK, UnlinkSkipped, ScanReferenced, UnlinkBlob
  <2>6. plan[p].queue # <<>> \/ op[p] = "remove"
    BY <2>1, <2>4 DEF IInv, QueueInv, KeyDone
  <2> QED BY <1>t, <2>4, <2>5, <2>6, KeyDoneType DEF TypeOK
<1>13. ASSUME NEW p \in Proc, GcSnapshot(p) \/ VerifySnapshot(p)
       PROVE  TypeOK'
  <2>1. Readable
    BY <1>13 DEF GcSnapshot, VerifySnapshot
  <2>2. \A q \in Oldest : q \in Visits
    BY DEF Oldest
  <2>3. \A q \in Visits : Items(q) \in Seq(Item)
    BY <1>t, <2>1, ItemsType
  <2>4. \A q \in Visits : [NoPlan EXCEPT !.queue = Items(q)] \in Plan
    BY <1>n, <2>3 DEF Plan
  <2>5. ASSUME NEW S \in SUBSET Digest, NEW q \in Oldest
        PROVE  [queue |-> Items(q), sizes |-> S, total |-> Bytes[S],
                max |-> plan[p].max] \in Plan
    <3>1. plan[p].max \in Nat
      BY <1>t DEF TypeOK, Plan
    <3> QED BY <2>2, <2>3, <3>1, BytesType DEF Plan
  <2>6. plan' \in [Proc -> Plan]
    <3>1. CASE GcSnapshot(p)
      <4> DEFINE S == {d \in Present : Referenced(d)}
      <4>1. PICK q \in Oldest :
               plan' = [plan EXCEPT ![p] = [queue |-> Items(q), sizes |-> S,
                                      total |-> Bytes[S], max |-> plan[p].max]]
        BY <1>t, <3>1 DEF GcSnapshot, TypeOK
      <4>2. S \in SUBSET Digest
        BY DEF Present
      <4> HIDE DEF S
      <4>3. [queue |-> Items(q), sizes |-> S, total |-> Bytes[S],
             max |-> plan[p].max] \in Plan
        BY <2>5, <4>2
      <4> QED BY <1>t, <4>1, <4>3 DEF TypeOK
    <3>2. CASE VerifySnapshot(p)
      <4>1. PICK q \in Visits :
               plan' = [plan EXCEPT ![p] = [NoPlan EXCEPT !.queue = Items(q)]]
        BY <3>2 DEF VerifySnapshot
      <4> QED BY <1>t, <2>4, <4>1 DEF TypeOK
    <3> QED BY <1>13, <3>1, <3>2
  <2> QED BY <1>t, <1>13, <2>6
          DEF TypeOK, GcSnapshot, VerifySnapshot, Goto, Labels
<1>14. ASSUME NEW p \in Proc, SweepOrphan(p)
       PROVE  TypeOK'
  BY <1>t, <1>14 DEF TypeOK, SweepOrphan, Present
<1>15. ASSUME NEW p \in Proc, SweepDone(p)
       PROVE  TypeOK'
  BY <1>t, <1>15, NextVictimType DEF TypeOK, SweepDone
<1>16. ASSUME NEW p \in Proc, PickVictim(p)
       PROVE  TypeOK'
  <2>1. Victim(p).key \in Key
    BY <1>t, <1>16, QueueType DEF PickVictim
  <2> QED BY <1>t, <1>16, <2>1 DEF TypeOK, PickVictim, Goto, Labels
<1>17. ASSUME NEW p \in Proc, VerifyGood(p) \/ VerifyReport(p)
       PROVE  TypeOK'
  <2>1. /\ Victim(p).key \in Key
        /\ Victim(p).digest \in Digest
        /\ Tail(plan[p].queue) \in Seq(Item)
    BY <1>t, <1>17, QueueType DEF VerifyGood, VerifyReport
  <2>2. [plan[p] EXCEPT !.queue = Tail(@)] \in Plan
    <3>1. plan[p] \in Plan
      BY <1>t DEF TypeOK
    <3> QED BY <2>1, <3>1 DEF Plan
  <2>3. plan' \in [Proc -> Plan]
    BY <1>t, <1>17, <2>2 DEF TypeOK, VerifyGood, VerifyReport
  <2> QED BY <1>t, <1>17, <2>1, <2>3 DEF TypeOK, VerifyGood, VerifyReport
<1>18. ASSUME NEW p \in Proc, PeekRead(p)
       PROVE  TypeOK'
  <2>1. CASE Return(p, None)
    BY <1>t, <1>18, <2>1, ReturnType DEF TypeOK, PeekRead
  <2>2. CASE ~Return(p, None)
    BY <1>t, <1>18, <2>2 DEF TypeOK, PeekRead, Goto, Labels
  <2> QED BY <2>1, <2>2
<1>19. ASSUME Rot \/ Mangle
       PROVE  TypeOK'
  BY <1>t, <1>19 DEF TypeOK, Rot, Mangle, Sidecar
<1>20. ASSUME UNCHANGED vars
       PROVE  TypeOK'
  BY <1>t, <1>20 DEF TypeOK, vars
<1>21. ASSUME NEW p \in Proc, Work(p)
       PROVE  TypeOK'
  BY <1>21, <1>3, <1>4, <1>5, <1>6, <1>7, <1>8, <1>9, <1>10, <1>11, <1>12,
     <1>13, <1>14, <1>15, <1>16, <1>17, <1>18, <1>22 DEF Work
<1> QED BY <1>1, <1>2, <1>5, <1>19, <1>20, <1>21 DEF Next, Step

(***************************************************************************)
(* What a step leaves alone.                                               *)
(***************************************************************************)

Own(p) == Begin(p) \/ Step(p) \/ Abort(p)

(* A step of one caller touches no local variable of another. *)
LEMMA OtherLocals ==
    ASSUME TypeOK, NEW p \in Proc, Own(p), NEW q \in Proc \ {p}
    PROVE  /\ pc'[q] = pc[q] /\ op'[q] = op[q] /\ key'[q] = key[q]
           /\ artifact'[q] = artifact[q] /\ digest'[q] = digest[q]
           /\ plan'[q] = plan[q] /\ bound'[q] = bound[q]
<1> USE DEF dirVars, lockVars, callVars, localVars, Goto, TypeOK
<1>1. CASE Begin(p)
  BY <1>1 DEF Begin, StartGet, StartImport, StartRemove, StartPeek,
              StartVerify, StartGc, Start
<1>2. CASE LockKey(p) \/ LockStore(p)
  BY <1>2 DEF LockKey, LockStore
<1>3. CASE Work(p)
  <2>1. CASE \/ LookupMiss(p) \/ LookupEntry(p) \/ LookupError(p)
             \/ ProbeMiss(p) \/ ProbeHit(p) \/ Rehash(p)
    BY <2>1 DEF LookupMiss, LookupEntry, LookupError, ProbeMiss, ProbeHit,
                Rehash, Return
  <2>2. CASE \/ Receive(p) \/ GiveUp(p) \/ PublishBlob(p)
             \/ PublishRejected(p) \/ PublishEntry(p) \/ PublishFails(p)
    BY <2>2 DEF Receive, GiveUp, PublishBlob, PublishRejected, PublishEntry,
                PublishFails, LayerFails, NextLayer, Return
  <2>3. CASE \/ UnlinkEntry(p) \/ UnlinkSkipped(p) \/ ScanError(p)
             \/ ScanReferenced(p) \/ ScanUnreferenced(p) \/ UnlinkBlob(p)
    BY <2>3 DEF UnlinkEntry, UnlinkSkipped, ScanError, ScanReferenced,
                ScanUnreferenced, UnlinkBlob, KeyDone, NextVictim, Return
  <2>4. CASE \/ GcSnapshot(p) \/ SweepOrphan(p) \/ SweepDone(p)
             \/ PickVictim(p) \/ GcDone(p)
    BY <2>4 DEF GcSnapshot, SweepOrphan, SweepDone, PickVictim, GcDone,
                NextVictim, Return
  <2>5. CASE \/ VerifySnapshot(p) \/ VerifyGood(p) \/ VerifyReport(p)
             \/ VerifyDone(p) \/ PeekRead(p) \/ PeekProbe(p)
    BY <2>5 DEF VerifySnapshot, VerifyGood, VerifyReport, VerifyDone,
                PeekRead, PeekProbe, Return
  <2> QED BY <1>3, <2>1, <2>2, <2>3, <2>4, <2>5 DEF Work
<1>4. CASE Abort(p)
  BY <1>4 DEF Abort, Return
<1> QED BY <1>1, <1>2, <1>3, <1>4 DEF Own, Step
(* Nor does it take or give back another caller's locks. *)
LEMMA OtherLocks ==
    ASSUME TypeOK, NEW p \in Proc, Own(p), NEW q \in Proc \ {p}
    PROVE  /\ \A k \in Key : keyLock'[k] = q <=> keyLock[k] = q
           /\ storeLock' = q <=> storeLock = q
<1> USE DEF dirVars, lockVars, callVars, localVars, TypeOK, Callers,
            Release, ReleaseStore
<1>1. CASE Begin(p)
  BY <1>1 DEF Begin, StartGet, StartImport, StartRemove, StartPeek,
              StartVerify, StartGc, Start
<1>2. CASE LockKey(p)
  BY <1>2 DEF LockKey
<1>3. CASE LockStore(p)
  BY <1>3 DEF LockStore
<1>4. CASE Work(p)
  <2>1. CASE \/ LookupMiss(p) \/ LookupEntry(p) \/ LookupError(p)
             \/ ProbeMiss(p) \/ ProbeHit(p) \/ Rehash(p)
    BY <2>1 DEF LookupMiss, LookupEntry, LookupError, ProbeMiss, ProbeHit,
                Rehash, Return
  <2>2. CASE \/ Receive(p) \/ GiveUp(p) \/ PublishBlob(p)
             \/ PublishRejected(p) \/ PublishEntry(p) \/ PublishFails(p)
    BY <2>2 DEF Receive, GiveUp, PublishBlob, PublishRejected, PublishEntry,
                PublishFails, LayerFails, NextLayer, Return
  <2>3. CASE \/ UnlinkEntry(p) \/ UnlinkSkipped(p) \/ ScanError(p)
             \/ ScanReferenced(p) \/ ScanUnreferenced(p) \/ UnlinkBlob(p)
    BY <2>3 DEF UnlinkEntry, UnlinkSkipped, ScanError, ScanReferenced,
                ScanUnreferenced, UnlinkBlob, KeyDone, NextVictim, Return
  <2>4. CASE \/ GcSnapshot(p) \/ SweepOrphan(p) \/ SweepDone(p)
             \/ PickVictim(p) \/ GcDone(p)
    BY <2>4 DEF GcSnapshot, SweepOrphan, SweepDone, PickVictim, GcDone,
                NextVictim, Return
  <2>5. CASE \/ VerifySnapshot(p) \/ VerifyGood(p) \/ VerifyReport(p)
             \/ VerifyDone(p) \/ PeekRead(p) \/ PeekProbe(p)
    BY <2>5 DEF VerifySnapshot, VerifyGood, VerifyReport, VerifyDone,
                PeekRead, PeekProbe, Return
  <2> QED BY <1>4, <2>1, <2>2, <2>3, <2>4, <2>5 DEF Work
<1>5. CASE Abort(p)
  BY <1>5 DEF Abort, Return
<1> QED BY <1>1, <1>2, <1>3, <1>4, <1>5 DEF Own, Step

(* A call that returns gives back its locks; so does gc between two keys.  *)
LEMMA Released ==
    ASSUME TypeOK, NEW p \in Proc, Release(p)
    PROVE  storeLock' # p /\ \A k \in Key : keyLock'[k] # p
BY DEF TypeOK, Callers, Release, ReleaseStore

(***************************************************************************)
(* Who holds which lock at which step.                                     *)
(***************************************************************************)

(* The part of KeyLockInv and StoreLockInv that speaks of caller p. *)
KeyLockOf(p) ==
    /\ pc[p] \in HoldsKey \cup {"lockKey", "peekRead"} => key[p] \in Key
    /\ pc[p] = "lockStore" => key[p] \in Key \/ op[p] = "gc"
    /\ pc[p] \in HoldsKey \cup {"lockStore"} /\ key[p] \in Key =>
          keyLock[key[p]] = p
    /\ \A k \in Key : keyLock[k] = p =>
          key[p] = k /\ pc[p] \in HoldsKey \cup {"lockStore"}

StoreLockOf(p) == pc[p] \in HoldsStore <=> storeLock = p

LEMMA OwnLocks ==
    ASSUME IInv, NEW p \in Proc, Own(p)
    PROVE  KeyLockOf(p)' /\ StoreLockOf(p)'
<1> USE DEF dirVars, lockVars, callVars, localVars, Goto,
            KeyLockOf, StoreLockOf, HoldsKey, HoldsStore, Fetching
<1>t. TypeOK /\ TypeOK'
  BY TypeStep DEF IInv, Own, Next
<1>i. KeyLockOf(p) /\ StoreLockOf(p)
  BY DEF IInv, KeyLockInv, StoreLockInv
<1>c. /\ op[p] \in {"get", "import"} =>
            artifact[p] \in Artifact /\ key[p] = KeyOf[artifact[p]]
      /\ pc[p] \in Fetching => op[p] \in {"get", "import"}
  BY DEF IInv, CallInv
<1>r. ASSUME Release(p), pc'[p] \in {"idle", "pick"}
      PROVE  KeyLockOf(p)' /\ StoreLockOf(p)'
  BY <1>t, <1>r, Released DEF TypeOK
<1>1. CASE Begin(p)
  BY <1>1, <1>t, <1>i DEF TypeOK, Begin, StartGet, StartImport, StartRemove,
                          StartPeek, StartVerify, StartGc, Start
<1>2. CASE LockKey(p)
  BY <1>2, <1>t, <1>i DEF TypeOK, LockKey
<1>3. CASE LockStore(p)
  BY <1>3, <1>t, <1>i, <1>c DEF TypeOK, LockStore
<1>4. CASE Work(p)
  <2>1. CASE LookupError(p) \/ Rehash(p) \/ GiveUp(p) \/ PublishEntry(p)
             \/ ScanError(p) \/ GcDone(p) \/ VerifyDone(p) \/ PeekProbe(p)
    BY <1>t, <1>r, <2>1 DEF TypeOK, LookupError, Rehash, GiveUp, PublishEntry,
           ScanError, GcDone, VerifyDone, PeekProbe, Return
  <2>2. CASE UnlinkSkipped(p) \/ ScanReferenced(p) \/ UnlinkBlob(p)
             \/ SweepDone(p)
    BY <1>t, <1>r, <2>2 DEF TypeOK, UnlinkSkipped, ScanReferenced, UnlinkBlob,
           SweepDone, KeyDone, NextVictim, Return
  <2>3. CASE \/ LookupMiss(p) \/ LookupEntry(p) \/ ProbeMiss(p) \/ ProbeHit(p)
             \/ Receive(p) \/ PublishBlob(p)
    BY <1>t, <1>i, <1>c, <2>3 DEF TypeOK, LookupMiss, LookupEntry, ProbeMiss,
           ProbeHit, Receive, PublishBlob
  <2>4. CASE PublishRejected(p) \/ PublishFails(p)
    <3>1. CASE Return(p, None)
      BY <1>t, <1>r, <3>1 DEF TypeOK, Return
    <3>2. CASE \E left : NextLayer(p, left)
      BY <1>t, <1>i, <2>4, <3>2
         DEF TypeOK, PublishRejected, PublishFails, NextLayer, ReleaseStore
    <3> QED BY <2>4, <3>1, <3>2 DEF PublishRejected, PublishFails, LayerFails
  <2>5. CASE UnlinkEntry(p) \/ ScanUnreferenced(p)
             \/ GcSnapshot(p) \/ SweepOrphan(p)
    BY <1>t, <1>i, <2>5 DEF TypeOK, UnlinkEntry, ScanUnreferenced,
           GcSnapshot, SweepOrphan
  <2>6. CASE PickVictim(p)
    BY <1>t, <1>i, <2>6, QueueType DEF TypeOK, PickVictim
  <2>7. CASE VerifySnapshot(p) \/ VerifyGood(p) \/ VerifyReport(p)
    BY <1>t, <1>i, <2>7 DEF TypeOK, VerifySnapshot, VerifyGood, VerifyReport
  <2>8. CASE PeekRead(p)
    BY <1>t, <1>i, <1>r, <2>8 DEF TypeOK, PeekRead, Return
  <2> QED BY <1>4, <2>1, <2>2, <2>3, <2>4, <2>5, <2>6, <2>7, <2>8 DEF Work
<1>5. CASE Abort(p)
  BY <1>t, <1>r, <1>5 DEF TypeOK, Abort, Return
<1> QED BY <1>1, <1>2, <1>3, <1>4, <1>5 DEF Own, Step

LEMMA LocksStep ==
    ASSUME IInv, NEW p \in Proc, Own(p)
    PROVE  KeyLockInv' /\ StoreLockInv'
<1>t. TypeOK
  BY DEF IInv
<1>1. ASSUME NEW q \in Proc
      PROVE  KeyLockOf(q)' /\ StoreLockOf(q)'
  <2>1. CASE q = p
    BY <2>1, OwnLocks
  <2>2. CASE q # p
    <3>1. KeyLockOf(q) /\ StoreLockOf(q)
      BY DEF IInv, KeyLockInv, StoreLockInv, KeyLockOf, StoreLockOf
    <3>2. /\ pc'[q] = pc[q] /\ op'[q] = op[q] /\ key'[q] = key[q]
          /\ \A k \in Key : keyLock'[k] = q <=> keyLock[k] = q
          /\ storeLock' = q <=> storeLock = q
      BY <1>t, <2>2, OtherLocals, OtherLocks
    <3> QED BY <3>1, <3>2 DEF KeyLockOf, StoreLockOf
  <2> QED BY <2>1, <2>2
<1> QED BY <1>1 DEF KeyLockInv, StoreLockInv, KeyLockOf, StoreLockOf
(***************************************************************************)
(* What a call has established at each step.                               *)
(***************************************************************************)

CallOf(p) ==
    /\ op[p] \in {"get", "import"} =>
          artifact[p] \in Artifact /\ key[p] = KeyOf[artifact[p]]
    /\ pc[p] \in Fetching => op[p] \in {"get", "import"}
    /\ pc[p] \in {"idle", "peekRead", "peekProbe"} => artifact[p] = None
    /\ pc[p] \in {"verifyScan", "verify"} => op[p] = "verify"
    /\ pc[p] \in {"gcScan", "sweep", "pick"} => op[p] = "gc"
    /\ \/ pc[p] \in {"publishBlob", "publishEntry"}
       \/ pc[p] = "lockStore" /\ op[p] \in {"get", "import"}
       => digest[p] \in Digest /\ Valid(artifact[p], digest[p])
    /\ pc[p] \in Checking \cup {"refScan", "unlinkBlob", "peekProbe"} =>
          digest[p] \in Digest

QueueOf(p) == op[p] = "gc" /\ key[p] # None =>
                plan[p].queue # <<>> /\ pc[p] \notin {"gcScan", "sweep", "pick"}

LEMMA OwnCall ==
    ASSUME IInv, NEW p \in Proc, Own(p)
    PROVE  CallOf(p)' /\ QueueOf(p)'
<1> USE DEF dirVars, lockVars, callVars, localVars, Goto,
            CallOf, QueueOf, Checking, Fetching
<1>t. TypeOK
  BY DEF IInv
<1>i. CallOf(p) /\ QueueOf(p)
  BY DEF IInv, CallInv, QueueInv
<1>v. \A a \in Artifact, d \in Digest : Valid(a, d)' <=> Valid(a, d)
  BY DEF Valid, PinsMatch
<1>r. ASSUME NEW r, Return(p, r)
      PROVE  CallOf(p)' /\ QueueOf(p)'
  BY <1>t, <1>r, \A c \in Calls : c # None DEF TypeOK, Return, Calls
<1>1. CASE Begin(p)
  BY <1>1, <1>t, <1>i DEF TypeOK, Begin, StartGet, StartImport, StartRemove,
                          StartPeek, StartVerify, StartGc, Start, Valid
<1>2. CASE LockKey(p)
  BY <1>2, <1>t, <1>i DEF TypeOK, LockKey
<1>3. CASE LockStore(p)
  BY <1>3, <1>t, <1>i, <1>v DEF TypeOK, LockStore
<1>4. CASE Work(p)
  <2>1. CASE LookupError(p) \/ Rehash(p) \/ GiveUp(p) \/ PublishEntry(p)
             \/ ScanError(p) \/ GcDone(p) \/ VerifyDone(p) \/ PeekProbe(p)
    BY <1>r, <2>1 DEF LookupError, Rehash, GiveUp, PublishEntry,
           ScanError, GcDone, VerifyDone, PeekProbe
  <2>2. CASE UnlinkSkipped(p) \/ ScanReferenced(p) \/ UnlinkBlob(p)
             \/ SweepDone(p)
    <3>1. CASE \E r : Return(p, r)
      BY <1>r, <3>1
    <3>2. CASE op[p] = "gc" /\ NextVictim(p)
      BY <1>t, <3>2 DEF TypeOK, NextVictim
    <3> QED BY <1>i, <2>2, <3>1, <3>2 DEF UnlinkSkipped, ScanReferenced,
           UnlinkBlob, SweepDone, KeyDone
  <2>3. CASE LookupMiss(p) \/ LookupEntry(p) \/ ProbeMiss(p) \/ ProbeHit(p)
    BY <1>t, <1>i, <2>3 DEF TypeOK, LookupMiss, LookupEntry, ProbeMiss, ProbeHit
  <2>4. CASE Receive(p) \/ PublishBlob(p)
    BY <1>t, <1>i, <1>v, <2>4 DEF TypeOK, Receive, PublishBlob
  <2>5. CASE PublishRejected(p) \/ PublishFails(p)
    <3>1. CASE Return(p, None)
      BY <1>r, <3>1
    <3>2. CASE \E left : NextLayer(p, left)
      BY <1>t, <1>i, <2>5, <3>2
         DEF TypeOK, PublishRejected, PublishFails, NextLayer
    <3> QED BY <2>5, <3>1, <3>2 DEF PublishRejected, PublishFails, LayerFails
  <2>6. CASE UnlinkEntry(p) \/ ScanUnreferenced(p) \/ SweepOrphan(p)
    BY <1>t, <1>i, <2>6 DEF TypeOK, UnlinkEntry, StillWanted,
           ScanUnreferenced, SweepOrphan
  <2>7. CASE GcSnapshot(p)
    BY <1>t, <1>i, <2>7 DEF TypeOK, GcSnapshot
  <2>8. CASE PickVictim(p)
    BY <1>t, <1>i, <2>8 DEF TypeOK, PickVictim
  <2>9. CASE VerifySnapshot(p) \/ VerifyGood(p) \/ VerifyReport(p)
    BY <1>t, <1>i, <2>9 DEF TypeOK, VerifySnapshot, VerifyGood, VerifyReport
  <2>10. CASE PeekRead(p)
    BY <1>t, <1>i, <1>r, <2>10 DEF TypeOK, PeekRead
  <2> QED BY <1>4, <2>1, <2>2, <2>3, <2>4, <2>5, <2>6, <2>7, <2>8, <2>9,
             <2>10 DEF Work
<1>5. CASE Abort(p)
  BY <1>r, <1>5 DEF Abort
<1> QED BY <1>1, <1>2, <1>3, <1>4, <1>5 DEF Own, Step

LEMMA CallsStep ==
    ASSUME IInv, NEW p \in Proc, Own(p)
    PROVE  CallInv' /\ QueueInv'
<1>t. TypeOK
  BY DEF IInv
<1>1. ASSUME NEW q \in Proc
      PROVE  CallOf(q)' /\ QueueOf(q)'
  <2>1. CASE q = p
    BY <2>1, OwnCall
  <2>2. CASE q # p
    <3>1. CallOf(q) /\ QueueOf(q)
      BY DEF IInv, CallInv, QueueInv, CallOf, QueueOf
    <3>2. /\ pc'[q] = pc[q] /\ op'[q] = op[q] /\ key'[q] = key[q]
          /\ artifact'[q] = artifact[q] /\ digest'[q] = digest[q]
          /\ plan'[q] = plan[q]
      BY <1>t, <2>2, OtherLocals
    <3> QED BY <3>1, <3>2 DEF CallOf, QueueOf, Valid, PinsMatch
  <2> QED BY <2>1, <2>2
<1> QED BY <1>1 DEF CallInv, QueueInv, CallOf, QueueOf
(***************************************************************************)
(* The only steps that change the index and the blobs.                     *)
(***************************************************************************)

LEMMA EntryChange ==
    ASSUME IInv, NEW p \in Proc, Own(p), NEW k \in Key, entry'[k] # entry[k]
    PROVE  /\ key[p] = k
           /\ \/ /\ pc[p] = "publishEntry" /\ entry'[k] = digest[p]
                 /\ \/ pc'[p] = "idle"
                    \/ pc'[p] = "receive" /\ bound'[p] = digest[p]
              \/ pc[p] = "unlinkEntry" /\ pc'[p] = "refScan" /\ entry'[k] = None
<1> USE DEF dirVars, lockVars, callVars, localVars, Goto, TypeOK
<1>t. TypeOK
  BY DEF IInv
<1>1. PublishEntry(p) \/ PublishFails(p) \/ UnlinkEntry(p)
  BY DEF Own, Begin, Step, Work, Abort, StartGet, StartImport, StartRemove,
         StartPeek, StartVerify, StartGc, Start, LockKey, LockStore, LookupMiss,
         LookupEntry, LookupError, ProbeMiss, ProbeHit, Rehash, Receive, GiveUp,
         PublishBlob, PublishRejected, UnlinkSkipped, ScanError, ScanReferenced,
         ScanUnreferenced, UnlinkBlob, GcSnapshot, SweepOrphan, SweepDone,
         PickVictim, GcDone, VerifySnapshot, VerifyGood, VerifyReport,
         VerifyDone, PeekRead, PeekProbe
<1> QED BY <1>t, <1>1 DEF PublishEntry, PublishFails, LayerFails, NextLayer,
                          UnlinkEntry, Return

LEMMA BlobChange ==
    ASSUME IInv, NEW p \in Proc, Own(p), NEW d \in Digest, blob'[d] # blob[d]
    PROVE  \/ /\ pc[p] = "publishBlob" /\ digest[p] = d /\ blob'[d] = "intact"
           \/ pc[p] = "unlinkBlob" /\ digest[p] = d /\ blob'[d] = "absent"
           \/ pc[p] = "sweep" /\ d \notin plan[p].sizes /\ blob'[d] = "absent"
<1> USE DEF dirVars, lockVars, callVars, localVars, Goto, TypeOK
<1>t. TypeOK
  BY DEF IInv
<1>1. PublishBlob(p) \/ PublishFails(p) \/ UnlinkBlob(p) \/ SweepOrphan(p)
  BY DEF Own, Begin, Step, Work, Abort, StartGet, StartImport, StartRemove,
         StartPeek, StartVerify, StartGc, Start, LockKey, LockStore, LookupMiss,
         LookupEntry, LookupError, ProbeMiss, ProbeHit, Rehash, Receive, GiveUp,
         PublishRejected, PublishEntry, UnlinkEntry, UnlinkSkipped, ScanError,
         ScanReferenced, ScanUnreferenced, GcSnapshot, SweepDone,
         PickVictim, GcDone, VerifySnapshot, VerifyGood, VerifyReport,
         VerifyDone, PeekRead, PeekProbe
<1> QED BY <1>t, <1>1 DEF PublishBlob, PublishFails, UnlinkBlob, SweepOrphan, Present

(* The two locks exclude each other's holders. *)
LEMMA Exclusion ==
    ASSUME IInv, NEW p \in Proc, NEW q \in Proc
    PROVE  /\ pc[p] \in HoldsStore /\ pc[q] \in HoldsStore => p = q
           /\ pc[p] \in HoldsKey /\ pc[q] \in HoldsKey /\ key[p] = key[q]
              => p = q
           /\ pc[p] \in HoldsKey /\ pc[q] = "lockStore" /\ op[q] # "gc"
              /\ key[p] = key[q]
              => p = q
BY DEF IInv, TypeOK, KeyLockInv, StoreLockInv

(* How a caller gets to the steps the invariants speak of. *)
LEMMA Arrivals ==
    ASSUME IInv, NEW p \in Proc, Own(p)
    PROVE  /\ pc'[p] = "probe" => LookupEntry(p)
           /\ pc'[p] = "rehash" => ProbeHit(p)
           /\ pc'[p] = "receive" /\ op'[p] = "get" =>
                  \/ LookupMiss(p) \/ ProbeMiss(p)
                  \/ PublishRejected(p) \/ PublishFails(p)
           /\ pc'[p] = "lockStore" /\ op'[p] = "get" => Receive(p)
           /\ pc'[p] = "publishBlob" => LockStore(p)
           /\ pc'[p] = "publishEntry" => PublishBlob(p)
           /\ pc'[p] = "refScan" => UnlinkEntry(p)
           /\ pc'[p] = "unlinkBlob" => ScanUnreferenced(p)
           /\ pc'[p] = "sweep" => GcSnapshot(p) \/ SweepOrphan(p)
<1>t. TypeOK
  BY DEF IInv
<1> USE <1>t DEF Goto, TypeOK, callVars, localVars
<1>1. CASE Begin(p)
  BY <1>1 DEF Begin, StartGet, StartImport, StartRemove, StartPeek,
              StartVerify, StartGc, Start
<1>2. CASE LockKey(p) \/ LockStore(p)
  BY <1>2 DEF LockKey, LockStore
<1>3. CASE Work(p)
  <2>1. CASE \/ LookupMiss(p) \/ LookupEntry(p) \/ LookupError(p)
             \/ ProbeMiss(p) \/ ProbeHit(p) \/ Rehash(p)
    BY <2>1 DEF LookupMiss, LookupEntry, LookupError, ProbeMiss, ProbeHit,
                Rehash, Return
  <2>2. CASE \/ Receive(p) \/ GiveUp(p) \/ PublishBlob(p)
             \/ PublishRejected(p) \/ PublishEntry(p) \/ PublishFails(p)
    BY <2>2 DEF Receive, GiveUp, PublishBlob, PublishRejected, PublishEntry,
                PublishFails, LayerFails, NextLayer, Return
  <2>3. CASE \/ UnlinkEntry(p) \/ UnlinkSkipped(p) \/ ScanError(p)
             \/ ScanReferenced(p) \/ ScanUnreferenced(p) \/ UnlinkBlob(p)
    BY <2>3 DEF UnlinkEntry, UnlinkSkipped, ScanError, ScanReferenced,
                ScanUnreferenced, UnlinkBlob, KeyDone, NextVictim, Return
  <2>4. CASE \/ GcSnapshot(p) \/ SweepOrphan(p) \/ SweepDone(p)
             \/ PickVictim(p) \/ GcDone(p)
    BY <2>4 DEF GcSnapshot, SweepOrphan, SweepDone, PickVictim, GcDone,
                NextVictim, Return
  <2>5. CASE \/ VerifySnapshot(p) \/ VerifyGood(p) \/ VerifyReport(p)
             \/ VerifyDone(p) \/ PeekRead(p) \/ PeekProbe(p)
    BY <2>5 DEF VerifySnapshot, VerifyGood, VerifyReport, VerifyDone,
                PeekRead, PeekProbe, Return
  <2> QED BY <1>3, <2>1, <2>2, <2>3, <2>4, <2>5 DEF Work
<1>4. CASE Abort(p)
  BY <1>4 DEF Abort, Return
<1> QED BY <1>1, <1>2, <1>3, <1>4 DEF Own, Step

(***************************************************************************)
(* What the steps between two locks rely on.                               *)
(***************************************************************************)

(* publish writes the blob before the sidecar, both under the store lock. *)
LEMMA PublishStep ==
    ASSUME IInv, NEW p \in Proc, Own(p)
    PROVE  PublishInv'
<1>t. TypeOK /\ TypeOK'
  BY TypeStep DEF IInv, Own, Next
<1>1. ASSUME NEW q \in Proc, pc'[q] = "publishEntry"
      PROVE  blob'[digest'[q]] # "absent"
  <2>1. CASE q = p
    <3>1. PublishBlob(p)
      BY <1>1, <2>1, Arrivals
    <3>2. digest[p] \in Digest
      BY <3>1 DEF IInv, CallInv, PublishBlob
    <3> QED BY <1>t, <2>1, <3>1, <3>2 DEF PublishBlob, localVars, TypeOK
  <2>2. CASE q # p
    <3>1. pc[q] = "publishEntry" /\ digest'[q] = digest[q]
      BY <1>t, <1>1, <2>2, OtherLocals
    <3>2. digest[q] \in Digest /\ blob[digest[q]] # "absent"
      BY <3>1 DEF IInv, CallInv, PublishInv
    <3>3. pc[p] \notin {"unlinkBlob", "sweep"}
      BY <2>2, <3>1, Exclusion DEF HoldsStore
    <3> QED BY <3>1, <3>2, <3>3, BlobChange
  <2> QED BY <2>1, <2>2
<1> QED BY <1>1 DEF PublishInv
(* A blob that a check relies on is unlinked by nobody: not by the caller  *)
(* about to unlink one, nor by gc's sweep of orphans.                      *)
LEMMA CheckedBlobStays ==
    ASSUME IInv, NEW p \in Proc, Own(p), NEW q \in Proc, pc[q] \in Checking
    PROVE  blob'[digest[q]] # "absent"
<1>1. digest[q] \in Digest /\ blob[digest[q]] # "absent"
  BY DEF IInv, CallInv, HitStable, Checking
<1>2. pc[p] = "unlinkBlob" => digest[q] # digest[p]
  BY DEF IInv, UnlinkInv
<1>3. pc[p] = "sweep" => digest[q] \in plan[p].sizes
  BY DEF IInv, SweepInv
<1> QED BY <1>1, <1>2, <1>3, BlobChange

LEMMA HitStep ==
    ASSUME IInv, NEW p \in Proc, Own(p)
    PROVE  HitStable'
<1>t. TypeOK /\ TypeOK'
  BY TypeStep DEF IInv, Own, Next
<1>1. ASSUME NEW q \in Proc, pc'[q] \in Checking
      PROVE  /\ entry'[key'[q]] \in {digest'[q], Malformed}
             /\ blob'[digest'[q]] # "absent"
  <2>1. CASE pc[q] \in Checking /\ key'[q] = key[q] /\ digest'[q] = digest[q]
    <3>1. entry[key[q]] \in {digest[q], Malformed} /\ key[q] \in Key
      BY <2>1 DEF IInv, HitStable, KeyLockInv, Checking, HoldsKey, Fetching
    <3>2. entry'[key[q]] = entry[key[q]]
      <4> SUFFICES ASSUME entry'[key[q]] # entry[key[q]]
                   PROVE  FALSE
        OBVIOUS
      <4>1. key[p] = key[q] /\ pc[p] \in {"publishEntry", "unlinkEntry"}
        BY <3>1, EntryChange
      <4>2. pc[p] \in HoldsKey /\ pc[q] \in HoldsKey
        BY <2>1, <4>1 DEF HoldsKey, Fetching, Checking
      <4>3. p = q
        BY <4>1, <4>2, Exclusion
      <4> QED BY <2>1, <4>1, <4>3 DEF Checking
    <3>3. blob'[digest[q]] # "absent"
      BY <2>1, CheckedBlobStays
    <3> QED BY <2>1, <3>1, <3>2, <3>3
  <2>2. CASE q # p
    BY <1>t, <1>1, <2>1, <2>2, OtherLocals
  <2>3. CASE q = p /\ LookupEntry(p)
    <3>1. key[p] \in Key
      BY <2>3 DEF LookupEntry, IInv, KeyLockInv, HoldsKey, Fetching
    <3>2. /\ digest'[p] = entry[key[p]] /\ entry[key[p]] \in Digest
          /\ key' = key /\ entry' = entry /\ blob' = blob
      BY <1>t, <2>3 DEF LookupEntry, TypeOK, dirVars, callVars
    <3> QED BY <2>3, <3>1, <3>2 DEF IInv, NoDanglingEntry
  <2>4. CASE q = p /\ ProbeHit(p)
    BY <2>1, <2>4 DEF ProbeHit, Checking, callVars, localVars
  <2> QED BY <1>1, <2>2, <2>3, <2>4, Arrivals DEF Checking
<1> QED BY <1>1 DEF HitStable, Checking

LEMMA FetchStep ==
    ASSUME IInv, NEW p \in Proc, Own(p)
    PROVE  FetchInv'
<1> DEFINE Out == {"receive", "lockStore", "publishBlob", "publishEntry"}
<1>t. TypeOK /\ TypeOK'
  BY TypeStep DEF IInv, Own, Next
<1>1. ASSUME NEW q \in Proc, pc'[q] \in Out, op'[q] = "get"
      PROVE  ~Refetches(q)'
  <2>1. CASE /\ pc[q] \in Out /\ op[q] = "get"
             /\ key'[q] = key[q] /\ artifact'[q] = artifact[q]
             /\ bound'[q] = bound[q] /\ entry'[key[q]] = entry[key[q]]
    BY <1>1, <2>1 DEF IInv, FetchInv, Refetches, PinsMatch
  <2>2. CASE q # p
    <3>1. /\ pc[q] \in Out /\ op[q] = "get" /\ key'[q] = key[q]
          /\ artifact'[q] = artifact[q] /\ bound'[q] = bound[q]
      BY <1>t, <1>1, <2>2, OtherLocals
    <3>2. key[q] \in Key
      BY <3>1 DEF IInv, KeyLockInv, HoldsKey, Fetching
    <3>3. entry'[key[q]] = entry[key[q]]
      <4> SUFFICES ASSUME entry'[key[q]] # entry[key[q]]
                   PROVE  FALSE
        OBVIOUS
      <4>1. key[p] = key[q] /\ pc[p] \in {"publishEntry", "unlinkEntry"}
        BY <3>2, EntryChange
      <4> QED BY <2>2, <3>1, <4>1, Exclusion DEF HoldsKey, Fetching
    <3> QED BY <2>1, <3>1, <3>3
  <2>3. CASE q = p /\ LookupMiss(p)
    BY <1>1, <2>3 DEF LookupMiss, dirVars, callVars, Refetches
  <2>4. CASE q = p /\ ProbeMiss(p)
    <3>1. \/ entry[key[p]] = Malformed
          \/ entry[key[p]] = digest[p] /\ ~PinsMatch(artifact[p], digest[p])
          \/ entry[key[p]] \notin Digest
      BY <2>4 DEF ProbeMiss, IInv, HitStable
    <3>2. entry' = entry /\ key' = key /\ artifact' = artifact
      BY <2>4 DEF ProbeMiss, dirVars, callVars
    <3> QED BY <1>1, <2>4, <3>1, <3>2 DEF PinsMatch, Refetches
  <2>5. CASE q = p /\ (PublishRejected(p) \/ PublishFails(p))
    <3>1. PICK left : NextLayer(p, left)
      BY <1>t, <1>1, <2>5
         DEF PublishRejected, PublishFails, LayerFails, Return, Goto, TypeOK
    <3>2. pc[p] \in Out /\ key' = key /\ artifact' = artifact /\ op' = op
      BY <2>5, <3>1 DEF PublishRejected, PublishFails, NextLayer
    <3>3. \/ entry' = entry /\ bound'[p] = bound[p]
          \/ entry'[key[p]] = digest[p] /\ bound'[p] = digest[p]
      BY <1>t, <1>1, <2>5, <3>1
         DEF PublishRejected, PublishFails, LayerFails, NextLayer, Return, Goto,
             TypeOK, dirVars, IInv, KeyLockInv, HoldsKey, Fetching
    <3> QED BY <1>1, <2>1, <2>5, <3>2, <3>3 DEF Refetches
  <2>6. CASE q = p /\ (Receive(p) \/ LockStore(p) \/ PublishBlob(p))
    <3>1. /\ pc[p] \in Out /\ entry' = entry
          /\ key' = key /\ artifact' = artifact /\ op' = op /\ bound' = bound
      BY <2>6 DEF Receive, LockStore, PublishBlob, dirVars, callVars
    <3> QED BY <1>1, <2>1, <2>6, <3>1
  <2> QED BY <1>1, <2>2, <2>3, <2>4, <2>5, <2>6, Arrivals
<1> QED BY <1>1 DEF FetchInv, Refetches, PinsMatch

LEMMA DanglingStep ==
    ASSUME IInv, NEW p \in Proc, Own(p)
    PROVE  NoDanglingEntry'
<1>1. ASSUME NEW k \in Key, entry'[k] \in Digest
      PROVE  blob'[entry'[k]] # "absent"
  <2>1. CASE entry'[k] = entry[k]
    <3>1. blob[entry[k]] # "absent" /\ entry[k] \in Digest
      BY <1>1, <2>1 DEF IInv, NoDanglingEntry
    <3>2. pc[p] = "unlinkBlob" => digest[p] # entry[k]
      BY DEF IInv, UnlinkInv, Referenced
    <3>3. pc[p] = "sweep" => entry[k] \in plan[p].sizes
      BY <3>1 DEF IInv, SweepInv
    <3> QED BY <2>1, <3>1, <3>2, <3>3, BlobChange
  <2>2. CASE entry'[k] # entry[k]
    <3>1. pc[p] = "publishEntry" /\ entry'[k] = digest[p]
      BY <1>1, <2>2, EntryChange
    <3>2. blob[digest[p]] # "absent"
      BY <3>1 DEF IInv, PublishInv
    <3> QED BY <1>1, <3>1, <3>2, BlobChange
  <2> QED BY <2>1, <2>2
<1> QED BY <1>1 DEF NoDanglingEntry
(* Between finding a blob unreferenced and unlinking it nothing comes to   *)
(* name it: only a holder of the store lock writes a sidecar, and a hit    *)
(* checks what a sidecar names.                                            *)
LEMMA UnlinkStep ==
    ASSUME IInv, NEW p \in Proc, Own(p)
    PROVE  UnlinkInv'
<1>t. TypeOK /\ TypeOK'
  BY TypeStep DEF IInv, Own, Next
<1>1. ASSUME NEW q \in Proc, pc'[q] = "unlinkBlob"
      PROVE  /\ \A k \in Key : entry'[k] # digest'[q]
             /\ \A r \in Proc : pc'[r] \in Checking => digest'[r] # digest'[q]
  <2>1. CASE q = p
    <3>1. ScanUnreferenced(p)
      BY <1>1, <2>1, Arrivals
    <3>2. /\ Readable /\ ~Referenced(digest[p])
          /\ entry' = entry /\ digest' = digest
          /\ \A r \in Proc : pc'[r] \in Checking => pc[r] \in Checking
      BY <1>t, <3>1 DEF ScanUnreferenced, dirVars, localVars, Goto, TypeOK,
                        Checking
    <3>3. \A r \in Proc : pc[r] \in Checking =>
              key[r] \in Key /\ entry[key[r]] \in {digest[r], Malformed}
      BY DEF IInv, HitStable, KeyLockInv, Checking, HoldsKey, Fetching
    <3> QED BY <2>1, <3>2, <3>3 DEF Readable, Referenced
  <2>2. CASE q # p
    <3>1. pc[q] = "unlinkBlob" /\ digest'[q] = digest[q]
      BY <1>t, <1>1, <2>2, OtherLocals
    <3>2. /\ \A k \in Key : entry[k] # digest[q]
          /\ \A r \in Proc : pc[r] \in Checking => digest[r] # digest[q]
          /\ digest[q] \in Digest
      BY <3>1 DEF IInv, UnlinkInv, Referenced, CallInv
    <3>3. pc[p] # "publishEntry"
      BY <2>2, <3>1, Exclusion DEF HoldsStore
    <3>4. \A k \in Key : entry'[k] # digest[q]
      BY <3>2, <3>3, EntryChange
    <3>5. ASSUME NEW r \in Proc, pc'[r] \in Checking
          PROVE  digest'[r] # digest[q]
      <4>1. CASE r # p
        BY <1>t, <3>2, <3>5, <4>1, OtherLocals
      <4>2. CASE r = p /\ LookupEntry(p)
        <5>1. digest'[p] = entry[key[p]] /\ key[p] \in Key
          BY <1>t, <4>2
             DEF LookupEntry, TypeOK, IInv, KeyLockInv, HoldsKey, Fetching
        <5> QED BY <3>2, <4>2, <5>1
      <4>3. CASE r = p /\ ProbeHit(p)
        BY <3>2, <4>3 DEF ProbeHit, Checking, localVars
      <4> QED BY <3>5, <4>1, <4>2, <4>3, Arrivals DEF Checking
    <3> QED BY <3>1, <3>4, <3>5
  <2> QED BY <2>1, <2>2
<1> QED BY <1>1 DEF UnlinkInv, Referenced

(* Nor does anything come to name a blob that gc is about to sweep.        *)
LEMMA SweepStep ==
    ASSUME IInv, NEW p \in Proc, Own(p)
    PROVE  SweepInv'
<1>t. TypeOK /\ TypeOK'
  BY TypeStep DEF IInv, Own, Next
<1>k. \A r \in Proc : pc[r] \in Checking =>
          /\ key[r] \in Key /\ entry[key[r]] \in {digest[r], Malformed}
          /\ digest[r] \in Digest /\ blob[digest[r]] # "absent"
  BY DEF IInv, HitStable, KeyLockInv, CallInv, Checking, HoldsKey, Fetching
<1>1. ASSUME NEW q \in Proc, pc'[q] = "sweep"
      PROVE  /\ \A k \in Key : entry'[k] \in Digest => entry'[k] \in plan'[q].sizes
             /\ \A r \in Proc : pc'[r] \in Checking =>
                   digest'[r] \in plan'[q].sizes
  <2>1. CASE q = p /\ GcSnapshot(p)
    <3>1. /\ Readable /\ plan'[p].sizes = {d \in Present : Referenced(d)}
          /\ entry' = entry /\ digest' = digest
          /\ \A r \in Proc : pc'[r] \in Checking => pc[r] \in Checking
      BY <1>t, <2>1 DEF GcSnapshot, dirVars, Goto, TypeOK, Checking
    <3>2. \A k \in Key : entry[k] \in Digest =>
              entry[k] \in {d \in Present : Referenced(d)}
      BY DEF IInv, NoDanglingEntry, Present, Referenced
    <3>3. \A r \in Proc : pc[r] \in Checking => entry[key[r]] = digest[r]
      BY <1>k, <3>1 DEF Readable
    <3> QED BY <2>1, <1>k, <3>1, <3>2, <3>3
  <2>2. CASE pc[q] = "sweep" /\ plan'[q] = plan[q]
    <3>1. /\ \A k \in Key : entry[k] \in Digest => entry[k] \in plan[q].sizes
          /\ \A r \in Proc : pc[r] \in Checking => digest[r] \in plan[q].sizes
      BY <2>2 DEF IInv, SweepInv
    <3>2. pc[p] # "publishEntry"
      <4>1. pc[p] = "publishEntry" => p = q
        BY <2>2, Exclusion DEF HoldsStore
      <4> QED BY <2>2, <4>1
    <3>3. \A k \in Key : entry'[k] \in Digest => entry'[k] \in plan[q].sizes
      BY <3>1, <3>2, EntryChange
    <3>4. ASSUME NEW r \in Proc, pc'[r] \in Checking
          PROVE  digest'[r] \in plan[q].sizes
      <4>1. CASE r # p
        BY <1>t, <3>1, <3>4, <4>1, OtherLocals
      <4>2. CASE r = p /\ LookupEntry(p)
        <5>1. /\ digest'[p] = entry[key[p]] /\ entry[key[p]] \in Digest
              /\ key[p] \in Key
          BY <1>t, <4>2
             DEF LookupEntry, TypeOK, IInv, KeyLockInv, HoldsKey, Fetching
        <5> QED BY <3>1, <4>2, <5>1
      <4>3. CASE r = p /\ ProbeHit(p)
        BY <3>1, <4>3 DEF ProbeHit, Checking, localVars
      <4> QED BY <3>4, <4>1, <4>2, <4>3, Arrivals DEF Checking
    <3> QED BY <2>2, <3>3, <3>4
  <2>3. CASE q = p /\ SweepOrphan(p)
    BY <2>2, <2>3 DEF SweepOrphan, localVars
  <2>4. CASE q # p
    BY <1>t, <1>1, <2>2, <2>4, OtherLocals
  <2> QED BY <1>1, <2>1, <2>3, <2>4, Arrivals
<1> QED BY <1>1 DEF SweepInv
(***************************************************************************)
(* The invariant is inductive.                                             *)
(***************************************************************************)

LEMMA InvInit == Init => IInv
<1> SUFFICES ASSUME Init
             PROVE  IInv
  OBVIOUS
<1> USE DEF Init
<1>1. TypeOK
  <2>1. NoPlan \in Plan
    BY DEF NoPlan, Plan
  <2> QED BY <2>1 DEF TypeOK, Sidecar, Callers, Labels
<1>2. KeyLockInv /\ StoreLockInv /\ CallInv /\ QueueInv
  BY \A c \in Calls : c # None
     DEF KeyLockInv, StoreLockInv, CallInv, QueueInv, HoldsKey, HoldsStore,
         Fetching, Checking, Calls
<1>3. FetchInv /\ PublishInv /\ UnlinkInv /\ SweepInv /\ HitStable
  BY DEF FetchInv, PublishInv, UnlinkInv, SweepInv, HitStable
<1>4. NoDanglingEntry
  BY DEF NoDanglingEntry
<1> QED BY <1>1, <1>2, <1>3, <1>4 DEF IInv

(* Damage from outside never removes a blob and never makes a sidecar name *)
(* a content.                                                              *)
LEMMA DamageStep ==
    ASSUME IInv, Rot \/ Mangle
    PROVE  IInv'
<1>t. TypeOK /\ TypeOK'
  BY TypeStep DEF IInv, Next
<1>1. UNCHANGED <<keyLock, storeLock, pc, op, key, artifact, bound, digest, plan>>
  BY DEF Rot, Mangle, lockVars, callVars, localVars
<1>2. \A k \in Key : entry'[k] = entry[k] \/ entry'[k] = Malformed
  BY <1>t DEF Rot, Mangle, TypeOK
<1>3. \A d \in Digest : blob[d] # "absent" => blob'[d] # "absent"
  BY <1>t DEF Rot, Mangle, dirVars, TypeOK
<1>4. KeyLockInv' /\ StoreLockInv' /\ CallInv' /\ QueueInv'
  BY <1>1 DEF IInv, KeyLockInv, StoreLockInv, CallInv, QueueInv, Valid, PinsMatch
<1>5. FetchInv'
  <2>1. \A p \in Proc :
           /\ pc[p] \in {"receive", "lockStore", "publishBlob", "publishEntry"}
           /\ op[p] = "get"
           => key[p] \in Key
    BY DEF IInv, KeyLockInv, HoldsKey, Fetching
  <2> QED BY <1>1, <1>2, <2>1 DEF IInv, FetchInv, Refetches, PinsMatch
<1>6. PublishInv'
  BY <1>1, <1>3 DEF IInv, PublishInv, CallInv
<1>7. UnlinkInv'
  BY <1>1, <1>2 DEF IInv, UnlinkInv, Referenced, CallInv
<1>8. SweepInv'
  BY <1>1, <1>2 DEF IInv, SweepInv
<1>9. NoDanglingEntry'
  BY <1>2, <1>3 DEF IInv, NoDanglingEntry
<1>10. HitStable'
  <2>1. \A p \in Proc : pc[p] \in Checking => key[p] \in Key /\ digest[p] \in Digest
    BY DEF IInv, KeyLockInv, CallInv, HoldsKey, Fetching, Checking
  <2> QED BY <1>1, <1>2, <1>3, <2>1 DEF IInv, HitStable, Checking
<1> QED BY <1>t, <1>4, <1>5, <1>6, <1>7, <1>8, <1>9, <1>10 DEF IInv

LEMMA InvStep == IInv /\ [Next]_vars => IInv'
<1>1. ASSUME IInv, NEW p \in Proc, Own(p)
      PROVE  IInv'
  <2>1. TypeOK'
    BY <1>1, TypeStep DEF Next, Own
  <2> QED BY <1>1, <2>1, LocksStep, CallsStep, FetchStep, PublishStep,
             UnlinkStep, SweepStep, DanglingStep, HitStep DEF IInv
<1>2. ASSUME IInv, UNCHANGED vars
      PROVE  IInv'
  BY <1>2 DEF vars, dirVars, lockVars, callVars, localVars, IInv, TypeOK,
       KeyLockInv, StoreLockInv, CallInv, QueueInv, FetchInv, Refetches, PublishInv,
       UnlinkInv, SweepInv, NoDanglingEntry, HitStable, Referenced, Valid,
       PinsMatch
<1> QED BY <1>1, <1>2, DamageStep DEF Next, Own

LEMMA Inductive == Spec => []IInv
BY InvInit, InvStep, PTL DEF Spec

(***************************************************************************)
(* Theorems.                                                               *)
(***************************************************************************)

(* Every reachable state is well typed; in particular a digest a call      *)
(* works with has come from a sidecar that parsed (read_entry) or from a   *)
(* validated content (receive), never from None or a malformed sidecar.    *)
THEOREM TypeCorrect == Spec => []TypeOK
BY Inductive, PTL DEF IInv

(* Every lock is held exactly at the steps the code holds it at, and the   *)
(* holder of the store lock can rely on what it found until it unlinks a   *)
(* blob (layout.rs lock and store_lock; mod.rs:359-370, 424-465, 626-650). *)
THEOREM Invariance == Spec => []IInv
BY Inductive

(* A sidecar never names a blob that is not there, whatever any number of  *)
(* callers do to shared blobs, wherever one dies and whatever is damaged   *)
(* (publish: blob before sidecar; remove: sidecar before blob).            *)
THEOREM NoDangling == Spec => []NoDanglingEntry
BY Inductive, PTL DEF IInv

(* A hit, checked under its key's lock only, keeps the entry and the blob  *)
(* it has found until it answers (local_hit, mod.rs:499-535).              *)
THEOREM HitsStable == Spec => []HitStable
BY Inductive, PTL DEF IInv

(* Callers that wait for a lock hold none that closes a cycle: no lock at  *)
(* all for a key's lock, at most their own key's for the store lock.       *)
THEOREM DeadlockFree == Spec => []NoLockCycle
<1>1. IInv => NoLockCycle
  BY DEF IInv, KeyLockInv, StoreLockInv, HoldsKey, HoldsStore, Fetching,
         NoLockCycle
<1> QED BY <1>1, Inductive, PTL

(* While get fetches, the index holds nothing for its key that the         *)
(* artifact's pins allow (mod.rs:256-265), except what a publication of    *)
(* this very call has bound before it failed (mod.rs:279, 309).            *)
THEOREM FetchOnce == Spec => []OneFetchPerKey
<1>1. IInv => OneFetchPerKey
  BY DEF IInv, FetchInv, OneFetchPerKey
<1> QED BY <1>1, Inductive, PTL
===============================================================================
