--------------------------- MODULE LocalStoreGcProofs ---------------------------
(* What gc promises while nothing else runs (mod.rs:405-470), for any keys, *)
(* contents and lengths, whatever is damaged and wherever it is aborted:    *)
(* its loop ends within max_bytes, and it evicts oldest first.              *)
EXTENDS LocalStoreProofs

USE NoneAssumption, ArtifactAssumption

(***************************************************************************)
(* Lengths.                                                                *)
(***************************************************************************)

(* Taking one blob away takes its length away. *)
LEMMA BytesRemove ==
    ASSUME NEW S \in SUBSET Digest, NEW d \in S
    PROVE  Bytes[S \ {d}] = Min0(Bytes[S], Bytes[{d}])
<1>1. Bytes[(S \ {d}) \cup {d}] = Bytes[S \ {d}] + Bytes[{d}]
  BY BytesAssumption
<1>2. (S \ {d}) \cup {d} = S
  OBVIOUS
<1>3. Bytes[S \ {d}] \in Nat /\ Bytes[{d}] \in Nat
  BY BytesType
<1>4. Bytes[S] = Bytes[S \ {d}] + Bytes[{d}]
  BY <1>1, <1>2, Zenon
<1> QED BY <1>3, <1>4 DEF Min0

(***************************************************************************)
(* Steps at which no eviction is under way.                                *)
(***************************************************************************)

GcOf(p) == Evicting(p) =>
    /\ CountOf(p) /\ OrderOf(p, plan[p].queue)
    /\ pc[p] \notin {"sweep", "pick"} => HeadOf(p)

Evictor(p) == \/ LockKey(p) \/ LockStore(p)
              \/ GcSnapshot(p) \/ SweepOrphan(p) \/ SweepDone(p) \/ PickVictim(p)
              \/ UnlinkEntry(p) \/ UnlinkSkipped(p)
              \/ ScanReferenced(p) \/ ScanUnreferenced(p) \/ UnlinkBlob(p)

LEMMA NoEviction ==
    ASSUME IInv, GcInv, NEW p \in Proc, Own(p), ~Evictor(p)
    PROVE  ~Evicting(p)'
<1> USE DEF dirVars, lockVars, callVars, localVars, Goto, Evicting
<1>t. TypeOK
  BY DEF IInv
<1>g. op[p] = "gc" /\ key[p] # None => pc[p] \in
          {"sweep", "pick", "lockKey", "lockStore", "unlinkEntry", "refScan", "unlinkBlob"}
  BY DEF GcInv, HeadOf
<1>c. pc[p] \in Fetching => op[p] # "gc"
  BY DEF IInv, CallInv
<1>r. ASSUME NEW r, Return(p, r)
      PROVE  ~Evicting(p)'
  BY <1>t, <1>r, \A c \in Calls : c # None DEF TypeOK, Return, Calls
<1>1. CASE Begin(p)
  BY <1>1, <1>t DEF TypeOK, Begin, StartGet, StartImport, StartRemove,
                    StartPeek, StartVerify, StartGc, Start
<1>2. CASE Work(p)
  <2>1. CASE LookupError(p) \/ Rehash(p) \/ GiveUp(p) \/ PublishEntry(p)
             \/ ScanError(p) \/ GcDone(p) \/ VerifyDone(p) \/ PeekProbe(p)
    BY <1>r, <2>1 DEF LookupError, Rehash, GiveUp, PublishEntry,
           ScanError, GcDone, VerifyDone, PeekProbe
  <2>2. CASE \/ LookupMiss(p) \/ LookupEntry(p) \/ ProbeMiss(p) \/ ProbeHit(p)
             \/ Receive(p) \/ PublishBlob(p)
    BY <1>t, <1>c, <2>2 DEF TypeOK, Fetching, LookupMiss, LookupEntry, ProbeMiss,
           ProbeHit, Receive, PublishBlob
  <2>3. CASE PublishRejected(p) \/ PublishFails(p)
    BY <1>t, <1>c, <1>r, <2>3
       DEF TypeOK, Fetching, PublishRejected, PublishFails, LayerFails, NextLayer
  <2>4. CASE VerifySnapshot(p) \/ VerifyGood(p) \/ VerifyReport(p)
    <3>1. op[p] = "verify"
      BY <2>4 DEF IInv, CallInv, VerifySnapshot, VerifyGood, VerifyReport
    <3> QED BY <2>4, <3>1 DEF VerifySnapshot, VerifyGood, VerifyReport
  <2>5. CASE PeekRead(p)
    BY <1>t, <1>g, <1>r, <2>5 DEF TypeOK, PeekRead
  <2> QED BY <1>2, <2>1, <2>2, <2>3, <2>4, <2>5 DEF Work, Evictor
<1>3. CASE Abort(p)
  BY <1>r, <1>3 DEF Abort
<1> QED BY <1>1, <1>2, <1>3 DEF Own, Step, Evictor

(***************************************************************************)
(* Steps of an eviction.                                                   *)
(***************************************************************************)

(* The items of a queue are well typed. *)
LEMMA ItemTypes ==
    ASSUME NEW Q \in Seq(Item)
    PROVE  \A i \in DOMAIN Q : /\ Q[i].key \in Key /\ Q[i].digest \in Digest
                               /\ i \in Nat /\ i >= 1
<1>1. \A i \in DOMAIN Q : Q[i] \in Item /\ i \in Nat /\ i >= 1
  OBVIOUS
<1> QED BY <1>1 DEF Item

(* The head of a queue, and where the items of its tail come from. *)
LEMMA TailItems ==
    ASSUME NEW Q \in Seq(Item), Q # <<>>
    PROVE  /\ Head(Q) = Q[1] /\ 1 \in DOMAIN Q
           /\ \A i \in DOMAIN Tail(Q) : i + 1 \in DOMAIN Q /\ i + 1 # 1 /\ Tail(Q)[i] = Q[i + 1]
           /\ \A i \in DOMAIN Q : i # 1 => i - 1 \in DOMAIN Tail(Q) /\ Tail(Q)[i - 1] = Q[i]
           /\ \A i, j \in DOMAIN Tail(Q) : i < j => i + 1 < j + 1
OBVIOUS

(* Without its head, whose key is unbound, the queue is still in order. *)
LEMMA TailOrder ==
    ASSUME NEW p \in Proc, NEW Q \in Seq(Item), Q # <<>>, OrderOf(p, Q),
           entry[Q[1].key] = None, UNCHANGED <<entry, fetchedAt>>
    PROVE  OrderOf(p, Tail(Q))'
<1> DEFINE T == Tail(Q)
<1>1. /\ \A i \in DOMAIN T : i + 1 \in DOMAIN Q /\ i + 1 # 1 /\ T[i] = Q[i + 1]
      /\ \A i \in DOMAIN Q : i # 1 => i - 1 \in DOMAIN T /\ T[i - 1] = Q[i]
      /\ \A i, j \in DOMAIN T : i < j => i + 1 < j + 1
  BY TailItems
<1> HIDE DEF T
<1>2. ASSUME NEW k \in Key, entry[k] \in Digest
      PROVE  \E i \in DOMAIN T : T[i].key = k
  <2>1. PICK i \in DOMAIN Q : Q[i].key = k
    BY <1>2 DEF OrderOf
  <2>2. i # 1
    BY <1>2, <2>1
  <2> QED BY <1>1, <2>1, <2>2
<1>3. \A i, j \in DOMAIN T : i < j =>
          T[i].key # T[j].key /\ fetchedAt[T[i].key] <= fetchedAt[T[j].key]
  BY <1>1 DEF OrderOf
<1>4. \A i \in DOMAIN T : entry[T[i].key] \in {T[i].digest, Malformed}
  BY <1>1 DEF OrderOf
<1> QED BY <1>2, <1>3, <1>4 DEF OrderOf, T

(* What holds of an eviction under way. *)
LEMMA Under ==
    ASSUME IInv, GcInv, NEW p \in Proc, Evicting(p)
    PROVE  /\ CountOf(p) /\ OrderOf(p, plan[p].queue)
           /\ pc[p] \notin {"sweep", "pick"} =>
                 /\ HeadOf(p)
                 /\ 1 \in DOMAIN plan[p].queue /\ Victim(p) = plan[p].queue[1]
                 /\ key[p] \in Key /\ Victim(p).digest \in Digest
           /\ plan[p] \in Plan /\ plan[p].queue \in Seq(Item)
<1>1. plan[p] \in Plan /\ plan[p].queue \in Seq(Item)
  BY DEF IInv, TypeOK, Plan
<1>2. CountOf(p) /\ OrderOf(p, plan[p].queue) /\ (pc[p] \notin {"sweep", "pick"} => HeadOf(p))
  BY DEF GcInv
<1>3. CASE pc[p] \notin {"sweep", "pick"}
  <2>1. HeadOf(p) /\ plan[p].queue # <<>> /\ key[p] = Victim(p).key
    BY <1>2, <1>3 DEF HeadOf
  <2>2. Victim(p).key \in Key /\ Victim(p).digest \in Digest
    BY <2>1, QueueType DEF IInv
  <2>3. 1 \in DOMAIN plan[p].queue /\ Victim(p) = plan[p].queue[1]
    BY <1>1, <2>1, TailItems DEF Victim
  <2> QED BY <1>1, <1>2, <2>1, <2>2, <2>3
<1> QED BY <1>1, <1>2, <1>3

(* The snapshot queues every bound key once, oldest first, and counts what *)
(* is there and bound.                                                     *)
LEMMA SnapshotStep ==
    ASSUME IInv, NEW p \in Proc, GcSnapshot(p)
    PROVE  GcOf(p)'
<1>t. TypeOK
  BY DEF IInv
<1> DEFINE sizes == {d \in Present : Referenced(d)}
<1>1. PICK q \in Oldest :
         plan' = [plan EXCEPT ![p] = [queue |-> Items(q), sizes |-> sizes,
                                      total |-> Bytes[sizes], max |-> plan[p].max]]
  BY <1>t DEF GcSnapshot, TypeOK
<1>2. /\ plan'[p].queue = Items(q) /\ plan'[p].sizes = sizes
      /\ plan'[p].total = Bytes[sizes]
      /\ UNCHANGED <<entry, fetchedAt, blob>> /\ pc'[p] = "sweep" /\ Readable
  BY <1>t, <1>1 DEF GcSnapshot, TypeOK, dirVars, Goto
<1>3. Present' = Present /\ sizes \subseteq Present
  BY <1>2 DEF Present
<1>4. /\ q \in Visits
      /\ \A i, j \in DOMAIN q : i < j => q[i] # q[j] /\ fetchedAt[q[i]] <= fetchedAt[q[j]]
      /\ DOMAIN q = 1..Cardinality(Indexed)
  BY DEF Oldest, Visits
<1>5. /\ DOMAIN Items(q) = DOMAIN q
      /\ \A i \in DOMAIN q : Items(q)[i].key = q[i] /\ Items(q)[i].digest = entry[q[i]]
  BY DEF Items
<1>6. \A k \in Key : entry[k] \in Digest => \E i \in DOMAIN q : q[i] = k
  BY <1>4, VisitsAll DEF Indexed
<1>7. \A d \in sizes : \E i \in DOMAIN q : entry[q[i]] = d
  BY <1>6 DEF Referenced, Present
<1> HIDE DEF sizes
<1>8. CountOf(p)'
  <2>1. Counted(p)' = sizes
    BY <1>2, <1>3 DEF Counted
  <2> QED BY <1>2, <1>3, <1>5, <1>7, <2>1 DEF CountOf
<1>9. PICK Q : Q = Items(q)
  OBVIOUS
<1>10. OrderOf(p, Q)'
  BY <1>2, <1>4, <1>5, <1>6, <1>9 DEF OrderOf
<1> QED BY <1>2, <1>8, <1>9, <1>10 DEF GcOf, OrderOf

(* The sweep takes only what is not counted; after it all is counted.      *)
LEMMA SweepSteps ==
    ASSUME IInv, GcInv, NEW p \in Proc, SweepOrphan(p) \/ SweepDone(p), Evicting(p)'
    PROVE  GcOf(p)'
<1>t. TypeOK
  BY DEF IInv
<1>1. pc[p] = "sweep" /\ Evicting(p) /\ UNCHANGED <<entry, fetchedAt, plan>>
  <2>1. pc[p] = "sweep" /\ UNCHANGED <<entry, fetchedAt, plan>>
    BY DEF SweepOrphan, SweepDone, dirVars, localVars
  <2> QED BY <2>1 DEF IInv, CallInv, Evicting
<1>2. CountOf(p) /\ OrderOf(p, plan[p].queue)
  BY <1>1, Under
<1>3. Counted(p)' = Counted(p)
  BY <1>t, <1>1, <1>2 DEF SweepOrphan, SweepDone, dirVars, Counted, CountOf, Present, TypeOK
<1>4. pc'[p] \in {"sweep", "pick"}
  BY <1>t, <1>1 DEF SweepOrphan, SweepDone, NextVictim, Goto, TypeOK
<1>5. CountOf(p)'
  <2>1. CASE SweepOrphan(p)
    <3>1. plan[p].sizes \subseteq Present' /\ pc'[p] = "sweep"
      BY <1>t, <1>1, <1>2, <2>1 DEF SweepOrphan, CountOf, Present, TypeOK
    <3> QED BY <1>1, <1>2, <1>3, <3>1 DEF CountOf
  <2>2. CASE SweepDone(p)
    <3>1. Present' \subseteq plan[p].sizes /\ pc'[p] = "pick"
      BY <1>t, <1>1, <2>2 DEF SweepDone, NextVictim, Goto, Present, TypeOK, dirVars
    <3> QED BY <1>1, <1>2, <1>3, <3>1 DEF CountOf
  <2> QED BY <2>1, <2>2
<1>6. OrderOf(p, plan[p].queue)'
  BY <1>1, <1>2 DEF OrderOf
<1> QED BY <1>1, <1>4, <1>5, <1>6 DEF GcOf

(* Choosing the head and taking the locks change nothing it relies on.     *)
LEMMA ApproachStep ==
    ASSUME IInv, GcInv, NEW p \in Proc, Evicting(p)',
           LockKey(p) \/ LockStore(p) \/ PickVictim(p) \/ ScanUnreferenced(p)
    PROVE  GcOf(p)'
<1>t. TypeOK
  BY DEF IInv
<1>1. /\ UNCHANGED <<entry, fetchedAt, blob, plan, op, digest>>
      /\ \/ pc[p] \in {"lockKey", "lockStore", "refScan"} /\ key'[p] = key[p]
         \/ PickVictim(p)
      /\ pc[p] \notin {"sweep", "unlinkBlob"}
  BY DEF LockKey, LockStore, PickVictim, ScanUnreferenced, dirVars, callVars, localVars
<1>2. Evicting(p) /\ pc'[p] \in {"lockKey", "lockStore", "unlinkEntry", "unlinkBlob"}
      /\ (pc'[p] = "unlinkBlob" => pc[p] = "refScan")
      /\ (pc[p] = "refScan" => pc'[p] = "unlinkBlob")
  <2>1. CASE LockKey(p) \/ LockStore(p) \/ ScanUnreferenced(p)
    BY <1>t, <2>1 DEF LockKey, LockStore, ScanUnreferenced, Goto, TypeOK, callVars,
                      Evicting
  <2>2. CASE PickVictim(p)
    BY <1>t, <2>2 DEF PickVictim, Goto, TypeOK, Evicting, IInv, CallInv
  <2> QED BY <2>1, <2>2
<1>3. CountOf(p) /\ OrderOf(p, plan[p].queue)
  BY <1>2, Under
<1>4. CountOf(p)'
  BY <1>1, <1>2, <1>3 DEF CountOf, Counted, Present
<1>5. OrderOf(p, plan[p].queue)'
  BY <1>1, <1>2, <1>3 DEF OrderOf
<1>6. HeadOf(p)'
  <2>1. CASE PickVictim(p)
    BY <1>t, <1>1, <2>1 DEF PickVictim, HeadOf, Victim, OverBudget, Goto, TypeOK
  <2>2. CASE ~PickVictim(p)
    <3>1. HeadOf(p)
      BY <1>1, <1>2, <2>2, Under
    <3> QED BY <1>1, <1>2, <2>2, <3>1 DEF HeadOf, Victim, OverBudget
  <2> QED BY <2>1, <2>2
<1> QED BY <1>1, <1>4, <1>5, <1>6 DEF GcOf

(* What gc unlinks is the head of its queue, whose key is then unbound.    *)
LEMMA UnlinkEntryKept ==
    ASSUME IInv, GcInv, NEW p \in Proc, UnlinkEntry(p), Evicting(p)'
    PROVE  GcOf(p)'
<1>t. TypeOK
  BY DEF IInv
<1>1. /\ pc[p] = "unlinkEntry" /\ pc'[p] = "refScan"
      /\ entry[key[p]] \in Digest /\ digest'[p] = entry[key[p]]
      /\ UNCHANGED <<blob, plan, op, key>>
  BY <1>t DEF UnlinkEntry, StillWanted, Goto, TypeOK, callVars
<1>2. Evicting(p) /\ op[p] = "gc"
  BY <1>1 DEF Evicting
<1>3. /\ CountOf(p) /\ OrderOf(p, plan[p].queue)
      /\ HeadOf(p) /\ 1 \in DOMAIN plan[p].queue /\ Victim(p) = plan[p].queue[1]
      /\ key[p] \in Key /\ plan[p].queue \in Seq(Item)
  BY <1>1, <1>2, Under
<1>4. digest'[p] = Victim(p).digest
  BY <1>1, <1>2 DEF UnlinkEntry, StillWanted
<1>5. entry' = [entry EXCEPT ![key[p]] = None] /\ fetchedAt' = [fetchedAt EXCEPT ![key[p]] = 0]
  BY DEF UnlinkEntry
<1>6. key[p] = plan[p].queue[1].key
  BY <1>3 DEF HeadOf
<1>7. CountOf(p)'
  BY <1>1, <1>3 DEF CountOf, Counted, Present
<1>8. OrderOf(p, plan[p].queue)'
  <2> DEFINE Q == plan[p].queue
  <2>1. \A i \in DOMAIN Q : Q[i].key \in Key /\ i \in Nat /\ i >= 1
    BY <1>3, ItemTypes
  <2>2. \A i \in DOMAIN Q : i # 1 => Q[i].key # key[p]
    BY <1>3, <1>6, <2>1 DEF OrderOf
  <2>3. \A k \in Key : k # key[p] => entry'[k] = entry[k] /\ fetchedAt'[k] = fetchedAt[k]
    BY <1>t, <1>5 DEF TypeOK
  <2>4. entry'[key[p]] = None /\ fetchedAt'[key[p]] = 0
    BY <1>t, <1>3, <1>5 DEF TypeOK
  <2> HIDE DEF Q
  <2>5. \A k \in Key : entry'[k] \in Digest => \E i \in DOMAIN Q : Q[i].key = k
    BY <1>3, <2>3, <2>4 DEF OrderOf, Q
  <2>6. ASSUME NEW i \in DOMAIN Q, NEW j \in DOMAIN Q, i < j
        PROVE  Q[i].key # Q[j].key /\ fetchedAt'[Q[i].key] <= fetchedAt'[Q[j].key]
    <3>1. Q[i].key # Q[j].key /\ fetchedAt[Q[i].key] <= fetchedAt[Q[j].key]
      BY <1>3, <2>6 DEF OrderOf, Q
    <3>2. j # 1
      BY <2>1, <2>6
    <3>3. fetchedAt'[Q[j].key] = fetchedAt[Q[j].key] /\ fetchedAt[Q[j].key] \in Nat
      BY <1>t, <2>1, <2>2, <2>3, <3>2 DEF TypeOK
    <3>4. fetchedAt'[Q[i].key] = fetchedAt[Q[i].key] \/ fetchedAt'[Q[i].key] = 0
      BY <2>1, <2>3, <2>4
    <3> QED BY <3>1, <3>3, <3>4
  <2>7. \A i \in DOMAIN Q : i # 1 => entry'[Q[i].key] \in {Q[i].digest, Malformed}
    BY <1>1, <1>3, <2>1, <2>2, <2>3 DEF OrderOf, Q
  <2> QED BY <1>1, <2>5, <2>6, <2>7 DEF OrderOf, Q
<1>9. HeadOf(p)'
  <2>1. blob[entry[key[p]]] # "absent"
    BY <1>1, <1>3 DEF IInv, NoDanglingEntry
  <2>2. entry'[key[p]] = None
    BY <1>t, <1>3, <1>5 DEF TypeOK
  <2> QED BY <1>1, <1>3, <1>4, <2>1, <2>2 DEF HeadOf, Victim
<1> QED BY <1>1, <1>7, <1>8, <1>9 DEF GcOf

(* While gc is alone the head is bound as the snapshot had it: it is never *)
(* skipped.                                                                *)
LEMMA NeverSkipped ==
    ASSUME IInv, GcInv, NEW p \in Proc, UnlinkSkipped(p)
    PROVE  ~Evicting(p)
<1> SUFFICES ASSUME Evicting(p)
             PROVE  FALSE
  OBVIOUS
<1>1. pc[p] = "unlinkEntry" /\ entry[key[p]] # Malformed /\ ~StillWanted(p)
  BY DEF UnlinkSkipped
<1>2. /\ OrderOf(p, plan[p].queue) /\ HeadOf(p)
      /\ 1 \in DOMAIN plan[p].queue /\ Victim(p) = plan[p].queue[1]
      /\ Victim(p).digest \in Digest
  BY <1>1, Under
<1>3. entry[key[p]] = Victim(p).digest
  BY <1>1, <1>2 DEF OrderOf, HeadOf
<1> QED BY <1>1, <1>2, <1>3 DEF StillWanted

(* A key is dealt with: its item goes, and its blob unless another bound   *)
(* key, whose item is still queued, names it.                              *)
LEMMA KeyDoneStep ==
    ASSUME IInv, GcInv, NEW p \in Proc, ScanReferenced(p) \/ UnlinkBlob(p), Evicting(p)'
    PROVE  GcOf(p)'
<1>t. TypeOK
  BY DEF IInv
<1>d. PICK Q, d, total :
         /\ Q = plan[p].queue /\ d = digest[p]
         /\ total = IF ScanReferenced(p) THEN plan[p].total
                    ELSE Min0(plan[p].total, Bytes[plan[p].sizes \cap {d}])
  OBVIOUS
<1>1. pc[p] \in {"refScan", "unlinkBlob"} /\ KeyDone(p, total) /\ UNCHANGED <<entry, fetchedAt>>
  BY <1>d DEF ScanReferenced, UnlinkBlob, dirVars
<1>2. op[p] = "gc" /\ NextVictim(p)
      /\ plan' = [plan EXCEPT ![p].queue = Tail(@), ![p].total = total]
  <2>1. ~Return(p, None)
    BY <1>t, \A c \in Calls : c # None DEF Return, Evicting, TypeOK, Calls
  <2> QED BY <1>1, <2>1 DEF KeyDone
<1>3. Evicting(p)
  BY <1>1, <1>2 DEF IInv, KeyLockInv, HoldsKey, Evicting
<1>4. /\ CountOf(p) /\ OrderOf(p, Q) /\ HeadOf(p)
      /\ Q \in Seq(Item) /\ Q # <<>> /\ 1 \in DOMAIN Q /\ Victim(p) = Q[1]
      /\ plan[p] \in Plan /\ d \in Digest
  BY <1>1, <1>3, <1>d, Under DEF HeadOf
<1>5. entry[Q[1].key] = None /\ d = Q[1].digest /\ blob[d] # "absent"
  BY <1>1, <1>4, <1>d DEF HeadOf
<1>6. plan'[p].queue = Tail(Q) /\ plan'[p].total = total /\ plan'[p].sizes = plan[p].sizes
      /\ pc'[p] = "pick"
  BY <1>t, <1>2, <1>4, <1>d DEF NextVictim, Goto, TypeOK, Plan
<1>7. OrderOf(p, Tail(Q))'
  BY <1>1, <1>4, <1>5, TailOrder
<1>8. ASSUME NEW c \in Counted(p), c # d
      PROVE  \E i \in DOMAIN Tail(Q) : Tail(Q)[i].digest = c
  <2>1. PICK i \in DOMAIN Q : Q[i].digest = c
    BY <1>4, <1>8, <1>d DEF CountOf
  <2>2. i # 1
    BY <1>5, <1>8, <2>1
  <2>3. i - 1 \in DOMAIN Tail(Q) /\ Tail(Q)[i - 1] = Q[i]
    BY <1>4, <2>1, <2>2, TailItems
  <2> QED BY <2>1, <2>3
<1>9. Present \subseteq plan[p].sizes /\ plan[p].total = Bytes[Counted(p)] /\ d \in Counted(p)
      /\ Counted(p) \in SUBSET Digest
  BY <1>1, <1>4, <1>5 DEF CountOf, Counted, Present
<1>10. CountOf(p)'
  <2>1. CASE UnlinkBlob(p)
    <3>1. total = Min0(plan[p].total, Bytes[plan[p].sizes \cap {d}])
      BY <1>d, <2>1 DEF UnlinkBlob, ScanReferenced
    <3>2. plan[p].sizes \cap {d} = {d}
      BY <1>9 DEF Counted
    <3>3. total = Bytes[Counted(p) \ {d}]
      BY <1>9, <3>1, <3>2, BytesRemove
    <3>4. Present' = Present \ {d}
      BY <1>d, <1>t, <2>1 DEF UnlinkBlob, Present, TypeOK
    <3>5. Counted(p)' = Counted(p) \ {d}
      BY <1>6, <3>4 DEF Counted
    <3> QED BY <1>6, <1>8, <1>9, <3>3, <3>4, <3>5 DEF CountOf
  <2>2. CASE ScanReferenced(p)
    <3>1. total = plan[p].total /\ Referenced(d) /\ Present' = Present
      BY <1>d, <2>2 DEF ScanReferenced, dirVars, Present
    <3>2. Counted(p)' = Counted(p)
      BY <1>6, <3>1 DEF Counted
    <3>3. \E i \in DOMAIN Tail(Q) : Tail(Q)[i].digest = d
      <4>1. PICK k \in Key : entry[k] = d
        BY <3>1 DEF Referenced
      <4>2. PICK i \in DOMAIN Q : Q[i].key = k
        BY <1>4, <4>1 DEF OrderOf
      <4>3. i # 1 /\ Q[i].digest = d
        BY <1>4, <1>5, <4>1, <4>2 DEF OrderOf
      <4> QED BY <1>4, <4>3, TailItems
    <3> QED BY <1>6, <1>8, <1>9, <3>1, <3>2, <3>3 DEF CountOf
  <2> QED BY <2>1, <2>2
<1> QED BY <1>6, <1>7, <1>10 DEF GcOf, OrderOf

(* Damage from outside takes no blob away, and binds no key.               *)
LEMMA GcDamage ==
    ASSUME IInv, GcInv, Rot \/ Mangle, NEW p \in Proc, Evicting(p)'
    PROVE  GcOf(p)'
<1>t. TypeOK /\ TypeOK'
  BY TypeStep DEF IInv, Next
<1>1. UNCHANGED <<fetchedAt, pc, op, key, digest, plan>>
  BY DEF Rot, Mangle, callVars, localVars
<1>2. \A k \in Key : entry'[k] = entry[k] \/ (entry[k] \in Digest /\ entry'[k] = Malformed)
  <2>1. CASE Rot
    BY <2>1 DEF Rot
  <2>2. CASE Mangle
    BY <1>t, <2>2 DEF Mangle, TypeOK
  <2> QED BY <2>1, <2>2
<1>3. Present' = Present /\ \A d \in Digest : blob[d] # "absent" => blob'[d] # "absent"
  BY <1>t DEF Rot, Mangle, dirVars, Present, TypeOK
<1>4. /\ CountOf(p) /\ OrderOf(p, plan[p].queue)
      /\ pc[p] \notin {"sweep", "pick"} => HeadOf(p) /\ key[p] \in Key /\ Victim(p).digest \in Digest
      /\ plan[p].queue \in Seq(Item)
  BY <1>1, Under DEF Evicting
<1>5. CountOf(p)'
  BY <1>1, <1>3, <1>4 DEF CountOf, Counted
<1>6. OrderOf(p, plan[p].queue)'
  <2>1. \A i \in DOMAIN plan[p].queue : plan[p].queue[i].key \in Key
    BY <1>4, ItemTypes
  <2> QED BY <1>1, <1>2, <1>4, <2>1 DEF OrderOf
<1>7. pc[p] \notin {"sweep", "pick"} => HeadOf(p)'
  BY <1>1, <1>2, <1>3, <1>4 DEF HeadOf, Victim, OverBudget
<1> QED BY <1>1, <1>5, <1>6, <1>7 DEF GcOf

(***************************************************************************)
(* The invariant is inductive.                                             *)
(***************************************************************************)

LEMMA GcStep == Alone /\ IInv /\ GcInv /\ [Next]_vars => GcInv'
<1> SUFFICES ASSUME Alone, IInv, GcInv, [Next]_vars, NEW p \in Proc, Evicting(p)'
             PROVE  GcOf(p)'
  BY DEF GcInv, GcOf
<1>1. CASE Own(p)
  <2>1. Evictor(p)
    BY <1>1, NoEviction
  <2>2. CASE LockKey(p) \/ LockStore(p) \/ PickVictim(p) \/ ScanUnreferenced(p)
    BY <2>2, ApproachStep
  <2>3. CASE UnlinkSkipped(p)
    <3>1. ~Evicting(p)
      BY <2>3, NeverSkipped
    <3>2. key[p] # None /\ op'[p] = op[p]
      <4>1. key[p] \in Key
        BY <2>3 DEF UnlinkSkipped, IInv, KeyLockInv, HoldsKey
      <4>2. ~Return(p, None)
        BY \A c \in Calls : c # None DEF Return, Evicting, IInv, TypeOK, Calls
      <4> QED BY <2>3, <4>1, <4>2 DEF UnlinkSkipped, KeyDone, NextVictim
    <3> QED BY <3>1, <3>2 DEF Evicting
  <2> QED BY <2>1, <2>2, <2>3, SnapshotStep, SweepSteps, UnlinkEntryKept, KeyDoneStep
             DEF Evictor
<1>2. CASE UNCHANGED vars
  <2>1. UNCHANGED <<entry, fetchedAt, blob, pc, op, key, digest, plan>>
    BY <1>2 DEF vars, dirVars, callVars, localVars
  <2>2. CountOf(p) /\ OrderOf(p, plan[p].queue) /\ (pc[p] \notin {"sweep", "pick"} => HeadOf(p))
    BY <2>1 DEF GcInv, Evicting
  <2> QED BY <2>1, <2>2 DEF GcOf, CountOf, OrderOf, HeadOf, Counted, Present, Victim, OverBudget
<1> QED BY <1>1, <1>2, GcDamage DEF Next, Own, Alone

LEMMA GcInductive == Alone /\ Spec => [](IInv /\ GcInv)
<1>1. Init => GcInv
  BY DEF Init, GcInv, Evicting
<1>2. Alone /\ Init => IInv /\ GcInv
  BY <1>1, InvInit
<1>3. Alone /\ (IInv /\ GcInv) /\ [Next]_vars => (IInv /\ GcInv)'
  BY GcStep, InvStep
<1> SUFFICES ASSUME Alone
             PROVE  Spec => [](IInv /\ GcInv)
  OBVIOUS
<1> QED BY <1>2, <1>3, PTL DEF Spec

(***************************************************************************)
(* Theorems.                                                               *)
(***************************************************************************)

(* While gc is alone, what it still counts is what is there, and its queue *)
(* holds every bound key once, oldest first (mod.rs:405-470).              *)
THEOREM GcInvariance == ASSUME Alone PROVE Spec => []GcInv
BY GcInductive, PTL

(* gc's loop never ends above max_bytes (mod.rs:443-446): with the queue   *)
(* empty nothing is left to count, whatever was damaged or aborted before. *)
THEOREM BudgetMet == ASSUME Alone PROVE Spec => []GcMeetsBudget
<1>1. ASSUME IInv, GcInv, NEW p \in Proc, pc[p] = "pick",
             ~OverBudget(p) \/ plan[p].queue = <<>>
      PROVE  Bytes[Present] <= plan[p].max
  <2>1. Evicting(p)
    BY <1>1 DEF IInv, CallInv, Evicting
  <2>2. CountOf(p) /\ plan[p] \in Plan
    BY <1>1, <2>1, Under
  <2>3. Counted(p) = Present /\ plan[p].total = Bytes[Present]
    BY <1>1, <2>2 DEF CountOf, Counted
  <2>4. plan[p].max \in Nat /\ plan[p].total \in Nat
    BY <2>2 DEF Plan
  <2>5. CASE ~OverBudget(p)
    BY <2>3, <2>4, <2>5 DEF OverBudget
  <2>6. CASE plan[p].queue = <<>>
    <3>1. Present = {}
      BY <2>2, <2>3, <2>6 DEF CountOf
    <3> QED BY <2>4, <3>1, BytesAssumption
  <2> QED BY <1>1, <2>5, <2>6
<1>2. IInv /\ GcInv => GcMeetsBudget
  BY <1>1 DEF GcMeetsBudget
<1> QED BY <1>2, GcInductive, PTL

(* gc evicts only above max_bytes, and the least recently fetched of what  *)
(* is bound (mod.rs:418-419), whatever was damaged or aborted before.      *)
THEOREM OldestFirst == ASSUME Alone PROVE Spec => EvictsInOrder
<1>1. ASSUME IInv, GcInv, NEW p \in Proc, Own(p), NEW k \in Key,
             keyLock[k] # None, Evicts(k)
      PROVE  /\ Bytes[Present] > plan[keyLock[k]].max
             /\ \A j \in Key : entry[j] \in Digest => fetchedAt[k] <= fetchedAt[j]
  <2>1. key[p] = k /\ pc[p] = "unlinkEntry" /\ entry[k] \in Digest
    <3>1. entry[k] \in Digest /\ entry'[k] = None
      BY <1>1 DEF Evicts
    <3>2. /\ key[p] = k
          /\ \/ pc[p] = "publishEntry" /\ entry'[k] = digest[p]
             \/ pc[p] = "unlinkEntry" /\ pc'[p] = "refScan" /\ entry'[k] = None
      <4>1. entry'[k] # entry[k]
        BY <3>1
      <4> QED BY <1>1, <4>1, EntryChange
    <3>3. pc[p] = "publishEntry" => digest[p] \in Digest
      BY <1>1 DEF IInv, CallInv
    <3> QED BY <3>1, <3>2, <3>3
  <2>2. keyLock[k] = p /\ op[p] = "gc"
    BY <1>1, <2>1 DEF IInv, KeyLockInv, HoldsKey, Evicts
  <2>3. Evicting(p)
    BY <2>1, <2>2 DEF Evicting
  <2>4. PICK Q : Q = plan[p].queue
    OBVIOUS
  <2>5. /\ CountOf(p) /\ OrderOf(p, Q) /\ HeadOf(p) /\ plan[p] \in Plan /\ Q \in Seq(Item)
        /\ 1 \in DOMAIN Q /\ k = Q[1].key
    BY <1>1, <2>1, <2>3, <2>4, Under DEF HeadOf
  <2>6. Bytes[Present] > plan[p].max
    <3>1. Counted(p) = Present
      BY <2>1, <2>5 DEF CountOf, Counted
    <3> QED BY <2>1, <2>5, <3>1 DEF HeadOf, OverBudget, CountOf
  <2>7. ASSUME NEW j \in Key, entry[j] \in Digest
        PROVE  fetchedAt[k] <= fetchedAt[j]
    <3>1. PICK i \in DOMAIN Q : Q[i].key = j
      BY <2>5, <2>7 DEF OrderOf
    <3>2. i \in Nat /\ i >= 1 /\ fetchedAt[k] \in Nat
      BY <1>1, <2>5, <3>1, ItemTypes DEF IInv, TypeOK
    <3>3. CASE i = 1
      BY <2>5, <3>1, <3>2, <3>3
    <3>4. CASE i # 1
      <4>1. 1 < i
        BY <3>2, <3>4
      <4> QED BY <2>5, <3>1, <4>1 DEF OrderOf
    <3> QED BY <3>3, <3>4
  <2> QED BY <2>2, <2>6, <2>7
<1>2. ASSUME IInv, Rot \/ Mangle \/ UNCHANGED vars, NEW k \in Key, Evicts(k)
      PROVE  FALSE
  BY <1>2 DEF IInv, TypeOK, Rot, Mangle, vars, dirVars, Evicts
<1>3. IInv /\ GcInv /\ [Next]_vars =>
        [\A k \in Key : keyLock[k] # None /\ Evicts(k) =>
            /\ Bytes[Present] > plan[keyLock[k]].max
            /\ \A j \in Key : entry[j] \in Digest => fetchedAt[k] <= fetchedAt[j]]_vars
  BY <1>1, <1>2 DEF Next, Own
<1> QED BY <1>3, GcInductive, PTL DEF Spec, EvictsInOrder
===============================================================================
