------------------------- MODULE FillCoordinatorProofs -------------------------
(* The safety properties of admission and maintenance, for any number of   *)
(* fills, any sizes and any policy that ServiceCachePolicy::validate       *)
(* accepts.                                                                *)
EXTENDS FillCoordinator, FiniteSetTheorems, TLAPS

USE PolicyAssumption

(***************************************************************************)
(* Byte counts.                                                            *)
(***************************************************************************)

LEMMA TotalType == \A g \in [Fill -> Share] : Total[g] \in Nat
BY TotalAssumption

(* Changing one fill's count changes the total by as much. *)
LEMMA TotalExcept ==
    ASSUME NEW g \in [Fill -> Share], NEW h \in [Fill -> Share], NEW f \in Fill,
           \A e \in Fill \ {f} : h[e] = g[e]
    PROVE  /\ Total[h] \in Nat /\ g[f] \in Nat /\ h[f] \in Nat
           /\ Total[h] = Total[g] + h[f] - g[f]
<1>1. h = [g EXCEPT ![f] = h[f]]
  OBVIOUS
<1>2. Total[[g EXCEPT ![f] = h[f]]] + g[f] = Total[g] + h[f]
  <2>1. \A e \in Fill : \A n \in Share :
           Total[[g EXCEPT ![e] = n]] + g[e] = Total[g] + n
    BY TotalAssumption, Zenon
  <2>2. h[f] \in Share
    OBVIOUS
  <2> QED BY <2>1, <2>2, Zenon
<1>3. Total[h] + g[f] = Total[g] + h[f]
  BY <1>1, <1>2
<1>4. Total[g] \in Nat /\ Total[h] \in Nat
  BY TotalType
<1>5. g[f] \in Nat /\ h[f] \in Nat
  BY DEF Share
<1> QED BY <1>3, <1>4, <1>5

(* Dropping one fill's count to zero. *)
LEMMA TotalDrop ==
    ASSUME NEW g \in [Fill -> Share], NEW f \in Fill, NEW h,
           h = [g EXCEPT ![f] = 0]
    PROVE  /\ h \in [Fill -> Share]
           /\ Total[h] \in Nat
           /\ Total[h] = Total[g] - g[f]
<1>1. 0 \in Share
  BY DEF Share
<1>2. /\ h \in [Fill -> Share] /\ h[f] = 0
      /\ \A e \in Fill \ {f} : h[e] = g[e]
  BY <1>1
<1>3. Total[g] \in Nat
  BY TotalType
<1>4. /\ Total[h] \in Nat /\ g[f] \in Nat
      /\ Total[h] = Total[g] + 0 - g[f]
  BY <1>2, TotalExcept
<1> QED BY <1>2, <1>3, <1>4

LEMMA TotalZero ==
    ASSUME NEW g \in [Fill -> Share], \A f \in Fill : g[f] = 0
    PROVE  Total[g] = 0
<1>1. g = [f \in Fill |-> 0]
  OBVIOUS
<1> QED BY <1>1, TotalAssumption

(***************************************************************************)
(* The number of fills under way.                                          *)
(***************************************************************************)

LEMMA CountedFinite == IsFiniteSet(Counted) /\ Cardinality(Counted) \in Nat
BY FS_Subset, FS_CardinalityType DEF Counted

LEMMA CountSame ==
    ASSUME CountInv, Counted' = Counted, active' = active
    PROVE  CountInv'
BY DEF CountInv

(* A fill that is counted accounts for one. *)
LEMMA CountPositive ==
    ASSUME CountInv, NEW f \in Counted
    PROVE  active \in Nat /\ active > 0
BY CountedFinite, FS_EmptySet DEF CountInv

(***************************************************************************)
(* The invariant is inductive.                                             *)
(***************************************************************************)

LEMMA InvInit == Init => IInv
<1> SUFFICES ASSUME Init
             PROVE  IInv
  OBVIOUS
<1> USE DEF Init
<1>1. 0 \in Share
  BY DEF Share
<1>2. TypeOK
  <2>1. /\ limit \in [Fill -> Share] /\ room \in [Fill -> Share]
        /\ staged \in [Fill -> Share]
    BY <1>1
  <2>2. retained \in Nat
    OBVIOUS
  <2> QED BY <2>1, <2>2 DEF TypeOK, Labels
<1>3. Counted = {} /\ Working = {}
  BY DEF Counted, Working
<1>4. CountInv
  BY <1>3, FS_EmptySet DEF CountInv
<1>5. Total[room] = 0 /\ Total[staged] = 0
  BY TotalAssumption
<1> QED BY <1>2, <1>3, <1>4, <1>5
        DEF IInv, MutexInv, DownInv, DrainInv, RoomInv, ReservedInv, HeadroomInv

(* Coordinator::new. *)
LEMMA BootStep ==
    ASSUME IInv, Boot
    PROVE  IInv'
<1> USE DEF stateVars, fillVars, diskVars
<1>t. TypeOK
  BY DEF IInv
<1>1. TypeOK'
  BY <1>t DEF TypeOK, Boot, Fits
<1>2. Counted' = Counted /\ Working' = Working
  BY DEF Boot, Counted, Working
<1>3. /\ \A g \in Fill : pc[g] = "idle"
      /\ Working = {}
  BY DEF IInv, DownInv, Boot, Working
<1>4. Total[room] = 0 /\ Total[staged] = 0
  BY <1>t, <1>3, TotalZero DEF TypeOK, IInv, RoomInv
<1> QED BY <1>t, <1>1, <1>2, <1>3, <1>4
        DEF Boot, Fits, IInv, TypeOK, MutexInv, CountInv, DownInv, DrainInv,
            RoomInv, ReservedInv, HeadroomInv

(* The steps of admit. *)
LEMMA AdmitStep ==
    ASSUME IInv, NEW f \in Fill, AdmitLock(f) \/ Admit(f) \/ Refuse(f)
    PROVE  IInv'
<1> USE DEF stateVars, fillVars, diskVars, Goto
<1>t. TypeOK
  BY DEF IInv
<1>z. 0 \in Share /\ MaxArtifact \in Share
  BY DEF Share
<1>n. Total[room] \in Nat /\ Total[staged] \in Nat
  BY <1>t, TotalType DEF TypeOK
<1>1. CASE AdmitLock(f)
  <2>1. TypeOK'
    BY <1>t, <1>1, <1>z DEF TypeOK, AdmitLock, Labels, Share
  <2>2. Counted' = Counted /\ Working' = Working
    BY <1>t, <1>1 DEF TypeOK, AdmitLock, Counted, Working
  <2>3. MutexInv'
    BY <1>t, <1>1 DEF IInv, TypeOK, MutexInv, AdmitLock
  <2>4. DownInv' /\ DrainInv'
    BY <1>t, <1>1 DEF IInv, TypeOK, DownInv, DrainInv, AdmitLock
  <2> QED BY <1>1, <2>1, <2>2, <2>3, <2>4
          DEF AdmitLock, IInv, CountInv, RoomInv, ReservedInv, HeadroomInv
<1>2. CASE Admit(f)
  <2>1. f \notin Working /\ room[f] = 0 /\ staged[f] = 0
    BY <1>2 DEF IInv, RoomInv, Working, Admit
  <2>2. /\ limit[f] \in Share /\ limit[f] \in Nat
        /\ room' \in [Fill -> Share]
        /\ Total[room'] = Total[room] + limit[f]
        /\ staged' = staged
    <3>1. limit[f] \in Share
      BY <1>t DEF TypeOK
    <3>2. limit[f] \in Nat
      BY <3>1 DEF Share
    <3>3. /\ room' = [room EXCEPT ![f] = limit[f]] /\ room \in [Fill -> Share]
          /\ staged' = staged
      BY <1>t, <1>2 DEF TypeOK, Admit
    <3>4. /\ room' \in [Fill -> Share] /\ room'[f] = limit[f]
          /\ \A e \in Fill \ {f} : room'[e] = room[e]
      BY <3>1, <3>3
    <3>5. Total[room'] = Total[room] + room'[f] - room[f]
      BY <3>3, <3>4, TotalExcept
    <3> QED BY <1>n, <2>1, <3>1, <3>2, <3>3, <3>4, <3>5
  <2>3. TypeOK'
    BY <1>t, <1>2, <2>2 DEF TypeOK, Admit, Labels
  <2>4. Counted' = Counted \cup {f} /\ f \notin Counted
    BY <1>t, <1>2 DEF TypeOK, Admit, Counted
  <2>5. CountInv'
    BY <1>2, <2>4, CountedFinite, FS_AddElement DEF IInv, CountInv, Admit
  <2>6. MutexInv' /\ DownInv'
    BY <1>t, <1>2 DEF IInv, TypeOK, MutexInv, DownInv, Admit
  <2>7. DrainInv'
    BY <1>t, <1>2 DEF IInv, TypeOK, MutexInv, DrainInv, Admit
  <2>8. RoomInv'
    BY <1>t, <1>2, <2>1, <2>2 DEF IInv, TypeOK, RoomInv, Working, Share, Admit
  <2>9. ReservedInv' /\ HeadroomInv'
    <3>1. /\ reserved' = reserved + limit[f]
          /\ UNCHANGED <<up, retained, leaked>>
          /\ MinFree + reserved + limit[f] + retained + leaked + Total[staged]
                <= Capacity
      BY <1>2 DEF Admit, Admissible
    <3> QED BY <1>t, <1>n, <2>2, <3>1 DEF IInv, TypeOK, ReservedInv, HeadroomInv
  <2> QED BY <2>3, <2>5, <2>6, <2>7, <2>8, <2>9 DEF IInv
<1>3. CASE Refuse(f)
  <2>1. TypeOK'
    BY <1>t, <1>3, <1>z DEF TypeOK, Refuse, Labels
  <2>2. Counted' = Counted /\ Working' = Working
    BY <1>t, <1>3 DEF TypeOK, Refuse, Counted, Working
  <2>3. MutexInv' /\ DownInv' /\ DrainInv'
    BY <1>t, <1>3 DEF IInv, TypeOK, MutexInv, DownInv, DrainInv, Refuse
  <2> QED BY <1>3, <2>1, <2>2, <2>3
          DEF Refuse, IInv, CountInv, RoomInv, ReservedInv, HeadroomInv
<1> QED BY <1>1, <1>2, <1>3

(* The steps of a fill. *)
LEMMA FillStep ==
    ASSUME IInv, NEW f \in Fill, Write(f) \/ Discard(f) \/ Publish(f) \/ Finish(f)
    PROVE  IInv'
<1> USE DEF stateVars, fillVars, diskVars, Goto
<1>t. TypeOK
  BY DEF IInv
<1>z. 0 \in Share
  BY DEF Share
<1>n. Total[room] \in Nat /\ Total[staged] \in Nat
  BY <1>t, TotalType DEF TypeOK
<1>f. /\ room[f] \in Nat /\ staged[f] \in Nat
      /\ room[f] \in Share /\ staged[f] \in Share
      /\ room[f] + staged[f] <= MaxArtifact
  BY <1>t DEF TypeOK, IInv, RoomInv, Share
<1>1. CASE Write(f)
  <2>1. PICK n \in 1..room[f] :
           /\ room' = [room EXCEPT ![f] = room[f] - n]
           /\ staged' = [staged EXCEPT ![f] = staged[f] + n]
    BY <1>1, <1>t DEF Write, TypeOK
  <2>2. room[f] - n \in Share /\ staged[f] + n \in Share /\ n \in Nat
    BY <1>f, <2>1 DEF Share
  <2>3. /\ room' \in [Fill -> Share] /\ staged' \in [Fill -> Share]
        /\ Total[room'] = Total[room] - n
        /\ Total[staged'] = Total[staged] + n
    <3>1. /\ room' \in [Fill -> Share] /\ room'[f] = room[f] - n
          /\ \A e \in Fill \ {f} : room'[e] = room[e]
      BY <1>t, <2>1, <2>2 DEF TypeOK
    <3>2. /\ staged' \in [Fill -> Share] /\ staged'[f] = staged[f] + n
          /\ \A e \in Fill \ {f} : staged'[e] = staged[e]
      BY <1>t, <2>1, <2>2 DEF TypeOK
    <3>3. Total[room'] = Total[room] + room'[f] - room[f]
      BY <1>t, <3>1, TotalExcept DEF TypeOK
    <3>4. Total[staged'] = Total[staged] + staged'[f] - staged[f]
      BY <1>t, <3>2, TotalExcept DEF TypeOK
    <3> QED BY <1>f, <1>n, <2>2, <3>1, <3>2, <3>3, <3>4
  <2>4. UNCHANGED <<up, mutex, stateVars, pc, limit, diskVars, crashes>>
    BY <1>1 DEF Write
  <2>5. TypeOK'
    BY <1>t, <2>3, <2>4 DEF TypeOK
  <2>6. RoomInv'
    BY <1>t, <1>1, <1>f, <2>1, <2>2, <2>4
       DEF IInv, TypeOK, RoomInv, Working, Write
  <2>7. ReservedInv' /\ HeadroomInv'
    BY <1>t, <1>n, <2>2, <2>3, <2>4
       DEF IInv, TypeOK, ReservedInv, HeadroomInv, Working
  <2> QED BY <2>4, <2>5, <2>6, <2>7
          DEF IInv, MutexInv, CountInv, Counted, DownInv, DrainInv
<1>2. CASE Discard(f)
  <2>1. staged' = [staged EXCEPT ![f] = 0]
        /\ UNCHANGED <<up, mutex, stateVars, pc, limit, room, diskVars, crashes>>
    BY <1>2 DEF Discard
  <2>2. staged' \in [Fill -> Share] /\ Total[staged'] = Total[staged] - staged[f]
    BY <1>t, <2>1, TotalDrop DEF TypeOK
  <2>3. TypeOK'
    BY <1>t, <2>1, <2>2 DEF TypeOK
  <2>4. RoomInv'
    BY <1>t, <1>f, <2>1 DEF IInv, TypeOK, RoomInv, Working
  <2>5. Total[staged'] \in Nat
    BY <2>2, TotalType
  <2>6. ReservedInv' /\ HeadroomInv'
    BY <1>t, <1>n, <1>f, <2>1, <2>2, <2>5
       DEF IInv, TypeOK, ReservedInv, HeadroomInv, Working
  <2> QED BY <2>1, <2>3, <2>4, <2>6
          DEF IInv, MutexInv, CountInv, Counted, DownInv, DrainInv
<1>3. CASE Publish(f)
  <2>1. /\ retained' \in {retained, retained + staged[f]}
        /\ staged' = [staged EXCEPT ![f] = 0]
        /\ pc[f] = "filling"
        /\ pc' = [pc EXCEPT ![f] = "uploading"] \/ pc' = pc
        /\ UNCHANGED <<up, mutex, stateVars, limit, room, leaked, crashes>>
    BY <1>3 DEF Publish
  <2>2. staged' \in [Fill -> Share] /\ Total[staged'] = Total[staged] - staged[f]
    BY <1>t, <2>1, TotalDrop DEF TypeOK
  <2>3. TypeOK'
    BY <1>t, <1>f, <2>1, <2>2 DEF TypeOK, Labels
  <2>4. Counted' = Counted /\ Working' = Working
    BY <1>t, <2>1 DEF TypeOK, Counted, Working
  <2>5. MutexInv' /\ DownInv' /\ DrainInv'
    BY <1>t, <2>1 DEF IInv, TypeOK, MutexInv, DownInv, DrainInv
  <2>6. RoomInv'
    BY <1>t, <1>f, <2>1, <2>4 DEF IInv, TypeOK, RoomInv
  <2>7. ReservedInv' /\ HeadroomInv'
    BY <1>t, <1>n, <1>f, <2>1, <2>2, <2>4
       DEF IInv, TypeOK, ReservedInv, HeadroomInv
  <2> QED BY <2>1, <2>3, <2>4, <2>5, <2>6, <2>7 DEF IInv, CountInv
<1>4. CASE Finish(f)
  <2>1. /\ pc[f] \in {"filling", "uploading"}
        /\ staged' = [staged EXCEPT ![f] = 0]
        /\ room' = [room EXCEPT ![f] = 0]
        /\ limit' = [limit EXCEPT ![f] = 0]
        /\ pc' = [pc EXCEPT ![f] = "finishing"]
        /\ UNCHANGED <<up, mutex, stateVars, diskVars, crashes>>
    BY <1>4 DEF Finish
  <2>2. /\ staged' \in [Fill -> Share] /\ Total[staged'] = Total[staged] - staged[f]
        /\ room' \in [Fill -> Share] /\ Total[room'] = Total[room] - room[f]
    BY <1>t, <2>1, TotalDrop DEF TypeOK
  <2>3. TypeOK'
    BY <1>t, <1>z, <2>1, <2>2 DEF TypeOK, Labels
  <2>4. Counted' = Counted /\ Working' \subseteq Working
    BY <1>t, <2>1 DEF TypeOK, Counted, Working
  <2>5. MutexInv' /\ DownInv' /\ DrainInv'
    BY <1>t, <2>1 DEF IInv, TypeOK, MutexInv, DownInv, DrainInv
  <2>6. RoomInv'
    BY <1>t, <2>1 DEF IInv, TypeOK, RoomInv, Working
  <2>7. ReservedInv' /\ HeadroomInv'
    BY <1>t, <1>n, <1>f, <2>1, <2>2, <2>4
       DEF IInv, TypeOK, ReservedInv, HeadroomInv
  <2> QED BY <2>1, <2>3, <2>4, <2>5, <2>6, <2>7 DEF IInv, CountInv
<1> QED BY <1>1, <1>2, <1>3, <1>4

(* While the coordinator counts no active fill, none works. *)
LEMMA NoneWorking ==
    ASSUME IInv, active = 0
    PROVE  /\ Working = {} /\ Counted = {}
           /\ Total[room] = 0 /\ Total[staged] = 0
<1>1. Counted = {}
  BY CountedFinite, FS_EmptySet DEF IInv, CountInv
<1>2. Working = {}
  BY <1>1 DEF Working, Counted
<1>3. /\ room \in [Fill -> Share] /\ staged \in [Fill -> Share]
      /\ \A f \in Fill : room[f] = 0 /\ staged[f] = 0
  BY <1>2 DEF IInv, TypeOK, RoomInv
<1> QED BY <1>1, <1>2, <1>3, TotalZero

(* The steps of finish and maintain. *)
LEMMA MaintainStep ==
    ASSUME IInv, NEW f \in Fill,
           \/ FinishLock(f) \/ Collect(f) \/ CollectError(f)
           \/ Reopen(f) \/ AboveBudget(f)
    PROVE  IInv'
<1> USE DEF stateVars, fillVars, diskVars, Goto
<1>t. TypeOK
  BY DEF IInv
<1>n. Total[room] \in Nat /\ Total[staged] \in Nat
  BY <1>t, TotalType DEF TypeOK
<1>1. CASE FinishLock(f)
  <2>1. f \in Counted
    BY <1>1 DEF Counted, FinishLock
  <2>2. Counted' = Counted \ {f} /\ Working' = Working
    BY <1>t, <1>1 DEF TypeOK, Counted, Working, FinishLock
  <2>3. active \in Nat /\ active > 0 /\ active' = active - 1
    BY <1>1, <2>1, CountPositive DEF IInv, FinishLock
  <2>4. CountInv'
    BY <2>1, <2>2, <2>3, CountedFinite, FS_RemoveElement DEF IInv, CountInv
  <2>5. TypeOK'
    BY <1>t, <1>1, <2>3 DEF TypeOK, FinishLock, Labels
  <2>6. MutexInv'
    BY <1>t, <1>1 DEF IInv, TypeOK, MutexInv, FinishLock
  <2>7. DownInv' /\ DrainInv'
    BY <1>t, <1>1, <2>3 DEF IInv, TypeOK, DownInv, DrainInv, MutexInv, FinishLock
  <2> QED BY <1>1, <2>2, <2>4, <2>5, <2>6, <2>7
          DEF FinishLock, IInv, RoomInv, ReservedInv, HeadroomInv
<1>2. CASE Collect(f) \/ CollectError(f)
  <2>1. active = 0
    BY <1>2 DEF IInv, DrainInv, Collect, CollectError
  <2>2. /\ Counted' = Counted /\ Working' = Working /\ Working = {}
        /\ UNCHANGED <<up, active, reserved, maintenance, room, staged, limit,
                       leaked, crashes>>
        /\ retained' \in Nat /\ retained' <= retained
    BY <1>t, <1>2, <2>1, NoneWorking
       DEF TypeOK, Counted, Working, Collect, CollectError
  <2>3. TypeOK'
    BY <1>t, <1>2, <2>2 DEF TypeOK, Collect, CollectError, Labels
  <2>4. MutexInv' /\ DownInv' /\ DrainInv'
    BY <1>t, <1>2, <2>1
       DEF IInv, TypeOK, MutexInv, DownInv, DrainInv, Collect, CollectError
  <2>5. RoomInv' /\ HeadroomInv'
    BY <2>2 DEF IInv, RoomInv, HeadroomInv
  <2>6. ReservedInv'
    BY <1>t, <1>n, <2>2 DEF IInv, TypeOK, ReservedInv
  <2> QED BY <2>2, <2>3, <2>4, <2>5, <2>6 DEF IInv, CountInv
<1>3. CASE Reopen(f)
  <2>1. active = 0
    BY <1>3 DEF IInv, DrainInv, Reopen
  <2>2. /\ Counted' = Counted /\ Working' = Working /\ Working = {}
        /\ Total[room] = 0 /\ Total[staged] = 0
    BY <1>t, <1>3, <2>1, NoneWorking DEF TypeOK, Counted, Working, Reopen
  <2>3. TypeOK'
    BY <1>t, <1>3 DEF TypeOK, Reopen, Labels
  <2>4. MutexInv' /\ DownInv' /\ DrainInv'
    BY <1>t, <1>3 DEF IInv, TypeOK, MutexInv, DownInv, DrainInv, Reopen
  <2>5. ReservedInv'
    BY <1>t, <1>3, <2>2 DEF IInv, TypeOK, ReservedInv, Fits, Reopen
  <2> QED BY <1>3, <2>2, <2>3, <2>4, <2>5
          DEF Reopen, IInv, CountInv, RoomInv, HeadroomInv
<1>4. CASE AboveBudget(f)
  <2>1. Counted' = Counted /\ Working' = Working
    BY <1>t, <1>4 DEF TypeOK, Counted, Working, AboveBudget
  <2>2. TypeOK'
    BY <1>t, <1>4 DEF TypeOK, AboveBudget, Labels
  <2>3. MutexInv' /\ DownInv' /\ DrainInv'
    BY <1>t, <1>4 DEF IInv, TypeOK, MutexInv, DownInv, DrainInv, AboveBudget
  <2> QED BY <1>4, <2>1, <2>2, <2>3
          DEF AboveBudget, IInv, CountInv, RoomInv, ReservedInv, HeadroomInv
<1> QED BY <1>1, <1>2, <1>3, <1>4

(* A crash forgets State and leaves the temp files. *)
LEMMA CrashStep ==
    ASSUME IInv, Crash
    PROVE  IInv'
<1>t. TypeOK
  BY DEF IInv
<1>1. /\ up' = FALSE /\ mutex' = None /\ active' = 0 /\ reserved' = 0
      /\ maintenance' = FALSE /\ failed' = FALSE
      /\ pc' = [f \in Fill |-> "idle"] /\ limit' = [f \in Fill |-> 0]
      /\ room' = [f \in Fill |-> 0] /\ staged' = [f \in Fill |-> 0]
      /\ leaked' = leaked + Total[staged] /\ crashes' = crashes + 1
      /\ retained' = retained
  BY DEF Crash
<1>2. 0 \in Share /\ Total[staged] \in Nat
  <2>1. 0 \in Share
    BY DEF Share
  <2> QED BY <1>t, <2>1, TotalType DEF TypeOK
<1>3. TypeOK'
  <2>1. /\ limit' \in [Fill -> Share] /\ room' \in [Fill -> Share]
        /\ staged' \in [Fill -> Share] /\ pc' \in [Fill -> Labels]
    BY <1>1, <1>2 DEF Labels
  <2>2. leaked' \in Nat /\ crashes' \in Nat /\ retained' \in Nat
    BY <1>t, <1>1, <1>2 DEF TypeOK
  <2> QED BY <1>1, <2>1, <2>2 DEF TypeOK
<1>4. Counted' = {} /\ Working' = {}
  BY <1>1 DEF Counted, Working
<1>5. CountInv'
  BY <1>1, <1>4, FS_EmptySet DEF CountInv
<1>6. Total[room'] = 0
  BY <1>1, TotalAssumption
<1> QED BY <1>1, <1>3, <1>4, <1>5, <1>6
        DEF IInv, MutexInv, DownInv, DrainInv, RoomInv, ReservedInv, HeadroomInv

LEMMA InvStep == IInv /\ [Next]_vars => IInv'
<1>1. ASSUME IInv, UNCHANGED vars
      PROVE  IInv'
  BY <1>1 DEF vars, stateVars, fillVars, diskVars, IInv, TypeOK, MutexInv,
       CountInv, Counted, DownInv, DrainInv, RoomInv, ReservedInv, HeadroomInv,
       Working
<1>2. ASSUME IInv, NEW f \in Fill,
             AdmitLock(f) \/ Transfer(f) \/ FinishLock(f) \/ Proceed(f)
      PROVE  IInv'
  <2>1. CASE AdmitLock(f) \/ Admit(f) \/ Refuse(f)
    BY <1>2, <2>1, AdmitStep
  <2>2. CASE Write(f) \/ Discard(f) \/ Publish(f) \/ Finish(f)
    BY <1>2, <2>2, FillStep
  <2>3. CASE \/ FinishLock(f) \/ Collect(f) \/ CollectError(f)
             \/ Reopen(f) \/ AboveBudget(f)
    BY <1>2, <2>3, MaintainStep
  <2> QED BY <1>2, <2>1, <2>2, <2>3 DEF Transfer, Proceed
<1>3. ASSUME IInv, Boot
      PROVE  IInv'
  BY <1>3, BootStep
<1> QED BY <1>1, <1>2, <1>3, CrashStep DEF Next

LEMMA Inductive == Spec => []IInv
BY InvInit, InvStep, PTL DEF Spec

(***************************************************************************)
(* Theorems.                                                               *)
(***************************************************************************)

(* Every reachable state is well typed; the counts of State never go below *)
(* zero (the guard's decrement in finish always matches an admission).     *)
THEOREM TypeCorrect == Spec => []TypeOK
BY Inductive, PTL DEF IInv

(* State counts the fills under way and its reservations cover them.       *)
THEOREM Invariance == Spec => []IInv
BY Inductive

(* gc and its measurements run only while no fill writes, publishes or     *)
(* reads (Coordinator::finish and maintain).                               *)
THEOREM Quiescence == Spec => []QuiescentMaintenance
<1>1. IInv => QuiescentMaintenance
  BY NoneWorking DEF IInv, DrainInv, QuiescentMaintenance
<1> QED BY <1>1, Inductive, PTL

(* Blobs and temp files never exceed the retained budget plus outstanding  *)
(* reservations (spec section 17).                                         *)
THEOREM Envelope == Spec => []PayloadEnvelope
<1>1. IInv => PayloadEnvelope
  BY TotalType DEF IInv, TypeOK, ReservedInv, PayloadEnvelope
<1> QED BY <1>1, Inductive, PTL

(* While a fill is under way min_free_bytes stay free even if every fill   *)
(* uses up its reservation (Coordinator::admit).                           *)
THEOREM Headroom == Spec => []HeadroomKept
<1>1. IInv => HeadroomKept
  BY TotalType DEF IInv, TypeOK, HeadroomInv, HeadroomKept, Free
<1> QED BY <1>1, Inductive, PTL

(* No fill starts between the first finishing fill and a successful        *)
(* maintenance, nor after a failed one (Coordinator::admit and finish).    *)
THEOREM Closed == Spec => ClosedWhileDraining
<1>1. ASSUME IInv, [Next]_vars, maintenance \/ failed
      PROVE  Working' \subseteq Working
  <2> USE DEF stateVars, fillVars, diskVars, Goto, Working
  <2>1. ASSUME NEW f \in Fill,
               AdmitLock(f) \/ Transfer(f) \/ FinishLock(f) \/ Proceed(f)
        PROVE  Working' \subseteq Working
    BY <1>1, <2>1 DEF IInv, TypeOK, AdmitLock, Transfer, Write, Discard, Publish,
         Proceed, Admit, Admissible, Refuse, Finish, FinishLock, Collect, CollectError,
         Reopen, AboveBudget
  <2> QED BY <1>1, <2>1 DEF Next, Boot, Crash, vars
<1> QED BY <1>1, Inductive, PTL DEF Spec, ClosedWhileDraining
===============================================================================
