--------------------------- MODULE FillCoordinator ---------------------------
(***************************************************************************)
(* Admission of cold fills and quiescent maintenance of a server-owned     *)
(* cache (src/src/server/cache.rs, and the budget a fill writes under,     *)
(* src/src/store/mod.rs).                                                  *)
(*                                                                         *)
(* A request that misses in S3 is admitted (try_lock on one mutex) with a  *)
(* reservation of bytes, fills the cache and uploads from it, and finishes *)
(* when its guard drops.  A finishing fill closes admission; the one that  *)
(* finds no other active runs gc with the mutex held, measures the blobs   *)
(* again and, if they fit max_bytes, releases all reservations at once.    *)
(*                                                                         *)
(* Bytes are counted, not held: retained blobs, staged temp files and the  *)
(* room each fill has left.  What gc removes is left open (LocalStore has  *)
(* its steps); the independent measurement decides.                        *)
(*                                                                         *)
(* Operators whose comment begins with "Mutant" are wrong on purpose: a    *)
(* property is known to notice when one replaces the operator after it.    *)
(***************************************************************************)
EXTENDS Integers, FiniteSets

CONSTANTS
    Fill,           \* request workers
    Expected,       \* sizes the manifest records for artifacts
    MaxBytes,       \* ServiceCachePolicy::max_bytes
    MaxFills,       \* max_concurrent_fills
    MaxArtifact,    \* max_artifact_bytes
    MaxInflight,    \* max_inflight_bytes
    MinFree,        \* min_free_bytes
    Capacity,       \* size of the file system holding the cache
    Total,          \* sum of a bounded byte count over the fills
    MaxCrashes,     \* bound on crashes of the server
    None

(* ServiceCachePolicy::validate; byte counts are u64, which validate and   *)
(* the checked additions of admit keep from wrapping.                      *)
ASSUME PolicyAssumption ==
    /\ MaxBytes \in Nat /\ MinFree \in Nat /\ Capacity \in Nat
    /\ MaxFills \in Nat \ {0}
    /\ MaxArtifact \in Nat \ {0}
    /\ MaxInflight \in Nat /\ MaxInflight >= MaxArtifact
    /\ Expected \subseteq Nat
    /\ MaxCrashes \in Nat
    /\ IsFiniteSet(Fill)
    /\ None \notin Fill \cup Nat

Share == 0..MaxArtifact

(* Total is the sum over all fills, given by its laws.                     *)
ASSUME TotalAssumption ==
    /\ Total \in [[Fill -> Share] -> Nat]
    /\ Total[[f \in Fill |-> 0]] = 0
    /\ \A g \in [Fill -> Share] : \A f \in Fill : \A n \in Share :
           Total[[g EXCEPT ![f] = n]] + g[f] = Total[g] + n

VARIABLES
    up,             \* the coordinator exists
    mutex,          \* holder of Coordinator::state
    active, reserved, maintenance, failed,  \* State
    pc,             \* next step of each worker
    limit,          \* FillGuard::limit
    room,           \* bytes left of the fill's budget
    staged,         \* bytes in the fill's temp file
    retained,       \* bytes of all blobs, orphans included
    leaked,         \* bytes of temp files left by crashes
    crashes

stateVars == <<active, reserved, maintenance, failed>>
diskVars  == <<retained, leaked>>
fillVars  == <<limit, room, staged>>
vars == <<up, mutex, stateVars, pc, fillVars, diskVars, crashes>>

-----------------------------------------------------------------------------
Free == Capacity - (retained + leaked + Total[staged])

Goto(f, label) == pc' = [pc EXCEPT ![f] = label]

\* Mutant: the independent measurement is ignored.
FitsAnyhow(bytes) == bytes \in Nat

\* maintain() is over, with the blobs measured at `bytes'.
Fits(bytes) == bytes <= MaxBytes

Init ==
    /\ up = FALSE
    /\ mutex = None
    /\ active = 0 /\ reserved = 0 /\ maintenance = FALSE /\ failed = FALSE
    /\ pc = [f \in Fill |-> "idle"]
    /\ limit = [f \in Fill |-> 0]
    /\ room = [f \in Fill |-> 0]
    /\ staged = [f \in Fill |-> 0]
    /\ retained \in 0..Capacity
    /\ leaked = 0
    /\ crashes = 0

(* Coordinator::new: gc and measure before any request; failure aborts.    *)
Boot ==
    /\ ~up
    /\ \E bytes \in 0..retained :
          /\ retained' = bytes
          /\ up' = Fits(bytes)
    /\ UNCHANGED <<mutex, stateVars, pc, fillVars, leaked, crashes>>

-----------------------------------------------------------------------------
(* admit                                                                   *)

\* A larger expectation is TransferLimit, a held mutex "admission busy":
\* either way the request is answered and nothing changes.
AdmitLock(f) ==
    /\ up /\ pc[f] = "idle"
    /\ mutex = None
    /\ mutex' = f
    /\ \E e \in (Expected \cap 0..MaxArtifact) \cup {MaxArtifact} :
          limit' = [limit EXCEPT ![f] = e]
    /\ Goto(f, "admitting")
    /\ UNCHANGED <<up, stateVars, room, staged, diskVars, crashes>>

\* Mutant: admission does not look at maintenance.
AdmissibleWhileDraining(f) ==
    /\ ~failed
    /\ active < MaxFills
    /\ reserved + limit[f] <= MaxInflight

\* Mutant: the headroom covers this fill's reservation only.
AdmissibleAlone(f) ==
    /\ ~failed /\ ~maintenance
    /\ active < MaxFills
    /\ reserved + limit[f] <= MaxInflight
    /\ MinFree + limit[f] + retained + leaked + Total[staged] <= Capacity

Admissible(f) ==
    /\ ~failed /\ ~maintenance
    /\ active < MaxFills
    /\ reserved + limit[f] <= MaxInflight
    /\ MinFree + reserved + limit[f] + retained + leaked + Total[staged]
          <= Capacity

\* Mutant: the reservation is checked and not recorded.
AdmitUnreserved(f) ==
    /\ pc[f] = "admitting"
    /\ Admissible(f)
    /\ active' = active + 1
    /\ room' = [room EXCEPT ![f] = limit[f]]
    /\ mutex' = None
    /\ Goto(f, "filling")
    /\ UNCHANGED <<up, reserved, maintenance, failed, limit, staged, diskVars, crashes>>

Admit(f) ==
    /\ pc[f] = "admitting"
    /\ Admissible(f)
    /\ active' = active + 1
    /\ reserved' = reserved + limit[f]
    /\ room' = [room EXCEPT ![f] = limit[f]]
    /\ mutex' = None
    /\ Goto(f, "filling")
    /\ UNCHANGED <<up, maintenance, failed, limit, staged, diskVars, crashes>>

Refuse(f) ==
    /\ pc[f] = "admitting"
    /\ ~Admissible(f)
    /\ limit' = [limit EXCEPT ![f] = 0]
    /\ mutex' = None
    /\ Goto(f, "idle")
    /\ UNCHANGED <<up, stateVars, room, staged, diskVars, crashes>>

-----------------------------------------------------------------------------
(* The fill: get_limited under a cumulative budget, then upload.           *)

\* Receiver::write charges the budget first and never refunds it.  A write
\* the budget does not cover fails the transfer (Discard, then Finish).
Write(f) ==
    /\ pc[f] = "filling"
    /\ \E n \in 1..room[f] :
          /\ room' = [room EXCEPT ![f] = @ - n]
          /\ staged' = [staged EXCEPT ![f] = @ + n]
    /\ UNCHANGED <<up, mutex, stateVars, pc, limit, diskVars, crashes>>

\* An attempt fails: its temp file is deleted, another source may follow.
Discard(f) ==
    /\ pc[f] = "filling"
    /\ staged[f] > 0
    /\ staged' = [staged EXCEPT ![f] = 0]
    /\ UNCHANGED <<up, mutex, stateVars, pc, limit, room, diskVars, crashes>>

\* The temp file becomes a blob, or the blob was there already (a hit too);
\* from then on the worker reads the path it was given.  If the sidecar
\* cannot be written the blob is an orphan and another source may follow.
Publish(f) ==
    /\ pc[f] = "filling"
    /\ retained' \in {retained, retained + staged[f]}
    /\ staged' = [staged EXCEPT ![f] = 0]
    /\ Goto(f, "uploading") \/ UNCHANGED pc
    /\ UNCHANGED <<up, mutex, stateVars, limit, room, leaked, crashes>>

\* Success, error, panic or cancellation: the temp file is deleted and the
\* guard drops.
Finish(f) ==
    /\ pc[f] \in {"filling", "uploading"}
    /\ staged' = [staged EXCEPT ![f] = 0]
    /\ room' = [room EXCEPT ![f] = 0]
    /\ limit' = [limit EXCEPT ![f] = 0]
    /\ Goto(f, "finishing")
    /\ UNCHANGED <<up, mutex, stateVars, diskVars, crashes>>

-----------------------------------------------------------------------------
(* finish and maintain                                                     *)

\* Mutant: every finishing fill collects.
FinishCollects(f) ==
    /\ pc[f] = "finishing"
    /\ mutex = None
    /\ maintenance' = TRUE
    /\ active' = active - 1
    /\ Goto(f, "collecting") /\ mutex' = f
    /\ UNCHANGED <<up, reserved, failed, fillVars, diskVars, crashes>>

\* Closing admission and completing the fill are atomic.
FinishLock(f) ==
    /\ pc[f] = "finishing"
    /\ mutex = None
    /\ maintenance' = TRUE
    /\ active' = active - 1
    /\ IF active' # 0
          THEN Goto(f, "idle") /\ mutex' = None
          ELSE Goto(f, "collecting") /\ mutex' = f
    /\ UNCHANGED <<up, reserved, failed, fillVars, diskVars, crashes>>

\* gc runs to its end; how much it removed is seen by measuring.
Collect(f) ==
    /\ pc[f] = "collecting"
    /\ retained' \in 0..retained
    /\ Goto(f, "measuring")
    /\ UNCHANGED <<up, mutex, stateVars, fillVars, leaked, crashes>>

\* blob_bytes or gc fails, or panics, part of the way through.
CollectError(f) ==
    /\ pc[f] = "collecting"
    /\ retained' \in 0..retained
    /\ failed' = TRUE
    /\ mutex' = None
    /\ Goto(f, "idle")
    /\ UNCHANGED <<up, active, reserved, maintenance, fillVars, leaked, crashes>>

\* Mutant: reservations are released and admission stays closed.
ReopenForgotten(f) ==
    /\ pc[f] = "measuring"
    /\ Fits(retained)
    /\ reserved' = 0
    /\ mutex' = None
    /\ Goto(f, "idle")
    /\ UNCHANGED <<up, active, maintenance, failed, fillVars, diskVars, crashes>>

Reopen(f) ==
    /\ pc[f] = "measuring"
    /\ Fits(retained)
    /\ reserved' = 0
    /\ maintenance' = FALSE
    /\ mutex' = None
    /\ Goto(f, "idle")
    /\ UNCHANGED <<up, active, failed, fillVars, diskVars, crashes>>

AboveBudget(f) ==
    /\ pc[f] = "measuring"
    /\ ~Fits(retained)
    /\ failed' = TRUE
    /\ mutex' = None
    /\ Goto(f, "idle")
    /\ UNCHANGED <<up, active, reserved, maintenance, fillVars, diskVars, crashes>>

-----------------------------------------------------------------------------
(* The server dies: State and guards go with it, temp files stay.          *)
Crash ==
    /\ up /\ crashes < MaxCrashes
    /\ up' = FALSE
    /\ mutex' = None
    /\ active' = 0 /\ reserved' = 0 /\ maintenance' = FALSE /\ failed' = FALSE
    /\ pc' = [f \in Fill |-> "idle"]
    /\ limit' = [f \in Fill |-> 0]
    /\ room' = [f \in Fill |-> 0]
    /\ staged' = [f \in Fill |-> 0]
    /\ leaked' = leaked + Total[staged]
    /\ crashes' = crashes + 1
    /\ UNCHANGED retained

Transfer(f) == Write(f) \/ Discard(f) \/ Publish(f) \/ Finish(f)

\* What a holder of the mutex does waits for no network.
Proceed(f) == \/ Admit(f) \/ Refuse(f)
              \/ Collect(f) \/ CollectError(f) \/ Reopen(f) \/ AboveBudget(f)

Next == \/ Boot \/ Crash
        \/ \E f \in Fill :
              AdmitLock(f) \/ Transfer(f) \/ FinishLock(f) \/ Proceed(f)

Spec == Init /\ [][Next]_vars

(* Admission and maintenance end, for they work on local files, and a      *)
(* finishing guard that keeps finding the mutex free gets it in the end.   *)
(* Nothing makes a fill end: clients have no read or total timeout         *)
(* (store/mod.rs:158-159, fetch.rs:62-66), so an archive may stall for     *)
(* ever.                                                                   *)
Fairness == \A f \in Fill : WF_vars(Proceed(f)) /\ SF_vars(FinishLock(f))
FairSpec == Spec /\ Fairness

-----------------------------------------------------------------------------
(* Properties.                                                             *)

Labels == {"idle", "admitting", "filling", "uploading", "finishing",
           "collecting", "measuring"}

TypeOK ==
    /\ up \in BOOLEAN /\ maintenance \in BOOLEAN /\ failed \in BOOLEAN
    /\ mutex \in Fill \cup {None}
    /\ active \in Nat /\ reserved \in Nat
    /\ pc \in [Fill -> Labels]
    /\ limit \in [Fill -> Share]
    /\ room \in [Fill -> Share]
    /\ staged \in [Fill -> Share]
    /\ retained \in Nat /\ leaked \in Nat /\ crashes \in Nat

Working == {f \in Fill : pc[f] \in {"filling", "uploading"}}

(* gc and its measurements run only while no fill writes, publishes or     *)
(* reads a path it was given: fills cannot lose each other's blobs, shared *)
(* ones included (cache.rs:133-134, spec section 17).                      *)
QuiescentMaintenance ==
    (\E f \in Fill : pc[f] \in {"collecting", "measuring"}) => Working = {}

(* The payload envelope of spec section 17: blobs and temp files together  *)
(* never exceed the retained budget plus outstanding reservations, through *)
(* retries, orphans and fills that finish while others go on.              *)
PayloadEnvelope ==
    up => retained + Total[staged] <= MaxBytes + reserved

(* While a fill is under way the file system keeps min_free_bytes free     *)
(* even if every fill uses up its reservation (cache.rs:91-101).           *)
HeadroomKept ==
    Working # {} => Free >= MinFree + Total[room]

(* Admission stays closed from the first finishing fill until maintenance  *)
(* has succeeded, and for good once it has failed (cache.rs:127-142): no   *)
(* fill starts although admit and finish interleave at the mutex.          *)
ClosedWhileDraining ==
    [][maintenance \/ failed => Working' \subseteq Working]_vars

(* The inductive invariant behind these: who holds the mutex, what State   *)
(* counts, and that reservations cover the room that fills have left.      *)
Counted == {f \in Fill : pc[f] \in {"filling", "uploading", "finishing"}}

MutexInv == \A f \in Fill :
    pc[f] \in {"admitting", "collecting", "measuring"} <=> mutex = f

CountInv == active = Cardinality(Counted)

DownInv == ~up => \A f \in Fill : pc[f] = "idle"

DrainInv == \A f \in Fill :
    pc[f] \in {"collecting", "measuring"} => active = 0

RoomInv == \A f \in Fill :
    /\ room[f] + staged[f] <= MaxArtifact
    /\ f \notin Working => room[f] = 0 /\ staged[f] = 0

ReservedInv ==
    /\ Total[room] <= reserved
    /\ up => retained + Total[staged] + Total[room] <= MaxBytes + reserved

HeadroomInv == Working # {} =>
    MinFree + Total[room] + Total[staged] + retained + leaked <= Capacity

IInv == /\ TypeOK
        /\ MutexInv /\ CountInv /\ DownInv /\ DrainInv
        /\ RoomInv /\ ReservedInv /\ HeadroomInv

(* Once no fill is under way a drain ends: admission reopens, or is closed *)
(* for good, whatever the refused requests do meanwhile.  (While a fill    *)
(* stalls the drain waits for it, and admission stays closed.)             *)
DrainEnds == (maintenance /\ Working = {}) ~> (~maintenance \/ failed)
===============================================================================
