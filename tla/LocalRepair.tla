------------------------------ MODULE LocalRepair ------------------------------
(***************************************************************************)
(* `verify [--repair]' of the local cache (verify_local of                 *)
(* src/src/bin/starfield-datastore.rs): a script of LocalStore's calls,    *)
(* run by one process while others use the same directory.                 *)
(*                                                                         *)
(* It gets every artifact of the manifest offline, which rehashes it; if   *)
(* any fails it verifies the index, and with --repair removes the failed   *)
(* keys, all of them first, and then fetches each again.  Damage from      *)
(* outside is done before it starts.                                       *)
(***************************************************************************)
EXTENDS LocalStore

CONSTANTS
    Cli,        \* the process that verifies
    Manifest,   \* its artifacts, in order
    Others      \* the operations other processes use

Verdicts == {"clean", "damaged", "refused", "repaired", "error"}

ASSUME CliAssumption ==
    /\ Cli \in Proc
    /\ Manifest \in Seq(Artifact)
    /\ None \notin Verdicts

VARIABLES
    repair,     \* --repair was given
    phase,      \* "check", "verify", "remove", "fetch" or "over"
    todo,       \* artifacts the phase has not done yet
    failed,     \* those that failed the check
    outside,    \* damaged keys verify reported that are not the manifest's
    status      \* its verdict, None while it runs and if it dies

scriptVars == <<repair, phase, todo, failed, outside, status>>
allVars == <<vars, scriptVars>>

Keys(as) == {KeyOf[as[i]] : i \in DOMAIN as}

RepairInit ==
    /\ entry \in [Key -> Sidecar] /\ fetchedAt = [k \in Key |-> 0]
    /\ blob \in [Digest -> {"absent", "intact", "rotten"}]
    /\ NoDanglingEntry
    /\ keyLock = [k \in Key |-> None] /\ storeLock = None /\ clock = 0
    /\ pc = [p \in Proc |-> "idle"] /\ op = [p \in Proc |-> None]
    /\ key = [p \in Proc |-> None] /\ artifact = [p \in Proc |-> None]
    /\ bound = [p \in Proc |-> None]
    /\ sources = [p \in Proc |-> 0] /\ digest = [p \in Proc |-> None]
    /\ stamp = [p \in Proc |-> 0] /\ plan = [p \in Proc |-> NoPlan]
    /\ path = [p \in Proc |-> None]
    /\ repair \in BOOLEAN
    /\ todo = Manifest /\ failed = <<>> /\ outside = {}
    /\ IF Manifest = <<>> THEN phase = "over" /\ status = "clean"
                          ELSE phase = "check" /\ status = None

-----------------------------------------------------------------------------
Enter(next, as) == phase' = next /\ todo' = as

End(result) == Enter("over", <<>>) /\ status' = result

\* The next call of the script; a call with no sources is offline.
Call ==
    /\ CASE phase = "check"  -> Start(Cli, "get", KeyOf[Head(todo)], Head(todo), 0, "lockKey")
         [] phase = "fetch"  -> Start(Cli, "get", KeyOf[Head(todo)], Head(todo),
                                      MaxSources, "lockKey")
         [] phase = "remove" -> Start(Cli, "remove", KeyOf[Head(todo)], None, 0, "lockKey")
         [] phase = "verify" -> Start(Cli, "verify", None, None, 0, "verifyScan")
         [] OTHER            -> FALSE
    /\ UNCHANGED <<plan, scriptVars>>

\* VerifyReport, for the keys that are not the manifest's.
Notice == outside' = IF pc[Cli] = "verify" /\ plan[Cli].queue # <<>>
                        /\ blob[Victim(Cli).digest] # "intact"
                     THEN outside \cup ({Victim(Cli).key} \ Keys(Manifest))
                     ELSE outside

Checked ==
    LET bad == IF path'[Cli] = None THEN Append(failed, Head(todo)) ELSE failed IN
    /\ failed' = bad
    /\ CASE Tail(todo) # <<>>               -> Enter("check", Tail(todo)) /\ UNCHANGED status
         [] Tail(todo) = <<>> /\ bad = <<>> -> End("clean")
         [] OTHER                           -> Enter("verify", <<>>) /\ UNCHANGED status

\* Mutant: damage outside the manifest does not stop the repair.
VerifiedAnyhow ==
    /\ IF repair THEN Enter("remove", failed) /\ UNCHANGED status ELSE End("damaged")
    /\ UNCHANGED failed

Verified ==
    /\ CASE repair /\ outside # {} -> End("refused")
         [] repair /\ outside = {} -> Enter("remove", failed) /\ UNCHANGED status
         [] OTHER                  -> End("damaged")
    /\ UNCHANGED failed

\* Mutant: each key is fetched before the next one is removed.
RemovedOne ==
    /\ IF Len(todo) = Len(failed) THEN Enter("fetch", failed)
                                  ELSE Enter("remove", Tail(todo))
    /\ UNCHANGED <<failed, status>>

Removed ==
    /\ IF Tail(todo) = <<>> THEN Enter("fetch", failed) ELSE Enter("remove", Tail(todo))
    /\ UNCHANGED <<failed, status>>

Fetched ==
    /\ CASE path'[Cli] = None    -> End("error")
         [] Tail(todo) = <<>> /\ path'[Cli] # None -> End("repaired")
         [] OTHER                -> Enter("fetch", Tail(todo)) /\ UNCHANGED status
    /\ UNCHANGED failed

\* remove and verify fail on a sidecar they cannot parse.
CallFails ==
    \/ pc[Cli] = "unlinkEntry" /\ entry[key[Cli]] = Malformed
    \/ pc[Cli] \in {"refScan", "verifyScan"} /\ ~Readable

\* A step of the call under way, and what the script makes of its return.
CallStep ==
    /\ Step(Cli)
    /\ Notice
    /\ CASE pc'[Cli] # "idle" -> UNCHANGED <<phase, todo, failed, status>>
         [] pc'[Cli] = "idle" /\ CallFails /\ phase \in {"verify", "remove"} ->
                End("error") /\ UNCHANGED failed
         [] pc'[Cli] = "idle" /\ phase = "check"  -> Checked
         [] pc'[Cli] = "idle" /\ ~CallFails /\ phase = "verify" -> Verified
         [] pc'[Cli] = "idle" /\ ~CallFails /\ phase = "remove" -> Removed
         [] pc'[Cli] = "idle" /\ phase = "fetch"  -> Fetched
    /\ UNCHANGED repair

\* The process dies.
Killed ==
    /\ Abort(Cli)
    /\ End(None)
    /\ UNCHANGED <<repair, failed, outside>>

\* Crashes of the others are LocalStore's subject.
Neighbour(p) == /\ (Begin(p) /\ op'[p] \in Others) \/ Step(p)
                /\ UNCHANGED scriptVars

RepairNext == Call \/ CallStep \/ Killed \/ \E p \in Proc \ {Cli} : Neighbour(p)

RepairSpec == RepairInit /\ [][RepairNext]_allVars

\* The script goes on, and so do the calls of the others once begun (that
\* transfers end is assumed here too).
RepairFairSpec ==
    /\ RepairSpec
    /\ WF_allVars(Call) /\ WF_allVars(CallStep)
    /\ \A p \in Proc \ {Cli} : WF_allVars(Step(p) /\ UNCHANGED scriptVars)

-----------------------------------------------------------------------------
(* Properties.                                                             *)

Elems(as) == {as[i] : i \in DOMAIN as}

\* Keys whose sidecar names bytes that are not what they should be.
Damaged == {k \in Key : entry[k] \in Digest /\ blob[entry[k]] # "intact"}

\* What the index binds to the artifact's key, if anything, is as it should be.
Whole(a) == entry[KeyOf[a]] \in Digest =>
                blob[entry[KeyOf[a]]] = "intact" /\ Valid(a, entry[KeyOf[a]])

(* When the repair begins to fetch, no sidecar at all names damaged bytes, *)
(* outside the manifest neither: every alias of a shared blob has been     *)
(* removed, and with it the blob (bin:321-325), though others fetch,       *)
(* remove and collect meanwhile.                                           *)
RepairClean == phase = "fetch" => Damaged = {}

(* After a verification that reported success, a key of the manifest is    *)
(* bound to intact bytes that its artifact accepts, unless another caller  *)
(* has removed or evicted it since (bin:283-294).                          *)
SuccessMeansWhole ==
    status \in {"clean", "repaired"} => \A a \in Elems(Manifest) : Whole(a)

(* Only what failed the check is ever taken from the index, and nothing    *)
(* without --repair (spec.md:668): success or refusal removes nothing.     *)
RemovesFailedOnly ==
    [][\A k \in Key : entry[k] # None /\ entry'[k] = None /\ keyLock[k] = Cli =>
          repair /\ outside = {} /\ k \in Keys(failed)]_allVars

-----------------------------------------------------------------------------
(* The inductive invariant behind these.                                   *)

(* Whoever uses the directory works with the same artifact for a key.      *)
OneManifest == \A a, b \in Artifact : KeyOf[a] = KeyOf[b] => a = b

ScriptInv ==
    /\ repair \in BOOLEAN
    /\ phase \in {"check", "verify", "remove", "fetch", "over"}
    /\ todo \in Seq(Artifact) /\ failed \in Seq(Artifact)
    /\ outside \in SUBSET Key
    /\ status \in Verdicts \cup {None}
    /\ phase \in {"check", "remove", "fetch"} <=> todo # <<>>
    /\ phase # "over" => status = None
    /\ phase \in {"verify", "remove", "fetch"} => failed # <<>>
    /\ phase \in {"remove", "fetch"} =>
          repair /\ outside = {} /\ Elems(todo) \subseteq Elems(failed)

\* The call under way is the one the phase asks for.
CliInv ==
    pc[Cli] # "idle" =>
        \/ /\ phase \in {"check", "fetch"}
           /\ op[Cli] = "get" /\ artifact[Cli] = Head(todo)
           /\ pc[Cli] \in Fetching \cup {"lockKey", "lockStore"}
        \/ /\ phase = "verify" /\ op[Cli] = "verify"
           /\ pc[Cli] \in {"verifyScan", "verify"}
        \/ /\ phase = "remove"
           /\ op[Cli] = "remove" /\ key[Cli] = KeyOf[Head(todo)]
           /\ pc[Cli] \in {"lockKey", "lockStore", "unlinkEntry", "refScan", "unlinkBlob"}

\* Nothing comes to name damaged bytes, and a key being removed stays unbound.
BindInv ==
    \A p \in Proc :
        /\ pc[p] = "publishEntry" => blob[digest[p]] = "intact"
        /\ pc[p] \in {"refScan", "unlinkBlob"} => entry[key[p]] = None

\* Where the damaged keys are accounted for.
DamageInv ==
    /\ phase = "check" => Damaged \cap Keys(Manifest) \subseteq Keys(failed) \cup Keys(todo)
    /\ phase = "verify" =>
          /\ Damaged \cap Keys(Manifest) \subseteq Keys(failed)
          /\ pc[Cli] = "verify" => \A k \in Damaged \ Keys(Manifest) :
                k \in outside \/ [key |-> k, digest |-> entry[k]] \in Elems(plan[Cli].queue)
    /\ phase = "remove" => Damaged \subseteq Keys(todo)
    /\ phase = "fetch" => Damaged = {}

\* The artifacts the script has not yet found or made whole.
Pending == CASE phase = "check"               -> Elems(todo) \cup Elems(failed)
             [] phase \in {"verify", "remove"} -> Elems(failed)
             [] phase = "fetch"               -> Elems(todo)
             [] OTHER -> IF status \in {"clean", "repaired"} THEN {} ELSE Artifact

WholeInv == OneManifest => \A a \in Elems(Manifest) \ Pending : Whole(a)

RepairInv == /\ IInv
             /\ ScriptInv /\ CliInv /\ BindInv /\ DamageInv /\ WholeInv
===============================================================================
