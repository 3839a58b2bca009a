------------------------------ MODULE Resolution ------------------------------
(***************************************************************************)
(* One get of one artifact through the layers (get_with_budget, receive,   *)
(* Receiver and publish of src/src/store/mod.rs): local disk, the mirror,  *)
(* each upstream source, under an optional byte budget.                    *)
(*                                                                         *)
(* A layer streams some body in writes of any size, or fails in the ways   *)
(* Fetcher and the S3 client do.  Bodies and checks are abstract: lengths, *)
(* which heads check_prefix rejects and which bodies validate accepts are  *)
(* given as functions of the body.  Other callers act in LocalStore; here  *)
(* they only decide what the local layer and publication find.             *)
(*                                                                         *)
(* Operators whose comment begins with "Mutant" are wrong on purpose: a    *)
(* property is known to notice when one replaces the operator after it.    *)
(***************************************************************************)
EXTENDS Integers, Sequences, FiniteSets

CONSTANTS
    Body,       \* bodies a layer may serve
    Length,     \* number of bytes of each
    Artifact,   \* artifacts
    Sources,    \* number of upstream sources of each
    BadHeads,   \* lengths at which check_prefix rejects a body's head
    Accepted,   \* bodies validate accepts
    Window,     \* PREFIX_BYTES
    Chunks,     \* sizes of the writes
    Budgets,    \* byte budgets of calls: numbers, or None
    None

ASSUME BodyAssumption ==
    /\ Length \in [Body -> Nat]
    /\ Sources \in [Artifact -> Nat]
    /\ BadHeads \in [Artifact -> [Body -> SUBSET Nat]]
    /\ Accepted \in [Artifact -> SUBSET Body]
    /\ Window \in Nat \ {0}
    /\ Chunks \subseteq Nat \ {0}
    /\ None \notin Nat /\ Budgets \subseteq Nat \cup {None}
    /\ None \notin Body
    /\ None \notin {"absent", "other", "NoCredential", "CredentialRejected", "Io", "served",
                    "Mirror", "Upstream", "ContentRejected", "AllSourcesFailed"}

VARIABLES
    artifact,
    limit,      \* the budget the call was given
    mode,       \* [mirror, allow, offline] of the store
    pc,         \* "local", "request", "receive", "received", "publish", "done"
    layer,      \* layer in use: 0 the mirror, i the i-th source
    body,       \* what it serves
    bytes,      \* bytes of it written to the temp file
    checked,    \* prefix_checked
    rejected,   \* the head was rejected
    exceeded,   \* limit_exceeded
    result,     \* what the producer returned
    budget,     \* bytes left of the budget
    attempts,   \* errors of the sources tried
    outcome,    \* what the call returned
    written,    \* history: bytes written by the whole call
    contacted,  \* history: layers asked
    clashed     \* history: a body met a damaged blob at its address

callVars == <<artifact, limit, mode>>
receiver == <<bytes, checked, rejected, exceeded>>
vars == <<callVars, pc, layer, body, receiver, result, budget, attempts,
          outcome, written, contacted, clashed>>

Init ==
    /\ artifact \in Artifact
    /\ limit \in Budgets
    /\ mode \in [mirror : BOOLEAN, allow : BOOLEAN, offline : BOOLEAN]
    /\ pc = "local" /\ layer = 0 /\ body = None
    /\ bytes = 0 /\ checked = FALSE /\ rejected = FALSE /\ exceeded = FALSE
    /\ result = None /\ budget = limit
    /\ attempts = <<>> /\ outcome = None /\ written = 0 /\ contacted = {}
    /\ clashed = FALSE

-----------------------------------------------------------------------------
(* The chain.                                                              *)

Finish(out) ==
    /\ pc' = "done" /\ outcome' = out
    /\ UNCHANGED <<callVars, layer, body, receiver, result, budget, attempts,
                   written, contacted>>

Fail(tried) ==
    /\ pc' = "done" /\ outcome' = "AllSourcesFailed" /\ attempts' = tried
    /\ UNCHANGED <<callVars, layer, body, receiver, result, budget,
                   written, contacted>>

Ask(l, tried) ==
    /\ pc' = "request" /\ layer' = l /\ attempts' = tried
    /\ contacted' = contacted \cup {l}
    /\ body' = None /\ result' = None
    /\ bytes' = 0 /\ checked' = FALSE /\ rejected' = FALSE /\ exceeded' = FALSE
    /\ UNCHANGED <<callVars, budget, outcome, written>>

\* After the mirror, whose reason only words the error.
Upstream ==
    CASE Sources[artifact] = 0 -> Finish("ManualRequired")
      [] Sources[artifact] > 0 /\ ~mode.allow -> Finish("MirrorUnreachable")
      [] OTHER -> Ask(1, <<>>)

\* An intact hit must fit in the budget too.
LocalHit ==
    /\ pc = "local"
    /\ \E b \in Accepted[artifact] :
          Finish(IF limit # None /\ Length[b] > limit
                 THEN "TransferLimit" ELSE "LocalDisk")

\* The sidecar cannot be read, or the blob is not what it should be.
LocalError ==
    /\ pc = "local"
    /\ Finish("LocalError")

LocalMiss ==
    /\ pc = "local"
    /\ CASE mode.offline -> Finish("OfflineMiss")
         [] ~mode.offline /\ mode.mirror -> Ask(0, <<>>)
         [] OTHER -> Upstream

\* Mutant: rejected content of the mirror is looked for upstream.
AfterMirrorAnyhow(e) == IF e = "TransferLimit" THEN Finish(e) ELSE Upstream

AfterMirror(e) ==
    IF e \in {"ContentRejected", "TransferLimit"} THEN Finish(e) ELSE Upstream

\* Mutant: the last source is left out.
TryNextShort(e) ==
    IF layer + 1 < Sources[artifact] THEN Ask(layer + 1, Append(attempts, e))
    ELSE Fail(Append(attempts, e))

TryNext(e) ==
    IF layer < Sources[artifact] THEN Ask(layer + 1, Append(attempts, e))
    ELSE Fail(Append(attempts, e))

\* A single source's own errors surface as themselves.
AfterSource(e) ==
    IF \/ e = "TransferLimit"
       \/ /\ Sources[artifact] = 1
          /\ e \in {"ContentRejected", "NoCredential", "CredentialRejected"}
    THEN Finish(e) ELSE TryNext(e)

After(e) == IF layer = 0 THEN AfterMirror(e) ELSE AfterSource(e)

-----------------------------------------------------------------------------
(* The producer: Fetcher::request or MirrorRead::fetch.                    *)

\* It ends before any body; a mirror client names no credentials.
RequestFails ==
    /\ pc = "request"
    /\ result' \in {"absent", "other"} \cup
           IF layer = 0 THEN {} ELSE {"NoCredential", "CredentialRejected"}
    /\ pc' = "received"
    /\ UNCHANGED <<callVars, layer, body, receiver, budget, attempts, outcome,
                   written, contacted>>

Serve ==
    /\ pc = "request"
    /\ body' \in Body
    /\ pc' = "receive"
    /\ UNCHANGED <<callVars, layer, receiver, result, budget, attempts,
                   outcome, written, contacted>>

\* The whole body was written.
Served ==
    /\ pc = "receive"
    /\ bytes = Length[body]
    /\ result' = "served" /\ pc' = "received"
    /\ UNCHANGED <<callVars, layer, body, receiver, budget, attempts, outcome,
                   written, contacted>>

\* The connection breaks; reading a body fails with an i/o error as well.
Breaks ==
    /\ pc = "receive"
    /\ result' \in {"Io", "other"} /\ pc' = "received"
    /\ UNCHANGED <<callVars, layer, body, receiver, budget, attempts, outcome,
                   written, contacted>>

-----------------------------------------------------------------------------
(* Receiver::write.  A failed write ends the transfer with an i/o error.   *)

Fits(n) == budget # None => n <= budget

\* Mutant: what a failed write was charged is given back.
ChargeStored(n, stored) == IF budget = None \/ ~stored THEN budget ELSE budget - n

\* Charged before the write and never refunded.
Charge(n, stored) == IF budget = None THEN None ELSE budget - n

HeadAt(n) == IF bytes + n < Window THEN bytes + n ELSE Window

\* Mutant: the head is looked at when more than it has arrived.
HeadOverfull(n) == ~checked /\ bytes + n > Window

\* This write completes the head.
HeadFull(n) == ~checked /\ HeadAt(n) = Window

HeadBad(n) == HeadFull(n) /\ HeadAt(n) \in BadHeads[artifact][body]

WriteFails ==
    /\ result' = "Io" /\ pc' = "received"
    /\ UNCHANGED <<callVars, layer, body, bytes, attempts, outcome, contacted>>

\* Over budget: nothing is written, now or later.
Exceed(n) ==
    /\ pc = "receive" /\ bytes + n <= Length[body]
    /\ ~Fits(n)
    /\ exceeded' = TRUE
    /\ WriteFails
    /\ UNCHANGED <<checked, rejected, budget, written>>

RejectHead(n) ==
    /\ pc = "receive" /\ bytes + n <= Length[body]
    /\ Fits(n) /\ HeadBad(n)
    /\ budget' = Charge(n, FALSE)
    /\ checked' = TRUE /\ rejected' = TRUE
    /\ WriteFails
    /\ UNCHANGED <<exceeded, written>>

Write(n) ==
    /\ pc = "receive" /\ bytes + n <= Length[body]
    /\ Fits(n) /\ ~HeadBad(n)
    /\ budget' = Charge(n, TRUE)
    /\ checked' = (checked \/ HeadFull(n))
    /\ bytes' = bytes + n
    /\ written' = written + n
    /\ UNCHANGED <<callVars, pc, layer, body, rejected, exceeded, result,
                   attempts, outcome, contacted>>

\* write_all fails part of the way, on a full disk.
DiskFull(n) ==
    /\ pc = "receive" /\ bytes + n <= Length[body]
    /\ Fits(n) /\ ~HeadBad(n)
    /\ budget' = Charge(n, FALSE)
    /\ checked' = (checked \/ HeadFull(n))
    /\ \E m \in 0..n : written' = written + m
    /\ WriteFails
    /\ UNCHANGED <<rejected, exceeded>>

-----------------------------------------------------------------------------
(* receive after the producer, and publish.                                *)

\* The error of an attempt, or "served".
Verdict ==
    CASE exceeded -> "TransferLimit"
      [] ~exceeded /\ rejected -> "ContentRejected"
      [] ~exceeded /\ ~rejected /\ result = "Io" -> "other"
      [] OTHER -> result

\* finish_prefix: a body shorter than the window.
ShortHeadBad == ~checked /\ bytes \in BadHeads[artifact][body]

ReceiveFails ==
    /\ pc = "received"
    /\ Verdict # "served"
    /\ After(Verdict)

RejectShort ==
    /\ pc = "received"
    /\ Verdict = "served" /\ ShortHeadBad
    /\ After("ContentRejected")

Received ==
    /\ pc = "received"
    /\ Verdict = "served" /\ ~ShortHeadBad
    /\ pc' = "publish"
    /\ UNCHANGED <<callVars, layer, body, receiver, result, budget, attempts,
                   outcome, written, contacted>>

ValidBody == body \in Accepted[artifact]

Reject ==
    /\ pc = "publish"
    /\ ~ValidBody
    /\ After("ContentRejected")

\* A blob at the address no longer hashes to it, or the disk fails.
NotPublished ==
    /\ pc = "publish"
    /\ ValidBody
    /\ \/ clashed' = TRUE /\ After("ContentRejected")
       \/ clashed' = clashed /\ After("other")

Publish ==
    /\ pc = "publish"
    /\ ValidBody
    /\ Finish(IF layer = 0 THEN "Mirror" ELSE "Upstream")

Transfer == \E n \in Chunks : Exceed(n) \/ RejectHead(n) \/ Write(n) \/ DiskFull(n)

Next == \/ /\ \/ LocalHit \/ LocalError \/ LocalMiss
              \/ RequestFails \/ Serve \/ Served \/ Breaks \/ Transfer
              \/ ReceiveFails \/ RejectShort \/ Received \/ Reject \/ Publish
           /\ UNCHANGED clashed
        \/ NotPublished

Spec == Init /\ [][Next]_vars

-----------------------------------------------------------------------------
(* Properties.                                                             *)

Errors == {"absent", "other", "NoCredential", "CredentialRejected",
           "ContentRejected", "TransferLimit"}

TypeOK ==
    /\ artifact \in Artifact /\ limit \in Budgets
    /\ mode \in [mirror : BOOLEAN, allow : BOOLEAN, offline : BOOLEAN]
    /\ pc \in {"local", "request", "receive", "received", "publish", "done"}
    /\ layer \in 0..Sources[artifact]
    /\ body \in Body \cup {None}
    /\ bytes \in Nat /\ written \in Nat
    /\ checked \in BOOLEAN /\ rejected \in BOOLEAN
    /\ exceeded \in BOOLEAN /\ clashed \in BOOLEAN
    /\ budget \in Nat \cup {None}
    /\ result \in {None, "absent", "other", "NoCredential", "CredentialRejected",
                   "Io", "served"}
    /\ contacted \subseteq 0..Sources[artifact]
    /\ attempts \in Seq(Errors)

(* What a check may do with a head: reject it only for bodies it rejects.  *)
PrefixSound == \A a \in Artifact : \A b \in Body :
                   BadHeads[a][b] # {} => b \notin Accepted[a]

(* A call with a byte budget writes no more than that to disk, whatever    *)
(* number of layers it tries and however each of them fails                *)
(* (store/mod.rs:771-780).                                                 *)
BudgetHeld == limit # None => written <= limit

(* A body whose first 8 KB betray it is never written past them, however   *)
(* it is cut into writes (store/mod.rs:577-580).                           *)
RejectedEarly ==
    body # None /\ Window \in BadHeads[artifact][body] => bytes < Window

(* Only a whole body that validate accepts is published, and content is    *)
(* rejected only if validate would not accept the body or the blob at its  *)
(* address is damaged: a head too short to decide passes (check.rs:70-71). *)
ContentJudged ==
    /\ outcome \in {"Mirror", "Upstream"} =>
          body \in Accepted[artifact] /\ bytes = Length[body]
    /\ outcome = "ContentRejected" => body \notin Accepted[artifact] \/ clashed

(* Layers are asked in order, none that the mode excludes, and a get that  *)
(* reports that all sources failed has an error of each of them            *)
(* (store/mod.rs:266-315).                                                 *)
LayersInOrder ==
    /\ mode.offline => contacted = {}
    /\ ~mode.mirror => 0 \notin contacted
    /\ ~mode.allow => contacted \subseteq {0}
    /\ \A l \in contacted \ {0} : 1..l \subseteq contacted /\ (mode.mirror => 0 \in contacted)
    /\ outcome = "AllSourcesFailed" =>
          /\ Len(attempts) = Sources[artifact]
          /\ contacted \ {0} = 1..Sources[artifact]

(* Some verdicts end the call: an exhausted budget, and a mirror's body    *)
(* that the artifact does not accept, which is never looked for upstream   *)
(* (store/mod.rs:277-278, 301).                                            *)
VerdictsFinal ==
    [][pc # "local" /\ contacted' # contacted =>
          /\ ~exceeded
          /\ layer = 0 /\ body # None =>
                /\ ~rejected
                /\ result = "served" => body \in Accepted[artifact]]_vars
===============================================================================
