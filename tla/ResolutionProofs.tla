--------------------------- MODULE ResolutionProofs ---------------------------
(***************************************************************************)
(* Proofs about Resolution, for any bodies, checks, budgets, numbers of    *)
(* sources and sizes of writes.                                            *)
(***************************************************************************)
EXTENDS Resolution, TLAPS

\* What is left of the budget and what was written never exceed it.
BudgetInv ==
    limit # None => budget \in Nat /\ written + budget <= limit

\* What the receiver knows of the head it has seen.
HeadInv ==
    /\ body = None => bytes = 0 /\ ~checked /\ ~rejected /\ result # "served"
    /\ body # None => bytes <= Length[body]
    /\ ~checked \/ rejected => bytes < Window
    /\ body # None /\ checked /\ ~rejected => Window \notin BadHeads[artifact][body]
    /\ body # None /\ rejected => BadHeads[artifact][body] # {}

\* What each step of a transfer may rely on.
StepInv ==
    /\ pc \in {"local", "request"} =>
          body = None /\ result = None /\ ~exceeded
    /\ pc = "received" => result # None
    /\ pc = "receive" => body # None /\ ~rejected /\ ~exceeded /\ result = None
    /\ pc = "publish" => result = "served"
    /\ result = "served" =>
          body # None /\ bytes = Length[body] /\ ~rejected /\ ~exceeded

\* Which layers have been asked, and with how many errors of sources.
LayerInv ==
    /\ \/ contacted = {} /\ layer = 0
       \/ layer = 0 /\ contacted = {0} /\ mode.mirror /\ ~mode.offline
       \/ /\ layer > 0 /\ mode.allow /\ ~mode.offline
          /\ contacted = 1..layer \cup (IF mode.mirror THEN {0} ELSE {})
    /\ pc = "local" => contacted = {}
    /\ pc \notin {"local", "done"} => contacted # {}
    /\ pc # "done" => Len(attempts) = (IF layer > 0 THEN layer - 1 ELSE 0)

\* What the outcomes say.
OutcomeInv ==
    /\ pc # "done" => outcome = None
    /\ outcome \in {"Mirror", "Upstream"} =>
          body \in Accepted[artifact] /\ bytes = Length[body]
    /\ outcome = "AllSourcesFailed" =>
          layer > 0 /\ layer = Sources[artifact] /\ Len(attempts) = layer

IInv == TypeOK /\ BudgetInv /\ HeadInv /\ StepInv /\ LayerInv /\ OutcomeInv

-----------------------------------------------------------------------------
(* The chain.                                                              *)

\* A call that ends keeps everything but its outcome.
LEMMA FinishKeeps ==
    ASSUME NEW out, IInv, pc # "done", clashed' \in BOOLEAN, Finish(out),
           out # "AllSourcesFailed",
           out \in {"Mirror", "Upstream"} =>
               body \in Accepted[artifact] /\ bytes = Length[body]
    PROVE  IInv'
<1>1. TypeOK'
  BY DEF IInv, TypeOK, Finish, callVars, receiver
<1>2. BudgetInv' /\ HeadInv'
  BY DEF IInv, BudgetInv, HeadInv, Finish, callVars, receiver
<1>3. StepInv'
  BY DEF IInv, StepInv, Finish, callVars, receiver
<1>4. LayerInv' /\ OutcomeInv'
  BY DEF IInv, LayerInv, OutcomeInv, Finish, callVars, receiver
<1> QED
  BY <1>1, <1>2, <1>3, <1>4 DEF IInv

\* So does one whose last source has failed.
LEMMA FailKeeps ==
    ASSUME NEW tried \in Seq(Errors), IInv, pc # "done", clashed' \in BOOLEAN,
           Fail(tried), layer > 0, layer = Sources[artifact], Len(tried) = layer
    PROVE  IInv'
<1>1. TypeOK'
  BY DEF IInv, TypeOK, Fail, callVars, receiver
<1>2. BudgetInv' /\ HeadInv'
  BY DEF IInv, BudgetInv, HeadInv, Fail, callVars, receiver
<1>3. StepInv'
  BY DEF IInv, StepInv, Fail, callVars, receiver
<1>4. LayerInv'
  BY DEF IInv, LayerInv, Fail, callVars, receiver
<1>5. OutcomeInv'
  BY BodyAssumption DEF IInv, OutcomeInv, Fail, callVars, receiver
<1> QED
  BY <1>1, <1>2, <1>3, <1>4, <1>5 DEF IInv

\* Layers before l, all of which a get has asked when it asks l.
Before(l) == IF l = 0 THEN {}
             ELSE 1..(l - 1) \cup (IF mode.mirror THEN {0} ELSE {})

\* When layer l may be asked, after these errors of sources.
Turn(l, tried) ==
    /\ l \in 0..Sources[artifact] /\ tried \in Seq(Errors)
    /\ ~mode.offline
    /\ l = 0 => mode.mirror /\ Len(tried) = 0
    /\ l > 0 => mode.allow /\ Len(tried) = l - 1
    /\ contacted = Before(l)

LEMMA AskKeeps ==
    ASSUME NEW l, NEW tried, IInv, pc # "done", clashed' \in BOOLEAN,
           Turn(l, tried), Ask(l, tried)
    PROVE  IInv'
<1> USE DEF Turn
<1>0. Sources[artifact] \in Nat
  BY BodyAssumption DEF IInv, TypeOK
<1>1. TypeOK'
  BY <1>0 DEF IInv, TypeOK, Ask, callVars
<1>2. BudgetInv'
  BY DEF IInv, BudgetInv, Ask, callVars
<1>3. HeadInv'
  BY BodyAssumption DEF IInv, HeadInv, Ask, callVars
<1>4. StepInv'
  BY BodyAssumption DEF IInv, StepInv, Ask, callVars
<1>5. LayerInv'
  <2>1. CASE l = 0
    BY <2>1 DEF IInv, LayerInv, Ask, callVars, Before
  <2>2. CASE l > 0
    <3>1. 1..(l - 1) \cup {l} = 1..l
      BY <1>0, <2>2
    <3>2. contacted' = 1..l \cup (IF mode.mirror THEN {0} ELSE {})
      BY <2>2, <3>1 DEF Ask, Before
    <3> QED
      BY <1>0, <2>2, <3>2 DEF IInv, LayerInv, Ask, callVars
  <2> QED
    BY <1>0, <2>1, <2>2
<1>6. OutcomeInv'
  BY BodyAssumption DEF IInv, OutcomeInv, Ask, callVars
<1> QED
  BY <1>1, <1>2, <1>3, <1>4, <1>5, <1>6 DEF IInv

LEMMA UpstreamKeeps ==
    ASSUME IInv, pc # "done", clashed' \in BOOLEAN, Upstream, ~mode.offline,
           contacted = (IF mode.mirror THEN {0} ELSE {})
    PROVE  IInv'
<1>0. Sources[artifact] \in Nat
  BY BodyAssumption DEF IInv, TypeOK
<1>1. CASE Sources[artifact] = 0
  BY <1>1, FinishKeeps DEF Upstream
<1>2. CASE Sources[artifact] > 0 /\ ~mode.allow
  BY <1>2, FinishKeeps DEF Upstream
<1>3. CASE Sources[artifact] > 0 /\ mode.allow
  <2>1. Ask(1, <<>>)
    BY <1>3 DEF Upstream
  <2>2. Turn(1, <<>>)
    BY <1>0, <1>3 DEF Turn, Before
  <2> QED
    BY <2>1, <2>2, AskKeeps
<1> QED
  BY <1>0, <1>1, <1>2, <1>3

\* Whatever a layer failed with.
LEMMA AfterKeeps ==
    ASSUME NEW e \in Errors, IInv, pc \in {"received", "publish"},
           clashed' \in BOOLEAN, After(e)
    PROVE  IInv'
<1>0. /\ Sources[artifact] \in Nat /\ layer \in 0..Sources[artifact]
      /\ attempts \in Seq(Errors)
  BY BodyAssumption DEF IInv, TypeOK
<1>1. CASE Finish(e)
  BY <1>1, FinishKeeps DEF Errors
<1>2. CASE layer = 0 /\ Upstream
  <2>1. ~mode.offline /\ contacted = (IF mode.mirror THEN {0} ELSE {})
    BY <1>2 DEF IInv, LayerInv
  <2> QED
    BY <1>2, <2>1, UpstreamKeeps
<1>3. CASE layer > 0 /\ TryNext(e)
  <2>1. /\ mode.allow /\ ~mode.offline
        /\ contacted = 1..layer \cup (IF mode.mirror THEN {0} ELSE {})
        /\ Len(attempts) = layer - 1
    BY <1>3 DEF IInv, LayerInv
  <2>2. Append(attempts, e) \in Seq(Errors) /\ Len(Append(attempts, e)) = layer
    BY <1>0, <2>1
  <2>3. CASE layer < Sources[artifact]
    <3>1. Ask(layer + 1, Append(attempts, e))
      BY <1>0, <1>3, <2>3 DEF TryNext
    <3>2. Turn(layer + 1, Append(attempts, e))
      BY <1>0, <1>3, <2>1, <2>2, <2>3 DEF Turn, Before
    <3> QED
      BY <3>1, <3>2, AskKeeps
  <2>4. CASE layer = Sources[artifact]
    <3>1. Fail(Append(attempts, e))
      BY <1>0, <1>3, <2>4 DEF TryNext
    <3> QED
      BY <1>3, <2>2, <2>4, <3>1, FailKeeps
  <2> QED
    BY <1>0, <2>3, <2>4
<1> QED
  BY <1>0, <1>1, <1>2, <1>3 DEF After, AfterMirror, AfterSource

-----------------------------------------------------------------------------
(* The inductive invariant.                                                *)

LEMMA InitInv == Init => IInv
<1> SUFFICES ASSUME Init PROVE IInv
  OBVIOUS
<1>0. /\ Sources[artifact] \in Nat /\ Window \in Nat \ {0}
      /\ None \notin Nat /\ None # "served" /\ None # "AllSourcesFailed"
      /\ None \notin {"Mirror", "Upstream"}
      /\ limit \in Nat \cup {None}
  BY BodyAssumption DEF Init
<1>1. TypeOK
  <2>1. attempts \in Seq(Errors)
    BY DEF Init
  <2>2. budget \in Nat \cup {None} /\ layer \in 0..Sources[artifact]
    BY <1>0 DEF Init
  <2>3. checked \in BOOLEAN /\ rejected \in BOOLEAN /\ exceeded \in BOOLEAN
        /\ clashed \in BOOLEAN
    BY DEF Init
  <2> QED
    BY <2>1, <2>2, <2>3 DEF Init, TypeOK
<1>2. BudgetInv /\ HeadInv /\ StepInv /\ LayerInv /\ OutcomeInv
  BY <1>0 DEF Init, BudgetInv, HeadInv, StepInv, LayerInv, OutcomeInv
<1> QED
  BY <1>1, <1>2 DEF IInv

\* The first layer a miss turns to.
LEMMA LocalMissKeeps == ASSUME IInv, LocalMiss, clashed' \in BOOLEAN PROVE IInv'
<1>0. /\ Sources[artifact] \in Nat /\ pc = "local" /\ contacted = {} /\ layer = 0
      /\ Len(attempts) = 0 /\ attempts \in Seq(Errors)
  <2>1. pc = "local"
    BY DEF LocalMiss
  <2> QED
    BY <2>1, BodyAssumption DEF IInv, TypeOK, LayerInv
<1>1. CASE mode.offline
  <2>1. Finish("OfflineMiss")
    BY <1>1 DEF LocalMiss
  <2> QED
    BY <1>0, <2>1, FinishKeeps
<1>2. CASE ~mode.offline /\ mode.mirror
  <2>1. Ask(0, <<>>)
    BY <1>2 DEF LocalMiss
  <2>2. Turn(0, <<>>)
    BY <1>0, <1>2 DEF Turn, Before
  <2> QED
    BY <1>0, <2>1, <2>2, AskKeeps
<1>3. CASE ~mode.offline /\ ~mode.mirror
  <2>1. Upstream
    BY <1>3 DEF LocalMiss
  <2>2. contacted = (IF mode.mirror THEN {0} ELSE {})
    BY <1>0, <1>3
  <2> QED
    BY <1>0, <1>3, <2>1, <2>2, UpstreamKeeps
<1> QED
  BY <1>1, <1>2, <1>3

LEMMA LocalKeeps ==
    ASSUME IInv, LocalHit \/ LocalError, clashed' \in BOOLEAN PROVE IInv'
<1>1. CASE LocalHit
  <2>1. PICK out \in {"TransferLimit", "LocalDisk"} : Finish(out)
    BY <1>1 DEF LocalHit
  <2> QED
    BY <1>1, <2>1, FinishKeeps DEF LocalHit
<1>2. CASE LocalError
  BY <1>2, FinishKeeps DEF LocalError
<1> QED
  BY <1>1, <1>2

\* The producer's own steps.
LEMMA ProducerKeeps ==
    ASSUME IInv, RequestFails \/ Serve \/ Served \/ Breaks, clashed' \in BOOLEAN
    PROVE  IInv'
<1>0. /\ None \notin {"absent", "other", "NoCredential", "CredentialRejected",
                       "Io", "served"}
      /\ Window \in Nat \ {0}
  BY BodyAssumption
<1>1. CASE RequestFails
  <2>1. /\ result' \in {"absent", "other", "NoCredential", "CredentialRejected"}
        /\ pc = "request" /\ pc' = "received"
        /\ UNCHANGED <<callVars, layer, body, receiver, budget, attempts, outcome,
                       written, contacted>>
    BY <1>1 DEF RequestFails
  <2>2. TypeOK'
    BY <2>1 DEF IInv, TypeOK, callVars, receiver
  <2>3. BudgetInv' /\ HeadInv' /\ StepInv' /\ LayerInv' /\ OutcomeInv'
    BY <1>0, <2>1 DEF IInv, BudgetInv, HeadInv, StepInv, LayerInv, OutcomeInv,
                callVars, receiver
  <2> QED
    BY <2>2, <2>3 DEF IInv
<1>2. CASE Serve
  <2>1. body' # None /\ Length[body'] \in Nat
    BY <1>2, BodyAssumption DEF Serve
  <2>2. TypeOK'
    BY <1>2 DEF Serve, IInv, TypeOK, callVars, receiver
  <2>3. bytes = 0 /\ ~checked /\ ~rejected /\ result = None
    BY <1>2 DEF Serve, IInv, StepInv, HeadInv
  <2>4. HeadInv' /\ StepInv'
    BY <1>0, <1>2, <2>1, <2>3 DEF Serve, IInv, HeadInv, StepInv, callVars, receiver
  <2>5. BudgetInv' /\ LayerInv'
    BY <1>2 DEF Serve, IInv, BudgetInv, LayerInv, callVars, receiver
  <2>6. OutcomeInv'
    BY <1>2, BodyAssumption DEF Serve, IInv, OutcomeInv, callVars, receiver
  <2> QED
    BY <2>2, <2>4, <2>5, <2>6 DEF IInv
<1>3. CASE Served
  <2>1. TypeOK' /\ BudgetInv'
    BY <1>3 DEF Served, IInv, TypeOK, BudgetInv, callVars, receiver
  <2>2. HeadInv' /\ StepInv' /\ LayerInv' /\ OutcomeInv'
    BY <1>0, <1>3 DEF Served, IInv, HeadInv, StepInv, LayerInv, OutcomeInv, callVars, receiver
  <2> QED
    BY <2>1, <2>2 DEF IInv
<1>4. CASE Breaks
  <2>1. TypeOK' /\ BudgetInv'
    BY <1>4 DEF Breaks, IInv, TypeOK, BudgetInv, callVars, receiver
  <2>2. HeadInv' /\ StepInv' /\ LayerInv' /\ OutcomeInv'
    BY <1>0, <1>4 DEF Breaks, IInv, HeadInv, StepInv, LayerInv, OutcomeInv, callVars, receiver
  <2> QED
    BY <2>1, <2>2 DEF IInv
<1> QED
  BY <1>1, <1>2, <1>3, <1>4

\* A transfer's writes.
LEMMA TransferKeeps ==
    ASSUME IInv, Transfer, UNCHANGED clashed PROVE IInv'
<1>0. PICK n \in Chunks : Exceed(n) \/ RejectHead(n) \/ Write(n) \/ DiskFull(n)
  BY DEF Transfer
<1>1. /\ n \in Nat /\ Window \in Nat \ {0} /\ None \notin Nat /\ None \notin {"Io", "served"}
      /\ limit \in Nat \cup {None} /\ bytes \in Nat /\ written \in Nat
      /\ budget \in Nat \cup {None} /\ body \in Body \cup {None}
  BY BodyAssumption DEF IInv, TypeOK
<1>2. /\ pc = "receive" /\ body # None /\ ~rejected /\ ~exceeded /\ result = None
      /\ bytes + n <= Length[body]
  BY <1>0 DEF IInv, StepInv, Exceed, RejectHead, Write, DiskFull
<1>3. Length[body] \in Nat
  BY <1>1, <1>2, BodyAssumption
<1>4. Fits(n) /\ budget # None => Charge(n, FALSE) \in Nat /\ Charge(n, TRUE) \in Nat
  BY <1>1 DEF Fits, Charge
<1>5. checked \in BOOLEAN /\ rejected \in BOOLEAN /\ exceeded \in BOOLEAN
  BY DEF IInv, TypeOK
<1>6. checked' \in BOOLEAN
  BY <1>0, <1>5 DEF Exceed, RejectHead, Write, DiskFull
<1>7. budget' \in Nat \cup {None} /\ written' \in Nat
  BY <1>0, <1>1, <1>4 DEF Exceed, RejectHead, Write, DiskFull, Charge
<1>8. BudgetInv'
  BY <1>0, <1>1 DEF IInv, BudgetInv, Exceed, RejectHead, Write, DiskFull,
                    WriteFails, Fits, Charge, callVars
<1>9. LayerInv' /\ OutcomeInv'
  BY <1>0, <1>2, BodyAssumption DEF IInv, LayerInv, OutcomeInv, Exceed, RejectHead,
                    Write, DiskFull, WriteFails, callVars
<1>10. TypeOK' /\ HeadInv' /\ StepInv'
  <2>1. CASE Exceed(n)
    BY <1>1, <1>2, <1>5, <1>7, <2>1
    DEF Exceed, WriteFails, IInv, TypeOK, HeadInv, StepInv, callVars
  <2>2. CASE RejectHead(n)
    <3>1. ~checked /\ HeadAt(n) \in BadHeads[artifact][body]
      BY <2>2 DEF RejectHead, HeadBad, HeadFull
    <3> QED
      BY <1>1, <1>2, <1>7, <2>2, <3>1
      DEF RejectHead, WriteFails, IInv, TypeOK, HeadInv, StepInv, callVars
  <2>3. CASE Write(n)
    <3>1. ~checked' => bytes + n < Window
      BY <1>1, <1>2, <1>5, <2>3 DEF Write, HeadFull, HeadAt
    <3>2. checked' => Window \notin BadHeads[artifact][body]
      BY <1>2, <1>5, <2>3 DEF Write, HeadBad, HeadFull, IInv, HeadInv
    <3>3. TypeOK'
      <4>1. bytes' \in Nat
        BY <1>1, <2>3 DEF Write
      <4>2. UNCHANGED <<artifact, limit, mode, pc, layer, body, rejected, exceeded,
                        result, attempts, contacted, clashed>>
        BY <2>3 DEF Write, callVars
      <4> QED
        BY <1>6, <1>7, <4>1, <4>2 DEF IInv, TypeOK
    <3>4. HeadInv'
      BY <1>1, <1>2, <1>5, <1>6, <2>3, <3>1, <3>2 DEF Write, IInv, HeadInv, callVars
    <3>5. StepInv'
      BY <1>1, <1>2, <2>3 DEF Write, IInv, StepInv, callVars
    <3> QED
      BY <3>3, <3>4, <3>5
  <2>4. CASE DiskFull(n)
    <3>1. checked' => Window \notin BadHeads[artifact][body]
      BY <1>2, <1>5, <2>4 DEF DiskFull, HeadBad, HeadFull, IInv, HeadInv
    <3>2. TypeOK' /\ StepInv'
      BY <1>1, <1>2, <1>6, <1>7, <2>4 DEF DiskFull, WriteFails, IInv, TypeOK, StepInv, callVars
    <3>3. HeadInv'
      BY <1>2, <1>5, <1>6, <2>4, <3>1 DEF DiskFull, WriteFails, IInv, HeadInv, callVars
    <3> QED
      BY <3>2, <3>3
  <2> QED
    BY <1>0, <2>1, <2>2, <2>3, <2>4
<1> QED
  BY <1>8, <1>9, <1>10 DEF IInv

\* An attempt that fails has an error.
LEMMA VerdictType ==
    ASSUME IInv, pc = "received", Verdict # "served" PROVE Verdict \in Errors
<1>1. /\ result # None
      /\ result \in {None, "absent", "other", "NoCredential", "CredentialRejected",
                     "Io", "served"}
      /\ exceeded \in BOOLEAN /\ rejected \in BOOLEAN
  BY DEF IInv, TypeOK, StepInv
<1>2. CASE exceeded
  BY <1>2 DEF Verdict, Errors
<1>3. CASE ~exceeded /\ rejected
  BY <1>3 DEF Verdict, Errors
<1>4. CASE ~exceeded /\ ~rejected /\ result = "Io"
  BY <1>4 DEF Verdict, Errors
<1>5. CASE ~exceeded /\ ~rejected /\ result # "Io"
  BY <1>1, <1>5 DEF Verdict, Errors
<1> QED
  BY <1>1, <1>2, <1>3, <1>4, <1>5

LEMMA EndKeeps ==
    ASSUME IInv, ReceiveFails \/ RejectShort \/ Received \/ Reject \/ Publish,
           clashed' \in BOOLEAN
    PROVE  IInv'
<1>1. CASE ReceiveFails
  <2>1. pc = "received" /\ Verdict # "served" /\ After(Verdict)
    BY <1>1 DEF ReceiveFails
  <2> QED
    BY <2>1, VerdictType, AfterKeeps
<1>2. CASE RejectShort
  BY <1>2, AfterKeeps DEF RejectShort, Errors
<1>3. CASE Received
  <2>1. result = "served"
    <3>1. /\ exceeded \in BOOLEAN /\ rejected \in BOOLEAN /\ Verdict = "served"
      BY <1>3 DEF Received, IInv, TypeOK
    <3> QED
      BY <3>1 DEF Verdict
  <2>2. TypeOK' /\ BudgetInv'
    BY <1>3 DEF Received, IInv, TypeOK, BudgetInv, callVars, receiver
  <2>3. HeadInv' /\ StepInv' /\ LayerInv' /\ OutcomeInv'
    BY <1>3, <2>1 DEF Received, IInv, HeadInv, StepInv, LayerInv, OutcomeInv,
                      callVars, receiver
  <2> QED
    BY <2>2, <2>3 DEF IInv
<1>4. CASE Reject
  BY <1>4, AfterKeeps DEF Reject, Errors
<1>5. CASE Publish
  <2>1. body \in Accepted[artifact] /\ bytes = Length[body]
    BY <1>5 DEF Publish, ValidBody, IInv, StepInv
  <2>2. PICK out \in {"Mirror", "Upstream"} : Finish(out)
    BY <1>5 DEF Publish
  <2> QED
    BY <1>5, <2>1, <2>2, FinishKeeps DEF Publish
<1> QED
  BY <1>1, <1>2, <1>3, <1>4, <1>5

LEMMA NotPublishedKeeps == ASSUME IInv, NotPublished PROVE IInv'
<1>1. pc = "publish" /\ clashed \in BOOLEAN
  BY DEF NotPublished, IInv, TypeOK
<1>2. PICK e \in {"ContentRejected", "other"} : After(e) /\ clashed' \in BOOLEAN
  BY <1>1 DEF NotPublished
<1> QED
  BY <1>1, <1>2, AfterKeeps DEF Errors

LEMMA StepKeeps == ASSUME IInv, [Next]_vars PROVE IInv'
<1>1. clashed \in BOOLEAN
  BY DEF IInv, TypeOK
<1>2. CASE UNCHANGED vars
  BY <1>2 DEF vars, callVars, receiver, IInv, TypeOK, BudgetInv, HeadInv, StepInv,
              LayerInv, OutcomeInv
<1>3. CASE Next
  BY <1>1, <1>3, LocalKeeps, LocalMissKeeps, ProducerKeeps, TransferKeeps, EndKeeps,
     NotPublishedKeeps DEF Next
<1> QED
  BY <1>2, <1>3

\* The inductive invariant.
THEOREM Invariance == Spec => []IInv
<1>1. Init => IInv
  BY InitInv
<1>2. IInv /\ [Next]_vars => IInv'
  BY StepKeeps
<1> QED
  BY <1>1, <1>2, PTL DEF Spec

-----------------------------------------------------------------------------
(* The properties.                                                         *)

\* Every reachable state is well typed.
THEOREM TypeCorrect == Spec => []TypeOK
<1>1. IInv => TypeOK
  BY DEF IInv
<1> QED
  BY <1>1, Invariance, PTL

\* A call with a byte budget never writes more than it allows
\* (Receiver::write).
THEOREM WithinBudget == Spec => []BudgetHeld
<1>1. IInv => BudgetHeld
  BY BodyAssumption DEF IInv, TypeOK, BudgetInv, BudgetHeld
<1> QED
  BY <1>1, Invariance, PTL

\* A body betrayed by its head is not written past the window
\* (Receiver::write, check_prefix).
THEOREM EarlyRejection == Spec => []RejectedEarly
<1>1. IInv => RejectedEarly
  BY DEF IInv, TypeOK, HeadInv, RejectedEarly
<1> QED
  BY <1>1, Invariance, PTL

\* Layers are asked in order and none is left out of the errors
\* (get_with_budget, fetch_from_upstream).
THEOREM OrderKept == Spec => []LayersInOrder
<1>1. ASSUME IInv PROVE LayersInOrder
  <2>1. IInv
    BY <1>1
  <2>2. Sources[artifact] \in Nat /\ layer \in 0..Sources[artifact]
    BY <2>1, BodyAssumption DEF IInv, TypeOK
  <2>3. outcome = "AllSourcesFailed" =>
            layer > 0 /\ layer = Sources[artifact] /\ Len(attempts) = layer
    BY <2>1 DEF IInv, OutcomeInv
  <2>4. CASE layer = 0
    BY <2>1, <2>3, <2>4 DEF IInv, LayerInv, LayersInOrder
  <2>5. CASE layer > 0
    <3>1. /\ mode.allow /\ ~mode.offline
          /\ contacted = 1..layer \cup (IF mode.mirror THEN {0} ELSE {})
      BY <2>1, <2>5 DEF IInv, LayerInv
    <3>2. contacted \ {0} = 1..layer
      BY <2>2, <2>5, <3>1
    <3>3. \A l \in contacted \ {0} : 1..l \subseteq contacted
      BY <2>2, <3>1, <3>2
    <3> QED
      BY <2>3, <3>1, <3>2, <3>3 DEF LayersInOrder
  <2> QED
    BY <2>2, <2>4, <2>5
<1> QED
  BY <1>1, Invariance, PTL

-----------------------------------------------------------------------------
(* What a rejection means, and what it ends.                               *)

\* Content is rejected rightly, or the blob at its address is damaged.
RejectedRightly == outcome = "ContentRejected" => body \notin Accepted[artifact] \/ clashed

LEMMA AfterOutcome ==
    ASSUME NEW e, IInv, pc # "done", After(e), outcome' = "ContentRejected"
    PROVE  e = "ContentRejected" /\ UNCHANGED <<body, artifact>>
<1>0. outcome = None /\ None # "ContentRejected" /\ Sources[artifact] \in Nat
  BY BodyAssumption DEF IInv, TypeOK, OutcomeInv
<1>1. ASSUME NEW l, NEW tried, Ask(l, tried) PROVE FALSE
  BY <1>0, <1>1 DEF Ask
<1>2. ASSUME NEW out, Finish(out)
      PROVE  out = "ContentRejected" /\ UNCHANGED <<body, artifact>>
  BY <1>2 DEF Finish, callVars
<1>3. ASSUME NEW tried, Fail(tried) PROVE FALSE
  BY <1>3 DEF Fail
<1>4. ASSUME Upstream PROVE FALSE
  <2>1. CASE Sources[artifact] = 0
    <3>1. Finish("ManualRequired")
      BY <1>4, <2>1 DEF Upstream
    <3> QED
      BY <1>2, <3>1
  <2>2. CASE Sources[artifact] > 0 /\ ~mode.allow
    <3>1. Finish("MirrorUnreachable")
      BY <1>4, <2>2 DEF Upstream
    <3> QED
      BY <1>2, <3>1
  <2>3. CASE Sources[artifact] > 0 /\ mode.allow
    <3>1. Ask(1, <<>>)
      BY <1>4, <2>3 DEF Upstream
    <3> QED
      BY <1>1, <3>1
  <2> QED
    BY <1>0, <2>1, <2>2, <2>3
<1>5. ASSUME TryNext(e) PROVE FALSE
  <2>1. \/ Ask(layer + 1, Append(attempts, e))
        \/ Fail(Append(attempts, e))
    BY <1>5 DEF TryNext
  <2> QED
    BY <1>1, <1>3, <2>1
<1>6. Finish(e) \/ Upstream \/ TryNext(e)
  BY DEF After, AfterMirror, AfterSource
<1> QED
  BY <1>2, <1>4, <1>5, <1>6

LEMMA RejectionStep ==
    ASSUME PrefixSound, IInv, RejectedRightly, [Next]_vars
    PROVE  RejectedRightly'
<1> SUFFICES ASSUME outcome' = "ContentRejected"
             PROVE  body' \notin Accepted'[artifact'] \/ clashed'
  BY DEF RejectedRightly
<1>0. /\ artifact \in Artifact /\ body \in Body \cup {None}
      /\ pc # "done" => outcome # "ContentRejected"
  BY BodyAssumption DEF IInv, TypeOK, OutcomeInv
<1>1. CASE UNCHANGED vars
  BY <1>1 DEF vars, callVars, RejectedRightly
<1>2. CASE LocalHit \/ LocalError
  BY <1>2 DEF LocalHit, LocalError, Finish
<1>3. CASE LocalMiss
  <2>1. pc = "local"
    BY <1>3 DEF LocalMiss
  <2>2. Finish("OfflineMiss") \/ Ask(0, <<>>) \/ Upstream
    BY <1>3 DEF LocalMiss
  <2>3. layer = 0
    <3>1. layer \in Nat
      BY BodyAssumption DEF IInv, TypeOK
    <3> QED
      BY <2>1, <3>1 DEF IInv, LayerInv
  <2>4. ~Upstream
    <3>1. Upstream => After("other")
      BY <2>3 DEF After, AfterMirror
    <3> QED
      BY <2>1, <3>1, AfterOutcome
  <2> QED
    BY <1>0, <2>1, <2>2, <2>4 DEF Finish, Ask
<1>4. CASE RequestFails \/ Serve \/ Served \/ Breaks \/ Received
  BY <1>0, <1>4 DEF RequestFails, Serve, Served, Breaks, Received
<1>5. CASE Transfer
  BY <1>0, <1>5 DEF Transfer, Exceed, RejectHead, Write, DiskFull, WriteFails
<1>6. CASE ReceiveFails
  <2>1. pc = "received" /\ After(Verdict)
    BY <1>6 DEF ReceiveFails
  <2>2. Verdict = "ContentRejected" /\ UNCHANGED <<body, artifact>>
    BY <2>1, AfterOutcome
  <2>3. rejected
    <3>1. result # "ContentRejected" /\ exceeded \in BOOLEAN
      BY BodyAssumption DEF IInv, TypeOK
    <3> QED
      BY <2>2, <3>1 DEF Verdict
  <2>4. body \in Body /\ BadHeads[artifact][body] # {}
    BY <1>0, <2>3, BodyAssumption DEF IInv, HeadInv
  <2> QED
    BY <1>0, <2>2, <2>4 DEF PrefixSound
<1>7. CASE RejectShort
  <2>1. pc = "received" /\ Verdict = "served" /\ ShortHeadBad /\ After("ContentRejected")
    BY <1>7 DEF RejectShort
  <2>2. result = "served"
    <3>1. exceeded \in BOOLEAN /\ rejected \in BOOLEAN
      BY DEF IInv, TypeOK
    <3> QED
      BY <2>1, <3>1 DEF Verdict
  <2>3. body \in Body /\ BadHeads[artifact][body] # {}
    BY <1>0, <2>1, <2>2 DEF IInv, StepInv, ShortHeadBad
  <2> QED
    BY <1>0, <2>1, <2>3, AfterOutcome DEF PrefixSound
<1>8. CASE Reject
  BY <1>8, AfterOutcome DEF Reject, ValidBody
<1>9. CASE NotPublished
  <2>1. clashed' \/ After("other")
    BY <1>9 DEF NotPublished
  <2> QED
    BY <1>9, <2>1, AfterOutcome DEF NotPublished
<1>10. CASE Publish
  BY <1>10 DEF Publish, Finish
<1> QED
  BY <1>1, <1>2, <1>3, <1>4, <1>5, <1>6, <1>7, <1>8, <1>9, <1>10 DEF Next

\* If checks of a head reject no acceptable body, content is published only
\* if it is acceptable and rejected only if it is not (receive, validate,
\* publish).
THEOREM Judgement == ASSUME PrefixSound PROVE Spec => []ContentJudged
<1>1. Init => RejectedRightly
  BY BodyAssumption DEF Init, RejectedRightly
<1>2. IInv /\ RejectedRightly /\ [Next]_vars => RejectedRightly'
  BY RejectionStep
<1>3. IInv /\ RejectedRightly => ContentJudged
  BY DEF IInv, OutcomeInv, RejectedRightly, ContentJudged
<1> QED
  BY <1>1, <1>2, <1>3, Invariance, PTL DEF Spec

\* The next layer is not asked after a final verdict.
LEMMA AfterContacts ==
    ASSUME NEW e, After(e), contacted' # contacted
    PROVE  e # "TransferLimit" /\ (layer = 0 => e # "ContentRejected")
<1>1. ~Finish(e)
  BY DEF Finish
<1> QED
  BY <1>1 DEF After, AfterMirror, AfterSource

\* An exhausted budget and the mirror's unacceptable content end a get
\* (get_with_budget, fetch_from_upstream).
THEOREM FinalVerdicts == Spec => VerdictsFinal
<1> DEFINE Final == /\ ~exceeded
                    /\ layer = 0 /\ body # None =>
                          /\ ~rejected
                          /\ result = "served" => body \in Accepted[artifact]
<1>1. ASSUME IInv, [Next]_vars, pc # "local", contacted' # contacted PROVE Final
  <2>0. exceeded \in BOOLEAN /\ rejected \in BOOLEAN
    BY <1>1 DEF IInv, TypeOK
  <2>1. CASE ReceiveFails
    <3>1. Verdict # "served" /\ Verdict # "TransferLimit"
          /\ (layer = 0 => Verdict # "ContentRejected")
      BY <1>1, <2>1, AfterContacts DEF ReceiveFails
    <3>2. ~exceeded
      BY <3>1 DEF Verdict
    <3>3. layer = 0 => ~rejected
      BY <3>1, <3>2 DEF Verdict
    <3>4. layer = 0 => result # "served"
      BY <3>1, <3>2, <3>3 DEF Verdict
    <3> QED
      BY <3>2, <3>3, <3>4
  <2>2. CASE RejectShort
    <3>1. ~exceeded
      BY <2>0, <2>2 DEF RejectShort, Verdict
    <3> QED
      BY <1>1, <2>2, <3>1, AfterContacts DEF RejectShort
  <2>3. CASE Reject \/ NotPublished
    <3>1. ~exceeded /\ ~rejected
      BY <1>1, <2>3 DEF Reject, NotPublished, IInv, StepInv
    <3> QED
      BY <1>1, <2>3, <3>1, AfterContacts DEF Reject, NotPublished, ValidBody
  <2>4. CASE LocalHit \/ LocalError \/ LocalMiss
    <3>1. pc = "local"
      BY <2>4 DEF LocalHit, LocalError, LocalMiss
    <3> QED
      BY <1>1, <3>1
  <2>5. CASE RequestFails \/ Serve \/ Served \/ Breaks \/ Received
    BY <1>1, <2>5 DEF RequestFails, Serve, Served, Breaks, Received
  <2>6. CASE Transfer
    BY <1>1, <2>6 DEF Transfer, Exceed, RejectHead, Write, DiskFull, WriteFails
  <2>7. CASE Publish
    BY <1>1, <2>7 DEF Publish, Finish
  <2>8. CASE UNCHANGED vars
    BY <1>1, <2>8 DEF vars
  <2> QED
    BY <1>1, <2>1, <2>2, <2>3, <2>4, <2>5, <2>6, <2>7, <2>8 DEF Next
<1>2. IInv /\ [Next]_vars =>
          [pc # "local" /\ contacted' # contacted => Final]_vars
  BY <1>1
<1> QED
  BY <1>2, Invariance, PTL DEF Spec, VerdictsFinal
===============================================================================
