----------------------------- MODULE ContentCache -----------------------------
(***************************************************************************)
(* What the local cache promises its callers, without locks, temp files or *)
(* the steps of a call (spec section 7 of src/docs/spec.md).               *)
(*                                                                         *)
(* An index binds keys to contents; contents are stored once.  A caller    *)
(* asks for an artifact and is answered with a stored content that this    *)
(* artifact accepts and that the index binds to its key at that moment.    *)
(* A stored content is reclaimed only when no key is bound to it, and one  *)
(* that has decayed is never replaced, only reclaimed.                     *)
(***************************************************************************)
CONSTANTS Proc, Key, Digest, Artifact, KeyOf, Pins, Passes, Malformed, None

VARIABLES
    cached,     \* what the index binds each key to
    stored,     \* contents whose blob is present
    decayed,    \* those that no longer hash to their name
    asked,      \* the artifact each caller is waiting for
    served      \* the content each caller was last answered with

dirVars == <<cached, stored, decayed>>
vars == <<dirVars, asked, served>>

Accepts(a, d) == d \in Passes[a] /\ \A pin \in Pins[a] : pin = d

Init == /\ cached = [k \in Key |-> None]
        /\ stored = {}
        /\ decayed = {}
        /\ asked = [p \in Proc |-> None]
        /\ served = [p \in Proc |-> None]

Answer(p, d) == /\ asked' = [asked EXCEPT ![p] = None]
                /\ served' = [served EXCEPT ![p] = d]

Ask(p, a) == /\ asked[p] = None
             /\ asked' = [asked EXCEPT ![p] = a]
             /\ served' = [served EXCEPT ![p] = None]
             /\ UNCHANGED dirVars

\* The call that stores a content may fail at that.
Store(p, d) == /\ d \notin stored
               /\ stored' = stored \cup {d}
               /\ Answer(p, None) \/ UNCHANGED <<asked, served>>
               /\ UNCHANGED <<cached, decayed>>

\* A fetched or imported content becomes the key's, and the caller's answer.
Publish(p, d) == /\ asked[p] \in Artifact
                 /\ d \in stored
                 /\ Accepts(asked[p], d)
                 /\ cached' = [cached EXCEPT ![KeyOf[asked[p]]] = d]
                 /\ Answer(p, d)
                 /\ UNCHANGED <<stored, decayed>>

\* A content becomes the key's, but the caller gets no answer: its call has
\* failed, or goes on to fetch another content.
Bind(p, d) == /\ asked[p] \in Artifact
              /\ d \in stored
              /\ Accepts(asked[p], d)
              /\ cached' = [cached EXCEPT ![KeyOf[asked[p]]] = d]
              /\ Answer(p, None) \/ UNCHANGED <<asked, served>>
              /\ UNCHANGED <<stored, decayed>>

\* A hit changes nothing.  (The sidecar may have been damaged while the
\* blob was being rehashed.)
Hit(p, d) == /\ asked[p] \in Artifact
             /\ d \in stored \ decayed
             /\ Accepts(asked[p], d)
             /\ cached[KeyOf[asked[p]]] \in {d, Malformed}
             /\ Answer(p, d)
             /\ UNCHANGED dirVars

\* A caller that asked for no artifact peeks at whatever blob is there.
Glance(p, d) == /\ asked[p] = None
                /\ d \in stored
                /\ Answer(p, d)
                /\ UNCHANGED dirVars

\* A call fails, dies, or has no content for an answer.
Forget(p) == Answer(p, None) /\ UNCHANGED dirVars

Drop(k) == /\ cached[k] \in Digest
           /\ cached' = [cached EXCEPT ![k] = None]
           /\ UNCHANGED <<stored, decayed, asked, served>>

\* Reclaiming the last blob of a call may also end the call.
Reclaim(p, d) == /\ d \in stored
                 /\ \A k \in Key : cached[k] # d
                 /\ stored' = stored \ {d}
                 /\ decayed' = decayed \ {d}
                 /\ Answer(p, None) \/ UNCHANGED <<asked, served>>
                 /\ UNCHANGED cached

Decay(d) == /\ d \in stored \ decayed
            /\ decayed' = decayed \cup {d}
            /\ UNCHANGED <<cached, stored, asked, served>>

Damage(k) == /\ cached[k] \in Digest
             /\ cached' = [cached EXCEPT ![k] = Malformed]
             /\ UNCHANGED <<stored, decayed, asked, served>>

Next == \/ \E d \in Digest : Decay(d)
        \/ \E k \in Key : Drop(k) \/ Damage(k)
        \/ \E p \in Proc : Forget(p)
        \/ \E p \in Proc, a \in Artifact : Ask(p, a)
        \/ \E p \in Proc, d \in Digest :
              \/ Store(p, d) \/ Publish(p, d) \/ Bind(p, d)
              \/ Hit(p, d) \/ Glance(p, d) \/ Reclaim(p, d)

Spec == Init /\ [][Next]_vars
===============================================================================
