---------------------------- MODULE ImmutableMirror ----------------------------
(***************************************************************************)
(* What the mirror promises while nobody repairs it, without requests,     *)
(* retries, uploads or a local cache (src/docs/deploy.md:15): a map from   *)
(* keys to contents that only grows, and pins that only grow after it.     *)
(*                                                                         *)
(* A worker wants one key at a time and is told what the bucket holds for  *)
(* it.  It may learn this from an object that is there or by storing one.  *)
(* A worker that has been told may pin what it was told.  Objects may      *)
(* also appear without anybody's knowledge.                                *)
(***************************************************************************)
CONSTANTS Worker, Key, Digest, None

VARIABLES
    bucket,     \* the object of each key, or None
    pins,       \* the digest the manifest pins for each key, or None
    wanted,     \* the key each worker is dealing with, or None
    told        \* the digest each worker knows this key's object to have

vars == <<bucket, pins, wanted, told>>

\* An undamaged object: its body is the content that its metadata names.
Whole(d) == [sha |-> d, body |-> d]

Init == /\ bucket = [k \in Key |-> None]
        /\ pins \in [Key -> Digest \cup {None}]
        /\ wanted = [p \in Worker |-> None]
        /\ told = [p \in Worker |-> None]

Want(p, k) == /\ told[p] = None
              /\ wanted' = [wanted EXCEPT ![p] = k]
              /\ UNCHANGED <<bucket, pins, told>>

Insert(k, d) == /\ bucket[k] = None
                /\ bucket' = [bucket EXCEPT ![k] = Whole(d)]

\* A store whose sender does not know.
Store(k, d) == Insert(k, d) /\ UNCHANGED <<pins, wanted, told>>

\* The key's object is there, perhaps only since now.
Tell(p, d) == /\ wanted[p] \in Key /\ told[p] = None
              /\ \/ bucket[wanted[p]] = Whole(d) /\ UNCHANGED bucket
                 \/ Insert(wanted[p], d)
              /\ told' = [told EXCEPT ![p] = d]
              /\ UNCHANGED <<pins, wanted>>

\* The worker lets go of its key and of what it was told.
LetGo(p) == /\ wanted' = [wanted EXCEPT ![p] = None]
            /\ told' = [told EXCEPT ![p] = None]
            /\ UNCHANGED bucket

Finish(p) == LetGo(p) /\ UNCHANGED pins

\* What was told is still so, and contradicts no earlier pin.
Pin(p) == /\ told[p] \in Digest
          /\ bucket[wanted[p]] = Whole(told[p])
          /\ pins[wanted[p]] \in {None, told[p]}
          /\ pins' = [pins EXCEPT ![wanted[p]] = told[p]]
          /\ LetGo(p)

Next == \/ \E k \in Key, d \in Digest : Store(k, d)
        \/ \E p \in Worker, k \in Key : Want(p, k)
        \/ \E p \in Worker, d \in Digest : Tell(p, d)
        \/ \E p \in Worker : Pin(p) \/ Finish(p)

Spec == Init /\ [][Next]_vars
===============================================================================
