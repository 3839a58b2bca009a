-------------------------------- MODULE Fetcher --------------------------------
(***************************************************************************)
(* The HTTP fetch engine (src/src/fetch.rs), in the upstream layer, which  *)
(* authenticates with the store's credential chain, and in the HTTP mirror *)
(* client (src/src/mirror/http.rs), which never does.                      *)
(*                                                                         *)
(* A URL is its scheme, its host (None if it has none) and whether it      *)
(* carries userinfo.  Redirects are followed by hand: each hop looks its   *)
(* credential up anew, while an operator may edit ~/.netrc and 1Password.  *)
(* The archive, external here, answers anything.  What a bearer token says *)
(* of its expiry only words a message, and cookies are not modelled: one   *)
(* request of one process is.                                              *)
(***************************************************************************)
EXTENDS Configuration

CONSTANTS
    Sources,    \* what may be requested: a url, whether redirects are trusted
    Targets,    \* URLs a redirect may lead to
    Netrcs,     \* what an operator may turn ~/.netrc into
    Vaults,     \* and what `op read' may come to give
    MaxHops,    \* MAX_HOPS: requests that a download may take
    MaxEdits    \* bound on those edits

ASSUME HopsAssumption == MaxHops \in Nat \ {0} /\ MaxEdits \in Nat

ASSUME UrlAssumption ==
    /\ \A u \in Targets \cup {src.url : src \in Sources} : u.host \in Host \cup {None}
    /\ None \notin {"download", "NoCredential", "CredentialRejected"}

VARIABLES
    pc,         \* "idle", "origin", "hop", "send", "response", "body", "done"
    engine,     \* "upstream" or "mirror"
    source,     \* what is requested
    url,        \* the URL of this hop
    hop,        \* requests made before this one
    origin,     \* the credential read for the source's host, at the start
    credential, \* the one this hop is sent with, and for which host
    identity,   \* identity_used
    outcome,    \* what request() returned
    sent,       \* history: each request sent, with its credential
    edits

fetchVars == <<pc, engine, source, url, hop, origin, credential, identity,
               outcome, sent>>
vars == <<configVars, fetchVars, edits>>

Nothing == [kind |-> None]

FetcherInit ==
    /\ ConfigInit
    /\ pc = "idle" /\ engine = None /\ source = None /\ url = None
    /\ hop = 0 /\ origin = None /\ credential = None /\ identity = None
    /\ outcome = Nothing /\ sent = {} /\ edits = 0

-----------------------------------------------------------------------------
(* One request.                                                            *)

Return(out) ==
    /\ pc' = "done" /\ outcome' = out
    /\ UNCHANGED <<engine, source, url, hop, origin, credential, identity, sent>>

\* HttpMirror::fetch words the refusal of a mirror as a mirror error.
Refused(out) == IF engine = "mirror" /\ out.kind = "NoCredential"
                THEN [kind |-> "Mirror"] ELSE out

\* parse_source_url and host_of.
Acceptable(u) == ~u.userinfo /\ u.scheme \in {"http", "https"} /\ u.host # None

Lookup(h) == IF engine = "mirror" THEN None ELSE ChainCredential(store.chain, h)

Request(e, src) ==
    /\ phase = "running" /\ pc = "idle"
    /\ ~store.offline
    /\ e = "upstream" => store.allow
    /\ e = "mirror"   => store.mirror = "http"
    /\ engine' = e /\ source' = src /\ url' = src.url
    /\ pc' = "origin"
    /\ UNCHANGED <<hop, origin, credential, identity, outcome, sent>>

Origin ==
    /\ pc = "origin"
    /\ Acceptable(url) /\ Lookup(url.host) # Fails
    /\ origin' = Lookup(url.host)
    /\ pc' = "hop"
    /\ UNCHANGED <<engine, source, url, hop, credential, identity, outcome, sent>>

OriginFails ==
    /\ pc = "origin"
    /\ Acceptable(url) => Lookup(url.host) = Fails
    /\ Return([kind |-> IF Acceptable(url) THEN "Credential" ELSE "Config"])

\* Mutant: the source's credential follows every redirect.
ForwardedAlways == IF hop > 0 THEN origin ELSE None

\* For a host with no credential of its own.
Forwarded == IF hop > 0 /\ source.trust THEN origin ELSE None

Authenticate ==
    /\ pc = "hop"
    /\ Lookup(url.host) # Fails
    /\ credential' = IF Lookup(url.host) # None THEN Lookup(url.host) ELSE Forwarded
    /\ pc' = "send"
    /\ UNCHANGED <<engine, source, url, hop, origin, identity, outcome, sent>>

LookupFails ==
    /\ pc = "hop"
    /\ Lookup(url.host) = Fails
    /\ Return([kind |-> "Credential"])

\* The secret stores are read again, and an earlier hop's identity stays.
IdentityUsed == IF credential = None THEN identity
                ELSE ChainIdentity(store.chain, credential.host)

Send ==
    /\ pc = "send"
    /\ identity' = IdentityUsed
    /\ sent' = sent \cup {[url |-> url, credential |-> credential]}
    /\ pc' = "response"
    /\ UNCHANGED <<engine, source, url, hop, origin, credential, outcome>>

\* Mutant: a redirect is compared with the source, not with the last hop.
ValidHopOfSource(to) == Acceptable(to) /\ (source.url.scheme = "https" => to.scheme = "https")

\* validate_hop: no downgrade to plaintext.
ValidHop(to) == Acceptable(to) /\ (url.scheme = "https" => to.scheme = "https")

\* Mutant: redirects are not counted.
NextHopUncounted(to) ==
    /\ url' = to /\ pc' = "hop"
    /\ UNCHANGED <<engine, source, hop, origin, credential, identity, outcome, sent>>

NextHop(to) ==
    /\ hop + 1 < MaxHops
    /\ url' = to /\ hop' = hop + 1 /\ pc' = "hop"
    /\ UNCHANGED <<engine, source, origin, credential, identity, outcome, sent>>

Redirected(to) ==
    /\ pc = "response"
    /\ ValidHop(to) /\ NextHop(to)

\* Nowhere to go, a bad target, or one redirect too many.
RedirectFails ==
    /\ pc = "response"
    /\ \/ \E to \in Targets : ~Acceptable(to) /\ Return([kind |-> "Config"])
       \/ Return([kind |-> "Mirror"])

\* Mutant: any credential at hand counts as sent.
VerdictOfOrigin ==
    [kind |-> IF origin # None THEN "CredentialRejected" ELSE "NoCredential",
     host |-> url.host]

Verdict ==
    [kind |-> IF credential # None THEN "CredentialRejected" ELSE "NoCredential",
     host |-> url.host]

Unauthorized ==
    /\ pc = "response"
    /\ Return(Refused(Verdict))

NotFound ==
    /\ pc = "response"
    /\ Return([kind |-> "absent"])

\* Another status, or no answer at all.
BadResponse ==
    /\ pc = "response"
    /\ Return([kind |-> "Http"])

Success ==
    /\ pc = "response"
    /\ pc' = "body"
    /\ UNCHANGED <<engine, source, url, hop, origin, credential, identity, outcome, sent>>

\* The body is streamed into the sink, which may refuse it.
Stream ==
    /\ pc = "body"
    /\ \E out \in {[kind |-> "download", identity |-> identity], [kind |-> "Io"]} :
          Return(out)

Fetch == \/ Origin \/ OriginFails \/ Authenticate \/ LookupFails \/ Send
         \/ (\E to \in Targets : Redirected(to)) \/ RedirectFails
         \/ Unauthorized \/ NotFound \/ BadResponse \/ Success \/ Stream

\* An operator edits ~/.netrc or 1Password while a request runs.
Edit ==
    /\ pc \notin {"idle", "done"} /\ edits < MaxEdits
    /\ edits' = edits + 1
    /\ \/ netrc' \in Netrcs \ {netrc} /\ UNCHANGED vault
       \/ vault' \in Vaults \ {vault} /\ UNCHANGED netrc
    /\ UNCHANGED <<variable, inputVars, phase, config, store, fetchVars>>

Next == \/ Startup /\ UNCHANGED <<fetchVars, edits>>
        \/ (\E e \in {"upstream", "mirror"}, src \in Sources : Request(e, src))
              /\ UNCHANGED <<configVars, edits>>
        \/ Fetch /\ UNCHANGED <<configVars, edits>>
        \/ Edit

Spec == FetcherInit /\ [][Next]_vars

\* The process runs on, and every hop is answered or fails.  That is assumed
\* of the archives: the client has no read or total timeout (fetch.rs:62-66).
FairSpec == Spec /\ WF_vars(Fetch /\ UNCHANGED <<configVars, edits>>)

-----------------------------------------------------------------------------
(* Properties.                                                             *)

TypeOK ==
    /\ phase \in {"new", "loaded", "running", "failed"}
    /\ pc \in {"idle", "origin", "hop", "send", "response", "body", "done"}
    /\ engine \in {"upstream", "mirror", None}
    /\ hop \in 0..MaxHops - 1
    /\ edits \in 0..MaxEdits
    /\ pc # "idle" => source \in Sources /\ url \in Targets \cup {source.url}
    /\ \A s \in sent : s.url \in Targets \cup {source.url}

(* A credential goes to the host it was looked up for, and to another one  *)
(* only when the source trusts its redirects and it is the source's own    *)
(* (fetch.rs:7-10): whatever archives answer and operators edit.           *)
SecretStaysHome ==
    \A s \in sent : s.credential # None =>
        \/ s.credential.host = s.url.host
        \/ source.trust /\ s.credential.host = source.url.host

(* Once a download has gone over TLS none of its later hops is plaintext,  *)
(* also when the source itself was not https (fetch.rs:217-230).           *)
NoPlaintextAfterTLS ==
    [][pc # "idle" /\ url.scheme = "https" => url'.scheme = "https"]_vars

(* Credentials are sent only where the configuration grants them: the      *)
(* mirror client sends none on any hop (mirror/http.rs:4-7), and a service *)
(* that lists its credentials sends those, to hosts they name, and neither *)
(* ambient nor another service's ones (config.rs:157-178, 240-245).        *)
OnlyGrantedCredentials ==
    \A s \in sent : s.credential # None =>
        /\ engine = "upstream"
        /\ Profile.credentials # None =>
              \E i \in DOMAIN Entries :
                  /\ Entries[i].name = s.credential.from
                  /\ Claims(Entries[i], s.credential.host)

(* What a request reports is what was sent: CredentialRejected names a     *)
(* host that was sent one, NoCredential a host one hop to which carried    *)
(* none (another hop may have, after an edit), which a mirror never        *)
(* reports; and an identity is recorded only when some hop was sent a      *)
(* credential (fetch.rs:81-83, 103-105; mirror/http.rs:45).                *)
ReportsWhatWasSent ==
    /\ outcome.kind = "CredentialRejected" =>
          \E s \in sent : s.url.host = outcome.host /\ s.credential # None
    /\ outcome.kind = "NoCredential" =>
          engine = "upstream" /\ \E s \in sent : s.url.host = outcome.host /\ s.credential = None
    /\ outcome.kind = "download" =>
          (outcome.identity # None => \E s \in sent : s.credential # None)

(* Every request whose hops are answered ends, however archives redirect   *)
(* (fetch.rs:26, 94).                                                      *)
RequestEnds == pc # "idle" ~> pc = "done"

(* "Provider identity of the credential that was actually sent, if any."   *)
(* (fetch.rs:47)                                                           *)
IdentityOfSent ==
    outcome.kind = "download" =>
        (outcome.identity # None =>
            \E s \in sent : s.credential # None /\ s.credential.from = outcome.identity)
===============================================================================
