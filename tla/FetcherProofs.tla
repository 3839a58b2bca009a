----------------------------- MODULE FetcherProofs -----------------------------
(***************************************************************************)
(* Proofs about Fetcher and the configuration it runs with, for any worlds,*)
(* hosts, archives and edits of the secret stores.                         *)
(***************************************************************************)
EXTENDS Fetcher, TLAPS

-----------------------------------------------------------------------------
(* What a lookup returns.                                                  *)

\* A provider's credential is one for the host it was asked about.
LEMMA CredentialHost ==
    ASSUME NEW p, NEW h
    PROVE  CredentialOf(p, h) \in {None, Fails} \/ CredentialOf(p, h).host = h
<1>1. EnvCredential(h) \in {None, Fails} \/ EnvCredential(h).host = h
  BY DEF EnvCredential, Credential
<1>2. NetrcCredential(h) \in {None, Fails} \/ NetrcCredential(h).host = h
  BY DEF NetrcCredential, Credential
<1>3. VaultCredential(h) \in {None, Fails} \/ VaultCredential(h).host = h
  BY DEF VaultCredential, Credential
<1>4. \A e : EntryCredential(e, h) \in {None, Fails} \/ EntryCredential(e, h).host = h
  BY DEF EntryCredential, Credential
<1> QED
  BY <1>1, <1>2, <1>3, <1>4 DEF CredentialOf

LEMMA LookupHost ==
    ASSUME NEW h
    PROVE  Lookup(h) \in {None, Fails} \/ Lookup(h).host = h
<1>1. \A p : CredentialOf(p, h) \in {None, Fails} \/ CredentialOf(p, h).host = h
  BY CredentialHost
<1> QED
  BY <1>1 DEF Lookup, ChainCredential

\* A credential the configuration grants.
Granted(c) ==
    /\ engine = "upstream"
    /\ Profile.credentials # None =>
          \E i \in DOMAIN Entries :
              Entries[i].name = c.from /\ Claims(Entries[i], c.host)

\* With a list of its own, the chain of a service is that list's provider.
LEMMA OwnChain ==
    ASSUME Profile.credentials # None
    PROVE  Chain = <<ConfigProvider(Entries)>>
BY DEF Chain

LEMMA ConfigCredential ==
    ASSUME NEW es, NEW h \in Host, NEW c, c = CredentialOf(ConfigProvider(es), h),
           c \notin {None, Fails}
    PROVE  /\ \E i \in DOMAIN es : es[i].name = c.from /\ Claims(es[i], h)
           /\ c.host = h
<1> DEFINE p == ConfigProvider(es)
<1>1. /\ p.kind = "config" /\ p.entries = es
      /\ p.byHost[h] = {i \in DOMAIN es : Claims(es[i], h)}
  BY DEF ConfigProvider
<1>2. p.byHost[h] # {} /\ c = EntryCredential(EntryFor(p, h), h)
  BY <1>1 DEF CredentialOf
<1>3. PICK i \in DOMAIN es : EntryFor(p, h) = es[i] /\ Claims(es[i], h)
  BY <1>1, <1>2 DEF EntryFor
<1>4. c.from = es[i].name /\ c.host = h
  BY <1>2, <1>3 DEF EntryCredential, Credential
<1> QED
  BY <1>3, <1>4

LEMMA LookupGranted ==
    ASSUME NEW h \in Host, engine \in {"upstream", "mirror"}, store.chain = Chain,
           Lookup(h) \notin {None, Fails}
    PROVE  Granted(Lookup(h))
<1>1. engine = "upstream" /\ Lookup(h) = ChainCredential(store.chain, h)
  BY DEF Lookup
<1>2. ASSUME Profile.credentials # None
      PROVE  \E i \in DOMAIN Entries :
                 Entries[i].name = Lookup(h).from /\ Claims(Entries[i], Lookup(h).host)
  <2>1. Lookup(h) = CredentialOf(ConfigProvider(Entries), h)
    <3>1. store.chain = <<ConfigProvider(Entries)>>
      BY <1>2, OwnChain
    <3>2. DOMAIN store.chain = {1} /\ store.chain[1] = ConfigProvider(Entries)
      BY <3>1
    <3> DEFINE some == {i \in DOMAIN store.chain : CredentialOf(store.chain[i], h) # None}
    <3>3. ChainCredential(store.chain, h) =
              IF some = {} THEN None ELSE CredentialOf(store.chain[FirstOf(some)], h)
      BY DEF ChainCredential
    <3>4. some # {}
      BY <1>1, <3>3
    <3>5. some = {1}
      BY <3>2, <3>4
    <3>6. FirstOf(some) = 1
      BY <3>5 DEF FirstOf
    <3> QED
      BY <1>1, <3>2, <3>3, <3>4, <3>6
  <2> QED
    BY <2>1, ConfigCredential
<1> QED
  BY <1>1, <1>2 DEF Granted

-----------------------------------------------------------------------------
(* The configuration a process runs with.                                  *)

ConfigInv ==
    /\ phase \in {"loaded", "running"} => Valid(config)
    /\ phase = "running" =>
          /\ Selected \in DOMAIN config.services \cup {None}
          /\ Configurable(Entries)
          /\ store.chain = Chain
          /\ store.root = Or(Or(environ.cacheDir, config.cacheDir), DefaultRoot)

\* Choices leave the directory and the chain alone.
LEMMA BuiltParts ==
    /\ Built.root = Or(Or(environ.cacheDir, config.cacheDir), DefaultRoot)
    /\ Built.chain = Chain
BY DEF Built, Choices

LEMMA StartupStep ==
    ASSUME ConfigInv, Startup
    PROVE  ConfigInv'
<1>1. CASE Load
  BY <1>1 DEF Load, ConfigInv, Valid, ValidService, Names
<1>2. CASE LoadFails \/ BuildFails
  BY <1>2 DEF LoadFails, BuildFails, Fail, ConfigInv
<1>3. CASE Build
  <2>1. /\ Valid(config) /\ phase' = "running"
        /\ UNCHANGED <<config, flag, environ>>
    BY <1>3 DEF Build, ConfigInv, inputVars
  <2>2. store'.root = Built.root /\ store'.chain = Built.chain
    BY <1>3 DEF Build, Built, Choices
  <2>3. Valid(config)'
    BY <2>1 DEF Valid, ValidService, Names
  <2>4. Entries' = Entries /\ Profile' = Profile /\ Selected' = Selected /\ Chain' = Chain
    BY <2>1 DEF Entries, Profile, Selected, Chain, Ambient
  <2>5. ConfigInv'
    BY <1>3, <2>1, <2>2, <2>3, <2>4, BuiltParts DEF Build, Buildable, ConfigInv
  <2> QED
    BY <2>5
<1> QED
  BY <1>1, <1>2, <1>3 DEF Startup

\* Nothing else touches what the configuration is.
LEMMA ConfigKept ==
    ASSUME ConfigInv, UNCHANGED <<inputVars, phase, config, store>>
    PROVE  ConfigInv'
<1>1. Entries' = Entries /\ Profile' = Profile /\ Selected' = Selected /\ Chain' = Chain
  BY DEF Entries, Profile, Selected, Chain, Ambient, inputVars
<1>2. Valid(config)' = Valid(config)
  BY DEF Valid
<1> QED
  BY <1>1, <1>2 DEF ConfigInv, inputVars

LEMMA ConfigStep ==
    ASSUME ConfigInv, [Next]_vars
    PROVE  ConfigInv'
<1>1. Startup \/ UNCHANGED <<inputVars, phase, config, store>>
  BY DEF Next, Edit, vars, configVars
<1> QED
  BY <1>1, StartupStep, ConfigKept

LEMMA ConfigStart == FetcherInit => ConfigInv
BY DEF FetcherInit, ConfigInit, ConfigInv

THEOREM ConfigInvariance == Spec => []ConfigInv
BY ConfigStart, ConfigStep, PTL DEF Spec

\* Eviction happens in a directory that somebody named
\* (DatastoreConfig::validate, apply_file).
THEOREM NamedDirOnly == Spec => []EvictsNamedDirOnly
<1>1. ConfigInv => EvictsNamedDirOnly
  <2>1. SUFFICES ASSUME ConfigInv, phase = "running", Profile.cache # None,
                        Profile.cache.evict
                 PROVE  store.root \in {environ.cacheDir, config.cacheDir}
    BY DEF EvictsNamedDirOnly
  <2>2. Selected # None /\ Profile = config.services[Selected]
    BY <2>1 DEF Profile
  <2>3. ValidService(config, config.services[Selected])
    BY <2>1, <2>2 DEF ConfigInv, Valid
  <2>4. config.cacheDir # None
    BY <2>1, <2>2, <2>3 DEF ValidService
  <2> QED
    BY <2>1, <2>4 DEF ConfigInv, Or
<1> QED
  BY <1>1, ConfigInvariance, PTL

-----------------------------------------------------------------------------
(* A request.                                                              *)

\* The control of a request.
RequestInv ==
    /\ pc = "idle" => sent = {} /\ origin = None /\ identity = None
    /\ pc # "done" => outcome = Nothing
    /\ pc # "idle" =>
          /\ phase = "running"
          /\ engine \in {"upstream", "mirror"}
          /\ source \in Sources
          /\ url \in Targets \cup {source.url}
    /\ pc = "origin" => url = source.url /\ origin = None
    /\ pc \in {"hop", "send", "response"} => Acceptable(url)

\* Whose secret may go where.
Home(c, u) ==
    \/ c.host = u.host
    \/ source.trust /\ c.host = source.url.host

CredentialInv ==
    /\ origin # None => origin.host = source.url.host /\ Granted(origin)
    /\ pc \in {"send", "response"} /\ credential # None =>
          Home(credential, url) /\ Granted(credential)
    /\ \A s \in sent : s.credential # None =>
          Home(s.credential, s.url) /\ Granted(s.credential)

\* What a request will be able to say of what it sent.
ReportInv ==
    /\ pc = "response" => [url |-> url, credential |-> credential] \in sent
    /\ identity # None => \E s \in sent : s.credential # None
    /\ ReportsWhatWasSent

FetchInv == RequestInv /\ CredentialInv /\ ReportInv

\* What a grant rests on does not change.
LEMMA GrantKept ==
    ASSUME NEW c, Granted(c), UNCHANGED <<engine, config, flag>>
    PROVE  Granted(c)'
<1>1. Selected' = Selected
  BY DEF Selected
<1>2. Profile' = Profile
  BY <1>1 DEF Profile
<1>3. Entries' = Entries
  BY <1>2 DEF Entries
<1>4. \A e, h : Claims(e, h)' = Claims(e, h)
  BY DEF Claims
<1> QED
  BY <1>2, <1>3, <1>4 DEF Granted

LEMMA HostKnown ==
    ASSUME RequestInv, pc # "idle", Acceptable(url)
    PROVE  url.host \in Host
BY UrlAssumption DEF RequestInv, Acceptable

\* Steps that neither send nor look anything up.
LEMMA QuietStep ==
    ASSUME CredentialInv,
           UNCHANGED <<engine, config, flag, source, origin, sent>>,
           pc' \in {"send", "response"} =>
               pc \in {"send", "response"} /\ UNCHANGED <<url, credential>>
    PROVE  CredentialInv'
<1>1. \A c : Granted(c) => Granted(c)'
  BY GrantKept
<1>2. \A c, u : Home(c, u) => Home(c, u)'
  BY DEF Home
<1> QED
  BY <1>1, <1>2 DEF CredentialInv

\* The lookups of a request.
LEMMA LookupStep ==
    ASSUME ConfigInv, FetchInv, Origin \/ Authenticate, UNCHANGED configVars
    PROVE  FetchInv'
<1>0. /\ pc \in {"origin", "hop"} /\ Acceptable(url) /\ Lookup(url.host) # Fails
      /\ UNCHANGED <<engine, source, url, hop, identity, outcome, sent>>
      /\ UNCHANGED <<phase, config, flag>>
  <2>1. UNCHANGED <<phase, config, flag>>
    BY DEF configVars, inputVars
  <2>2. CASE Origin
    BY <2>1, <2>2 DEF Origin
  <2>3. CASE Authenticate
    BY <2>1, <2>3 DEF Authenticate, FetchInv, RequestInv
  <2> QED
    BY <2>2, <2>3
<1>1. url.host \in Host /\ engine \in {"upstream", "mirror"} /\ store.chain = Chain
  BY <1>0, HostKnown DEF FetchInv, RequestInv, ConfigInv
<1>2. Lookup(url.host) # None =>
          Lookup(url.host).host = url.host /\ Granted(Lookup(url.host))
  BY <1>0, <1>1, LookupHost, LookupGranted
<1>3. \A c : Granted(c) => Granted(c)'
  BY <1>0, GrantKept
<1>4. \A c, u : Home(c, u) => Home(c, u)'
  BY <1>0 DEF Home
<1>5. RequestInv'
  BY <1>0 DEF Origin, Authenticate, FetchInv, RequestInv, Acceptable
<1>6. ReportInv'
  BY <1>0 DEF Origin, Authenticate, FetchInv, ReportInv, ReportsWhatWasSent
<1>7. CredentialInv'
  <2>1. CASE Origin
    <3>1. pc' = "hop" /\ origin' = Lookup(url.host) /\ url = source.url
      BY <2>1 DEF Origin, FetchInv, RequestInv
    <3> QED
      BY <1>0, <1>2, <1>3, <1>4, <3>1 DEF FetchInv, CredentialInv
  <2>2. CASE Authenticate
    <3>1. /\ pc' = "send" /\ origin' = origin
          /\ credential' = IF Lookup(url.host) # None THEN Lookup(url.host) ELSE Forwarded
      BY <2>2 DEF Authenticate
    <3>2. credential' # None => Home(credential', url) /\ Granted(credential')
      <4>1. CASE Lookup(url.host) # None
        BY <1>2, <3>1, <4>1 DEF Home
      <4>2. CASE Lookup(url.host) = None
        BY <3>1, <4>2 DEF Forwarded, Home, FetchInv, CredentialInv
      <4> QED
        BY <4>1, <4>2
    <3> QED
      BY <1>0, <1>3, <1>4, <3>1, <3>2 DEF FetchInv, CredentialInv
  <2> QED
    BY <2>1, <2>2
<1> QED
  BY <1>5, <1>6, <1>7 DEF FetchInv

LEMMA SendStep ==
    ASSUME FetchInv, Send, UNCHANGED configVars
    PROVE  FetchInv'
<1>0. /\ pc = "send" /\ pc' = "response" /\ identity' = IdentityUsed
      /\ sent' = sent \cup {[url |-> url, credential |-> credential]}
      /\ UNCHANGED <<engine, source, url, hop, origin, credential, outcome>>
      /\ UNCHANGED <<phase, config, flag>>
  BY DEF Send, configVars, inputVars
<1>1. RequestInv'
  BY <1>0 DEF FetchInv, RequestInv, Acceptable
<1>2. ReportInv'
  <2>1. outcome' = Nothing
    BY <1>0 DEF FetchInv, RequestInv
  <2>2. ReportsWhatWasSent'
    BY <2>1, UrlAssumption DEF ReportsWhatWasSent, Nothing
  <2>3. identity' # None => \E s \in sent' : s.credential # None
    <3>1. CASE credential = None
      BY <1>0, <3>1 DEF IdentityUsed, FetchInv, ReportInv
    <3>2. CASE credential # None
      <4>1. [url |-> url, credential |-> credential] \in sent'
        BY <1>0
      <4> QED
        BY <3>2, <4>1
    <3> QED
      BY <3>1, <3>2
  <2> QED
    BY <1>0, <2>2, <2>3 DEF ReportInv
<1>3. CredentialInv'
  <2>1. \A c : Granted(c) => Granted(c)'
    BY <1>0, GrantKept
  <2>2. \A c, u : Home(c, u) => Home(c, u)'
    BY <1>0 DEF Home
  <2> QED
    BY <1>0, <2>1, <2>2 DEF FetchInv, CredentialInv
<1> QED
  BY <1>1, <1>2, <1>3 DEF FetchInv

\* A request that returns says what was sent.
LEMMA ReturnStep ==
    ASSUME FetchInv, pc # "idle", NEW out, Return(out), UNCHANGED configVars,
           ReportsWhatWasSent'
    PROVE  FetchInv'
<1>0. /\ pc' = "done"
      /\ UNCHANGED <<engine, source, url, hop, origin, credential, identity, sent>>
      /\ UNCHANGED <<phase, config, flag>>
  BY DEF Return, configVars, inputVars
<1>1. RequestInv' /\ ReportInv'
  BY <1>0 DEF FetchInv, RequestInv, ReportInv
<1>2. CredentialInv'
  BY <1>0, QuietStep DEF FetchInv
<1> QED
  BY <1>1, <1>2 DEF FetchInv

LEMMA ResponseStep ==
    ASSUME FetchInv, UNCHANGED configVars,
           \/ OriginFails \/ LookupFails \/ RedirectFails \/ Unauthorized
           \/ NotFound \/ BadResponse \/ Stream
    PROVE  FetchInv'
<1>1. PICK out : Return(out)
  BY DEF OriginFails, LookupFails, RedirectFails, Unauthorized, NotFound, BadResponse, Stream
<1>2. pc # "idle" /\ outcome' = out
      /\ UNCHANGED <<engine, source, url, identity, sent, credential>>
  BY <1>1 DEF Return, OriginFails, LookupFails, RedirectFails, Unauthorized,
              NotFound, BadResponse, Stream
<1>3. ReportsWhatWasSent'
  <2>1. CASE OriginFails \/ LookupFails \/ RedirectFails \/ NotFound \/ BadResponse
    <3>1. outcome'.kind \in {"Credential", "Config", "Mirror", "absent", "Http"}
      BY <2>1 DEF Return, OriginFails, LookupFails, RedirectFails, NotFound, BadResponse
    <3> QED
      BY <3>1 DEF ReportsWhatWasSent
  <2>2. CASE Unauthorized
    <3>1. /\ [url |-> url, credential |-> credential] \in sent
          /\ engine \in {"upstream", "mirror"}
          /\ outcome' = Refused(Verdict)
      BY <2>2 DEF Unauthorized, Return, FetchInv, ReportInv, RequestInv
    <3>2. CASE credential # None
      <4>1. outcome' = [kind |-> "CredentialRejected", host |-> url.host]
        BY <3>1, <3>2 DEF Refused, Verdict
      <4> QED
        BY <1>2, <3>1, <3>2, <4>1 DEF ReportsWhatWasSent
    <3>3. CASE credential = None /\ engine = "mirror"
      <4>1. outcome' = [kind |-> "Mirror"]
        BY <3>1, <3>3 DEF Refused, Verdict
      <4> QED
        BY <4>1 DEF ReportsWhatWasSent
    <3>4. CASE credential = None /\ engine = "upstream"
      <4>1. outcome' = [kind |-> "NoCredential", host |-> url.host]
        BY <3>1, <3>4 DEF Refused, Verdict
      <4> QED
        BY <1>2, <3>1, <3>4, <4>1 DEF ReportsWhatWasSent
    <3> QED
      BY <3>1, <3>2, <3>3, <3>4
  <2>3. CASE Stream
    <3>1. outcome' = [kind |-> "download", identity |-> identity] \/ outcome' = [kind |-> "Io"]
      BY <2>3 DEF Stream, Return
    <3> QED
      BY <1>2, <3>1 DEF ReportsWhatWasSent, FetchInv, ReportInv
  <2> QED
    BY <2>1, <2>2, <2>3
<1> QED
  BY <1>1, <1>2, <1>3, ReturnStep

LEMMA FollowStep ==
    ASSUME FetchInv, UNCHANGED configVars,
           Success \/ \E to \in Targets : Redirected(to)
    PROVE  FetchInv'
<1>0. /\ pc = "response" /\ pc' \in {"hop", "body"}
      /\ UNCHANGED <<engine, source, origin, credential, identity, outcome, sent>>
      /\ UNCHANGED <<phase, config, flag>>
      /\ url' \in Targets \cup {url}
      /\ pc' = "hop" => Acceptable(url')
  BY DEF Success, Redirected, NextHop, ValidHop, configVars, inputVars
<1>1. RequestInv'
  BY <1>0 DEF FetchInv, RequestInv, Acceptable
<1>2. ReportInv'
  BY <1>0 DEF FetchInv, ReportInv, ReportsWhatWasSent
<1>3. CredentialInv'
  BY <1>0, QuietStep DEF FetchInv
<1> QED
  BY <1>1, <1>2, <1>3 DEF FetchInv

LEMMA StartStep ==
    ASSUME FetchInv, UNCHANGED configVars,
           NEW e \in {"upstream", "mirror"}, NEW src \in Sources, Request(e, src)
    PROVE  FetchInv'
<1>0. /\ pc = "idle" /\ pc' = "origin" /\ phase = "running"
      /\ engine' = e /\ source' = src /\ url' = src.url
      /\ UNCHANGED <<origin, identity, outcome, sent, phase>>
      /\ sent = {} /\ origin = None /\ identity = None
  BY DEF Request, FetchInv, RequestInv, configVars
<1>1. RequestInv'
  BY <1>0 DEF FetchInv, RequestInv
<1>2. ReportInv'
  BY <1>0, UrlAssumption DEF FetchInv, RequestInv, ReportInv, ReportsWhatWasSent, Nothing
<1>3. CredentialInv'
  BY <1>0 DEF CredentialInv
<1> QED
  BY <1>1, <1>2, <1>3 DEF FetchInv

\* Edits, and the start of the process, change nothing of a request.
LEMMA OutsideStep ==
    ASSUME FetchInv, UNCHANGED fetchVars,
           Startup \/ UNCHANGED <<inputVars, phase, config, store>>
    PROVE  FetchInv'
<1>0. UNCHANGED <<pc, engine, source, url, hop, origin, credential, identity,
                  outcome, sent>>
  BY DEF fetchVars
<1>1. pc # "idle" => UNCHANGED <<phase, config, flag>>
  BY DEF FetchInv, RequestInv, Startup, Load, LoadFails, Build, BuildFails, Fail, inputVars
<1>2. RequestInv'
  BY <1>0, <1>1 DEF FetchInv, RequestInv, Acceptable, Nothing
<1>3. ReportInv'
  BY <1>0 DEF FetchInv, ReportInv, ReportsWhatWasSent
<1>4. CredentialInv'
  <2>1. CASE pc = "idle"
    BY <1>0, <2>1 DEF FetchInv, RequestInv, CredentialInv
  <2>2. CASE pc # "idle"
    BY <1>0, <1>1, <2>2, QuietStep DEF FetchInv
  <2> QED
    BY <2>1, <2>2
<1> QED
  BY <1>2, <1>3, <1>4 DEF FetchInv

LEMMA FetchStep == ASSUME ConfigInv, FetchInv, [Next]_vars PROVE FetchInv'
<1>1. CASE Next
  <2>1. CASE Startup /\ UNCHANGED <<fetchVars, edits>>
    BY <2>1, OutsideStep
  <2>2. CASE (\E e \in {"upstream", "mirror"}, src \in Sources : Request(e, src))
                /\ UNCHANGED <<configVars, edits>>
    BY <2>2, StartStep
  <2>3. CASE Fetch /\ UNCHANGED <<configVars, edits>>
    BY <2>3, LookupStep, SendStep, ResponseStep, FollowStep DEF Fetch
  <2>4. CASE Edit
    BY <2>4, OutsideStep DEF Edit
  <2> QED
    BY <1>1, <2>1, <2>2, <2>3, <2>4 DEF Next
<1>2. CASE UNCHANGED vars
  BY <1>2, OutsideStep DEF vars, configVars
<1> QED
  BY <1>1, <1>2

LEMMA FetchStart == FetcherInit => FetchInv
BY UrlAssumption DEF FetcherInit, ConfigInit, FetchInv, RequestInv, CredentialInv, ReportInv,
                     ReportsWhatWasSent, Nothing

THEOREM FetchInvariance == Spec => []FetchInv
BY FetchStart, FetchStep, ConfigInvariance, PTL DEF Spec

\* A secret leaves for its own host only, or for where its source trusts
\* redirects to lead (Fetcher::request).
THEOREM SecretsStay == Spec => []SecretStaysHome
<1>1. FetchInv => SecretStaysHome
  BY DEF FetchInv, CredentialInv, Home, SecretStaysHome
<1> QED
  BY <1>1, FetchInvariance, PTL

\* Only credentials that the configuration grants are sent
\* (builder_for_service, HttpMirror::new).
THEOREM GrantedOnly == Spec => []OnlyGrantedCredentials
<1>1. FetchInv => OnlyGrantedCredentials
  BY DEF FetchInv, CredentialInv, Granted, OnlyGrantedCredentials
<1> QED
  BY <1>1, FetchInvariance, PTL

\* A refusal names a host that was or was not sent a credential, and an
\* identity is recorded only if one was (Fetcher::request).
THEOREM Reported == Spec => []ReportsWhatWasSent
<1>1. FetchInv => ReportsWhatWasSent
  BY DEF FetchInv, ReportInv
<1> QED
  BY <1>1, FetchInvariance, PTL

\* No hop after TLS is plaintext (validate_hop).
THEOREM NeverDowngraded == Spec => NoPlaintextAfterTLS
<1>1. ASSUME [Next]_vars, pc # "idle", url.scheme = "https"
      PROVE  url'.scheme = "https"
  BY <1>1 DEF Next, Request, Fetch, Origin, OriginFails, Authenticate, LookupFails, Send,
              Redirected, ValidHop, NextHop, RedirectFails, Unauthorized, NotFound,
              BadResponse, Success, Stream, Return, Edit, vars, fetchVars
<1>2. [Next]_vars => [pc # "idle" /\ url.scheme = "https" => url'.scheme = "https"]_vars
  BY <1>1
<1> QED
  BY <1>2, PTL DEF Spec, NoPlaintextAfterTLS

\* Every reachable state is well typed: in particular a download makes at
\* most MaxHops requests.
THEOREM TypeCorrect == Spec => []TypeOK
<1>1. FetcherInit => TypeOK
  BY HopsAssumption DEF FetcherInit, ConfigInit, TypeOK
<1>2. ASSUME TypeOK, FetchInv, [Next]_vars PROVE TypeOK'
  <2>0. /\ pc # "idle" => source \in Sources /\ url \in Targets \cup {source.url}
        /\ pc = "idle" => sent = {}
    BY <1>2 DEF FetchInv, RequestInv
  <2>1. CASE Startup /\ UNCHANGED <<fetchVars, edits>>
    BY <1>2, <2>1 DEF Startup, Load, LoadFails, Build, BuildFails, Fail, fetchVars, TypeOK
  <2>2. CASE (\E e \in {"upstream", "mirror"}, src \in Sources : Request(e, src))
                /\ UNCHANGED <<configVars, edits>>
    BY <1>2, <2>0, <2>2 DEF Request, configVars, TypeOK
  <2>3. CASE Fetch /\ UNCHANGED <<configVars, edits>>
    <3>1. UNCHANGED <<phase, edits>>
      BY <2>3 DEF configVars
    <3>2. CASE Origin \/ Authenticate \/ Success
      BY <1>2, <3>1, <3>2 DEF Origin, Authenticate, Success, TypeOK
    <3>3. CASE Send
      BY <1>2, <2>0, <3>1, <3>3 DEF Send, TypeOK
    <3>4. CASE \E to \in Targets : Redirected(to)
      BY <1>2, <3>1, <3>4, HopsAssumption DEF Redirected, NextHop, TypeOK
    <3>5. ASSUME NEW out, pc # "idle", Return(out) PROVE TypeOK'
      BY <1>2, <3>1, <3>5 DEF Return, TypeOK
    <3>6. CASE \/ OriginFails \/ LookupFails \/ RedirectFails \/ Unauthorized
               \/ NotFound \/ BadResponse \/ Stream
      BY <3>5, <3>6 DEF OriginFails, LookupFails, RedirectFails, Unauthorized, NotFound,
                        BadResponse, Stream
    <3> QED
      BY <2>3, <3>2, <3>3, <3>4, <3>6 DEF Fetch
  <2>4. CASE Edit
    BY <1>2, <2>4, HopsAssumption DEF Edit, fetchVars, TypeOK
  <2>5. CASE UNCHANGED vars
    BY <1>2, <2>5 DEF vars, configVars, fetchVars, TypeOK
  <2> QED
    BY <1>2, <2>1, <2>2, <2>3, <2>4, <2>5 DEF Next
<1> QED
  BY <1>1, <1>2, FetchInvariance, PTL DEF Spec
===============================================================================
