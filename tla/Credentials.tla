------------------------------ MODULE Credentials ------------------------------
(***************************************************************************)
(* Credential providers (src/src/credential.rs) and the credential entries *)
(* of the configuration file (src/src/credential_config.rs).               *)
(*                                                                         *)
(* A provider answers two questions about a host, each time from the       *)
(* environment, ~/.netrc or 1Password as they are at that moment: which    *)
(* credential (None, one, or an error) and which identity.  A credential   *)
(* is abstracted to where it was read and for which host; secrets have no  *)
(* value here.                                                             *)
(*                                                                         *)
(* An entry of the file is a name, the set of hosts as written, a type and *)
(* the other fields, each good, blank, or a TOML datetime or NaN, which    *)
(* JSON values do not have.                                                *)
(*                                                                         *)
(* Operators whose comment begins with "Mutant" are wrong on purpose: a    *)
(* property is known to notice when one replaces the operator after it.    *)
(***************************************************************************)
EXTENDS Integers, Sequences, FiniteSets

CONSTANTS
    Host,       \* host names, in lower case as URLs have them
    Spelling,   \* what an operator may write for a host
    Canon,      \* its trimmed, lower-case form; None if not a bare host
    Variable,   \* environment variables
    TokenVar,   \* STARFIELD_TOKEN_<HOST> of a host
    NoFile,     \* no such file
    Fails,      \* an error
    None

ASSUME HostAssumption ==
    /\ Canon \in [Spelling -> Host \cup {None}]
    /\ TokenVar \in [Host -> Variable]
    /\ None \notin Host /\ Fails # None

VARIABLES
    variable,   \* environment: each variable unset (or empty), set or binary
    netrc,      \* ~/.netrc
    vault       \* what `op read' gives: a token, nothing or an error

storeVars == <<variable, netrc, vault>>

-----------------------------------------------------------------------------
(* Entries of the configuration file.                                      *)

Known    == {"env", "basic", "netrc", "onepassword"}
Literals == {"password", "token", "secret", "api_key"}
Required == [t \in Known |-> CASE t = "env"         -> {"variable"}
                               [] t = "basic"       -> {"username", "password_env"}
                               [] t = "netrc"       -> {}
                               [] t = "onepassword" -> {"reference"}]

\* decode_source: a known type has exactly its fields, none a literal
\* secret.  Of other types an entry with a datetime, which would not survive
\* being written back, is refused; a nan would not either and is kept.
Decodes(e) ==
    /\ e.type # None
    /\ \A f \in DOMAIN e.fields : e.fields[f] # "datetime"
    /\ e.type \in Known => /\ DOMAIN e.fields \cap Literals = {}
                           /\ DOMAIN e.fields = Required[e.type]
                           /\ \A f \in DOMAIN e.fields : e.fields[f] # "nan"

\* validate_entries, for one entry.
ValidEntry(e) ==
    /\ e.name # None
    /\ e.hosts # {} /\ \A s \in e.hosts : Canon[s] # None
    /\ e.type \in Known => \A f \in DOMAIN e.fields : e.fields[f] # "blank"

NamesUnique(entries) ==
    \A i, j \in DOMAIN entries : i # j => entries[i].name # entries[j].name

Claims(e, h) == e.type \in Known /\ \E s \in e.hosts : Canon[s] = h

\* No host is claimed twice, by two entries or in two spellings by one.
OneClaimantEach(entries) == \A h \in Host :
    /\ Cardinality({i \in DOMAIN entries : Claims(entries[i], h)}) <= 1
    /\ \A i \in DOMAIN entries : Claims(entries[i], h) =>
          Cardinality({s \in entries[i].hosts : Canon[s] = h}) = 1

\* configured_provider accepts the entries of one selection.
Configurable(entries) ==
    /\ \A i \in DOMAIN entries : ValidEntry(entries[i])
    /\ NamesUnique(entries)
    /\ OneClaimantEach(entries)

\* ConfigProvider: the entries that may answer for each host.
ConfigProvider(entries) ==
    [kind |-> "config", entries |-> entries,
     byHost |-> [h \in Host |->
         {i \in DOMAIN entries : Claims(entries[i], h)}]]

-----------------------------------------------------------------------------
(* What each provider answers.                                             *)

Credential(from, h) == [from |-> from, host |-> h]

\* EnvProvider.  An empty token is unset; one that is not UTF-8 an error.
EnvCredential(h) ==
    CASE variable[TokenVar[h]] = "unset" -> None
      [] variable[TokenVar[h]] = "set"   -> Credential("env", h)
      [] OTHER                           -> Fails

\* parse_netrc reads stanza by stanza and stops after the first for h;
\* before that, a malformed field is an error.  `default' is not used.
NetrcCredential(h) ==
    IF netrc = NoFile THEN None
    ELSE LET own  == {i \in DOMAIN netrc.stanzas : netrc.stanzas[i].machine = h}
             last == IF own = {} THEN Len(netrc.stanzas)
                     ELSE CHOOSE i \in own : \A j \in own : i <= j
         IN CASE \/ netrc.shared \/ netrc.unquoted
                 \/ \E i \in 1..last : netrc.stanzas[i].malformed -> Fails
              [] OTHER -> IF own = {} THEN None
                          ELSE IF netrc.stanzas[last].complete
                               THEN Credential("netrc", h) ELSE Fails

VaultCredential(h) == CASE vault = "token" -> Credential("onepassword", h)
                        [] vault = "empty" -> None
                        [] OTHER           -> Fails

\* read_env takes a variable that is unset, empty or not UTF-8 for unset,
\* and an entry whose variable is unset is an error.
EntryCredential(e, h) ==
    CASE e.type \in {"env", "basic"} ->
             IF variable[e.reads] = "set" THEN Credential(e.name, h) ELSE Fails
      [] e.type = "netrc" -> IF NetrcCredential(h) \in {None, Fails}
                             THEN NetrcCredential(h) ELSE Credential(e.name, h)
      [] e.type = "onepassword" -> IF VaultCredential(h) \in {None, Fails}
                             THEN VaultCredential(h) ELSE Credential(e.name, h)
      [] OTHER -> None

\* The entry of a config provider for h.
EntryFor(p, h) == p.entries[CHOOSE i \in p.byHost[h] : TRUE]

CredentialOf(p, h) ==
    CASE p.kind = "env"         -> EnvCredential(h)
      [] p.kind = "netrc"       -> NetrcCredential(h)
      [] p.kind = "onepassword" -> VaultCredential(h)
      [] OTHER                  -> IF p.byHost[h] = {} THEN None
                                   ELSE EntryCredential(EntryFor(p, h), h)

\* Whose credential a provider says it is.
IdentityOf(p, h) ==
    CASE p.kind = "onepassword" -> p.kind
      [] p.kind = "config"      -> IF p.byHost[h] = {} THEN None
                                   ELSE EntryFor(p, h).name
      [] OTHER -> IF CredentialOf(p, h) \in {None, Fails} THEN None ELSE p.kind

FirstOf(S) == CHOOSE i \in S : \A j \in S : i <= j

\* ChainProvider: the first that has a credential; an error on the way ends
\* the search.
ChainCredential(chain, h) ==
    LET some == {i \in DOMAIN chain : CredentialOf(chain[i], h) # None}
    IN IF some = {} THEN None ELSE CredentialOf(chain[FirstOf(some)], h)

ChainIdentity(chain, h) ==
    LET some == {i \in DOMAIN chain : IdentityOf(chain[i], h) # None}
    IN IF some = {} THEN None ELSE IdentityOf(chain[FirstOf(some)], h)
===============================================================================
