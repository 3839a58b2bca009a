------------------------------- MODULE MCFetcher -------------------------------
(***************************************************************************)
(* Instances of Fetcher for TLC: five families of worlds, each about one   *)
(* part of the configuration.                                              *)
(***************************************************************************)
EXTENDS Fetcher, TLC

CONSTANTS a, b,         \* hosts
          A, A2, B, Z,  \* spellings: two of a, one of b, one of no host
          va, vb, w     \* variables: the hosts' own, and one an entry names

CanonDef    == (A :> a) @@ (A2 :> a) @@ (B :> b) @@ (Z :> None)
TokenVarDef == (a :> va) @@ (b :> vb)

Entry(n, hosts, t, fields) ==
    [name |-> n, hosts |-> hosts, type |-> t, fields |-> fields, reads |-> w]

EnvEntry(n, hosts) == Entry(n, hosts, "env", [variable |-> "good"])
NetrcEntry(n, hosts) == Entry(n, hosts, "netrc", <<>>)
OddEntry(n, hosts) == Entry(n, hosts, "sso", [realm |-> "good"])

\* One entry, well formed or not.
SingleEntries ==
    {EnvEntry("x", {A}), EnvEntry("x", {A, A2}), EnvEntry("x", {Z}), EnvEntry("x", {}),
     EnvEntry(None, {A}), NetrcEntry("x", {A}), OddEntry("x", {A}),
     Entry("x", {A}, None, <<>>),
     Entry("x", {A}, "env", [variable |-> "blank"]),
     Entry("x", {A}, "env", [variable |-> "datetime"]),
     Entry("x", {A}, "env", [variable |-> "nan"]),
     Entry("x", {A}, "basic", [username |-> "good", password_env |-> "good"]),
     Entry("x", {A}, "basic", [username |-> "good", password |-> "good"]),
     Entry("x", {A}, "onepassword", [reference |-> "good"]),
     Entry("x", {A}, "sso", [expires |-> "datetime"]),
     Entry("x", {A}, "sso", [limit |-> "nan"])}

EntryLists ==
    {<<e>> : e \in SingleEntries} \cup
    {<<EnvEntry("x", {A}), f>> : f \in {EnvEntry("x", {B}), EnvEntry("y", {A2}),
                                        EnvEntry("y", {B}), OddEntry("y", {A})}} \cup
    {<<OddEntry("x", {A}), NetrcEntry("y", {B})>>}

NoService == [cache |-> None, credentials |-> None]
Services(creds, cache) == [s |-> [cache |-> cache, credentials |-> creds]]
Policy(fills, art, inflight, free, max, evict) ==
    [fills |-> fills, artifact |-> art, inflight |-> inflight,
     minFree |-> free, maxBytes |-> max, evict |-> evict]

Tidy == [stanzas |-> <<>>, shared |-> FALSE, unquoted |-> FALSE]
Stanza(h) == [machine |-> h, complete |-> TRUE, malformed |-> FALSE]
ForA == [Tidy EXCEPT !.stanzas = <<Stanza(a)>>]
ForB == [Tidy EXCEPT !.stanzas = <<[Stanza(a) EXCEPT !.malformed = TRUE], Stanza(b)>>]
NetrcsDef == {Tidy, ForA}

Env0 == [cacheDir |-> None, mirror |-> None, region |-> None, allow |-> TRUE,
         offline |-> None, aws |-> None, item |-> FALSE, max |-> None]
World == [file |-> EmptyFile, environ |-> Env0, command |-> "plain",
          flag |-> None, named |-> FALSE,
          variable |-> [v \in {va, vb, w} |-> IF v = w THEN "set" ELSE "unset"],
          netrc |-> NoFile, vault |-> "empty"]

\* Credential entries, as they are or as a service selects them.
CredentialWorlds ==
    {[World EXCEPT !.file.credentials = es, !.file.services = sv,
                   !.variable[va] = v, !.netrc = ForA] :
        es \in EntryLists,
        sv \in {<<>>, Services(<<"x">>, None), Services(<<>>, None)},
        v \in {"unset", "set"}}

\* What the secret stores may hold, without a file.
StoreWorlds ==
    {[World EXCEPT !.netrc = n, !.variable[va] = v, !.vault = o, !.environ.item = TRUE] :
        n \in {NoFile, ForB, [ForA EXCEPT !.shared = TRUE],
               [ForA EXCEPT !.stanzas[1].complete = FALSE]},
        v \in {"unset", "set", "binary"}, o \in {"token", "fails"}}

\* Limits and directories of a service's cache.
PolicyWorlds ==
    {[World EXCEPT !.command = "serve", !.file.cacheDir = c, !.environ.cacheDir = e,
                   !.file.services = Services(None, p)] :
        c \in {None, "f"}, e \in {None, "e"},
        p \in {Policy(f, 1, i, 1, 2, ev) : f \in {0, 1}, i \in {0, 1, 2}, ev \in BOOLEAN}}

\* Modes, from file, environment and command.
ModeWorlds ==
    {[World EXCEPT !.command = c, !.environ.allow = al, !.environ.offline = off,
                   !.environ.mirror = m, !.file.mirror = fm, !.file.offline = fo,
                   !.environ.aws = r] :
        c \in {"plain", "check", "inspect", "serve"}, al \in {None, FALSE, Fails},
        off \in {None, TRUE}, m \in {None, "http", Fails}, fm \in {None, "s3", "odd"},
        fo \in {None, TRUE}, r \in {None, "r"}}

\* Where the file is, and which service is named.
FileWorlds ==
    {[World EXCEPT !.file = f, !.named = n, !.flag = g] :
        f \in {NoFile, Fails, [EmptyFile EXCEPT !.services = [s |-> NoService, t |-> NoService]]},
        n \in BOOLEAN, g \in {None, "s", "u"}}

WorldsDef == CredentialWorlds \cup StoreWorlds \cup PolicyWorlds \cup ModeWorlds \cup FileWorlds

\* A netrc entry before the ambient providers, the variable of its host set.
IdentityWorlds ==
    {[World EXCEPT !.file.credentials = <<NetrcEntry("x", {A})>>,
                   !.variable[va] = v, !.netrc = n] :
        v \in {"unset", "set"}, n \in {Tidy, ForA}}

URL(s, h) == [scheme |-> s, host |-> h, userinfo |-> FALSE]
TargetsDef == {URL(s, h) : s \in {"http", "https"}, h \in {a, b}} \cup
              {URL("other", b), [URL("https", b) EXCEPT !.userinfo = TRUE]}
SourcesDef == {[url |-> URL(s, a), trust |-> t] : s \in {"http", "https"}, t \in BOOLEAN} \cup
              {[url |-> URL("https", None), trust |-> FALSE]}
===============================================================================
