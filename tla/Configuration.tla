----------------------------- MODULE Configuration -----------------------------
(***************************************************************************)
(* How a command gets its datastore (src/src/config.rs, DatastoreBuilder    *)
(* of src/src/store/mod.rs, Settings of bin/starfield-datastore.rs): the    *)
(* file is read and checked, a service is selected, the environment goes    *)
(* before the file, the command's own choices before both, and the store    *)
(* is built with a chain of credential providers.                           *)
(*                                                                          *)
(* A setting is None when it is not made.  Values are abstracted to what    *)
(* decides: what does not parse is Fails, and a mirror is "http", "s3" or   *)
(* "odd" (refused when it is opened).  Paths and flags that are only        *)
(* passed on (manifest, bucket, bind) are left out.                         *)
(***************************************************************************)
EXTENDS Credentials

CONSTANTS
    Worlds,     \* what a process may find: a value of each input below,
                \* and first contents of the secret stores
    DefaultRoot,\* ~/.cache/starfield
    MaxU64      \* largest byte count

VARIABLES
    file,       \* the configuration file; Fails if it is not TOML
    environ,    \* STARFIELD_* and AWS_* of the process
    command,    \* "plain", "check", "inspect" or "serve"
    flag,       \* --service, or None; --config is `named'
    named,
    phase,      \* "new", "loaded", "running" or "failed"
    config,     \* the configuration as loaded
    store       \* the settings of the Datastore built

inputVars  == <<file, environ, command, flag, named>>
configVars == <<storeVars, inputVars, phase, config, store>>

EmptyFile == [cacheDir |-> None, mirror |-> None, region |-> None,
              allow |-> None, offline |-> None,
              credentials |-> <<>>, services |-> <<>>]

NoStore == [root |-> None]

-----------------------------------------------------------------------------
(* Reading the file.                                                        *)

\* ServiceCachePolicy::validate, with checked_add.
ValidPolicy(c) ==
    /\ c.fills # 0 /\ c.artifact # 0
    /\ c.inflight >= c.artifact
    /\ c.inflight + c.minFree <= MaxU64
    /\ c.inflight + c.maxBytes <= MaxU64

Names(f) == {f.credentials[i].name : i \in DOMAIN f.credentials}

\* Mutant: only the service's numbers are checked.
ValidServiceAnywhere(f, s) ==
    /\ s.cache # None => ValidPolicy(s.cache)
    /\ s.credentials # None =>
          \A i \in DOMAIN s.credentials : s.credentials[i] \in Names(f)

ValidService(f, s) ==
    /\ s.cache # None => /\ ValidPolicy(s.cache)
                         /\ s.cache.evict => f.cacheDir # None
    /\ s.credentials # None =>
          \A i \in DOMAIN s.credentials : s.credentials[i] \in Names(f)

\* from_toml_str and DatastoreConfig::validate.
Valid(f) ==
    /\ f # Fails
    /\ \A i \in DOMAIN f.credentials :
          Decodes(f.credentials[i]) /\ ValidEntry(f.credentials[i])
    /\ NamesUnique(f.credentials)
    /\ \A n \in DOMAIN f.services : ValidService(f, f.services[n])

\* read_file takes a missing file for an empty one, --config does not.
Read == IF file = NoFile /\ ~named THEN EmptyFile ELSE file

Fail ==
    /\ phase' = "failed"
    /\ UNCHANGED <<storeVars, inputVars, config, store>>

Load ==
    /\ phase = "new"
    /\ Read # NoFile /\ Valid(Read)
    /\ config' = Read
    /\ phase' = "loaded"
    /\ UNCHANGED <<storeVars, inputVars, store>>

LoadFails ==
    /\ phase = "new"
    /\ Read # NoFile => ~Valid(Read)
    /\ Fail

-----------------------------------------------------------------------------
(* Settings::load and the two builders.                                     *)

\* The service of a file that has only one need not be named.
Selected == IF flag = None /\ Cardinality(DOMAIN config.services) = 1
            THEN CHOOSE n \in DOMAIN config.services : TRUE
            ELSE flag

Profile == IF Selected = None THEN [cache |-> None, credentials |-> None]
                              ELSE config.services[Selected]

\* The first entry of each name.
Entries == IF Profile.credentials = None THEN config.credentials
           ELSE [i \in DOMAIN Profile.credentials |->
                    config.credentials[CHOOSE j \in DOMAIN config.credentials :
                        config.credentials[j].name = Profile.credentials[i]]]

Ambient == <<[kind |-> "env"], [kind |-> "netrc"]>> \o
           IF environ.item THEN <<[kind |-> "onepassword"]>> ELSE <<>>

\* Mutant: the ambient providers are always appended.
ChainWithAmbient == <<ConfigProvider(Entries)>> \o Ambient

\* An explicit list of credentials has no ambient fallback.
Chain == <<ConfigProvider(Entries)>> \o
         IF Profile.credentials = None THEN Ambient ELSE <<>>

Or(a, b) == IF a # None THEN a ELSE b

MirrorSpec == Or(environ.mirror, config.mirror)
Region == Or(environ.region, Or(config.region, environ.aws))

\* apply_file: env_bool, parse_mirror and the byte count may be refused.
Applicable ==
    /\ Fails \notin {environ.allow, environ.offline, environ.max}
    /\ MirrorSpec # Fails /\ (MirrorSpec = "s3" => Region # None)

\* upstream_store, the verification caches, or nothing of its own.
Choices(b) ==
    CASE command = "serve"   -> [b EXCEPT !.mirror = None, !.allow = TRUE,
                                          !.offline = FALSE]
      [] command = "inspect" -> [b EXCEPT !.mirror = None, !.offline = TRUE]
      [] command = "check"   -> [b EXCEPT !.offline = TRUE]
      [] OTHER               -> b

Built == Choices([root    |-> Or(Or(environ.cacheDir, config.cacheDir), DefaultRoot),
                  mirror  |-> MirrorSpec,
                  allow   |-> Or(environ.allow, config.allow),
                  offline |-> Or(environ.offline, config.offline),
                  chain   |-> Chain])

Buildable ==
    /\ Selected \in DOMAIN config.services \cup {None}
    /\ Configurable(Entries)
    /\ Applicable
    /\ Built.mirror # "odd"

Build ==
    /\ phase = "loaded"
    /\ Buildable
    /\ store' = [Built EXCEPT !.allow = @ = TRUE, !.offline = @ = TRUE]
    /\ phase' = "running"
    /\ UNCHANGED <<storeVars, inputVars, config>>

BuildFails ==
    /\ phase = "loaded"
    /\ ~Buildable
    /\ Fail

ConfigInit ==
    /\ \E w \in Worlds :
          /\ file = w.file /\ environ = w.environ
          /\ command = w.command /\ flag = w.flag /\ named = w.named
          /\ variable = w.variable /\ netrc = w.netrc /\ vault = w.vault
    /\ phase = "new"
    /\ config = EmptyFile
    /\ store = NoStore

Startup == Load \/ LoadFails \/ Build \/ BuildFails

-----------------------------------------------------------------------------
(* Properties.                                                              *)

(* A server whose cache evicts on its own never does so in a directory      *)
(* that nobody named, shared with other programs: validate demands          *)
(* cache_dir of the file though the environment may replace it              *)
(* (config.rs:194-198, 225).                                                *)
EvictsNamedDirOnly ==
    phase = "running" /\ Profile.cache # None =>
        (Profile.cache.evict => store.root \in {environ.cacheDir, config.cacheDir})
===============================================================================
