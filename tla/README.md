# A verification of starfield-datastore

`starfield-datastore` gives callers local paths to large named files: from a
content-addressed local cache, else a mirror, else upstream archives. A tailnet
service fills an S3 bucket from such a cache and redirects clients to it. This
directory holds TLA+ modules of that code, TLC configurations that check them
on small instances, and proofs checked by TLAPS that hold for every instance.

All paths below are relative to the repository (`src/` here is its root).

## 1. Inventory

| Part | State | Operations | Talks to |
|---|---|---|---|
| **Local cache** `src/store/mod.rs`, `src/store/layout.rs` | sidecars `index/<key>.json`, blobs `blobs/<aa>/<sha256>`, lock files per key and for the store, temp files | `get`, `get_limited`, `import`, `remove`, `gc`, `verify`, `peek`, `entry`, `contains` | layers, the file system, other processes on the same directory |
| **Layer resolution** `src/store/mod.rs:249-316, 537-620` | none between calls | offline switch, mirror, sources in order, error aggregation | fetch, mirror |
| **Receiver and budget** `src/store/mod.rs:718-803` | bytes left, sticky exhaustion | `Receiver::write` | layers |
| **Fill coordinator** `src/server/cache.rs` | `active`, `reserved`, `maintenance`, `failed` under a mutex; owner lock file | `new`, `admit`, guard drop (`finish`), `maintain` | local cache's `gc` and `blob_bytes` |
| **Service handlers** `src/server.rs` | two semaphores | `head`, `resolve_miss`, `redirect` | bucket, local cache, coordinator |
| **Bucket client** `src/s3.rs` | none; the bucket's objects | `head`, `fetch`, `put`, `replace`, multipart, `presign_get` | S3 |
| **Command line** `src/bin/starfield-datastore.rs` | manifest file and its lock | `fetch`, `verify [--at] [--repair]`, `mirror`, `gc`, `remove`, `serve` | all of the above |
| **HTTP transport** `src/fetch.rs`, `src/mirror/http.rs` | one request | redirect loop, credential and identity per hop | archives, providers |
| **Credential providers** `src/credential.rs`, `src/credential_config.rs` | none; environment, `~/.netrc` and 1Password are read at each question | `credential_for`, `identity_for`, the chain, decoding and validation of entries | transport |
| **Configuration** `src/config.rs`, `DatastoreBuilder`, `Settings` | file, environment and flags, read once | load, validate, select a service, build | all of the above |
| **Content checks** `src/check.rs` | none | `check_prefix`, `check_file` | local cache |
| Manifest, data types | files read once | parsing and lookup | command line |

What is hard here, and what makes each part correct:

- *Local cache.* Callers are threads and processes; `verify` and `peek` take
  no lock, hits take the key's lock only, `gc` works from a snapshot it made
  before it let the locks go, blobs are shared between keys, and any step may be
  the last one before a crash. Correct: no sidecar without its blob, no hit that
  loses its blob, no deadlock, one fetch per key, rotten blobs neither served
  nor overwritten, `gc` ends within its budget.
- *Coordinator.* Admission, failing fills and maintenance meet at one mutex
  that `admit` only tries. Correct: `gc` runs beside no fill, disk use stays
  in its envelope through retries and orphans, draining ends once the
  fills have, failure closes for good.
- *Bucket, handlers, command line.* Conditional writes race, are retried and
  lose their answers; a fill, a batch run and a repair touch the same objects.
  Correct: keys are immutable except by repair, what is uploaded is what was
  validated, the manifest pins what the bucket holds.
- *Resolution.* A get goes through mirror and sources whose failures mean
  different things, with a check that sees the first 8 KB of a body cut into
  writes of any size, under a budget shared by all attempts. Correct: layers in
  order, no wrong content published and no right one rejected, never more bytes
  than the budget.
- *Transport, credentials, configuration.* Archives decide where a request goes
  next; each hop asks stores that an operator may edit; which secret answers
  depends on file, service, environment and spelling. Correct: a secret goes only
  to hosts it is configured for, a report agrees with what was sent, a command's
  own choices win.

Every hazard, at its line and with the properties that watch it (or the reason
none does yet), is in `PROJECT.json`.

## 2. Modules

| Module | Models |
|---|---|
| `LocalStore` | the local cache, step by step |
| `ContentCache` | what it promises: an index, stored contents, answers |
| `LocalRepair` | `verify [--repair]` of the local cache, a script of `LocalStore`'s calls; extends it |
| `FillCoordinator` | the coordinator and the byte accounting of fills |
| `MirrorService` | the bucket and those who write it: service fills, batch `mirror`, `verify --at --repair`; composes `ContentCache` |
| `ImmutableMirror` | what the mirror promises while nobody repairs it: a map that only grows, and pins that follow it |
| `Resolution` | one get through the layers, with receiver, budget and verdicts |
| `ContentCheck` | what checks accept, of heads and of whole bodies: pure operators, used by `Resolution`'s instance |
| `Credentials` | configured entries and what every provider answers: operators over the secret stores |
| `Configuration` | from file, environment, command and flags to the store's settings; extends `Credentials` |
| `Fetcher` | one download hop by hop, in either engine; extends `Configuration` |
| `MCLocalStore`, `MCLocalRepair`, `MCFillCoordinator`, `MCMirrorService`, `MCResolution`, `MCFetcher` | finite instances for TLC |
| `LocalStoreProofs`, `LocalStoreGcProofs`, `LocalStoreRefinement` | proofs about `LocalStore` |
| `LocalRepairProofs`, `FillCoordinatorProofs`, `MirrorServiceProofs`, `ResolutionProofs`, `FetcherProofs` | proofs about the module each names |

Operators whose comment begins with *Mutant* are deliberately wrong variants
of the operator after them; each property is known to fail when one of them
takes its place.

### LocalStore

`entry` and `fetchedAt` are the sidecars, `blob` the blob files, `keyLock` and
`storeLock` the holders of the lock files; `pc` and the variables after it are
the locals of each caller (`Proc`). One action is one visible step: a lock
operation, reading a sidecar, the rename that publishes a file, an unlink. So
anything can happen between two steps, including `Abort`, the death of the
caller: its locks go (`flock`), its files stay. The same action is an I/O error
that leaves the call through `?`, which drops the guards. An error of `publish` inside
`get` does not leave it: `get` collects it and asks the next layer with the key's
lock held, whatever `publish` has done by then (`PublishFails`, `NextLayer`). `bound`
records, as history, the entry that such a publication has left behind. `Rot` and
`Mangle` are damage from outside, a blob whose bytes changed and a sidecar that does
not parse.

| Code | Actions |
|---|---|
| `get_with_budget`, `local_hit` | `StartGet`, `LockKey`, `LookupMiss/Entry/Error`, `ProbeMiss/Hit`, `Rehash` |
| layers, `receive`, `validate` | `Receive` (content that is valid arrives, with some layers used up), `GiveUp` |
| `publish`, `Layout::publish`, `write_entry` | `LockStore`, `PublishBlob`, `PublishRejected`, `PublishEntry`, `PublishFails` |
| `remove` and one iteration of `gc` | `UnlinkEntry/Skipped`, `ScanReferenced/Unreferenced/Error`, `UnlinkBlob` |
| `gc` | `StartGc`, `GcSnapshot`, `SweepOrphan`, `SweepDone`, `PickVictim`, `GcDone` |
| `verify`; `peek`, `entry`, `contains` | `VerifySnapshot/Good/Report/Done`; `PeekRead`, `PeekProbe` |

Abstractions. Content is the digest that names it; whether an artifact accepts
it is `Passes` (size pin and check) and `Pins` (its digest pins). `Bytes`
measures sets of blobs and is given by laws, not computed, so that proofs need
no induction. Reading the whole index (`entries`, `digest_referenced`) is one
step: under the store lock nobody else can change it, except for damage, which
then counts as before or after the scan; `verify` reads it without a lock, and
there the single step is an approximation (a scan torn by other callers is not
shown). The order of sidecars with equal `fetched_at` is open.
`now_unix` is monotone, though the system clock is not. Temp files are not
modelled: nothing reads them but their writer. A power loss that undoes a rename
or an unlink is not modelled.

### ContentCache

No locks and no steps of a call: what the index binds, which contents are stored, which
of them have decayed, what each caller asked for and its last answer. A caller is
answered with a stored content that the artifact it asked for accepts and that the index
binds to the artifact's key at that moment; content is reclaimed only when nothing is
bound to it, and decayed content is never replaced. A call that fails, or goes on to
fetch again, may leave a content stored or bound (`Store`, `Bind`). `LocalStore`
implements it under the identity mapping `cached <- entry`, `stored <- Present`,
`asked <- artifact`, `served <- path`.

### FillCoordinator

`State` (`active`, `reserved`, `maintenance`, `failed`) with the mutex's holder, and for
each worker its step, its guard's `limit`, the `room` left of its budget and the bytes
of its temp file (`staged`). Blobs are a byte count, `retained`; `leaked` counts temp
files a crash left. `Write`, `Discard` and `Publish` are the accounting of a transfer,
which may stall for ever: the budget is charged before a write and never refunded, a
failed attempt deletes its temp file, a temp file becomes a blob, which stays if the
sidecar cannot be written. What `gc` removes is open, since the coordinator trusts only
its own measurement after it; a `gc` or measurement that fails or panics is
`CollectError`.

Byte counts are `u64` in the code; the policy's validation and `admit`'s checked
additions keep them from wrapping, so they are naturals here. That another
process does not use the same directory is the owner lock's job
(`cache.rs:43-54`), and that nothing else fills the file system is an
assumption of `HeadroomKept`. A service without a cache policy uses a semaphore
in place of the coordinator, which is not modelled here.

### MirrorService

`object` is the bucket: per logical key the digest in the metadata and the body.
`late` holds requests whose sender has no answer and that S3 may still apply,
`uploads` the open multipart uploads, `nameless` the number of those whose id nobody
has learnt, `manifest` and `lock` the manifest file and
its lock. A worker (`Worker`) is a blocking worker of the service or a
command-line run; `job` says which, `pc` and the variables after it are its
locals. One action is one request to S3, one call on the local cache, or one file
written. The local cache is `ContentCache`, instantiated: workers use its `Ask`,
`Hit`, `Publish`, `Bind` and `Forget`, and one more caller, `Other`, stands for everyone
else, `gc` included. So what `LocalStoreRefinement` proves of the cache is what
this module assumes of it. (Rot in the local cache is not a step here: the rehash
of `write` would stop it, unless it strikes between the hash and the send, which
is left out.)

| Code | Actions |
|---|---|
| `artifact`, `Service::head`, `resolve_miss`, `redirect` | `StartServe`, `HeadHit/Miss`, `Get`, `GetHits/Misses/Fetches/Retries`, `ReadEntry`, `Redirect` |
| `mirror_manifest`, `pin_sha256`, `atomic_manifest` | `StartMirror`, `NextArtifact`, `Get`..., `PinDigest`, `AllDone` |
| `verify_s3` with `--repair`, `observed_etag` | `StartRepair`, `Inspect`, `Observe`, `ExamineGood/Bad`, `Get`..., `RepairDone` |
| `write`: rehash, HEAD, `put_object` | `Hash`, `PutAbsent/Present`, `Accepted`, `Refused` (412), `Conflict` (409) |
| `multipart` | `CreateUpload`, `CreateUnanswered`, `UploadParts`, `Accepted` (completion), `Discard` (abort) |
| any `?` | `Error`, which aborts an open upload |

Outside `src/`, and modelled from how it is used: S3 applies a request only if
its precondition holds at that moment (`Holds`, `Apply`); the answer may be lost
and the request applied later or never (`Unanswered`, `LateArrives`), while the
client's SDK sends it again or gives up. A `CreateMultipartUpload` whose answer is
lost leaves an upload that nobody can abort (`CreateUnanswered`). Objects may be damaged
by other tools (`Damage`). An ETag is a function of the body, so two equal bodies have equal
ones. A GET and its hashing are one step. A failing HEAD or GET of `verify_s3`
is, as in the code, taken for a bad object; an instance has such failures if its
`Damages` contain `"outage"`. A service may have read the manifest
before a key was pinned. Licenses, presigning and the statuses of the handler are
left out: they change no state. A worker whose upload was left open is not used
again, because its name stands for the upload.

### ImmutableMirror

No requests, uploads, late arrivals, cache or lock: `bucket` binds keys to whole objects,
`pins` is the manifest, `wanted` the key each worker deals with and `told` what it
knows of that key's object. An object is inserted only where none is (`Store`, by a
request whose sender does not know; `Tell`, by one who does); `Tell` is also how
a worker learns of an object that was there; `Pin` pins only what was told, is still so
and contradicts no pin. `MirrorService` implements it when `WithoutRepair` holds, by
`bucket <- object`, `pins <- manifest`, `wanted <- key`, and `told` the digest a worker
has at `stored`: HEAD, a conditional write that succeeds, a 412 after which the object
matches and the end of a multipart upload all map to `Tell`, a late request to `Store`.

### LocalRepair

The process `Cli` runs `verify_local`: each of its calls is one of `LocalStore`'s,
begun by `Call` and carried on by `CallStep`, which also does what the script makes
of the call's return. `phase` is the script's loop, `todo` what is left of it,
`failed` and `outside` the lists it collects, `status` what the command reports. A
get without sources is one of an offline store. Others (`Neighbour`) use the same
directory meanwhile. Damage is done before the start (`RepairInit` takes every
directory in which sidecars name blobs, intact or rotten); damage in the middle
of a repair would refute any claim about its result.

| Code | Actions |
|---|---|
| the loop of offline gets | `Call` at `check`, `CallStep` with `Checked` |
| `store.verify()` and the filter | `Notice`, `Verified` (refuses on damage outside the manifest) |
| the loop of removals, then of fetches | `Removed`, `Fetched` |
| any `?` | `CallFails`; a failed fetch ends the script as well |

### Resolution and ContentCheck

`get_with_budget` of one artifact: `layer` is the layer in use (0 the mirror), `body`
what it serves, and `bytes`, `checked`, `rejected`, `exceeded` are the `Receiver`'s fields.
`budget` is the shared cell; `written`, `contacted` and `clashed` are history.

| Code | Actions |
|---|---|
| `get_with_budget` | `LocalHit/Error/Miss`, `AfterMirror`, `AfterSource`, `TryNext`, `Fail` |
| the producer | `RequestFails`, `Serve`, `Served`, `Breaks` |
| `Receiver::write` | `Exceed`, `RejectHead`, `Write`, `DiskFull` (`write_all` fails part of the way) |
| `receive` after the producer | `ReceiveFails`, `RejectShort`, `Received` |
| `publish`, `validate` | `Reject`, `NotPublished`, `Publish` |

`Resolution` takes the check as given: at which lengths `check_prefix` rejects a
body's head (`BadHeads`), and which bodies `validate` accepts (`Accepted`). In the
instance both are computed by `ContentCheck`, whose bodies are short sequences of
tokens where the code has bytes, so that `ContentJudged` compares the code's two ways of
judging a body. A window is 2 tokens for 8192 bytes. That
the body written is the one served, and its digest the one computed, is part of
the abstraction: hashing is not modelled.

### Credentials, Configuration, Fetcher

One process from its start to the end of one download. `file`, `environ`, `command`
and `flag` are what it finds (`Worlds`), `variable`, `netrc` and `vault` the
stores of secrets, which are read at each question and may be edited while a
download runs (`Edit`). A credential is where it was read and for which host; the
secret itself has no value. `Load` and `Build` are `Settings::load` and
`DatastoreBuilder::build` with everything between; `store` is the result, its
`chain` a sequence of providers.

| Code | Definitions |
|---|---|
| `decode_source`, `validate_entries`, `configured_provider` | `Decodes`, `ValidEntry`, `NamesUnique`, `OneClaimantEach`, `ConfigProvider` |
| the providers and the chain | `EnvCredential`, `NetrcCredential`, `VaultCredential`, `EntryCredential`, `ChainCredential`, `ChainIdentity` |
| `from_path`, `validate`, `builder_for_service`, `apply_file`, `build` | `Load`, `Valid`, `Entries`, `Chain`, `Built`, `Applicable`, `Build` |
| `upstream_store` and the caches of the verifications | `Choices` |
| `Fetcher::request` | `Origin`, `Authenticate`, `Send`, `Redirected`, `RedirectFails`, `Unauthorized`, `NotFound`, `BadResponse`, `Success`, `Stream` |
| `HttpMirror::fetch` | `Request("mirror", ...)`, `Lookup`, `Refused` |

The archive is external and may answer anything at every hop. One process makes one
request here, so the cookie jar of the upstream engine is not modelled: no property
says anything about cookies.

## 3. Checks

All runs finish within minutes with two workers.

| Run | Instance | Shows |
|---|---|---|
| `LocalStore_refines` | 2 callers, all but import, 2 keys, 2 contents, moved pins, 2 layers, failing publications, crashes, rot, truncated sidecars | `IInv`, `NoDanglingEntry`, `HitStable`, `NoLockCycle`, `OneFetchPerKey`, `ImplementsContentCache` |
| `LocalStore_gc_alone` | 1 caller, 3 keys, 3 contents, 3 clock values, 4 budgets, failing publications, crashes, truncated sidecars | `GcMeetsBudget`, `EvictsInOrder` |
| `LocalRepair` | the verifier and 1 caller that gets and collects, 3 keys (2 in the manifest), 2 contents, any damage before, death of the verifier | `RepairInv`, `RepairClean`, `SuccessMeansWhole`, `RemovesFailedOnly`, `NoCallHangs` |
| `FillCoordinator` | 3 running workers for 2 slots, sizes up to 2 of 3 in flight, 5 bytes of disk, 1 crash | `IInv`, `QuiescentMaintenance`, `PayloadEnvelope`, `HeadroomKept`, `ClosedWhileDraining`, `DrainEnds` |
| `MirrorService_writers` | 2 workers that fill or mirror 1 key, 2 contents, one of them uploaded in parts, 1 lost request or upload id, failed abort or crash | `IInv`, `SuccessMeansStored`, `NoStrayUpload`, `Immutable`, `PinNamesObject`, `ImplementsMirror` |
| `MirrorService_batch` | 2 batch runs, 2 keys | `PinsKept` |
| `MirrorService_repair` | 2 verifiers, 1 key, 2 contents, 1 damage or fault, outages | `UploadsFaithful`, `ReplaceObserved` |
| `Resolution` | 6 artifacts, 8 bodies, up to 2 sources, all modes, writes of 1 to 3 tokens, no budget, 3 or 5 | `BudgetHeld`, `RejectedEarly`, `ContentJudged`, `LayersInOrder`, `VerdictsFinal` |
| `Fetcher` | 5 families of worlds, 2 hosts, 6 redirect targets, 3 hops, 1 edit | `EvictsNamedDirOnly`, `SecretStaysHome`, `OnlyGrantedCredentials`, `ReportsWhatWasSent`, `NoPlaintextAfterTLS`, `RequestEnds` |

Three more runs each show that a sentence of the documentation, read literally,
is not what the code does; the counterexamples are in section 5.

*Why the bounds are enough to be interesting.* Two keys and two contents give a blob
shared by two keys, a key that moves from one content to another, and an orphan. Two
callers give any two of one that evicts, one that publishes and one that checks a hit;
what a third could add is covered by the proofs. `gc_alone` has three blobs of lengths
3, 2 and 1, so that every order of eviction and every boundary of the budget occurs. In
the coordinator three workers and two slots give an admission, a finish and a fill at
the mutex at once; the largest artifact equals a worker's share and two shares exceed
the aggregate. Bounds are on the clock (`MaxClock`), layers (`MaxSources`) and crashes
(`MaxCrashes`); each is a guard of one action. In `MirrorService` two workers and one
key give every race on an object, two contents a loser whose content differs, and
`MaxFaults` bounds crashes, lost answers, failed aborts and damages together; two keys
are needed only for the whole-file writes of the manifest. What a second fault might do
is covered by the proofs, which do not depend on the bound. In `LocalRepair` the two
artifacts of the manifest may share a blob with each other and with a third key, and one
accepts only one of the contents. `Resolution` has bodies whose signature is whole, cut
off, behind white space that fills the window, or wrong, and HTML at the start, behind a
byte order mark and behind the window; every way of cutting them into writes is tried,
and budgets that end inside the first, the second and the third attempt. In `Fetcher`
three hops (`MaxHops`) are the least that give a redirect from a redirect, and two
spellings of one host the least for a clash; an edit (`MaxEdits`) falls between any two
steps. The worlds are families, each of which varies what one part of the configuration
looks at (entries, stores of secrets, policy, modes, where the file is), since a full
product would only repeat them. Symmetry over callers and workers is used for safety
only.

*Fairness.* Neither HTTP client has a read or a total timeout (`store/mod.rs:158-159`,
`fetch.rs:62-66`), so nothing in the code makes a transfer end. `FillCoordinator` takes
this as it is: the steps of a fill have no fairness, and `DrainEnds` begins when no fill
is under way. A fill that stalls keeps the drain, and admission closed, for ever.
Fair are the steps that wait for no network (weakly) and the lock in `finish`
(strongly): `admit` only ever tries the mutex, and a blocked `finish` gets it in the
end. Without that, refused requests alone could starve it. The other liveness properties
assume what the code does not enforce, that a transfer ends, well or badly: `LocalStore`
has weak fairness of each caller's `Step`, so `NoCallHangs` is about locks and loops, and
`Fetcher` of a download's steps, so `RequestEnds` is about the number of hops. Nothing is
assumed of `flock`, which promises no order: `NoCallHangs` says only that a call which
never returns is starved by another caller whose calls keep returning. In `LocalRepair`,
where it is checked, the script goes on as well. The operator's edits have no fairness.

## 4. Proofs

Checked for every number of callers, keys, contents, workers, faults and byte counts,
from the named assumptions in the modules: the artifact parameters are well typed,
`Bytes` and `Total` are measures, `Key` and `Fill` are finite, `None` and `Malformed`
are distinct from data and verdicts, the policy satisfies `validate`, the hosts of URLs
are hosts, and `Canon` and `TokenVar` are functions on them.

- `LocalStoreProofs`: `IInv` (with `TypeOK`) is inductive; from it `NoDanglingEntry`,
  `HitStable`, `NoLockCycle`, `OneFetchPerKey`.
- `LocalStoreGcProofs`: for a caller that is alone (`Alone`), `GcInv` is inductive beside
  `IInv`; from them `GcMeetsBudget` and `EvictsInOrder`.
- `LocalStoreRefinement`: `Spec => ImplementsContentCache`.
- `LocalRepairProofs`: `RepairInv`, which contains `LocalStore`'s `IInv`, is inductive for
  the script with any neighbours; from it `RepairClean`, `RemovesFailedOnly`, and under
  `OneManifest` `SuccessMeansWhole`.
- `FillCoordinatorProofs`: `IInv` is inductive; from it `TypeOK`,
  `QuiescentMaintenance`, `PayloadEnvelope`, `HeadroomKept`,
  `ClosedWhileDraining`.

*Why the cache is right.* `NoDanglingEntry` alone is not inductive. An unlink is
safe because the scan before it found no reference (`UnlinkInv`) and no hit is
checking that blob, and this stays true because publishing needs the store lock,
which the unlinking caller holds (`StoreLockInv`). That no hit is checking it
follows from a second fact: a hit holds its key's lock (`KeyLockInv`), so its
entry still names the blob (`HitStable`), so the scan would have found it. A
truncated sidecar would break this link (the entry names nothing any more),
which is why `gc` and `remove` fail on one instead of skipping it; the mutant
`GcSnapshotLenient` shows what skipping would do. The sweep is the same argument
with a set (`SweepInv`). A caller at `publishEntry` has seen or put its blob
there under the store lock (`PublishInv`). `FetchInv` carries a miss from the
lookup to the publication for `OneFetchPerKey`. It cannot say that the index has nothing
for the key: a publication that failed after renaming the sidecar has bound one, and `get`
goes on. So `OneFetchPerKey` excepts that entry, and no other. In the proofs the steps are
grouped by what they disturb: the lemmas on locality say that a step of one
caller leaves the others' locals and locks alone, and each conjunct has a lemma
of its own that splits on the actions which can disturb it.

*Why gc ends within its budget.* `gc` carries a running total through the sweep and the
evictions and never measures again. `CountOf` says what that total is: the bytes of the
blobs it has measured that are still there, which from the end of the sweep on are all
that are there. When the queue runs out, the total must be zero, so every blob that
counts must be named by an item of the queue: an orphan would have been swept, and a
blob loses its last reference only when its victim is unlinked, after which the scan
removes it. `OrderOf` says that the queue holds every bound key once, oldest first, each
with the digest the index still has (or a sidecar truncated since); hence the head of
the queue is older than anything left, which is `EvictsInOrder`. `HeadOf` places the
eviction under way at the head, begun over budget. The sums need no induction: `Bytes`
of a set less one member is the law that is used. `Alone` is needed: beside other
callers the total misses what they publish and free meanwhile, and only `IInv` remains.

*Why a repair is right.* `LocalStore` is unchanged under the script, whose calls are its
calls, so `IInv` holds. Beyond it, `DamageInv` says where each key that names damaged
bytes (`Damaged`) is accounted for: while checking, in `failed` or still in `todo`; while
verifying, if outside the manifest, in `outside` or in the part of verify's snapshot
not yet read; while removing, in `todo`; while fetching there is none. What keeps this
true is that no other caller makes a key damaged: one about to publish an entry
has an intact blob (`BindInv`), for a corrupt blob is rejected and never replaced, and no
bytes rot after the start. Others may remove a damaged key at any moment, which
only shrinks the set. `RemovesFailedOnly` then needs `ScriptInv` and `CliInv`: the call
under way is the one the phase asks for, on the head of `todo`, all of which failed.
`SuccessMeansWhole` follows `Pending`, the artifacts not yet found or made whole, which is
empty at success. It needs `OneManifest`, that others use the same artifact for a key:
without it a neighbour with other pins may bind the key to content that this
manifest refuses. That damage precedes the repair is part of the model
(`RepairInit`), not of the theorem's hypotheses.

*Why the coordinator is right.* `CountInv` makes `active` the number of workers
that hold a guard, so `active = 0` under the mutex means none is filling
(`DrainInv`); `ReservedInv` says that reservations cover both what fills may
still write and what they have written beyond the retained budget. Releasing
all reservations at once is right because it happens only when nobody has room
left and the measurement fits. The proofs use only the laws of `Total`.

*Why the mirror is right.* `BatchInv` ties a batch run to the lock and its copy to the
file, which gives `PinsKept`. `SendInv` says that a write under way, or late, carries
the body its metadata names, because `write` rehashes the path; hence `UploadsFaithful`,
although path and entry come from two calls on a cache that others change. `JobInv` says
that only a repair has an ETag, hence `ReplaceObserved`. `NoStrayUpload` speaks of
steps: one that is no fault itself leaves no upload to nobody, whatever faults there
were before. Without repair (`WithoutRepair`) every write, late ones included, is an
If-None-Match (`FillInv`), so `Immutable` holds; since an object then stays, so does the
truth of a reported success (`SuccessMeansStored`), and a pin made after it names the
object (`PinNamesObject`). With repairs about, the last three do not hold: replacing
objects is what a repair is for.

`ImplementsMirror` gathers these into one statement. Its proof adds `AllWhole`, that
every object is intact, and maps each action: those before `stored` to stutters or
`Want`, the four ways to `stored` to `Tell`, where `SuccessMeansStored` and `FillInv`
supply its guard, `PinDigest` to `Pin`, where `BatchInv` makes the written copy the
manifest, and the end of a job to `Finish`.

- `MirrorServiceProofs`: `IInv` is inductive; from it `TypeOK`,
  `UploadsFaithful`, `PinsKept`, `ReplaceObserved`, `NoStrayUpload`;
  under `WithoutRepair` also `Immutable`, `SuccessMeansStored`,
  `PinNamesObject` and `ImplementsMirror`.

*Why a get is right.* `BudgetInv` says that what was written and what is left of the
budget never exceed the limit, because a write is charged before it is made and never
refunded. `HeadInv` ties `checked` to the window: the head is unjudged exactly while
less than a window has arrived, and judged good if more was written, hence
`RejectedEarly`. `LayerInv` counts: at layer *i* the attempts are *i - 1*, and every
layer before it was asked. `StepInv` and `OutcomeInv` say what is known at each step and
of each outcome. `Judgement` needs one hypothesis about checks, `PrefixSound` (a head is
rejected only of a body the check would reject as a whole), which is what
`check.rs:70-71` promises; the run checks `ContentJudged` without that hypothesis, on
heads and bodies that `ContentCheck` judges. `FinalVerdicts` follows from the same
invariant, step by step.

*Why secrets stay home.* `ConfigInv` describes a running process's store: its chain is
that of the selected service, `Configurable` held of the entries, the mode is the
command's. Every provider of any chain answers with a credential for the host it was
asked about (`Home`), and a configured one only through an entry that claims that host
(`Granted`); both are facts about operators and hold whatever the secret stores contain,
so edits cannot disturb them. `CredentialInv` carries them through a download: the
credential at hand is at home, or is the source's own on a trusted redirect.
`ReportInv` ties the verdict and the identity to the requests sent.

- `ResolutionProofs`: `IInv` is inductive; from it `TypeOK`, `BudgetHeld`,
  `RejectedEarly`, `LayersInOrder`, `VerdictsFinal`, and under `PrefixSound`
  `ContentJudged`.
- `FetcherProofs`: `ConfigInv` and `FetchInv` are inductive; from them `TypeOK`,
  `EvictsNamedDirOnly`, `SecretStaysHome`, `OnlyGrantedCredentials`, `ReportsWhatWasSent`,
  `NoPlaintextAfterTLS`.

*Model-checked only.* Liveness (`NoCallHangs`, `DrainEnds`, `RequestEnds`), which
the provers do not reach. Every invariant and every action property of a passing run has
its theorem. That the checks of `ContentCheck` satisfy `PrefixSound` is not proved: the
run of `Resolution` checks `ContentJudged` on its bodies without that hypothesis.

*Proved only.* The auxiliary invariants `GcInv`, `ConfigInv`, `FetchInv` and `Resolution`'s
`IInv`, in whose place the runs check what is derived from them.

## 5. Where documentation and code part

| Run | The sentence | What happens |
|---|---|---|
| `Fetcher_identity` | `fetch.rs:47`: "Provider identity of the credential that was actually sent, if any." | The chain is asked for the credential and then, again from its start, for an identity. A configured `netrc` entry has an identity even when `~/.netrc` has no stanza for the host; then the environment's token is sent and the entry's name recorded |
| `LocalStore_rejection` | `store/mod.rs:642`: "run verify and remove the keys it reports" | A rotten orphan rejects its content for ever and verify, which walks sidecars, reports no key; gc is what removes it |
| `MirrorService_repair_good` | `docs/deploy.md:51`: "a bad object is replaced"; `README.md:103`: "to change corrupt content" | The metadata and the ETag come from two HEADs. The first finds no object, a fill's put arrives, the second has its ETag. The key has no pin, so the object is whole and acceptable, yet it counts as missing; the cache has lost its entry meanwhile, the archive gives other content, and that replaces it |

Lesser differences have no run of their own. A key that is fetched again with the
same content after gc's snapshot is evicted as if it were still old, since the re-read
(`store/mod.rs:449`) compares digests only; `EvictsInOrder` is checked for gc alone. A
batch run whose content of an unpinned key differs from what a fill has put fails, and
`?` ends the run (`s3.rs:519`), where `docs/spec.md:664` has the two "resolve cleanly".
The answers of `verify` and `peek`
are as of several unlocked reads: a key removed meanwhile may be reported as
missing, a cached one that moves to another digest denied. `gc` does not
count bytes that another caller's `remove` frees, so beside one it may evict a
key more than needed.
`credential_config.rs:4-6` says that an entry of an unknown type is kept verbatim "so the
file round-trips". Of the values that cannot, only datetimes are refused: a field that is
`nan` or infinite becomes JSON's `null` when it is read, which TOML cannot write, so the
file loads (`Decodes`) and cannot be written again.
`layout.rs:96` says that the store lock is "always taken while holding a key
lock", which gc's snapshot does not do; the order that prevents a deadlock is
`NoLockCycle`, and it holds.

## 6. Not modelled

- Text: TOML and writing it, the manifest's format and merging, the grammar of keys and paths,
  relative paths, wording of errors, progress bars.
- Directory durability: which renames and unlinks survive a power loss
  (`layout.rs:136`); a crash here is a process's, after which files stay as they are.
- The bytes of transfers, hashing, presigning, TLS, cookies, and timeouts of connections
  other than as a failure.
- `StaticProvider`, which only library users have; the service without a cache policy,
  whose semaphore replaces the coordinator; the statuses of the handler.
- Deployment files, CI and tests, which are read as statements of intent.

## 7. Plan

1. *(done)* The local cache, its abstract specification and the refinement; the
   coordinator; the mirror with its three kinds of writer; their invariants
   proved.
2. *(done)* Layer resolution with its receiver and checks; credentials, configuration
   and the redirect loop; `verify --repair` on the local cache. The invariants of the first
   two proved.
3. *(done)* The script of `LocalRepair` and gc alone proved.
4. *(done)* An abstract bucket, with `MirrorService` shown to implement it.
5. A repair's effect on the abstract bucket: with repair allowed, an object replaced
   only by one whose body was observed, as one more action of `ImmutableMirror`.
6. Power loss: which renames and unlinks a directory has made durable.
