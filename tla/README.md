# cainjekt: a verification project

cainjekt injects an organisation's CA certificates into Kubernetes containers. One
binary plays three parts: an NRI plugin that runs on every node and answers the
container runtime's requests, an OCI CreateRuntime hook that the runtime executes
for each opted-in container, and an entrypoint wrapper that starts the container's
command with the right environment. This directory holds TLA+ models of the three,
TLC configurations that check them on small instances, and TLAPS proofs.

    tlc -workers 2 -config NriPlugin_staging.cfg MCNriPlugin
    tlapm NriPlugin_proofs.tla

`PROJECT.json` lists the runs, which source lines each definition models (`map`),
the hazards the properties are for, the faulty variants that show that a property
can fail (`mutants`), and the theorems.

## The system

| Component | Source | State | Operations |
|---|---|---|---|
| Request handlers | `internal/nri/plugin.go`, `dynamic_ca.go`, `helpers.go` | `tracked` (containers with a staged CA), `missed`, two gauges; a directory per container under `/run/cainjekt` | CreateContainer, RemoveContainer, Synchronize |
| Missed-container scan | `plugin.go` `reportMissedContainers` | the keys it collects | started by each Synchronize, runs beside the handlers, at most two minutes |
| Orphan cleaner | `cleanup.go` | a ticker | a sweep every five minutes over directories older than ten |
| Connection, process | `plugin.go` `Run`, `runNRI` | `ready`, `failingSince`, the backoff, `stopCh`, `verifyWG` | connect, lose, retry, give up after two minutes; on a signal wait for the goroutines and exit; the kubelet restarts |
| Hook verification | `plugin.go` `verifyHookCompletion` | a timer, a poll count | one goroutine per injected container |
| Namespace-label cache | `namespace.go` | entries with their age, the service account token | lookup with TTL, retries within a budget, re-reading of a rotated token |
| Hook | `internal/runtime/hook` | `ctx.Facts`, breadcrumb files | select, detect, apply the processors in order, persist the context |
| Processors | `internal/engine/processors` | files of the root file system, facts | OS stores, Java key stores, environment variables of the languages |
| Wrapper | `internal/runtime/wrapper`, `hookctx` | the persisted context | read, add to the environment, exec |
| File access | `internal/util/containerfs`, `pkg/fsx` | files | resolve symlinks, probe, read, atomic replace |
| Trust stores | `pkg/certs`, `pkg/javakeystore`, `java.go` `mergeStore` | their entries | merge into a PEM bundle, parse, merge and encode JKS and PKCS#12 |
| Endpoints, metrics, configuration, OCI decoding, logging | `server.go`, `metrics.go`, `config`, `util/oci`, `log` | none of their own | exposition and decoding |

How they interact. The runtime calls the handlers, one request at a time per
connection. CreateContainer asks the label cache whether the pod opted in, stages
the CA bundle in a directory, tracks the container, returns an adjustment (hook,
wrapper mount, arguments) and starts a verifier. The runtime then runs the hook,
which writes breadcrumbs (`hook.started`, `hook.done`) into the staged directory,
patches the root file system and leaves `hook-context.json` there for the wrapper.
RemoveContainer untracks and deletes; the cleaner deletes what nobody tracks. After
a reconnect or a restart Synchronize hands the plugin the containers there are: it
adopts those with a staged directory and scans for those that should have been
injected and were not.

What is hard here:

- the tracked set is in memory and the directories are not: after a restart, and
  until the first Synchronize, live containers look like orphans;
- the cleaner, the handlers and the scans share sets and gauges without a common
  lock, and each of them looks first and acts later;
- a connection may be lost in the middle of a request whose handler goes on, and
  removals that happen meanwhile are never reported;
- lookups retry within a budget that must not outlive the request;
- two timers of the same length start at different moments (verifier and hook);
- handlers go on while the process shuts down and while the connection they came
  from is already replaced: they set `ready` and add to the wait group late;
- the hook is a sequence of file replacements, each of which may fail, under a
  deadline at which it is killed, and everything has to fail open;
- the image's trust stores are somebody else's: any tree of links, any owner, any
  aliases, private keys, broken entries, and perhaps the result of an earlier run.

What makes each part correct: a live injected container keeps its staged directory
and is not reported as missed; a dead one's directory goes away; the gauges say what
the sets hold; a lookup ends in time and does not serve stale labels or stale tokens;
a hook is counted as incomplete exactly when it was; the process gives up when it
must and only then, and ends when it is told to; no trust store loses a root, is torn,
or is replaced by a file that fewer can read; what the wrapper exports is a bundle that
trusts the CA and that the command can open; and the container's command runs whatever
fails, unless the runtime kills the hook at its deadline, which fails the start.

## The modules

| Module | Models | MC module | Proofs |
|---|---|---|---|
| `NriPlugin` | handlers, scan, cleaner; what connection and process do to their state | `MCNriPlugin` | `NriPlugin_proofs`, `NriGauges_proofs` |
| `Reconnect` | `runNRI`, the readiness flag, the wait group and the shutdown in `Run` | `MCReconnect` | `Reconnect_proofs` |
| `NsLabelCache` | the namespace-label cache | `MCNsLabelCache` | `NsLabelCache_proofs` |
| `HookVerify` | the verifier against hook, kill and removal | `MCHookVerify` | `HookVerify_proofs` |
| `Injection` | hook pipeline, persisted context, wrapper | `MCInjection` | `Injection_proofs` |
| `StoreUpdate` | the update of one trust store, system call by system call | `MCStoreUpdate` | `StoreUpdate_proofs` |
| `ContainerPath` | paths, links and Lstat, used by `StoreUpdate` | | |
| `TrustStore` | what the stores' entries are and how they are merged, used by `StoreUpdate` | | `TrustStore_proofs` |
| `TrustFile` | what an update promises to a reader of the store; `StoreUpdate` implements it | | in `StoreUpdate_proofs` |

How they fit together. NriPlugin assumes of the connection that it is given up in time
(`TimingAssumption`); Reconnect shows it (DeafBounded). NriPlugin takes the answer to a
namespace lookup from a set that may hold "failed"; NsLabelCache shows when it comes.
Injection replaces a file in one step that succeeds or fails and merges by a union;
StoreUpdate shows that the system calls amount to that (ImplementsTrustFile), and that
the entries which the union speaks of are the ones a reader of the file finds.

**NriPlugin.** `tracked`, `missed` and the gauges are the fields of the plugin; `dir`,
`dirAge` and `done` are the staged directories, their modification times and `hook.done`. A
handler is a sequence of actions, cut where another goroutine can come in between:
CreateDecide, CreateStage (or CreateStageFails), CreateTrack; RemoveUntrack, RemoveCleanup.
`Decide` is the opt-in decision: the pod's annotation, then its label, then the namespace's;
the last is unknown when the lookup failed. A scan checks container by container those it was
handed (ScanCheck; their pods are handed to it with them, so none is skipped for want of its
pod), may run into its time limit (ScanAbort), and commits in steps: ScanClear, ScanStore,
ScanSetGauge. A sweep lists, checks and removes in separate steps. ConnectionLost leaves
running handlers running. Exit and Restart empty the memory and keep the directories. The
runtime (RuntimeCreate, RuntimeStart, RuntimeRemove, the list given to Synchronize) is
external: it is what the code is written against. Container ids stand for the keys derived
from them; the content of the adjustment is not looked at.

**Reconnect.** Three kinds of goroutines: runNRI (in stub.Run, returned from it,
asleep), the handlers of the stub, and Run with its select. Handlers are counted by
where they are: a Synchronize before `ready.Store`, one between that and `verifyWG.Add`,
a CreateContainer before `verifyWG.Add`. They stay when the connection is lost. The
goroutines of the wait group are counted apart, those from before and from after
`stopCh` was closed. WaitGroup is modelled with its rule: an Add that finds the counter
at zero while a woken Wait has not returned panics. `deaf` and `falseReady` are
history: how long there was no Synchronize, and for how long readyz has been wrong.

**NsLabelCache.** One namespace, the opt-in key. Time is a counter of each age
(`entryAge`, `tokenAge`, `elapsed`, `stepAge`). GetLabel serves from the cache or
starts an attempt; an attempt succeeds, is refused, fails or times out; the loop
waits and retries if RetryFits. Tokens are generations that Rotate and Expire move on.
`since` records how long ago the namespace said a label, for the staleness property.

**HookVerify.** One injected container from the end of CreateContainer. The verifier
waits, polls and at last looks at the directory and `hook.started`; the hook starts
late, completes, fails open or is killed; a breadcrumb may fail to be written, which the
hook ignores (`lost` remembers it); RemoveAll takes the files first and the directory
later; `stopCh` may close.

**Injection.** One container from the start of the hook to the exec of its command. A file is
the set of certificates in it: "sys" for those the image brought, "own" for those that only a
separate `/etc/ssl/cert.pem` has, "org" for the organisation's. The files of `Staged` are on
the node: CreateContainer mounts only the wrapper, so the command cannot open them (`Opens`),
although facts and environment may name them. Processors that differ only in names and paths
are represented by one of them: os-debian for the distributions except Alpine (which writes a
second file), lang-python for the languages that set SSL_CERT_FILE. Init chooses what the
image is (`OsRelease`, its files, its key stores) and which processors the annotation selects;
`Matches`, `FilterByNames` and `Applicable` are what detection and selection make of it. Every
file operation may fail (IOError), all those into a read-only root file system do
(WriteFails), and HookKilled may come between any two steps. A replaced file is replaced in
one step. The key stores are visited in any order; the code's order is one of them.

**StoreUpdate.** One update of one store by the OS or by the Java processor, from reading it
to writing it back (that the Alpine processor then writes the same content to
`/etc/ssl/cert.pem` too is in Injection): resolve, read, merge, resolve again, MkdirAll, and
AtomicWrite (Lstat, CreateTemp, Stat, Write, Chmod, Chown, Sync, Rename, the directory's Sync,
the deferred removal), each an action. Any call may fail, Kill and PowerLoss may come between
any two, and Rerun starts another run over what is left. The tree is a function from paths to
nodes. `earlier` holds the trees that a power failure may bring back: those from before a
rename or a new directory that no directory sync has made permanent. A file whose data was not
synced is empty or torn after a power failure, which is what NeverTorn is about. `settled`
remembers the tree at the end of the first update that was reported as done.

**ContainerPath, TrustStore.** A path is the sequence of its names. `Clean` is lexical
as path.Clean is; `Lstat` tells apart what does not exist and what is no directory. A
store is a format with a sequence of entries, an entry an alias and a certificate, a
private key, a foreign block or one that does not parse. Aliases are names with a
number (`Alias`, `Numbered`), so that `DedupeAliases` can produce one that is there
already. `Parsable` has the parsers' refusals (version, password, entry limit, private
keys, broken entries), `Merge` the three formats, `View` what a program that loads
the file gets: of entries with one alias the last.

**TrustFile.** What is in the file grows: it holds what it held, with or without all of
the organisation's certificates; an update that is reported as done has added them;
only a power failure undoes one, and then all of it. StoreUpdate is shown to implement
it with the certificates found at the path by a process in the container. Where that process
comes to is `Found`: the kernel's walk over the tree, name by name, which follows each link
from where it stands and takes ".." when it comes to it. ResolveSymlinks instead cleans the
path and begins at the root again after each link; that both come to the same file is
ResolvesLikeKernel.

Time and limits are scaled. In NriPlugin a Tick is a minute and the code's 2, 5 and 10 minutes
become `GiveUp = 0`, `SweepInterval = 2`, `OrphanAge = 3`: what matters is that the process
gives up before its first sweep and that a directory is older than a sweep interval before it
counts as an orphan (`TimingAssumption`); the proofs hold for all values with that order. In
Reconnect a Tick is the smallest backoff. In HookVerify a Tick is a poll interval; `Timeout =
6` stands for the default of 20 seconds, `Polls = 5` is the code's.

## The runs

| Run | What it shows | States |
|---|---|---|
| `nri_staging` | TypeOK, LiveKeepsDir, NoFalseMissed and UntrackedReclaimed with an exit, a lost connection, a failed file operation and two overlapping scans, and a namespace that answers anything. One container is enough: the properties speak of one at a time, and what other containers do to it goes through the cleaner and the scans, which are not bound to it. | 499,000 |
| `nri_gauges` | ActiveSetExact, MissedGaugeCovers, MissedComplete with two containers, so that a gauge can be off by one in both directions, and one scan at a time. | 1,637,000 |
| `ns_cache` | TypeOK, BudgetKept, BoundedStaleness, NoUnauthorized and LookupEnds with two callers, so that two answers can be stored in either order; with a deadline that cuts the budget short and one that does not; with an API server that accepts a rotated token for no time (`Overlaps` 0) and for `TokenTTL + Attempt` (2). NoUnauthorized is about the second: the first is there so that refusals and their retries happen. | 564,000 |
| `hook_verify` | TypeOK, CountedRightly, KilledCounted with a hook that starts up to `MaxDelay = 6` ticks late. CountedRightly draws the boundary: it holds for a hook that starts at most `Polls - 2` ticks late and whose breadcrumbs were written. | 71,000 |
| `inject_pipeline` | TypeOK, RootsKept, ExportedTrusted, FallbackCovers, CommandRuns for every selection of processors and every kind of image, with two failures and a kill anywhere. Two key stores are needed for one to be patched and the other not; two failures for a processor and its fallback to fail both. | 1,358,000 |
| `reconnect_life` | TypeOK, DeafBounded, FalseReadyBounded, NoneAbandoned, GiveUpJustified, ShutdownEnds. The backoff doubles to its maximum twice within the give-up time, and three requests are enough for a Synchronize that outlives its connection, one that replaces it, and a CreateContainer during the shutdown. | 141,000 |
| `store_update` | TypeOK, NeverTorn, DoneSurvives, LinksKept, StaysReadable, NoLitter, Idempotent, ResolvesLikeKernel, ImplementsTrustFile, GoesOn, UpdateEnds for 8,307 jobs: every tree of directories, files and links below two names (chains, loops, links to directories, through files, out of the root), and every kind of content in a few trees with up to two failed calls, two kills or power failures and a second run. Three entries, four blocks and three hops are the limits of the code made small, so that each is met from both sides. | 178,000 |
| `nri_leak`, `nri_stale_missed`, `nri_flaky_scan`, `reconnect_shutdown`, `inject_readonly` | violations, see the findings | |

Deadlock is checked in all runs but the two of Injection, which ends: after exec, or
when the hook was killed. Where StoreUpdate and Reconnect have come to their end they
stutter in a step of their own.

### Fairness

- NriPlugin: handlers, scans and sweeps are goroutines and are scheduled (WF); time
  passes (WF Tick); the kubelet restarts the pod (WF Restart). Synchronize has strong
  fairness: the plugin retries every two seconds at most, so a runtime that accepts
  connections again and again is met by an attempt. Nothing obliges the runtime to
  create, start or remove containers, or the process to exit.
- NsLabelCache: time passes and a goroutine whose timer has fired runs. The API server
  need not answer.
- Reconnect: the goroutines of the process are scheduled, verifiers and scans end (the
  ones look at `stopCh`, the others have their time limit), and Run goes on. The
  runtime need not send anything, and nobody need send a signal.
- StoreUpdate: the hook goes on (WF of its steps as a whole); it need not be run again.
- HookVerify: the verifier runs, time passes, the runtime starts the hook and kills it
  at its deadline, RemoveAll goes on once begun. The hook need not complete.
- Injection: hook and wrapper are sequential programs that go on (WF of the hook as a
  whole, and of the wrapper once the container starts).

### Findings

1. `nri_leak` (plugin.go:476). A reconnect of the same process adds to the tracked set
   and drops nothing. The directory of a container removed while the connection was down
   stays for the life of the process, contrary to the comment "rebuilt from scratch on
   every start" and to `docs/architecture.md`.
2. `nri_stale_missed` (plugin.go:547). A container removed while a scan runs stays in the
   missed gauge until the next Synchronize.
3. `nri_flaky_scan` (plugin.go:522). The scan reads a failed lookup as an opt-out, which
   `namespace.go:155` forbids.
4. `reconnect_shutdown` (plugin.go:111). Run waits for the wait group before it stops the
   stub, so handlers still start verifiers and scans. One that adds to the group just when the
   last of the others is done, before Wait has returned, makes sync panic. The documentation says
   that new events are no longer accepted first, and that the process exits cleanly.
5. `inject_readonly` (runner.go:64). On a read-only root file system the hook stages a merged
   bundle and a merged key store, but `hook-context.json` goes into that same file system,
   cannot be written, and the wrapper learns nothing; the documentation says that the
   languages work there.
6. `reconnect_life`, FalseReadyBounded (plugin.go:438). A Synchronize that is scheduled only
   after its connection was lost stores `ready` after runNRI has swapped it to false, and
   readyz reports a plugin without a connection as ready; `docs/architecture.md:200` says that
   it "is not Ready while disconnected". The property bounds how long that lasts.
7. `inject_pipeline`, ExportedTrusted (plugin.go:332). The staged bundle, merged bundle and
   merged key store are files of the node that are not mounted into the container.
   `docs/architecture.md:225` calls the first "host-mounted, always readable". A failed probe of
   a writable root file system, or a key store in it that cannot be written, is enough for the
   wrapper to export such a path.
8. `inject_pipeline`, FallbackCovers (osstore.go:314). The fallback sets no individual CA path,
   so where only it applies, or makes up for a distribution's processor, NODE_EXTRA_CA_CERTS is
   not set; `docs/usage.md:313` promises it without exception.
9. `inject_pipeline`, CommandRuns (plugin.go:146). A hook that is killed at its deadline fails
   the start; `docs/architecture.md:169` names the hook timeout among the reasons why a
   container is never blocked from starting.

The last four are cases that a passing property states as its exception; the first five have
a run of their own that ends in a counterexample.

Beyond these, RootsKept names one file as its exception: the Alpine processor writes
`/etc/ssl/cert.pem` from the other store's content without reading it (osstore.go:192), so
what only a separate cert.pem held is lost, and an image whose only roots are in that file is
left with the bare CA. No document says what should happen there, so it is recorded as a
hazard. CountedRightly likewise names its exceptions: the verifier's time runs from
CreateContainer and the hook's from its start, so a hook that the runtime starts more than
`Polls - 2` polls late may be counted as incomplete although it is within its deadline and
completes (plugin.go:158, against the comment at plugin.go:166); and where a breadcrumb could
not be written (breadcrumb.go:20) a completed hook is counted as incomplete, or as one that did
not run. Two properties of StoreUpdate name theirs as well: a directory that MkdirAll
has just made is not synced in its parent, so a store in it may be gone after a power failure;
and where chown is not permitted, a store that only its owner could read becomes root's.

## The proofs

Theorems hold for any number of containers, callers, key stores, failures and for all
durations, from the ASSUMEs of the modules, which the runs evaluate.

**NriPlugin_proofs**: TypeCorrect, LiveDirSafe (`[]LiveKeepsDir`), MissedSound
(`[]NoFalseMissed`). LiveKeepsDir is not inductive: the sweep that removes a directory
decided so earlier, from a tracked set that an earlier process may have left empty.
The inductive invariant adds
- LinkInv: before the first Synchronize of a process no handler runs and no sweep has
  begun, because the sweep's age is at most the time without a connection, and that is
  bounded by the give-up time (this is where `TimingAssumption` is needed);
- LifeInv: how the handlers in flight relate to the container's life;
- StageInv: between staging and tracking the directory is too young to be an orphan;
- KeepInv: once synchronised, every live injected container is tracked;
- SweepInv: what the cleaner has decided to remove is not, and cannot become, needed;
- ScanInv: a live injected container has its `hook.done` (injected means that the hook ran to
  its end and could write it), and what a scan takes for running or reports was running when
  it started.

**NriGauges_proofs**, which builds on the above: ActiveExact (`[](drops = 0 =>
ActiveSetExact)`), GaugeCovers (MissedGaugeCovers) and MissedAll (MissedComplete).
- ActiveInv: as long as no connection was lost, handlers work on the request that the
  runtime waits for, a process that is not ready tracks nothing, and the gauge is the
  cardinality of the tracked set at every moment, not only between requests. After a loss
  the set may hold what is gone (finding 1), so the hypothesis is needed;
- CoverInv: the gauge is below the set only during a commit, and then all that is in the
  set or about to be is among the keys that the commit counts;
- CompleteInv: what a scan has looked at and would report is among its keys, then in the
  set, through check, clear and store.

The last two have hypotheses that the code does not guarantee, and are false without them.
`OneCommit` says that no two scans are between clear and gauge at once: each Synchronize
starts a scan, and two that commit together can leave the gauge below the set (a connection
lost right after its Synchronize is what it takes). The run has one scan at a time. `Reliable`
says that a pod which is surely opted in is seen to be so; without it the property is false
(finding 3).

**HookVerify_proofs**: TypeCorrect, CountsRightly (`[]CountedRightly`), for every timeout,
number of polls and delay. Whether a hook is counted rightly depends on two clocks that
start at different moments; `Elapsed` reads the verifier's from where it is in its loop.
- Clocks: the hook's clock is the verifier's less the delay, until the verifier has ended;
- Breadcrumbs: what the directory tells about the hook, until it is being removed: a
  breadcrumb that is not there was lost or not yet written;
- Verdict: when the last poll has found no `hook.done`, a hook that was not late is over,
  and if it completed, its directory was removed before that poll.

**NsLabelCache_proofs**: TypeCorrect, LookupInTime (`[]BudgetKept`), ServedFresh
(`[]BoundedStaleness`), NeverRefused (`[]NoUnauthorized`). BudgetInv says where in the budget
an attempt began (it was the first, or RetryFits held when the wait began); StaleInv that an
answer is no older than its attempt and a stored entry no older than its age plus an attempt.
TokenInv: a cached token from before the last rotation is at least as old as that rotation, or
due to be re-read. SentInv: an attempt with the token before the last was begun within
TokenTTL of the rotation, so that it ends while that token is accepted.

**Injection_proofs**: TypeCorrect, RootsNeverLost (`[]RootsKept`), ExportsTrusted
(`[]ExportedTrusted`), FallbackServes (`[]FallbackCovers`). CurInv says that the second
Alpine path is written only by the Alpine processor and after its store, Unharmed that before
a failed operation no fact names a file of the node on a writable root file system. The
lemma MergedContent is the one fact about merging. What the wrapper exports was decided long
before, by other processors, so ServedInv follows the facts through the pipeline:
- NamedTrusted: every file that a fact names, or is about to, trusts the CA;
- DefaultKept: while the first store does not exist, the second has its roots;
- StoreFacts: the facts of the OS processor that succeeded belong together: the merged
  bundle has the roots of the store they name, and only two failures leave a bare CA;
- Tried: while none has succeeded, each OS processor that is through has cost a failed
  operation, and the fallback comes last;
- HandedOver: the wrapper reads the facts as the hook left them, or nothing.

**Reconnect_proofs**: TypeCorrect, AllWaitedFor (`[]NoneAbandoned`), ReadyzHonest
(`[]FalseReadyBounded`), GivesUpInTime (`[]DeafBounded`), NoRashExit (GiveUpJustified).
- Waited: from the moment Wait has returned no early goroutine is left, and none can be
  added, because only Run closes `stopCh`;
- Connected: how the link, runNRI's place and the attempt's age belong together;
- Round: while readyz is wrong, the time it has been so is at most the time slept plus
  the age of the attempt; both begin anew only when it is right;
- Deaf: the time without a Synchronize is bounded by that on the give-up timer plus the
  round that started it (`ready` still being set from before), this is why two backoffs and
  two attempts appear in the bound;
- Honest: whenever the give-up timer runs, no Synchronize has come since it was started.

**TrustStore_proofs**: MergeKeeps, MergeOnce, MergeParses: for every store that the parsers
accept, of any length and with any aliases, and every bundle, a reader of the merged store
finds all he found before and the whole bundle; a merged store is up to date; and it can be
parsed again unless it has outgrown a limit. What Missing and DedupeAliases compute is
shown by induction over their sequences. The library states induction for predicates, which
the provers cannot instantiate, so the lemmas Least and Induction state it for sets: the
indices at which a fact holds contain 0 and with each number the next. The recursive functions
of the model are choices of a solution to their equation; MissingExists, AliasesExist and
CleanExists show that there is one. The crucial facts are NumberedDiffer (the candidates for an
alias are pairwise different, so one of the first n + 1 is not among n taken ones) and
UniqueView (in a store with distinct aliases a reader finds everything).

MergeExact says that nothing else is added: what is found afterwards is the union of the
store's certificates and the bundle's, as which Injection takes an update. AliasesStay: in
a JKS whose entries have different, non-empty aliases every entry keeps its place and its
alias, whatever names the bundle's certificates are given. The hypothesis is needed: an entry
without an alias becomes "cert", and a later entry of that name is then renamed. It is
about JKS only: the PKCS#12 decoder does not return the aliases.

**StoreUpdate_proofs**: TypeCorrect, FilesWhole (`[]NeverTorn`), LinksStay (`[]LinksKept`),
TempRemoved (`[]NoLitter`), UpdateSurvives (`[]DoneSurvives`), ReadersKept
(`[]StaysReadable`), RunsOnce (`[]Idempotent`), NeverBack (GoesOn), ResolvesRight
(`[]ResolvesLikeKernel`), FilesPromise and PathPromise (ImplementsTrustFile, the refinement of
TrustFile), for any tree, any content, any number of failed calls, kills, power failures and
runs. That a job's tree is one (what it lists is in a directory it lists, `IsTree`) is in
JobsAssumption.
- Durable: the trees on the disk are whole, and from Write and Sync on so is the temporary
  file, so Rename never puts a torn one in its place;
- Spared: no step of resolution or of AtomicWrite replaces a link: at the rename, what was
  resolved is no link, as Lstat has found after the last change to the tree;
- Tidy: there is a temporary file only between CreateTemp and the removal, which fails
  only after another call has failed;
- DirSynced: in a first run without failed calls, what a power failure may bring back after
  the directory's sync lacks the directory itself.

ReadersKept, RunsOnce and FilesPromise rest on a second invariant, `Course`:
- TreesInv: every file, now and after any power failure, holds what the image's file held, or
  exactly that merged with the bundle once, and has its mode and owner;
- Reads, Writes: the two resolutions of one update end at the same file, so what is written
  is merged from what is replaced. `Leads(t, c, d)` says that resolution comes from c to d, as
  "d is in every set that has c and is closed under steps", which makes it deterministic
  without induction; LeadsKept shows that making the store's directories and its file does
  not lead a resolution elsewhere, and Descend that it walks down the directories made;
- TempInv: the temporary file has taken on content, mode and owner of the one it replaces, or
  0644 if that could not be looked at;
- Settles: after a reported update the path leads to a file that has the bundle, and every
  later run is on its way to that file or has ended.

FilesPromise: for every path p, the update implements TrustFile for what a program finds in
the file at p, with "done" for an update of that file. Its hypothesis NothingHidden
excludes an image key store that has the whole bundle but shows only some of it, because a
later entry has the same alias: mergeStore looks at all entries and leaves such a store as it
is. All jobs of the run satisfy it.

NeverBack is the part of UpdateEnds that needs no fairness: every
step of the hook comes to a later stage, or follows one more link, of which there are at most
`MaxHops`, or leaves fewer names to resolve. What is left for TLC is that steps are taken.

ResolvesRight compares ResolveSymlinks with the kernel's walk. The walk is a recursive function
over walkers; WalkExists gives a solution of its equation (a walker ends where every set that
has it and is closed under steps has an end), WalkEquation and WalkSteps are what the rest uses:
- WalkDown: a path that leads down to a directory may be left off when the walk begins there;
- CleanWalk: from a directory, what path.Clean makes of it and of a path with ".." in front
  of its names leads the kernel from the root to where the path leads it from there;
- FollowsStep: `Follows(t, c, v)` says that from a state c of ResolveSymlinks the kernel comes to
  v; a step of ResolveSymlinks, with its restart at the root, leaves v as it is;
- LinksInv, Fails: the only links are the image's, so what is assumed of them stays true; and a
  resolution that has failed stands where it could not go on, which is where the kernel fails.

PathPromise is FilesPromise for the file at the end of the walk; it needs Steady, that an update
never changes where the path leads. The hypothesis PlainPaths of both says that in the path and
in the targets of the image's links ".." comes only in front of names, as in ../b or ../../a/b.
It is needed: of x/../b path.Clean leaves b, and the kernel looks x up first, which fails if x
is missing and leads elsewhere if it is a link. All jobs of the run satisfy it.

Only model-checked are the liveness properties (UntrackedReclaimed, LookupEnds, KilledCounted,
CommandRuns, ShutdownEnds, UpdateEnds): the prover does not reach fairness.

Assumed by the models: the runtime sends one request at a time and drops its request when
the connection closes; stub.Run and the runtime synchronise or fail within `AttemptMax`
(otherwise the give-up time is never looked at), and a Synchronize, also one whose
connection is lost, has stored `ready` and started its scan before the next Tick (each is a
step that waits for nothing); a handler finishes within a minute (NRI's request
timeout is seconds); nobody else writes to the root file system while the hook runs; of
several directories that MkdirAll makes, all or none are there. The run's trees
have no link target in which ".." follows a name, where the two resolutions differ (PlainPaths,
above).

## Not modelled

Counters that only go up; the HTTP endpoints; the adjustment's content; the ciphers and
byte layout of JKS and PKCS#12 and the text form of PEM (TrustStore has their entries);
the text of os-release (Injection has what it names); the search for Java homes, which is
a set of paths; configuration, OCI decoding and logging.

## Plan

Done: NriPlugin, NsLabelCache, HookVerify, Injection, Reconnect, ContainerPath, TrustStore,
StoreUpdate with TrustFile, and the proofs above, which cover every invariant and every
action property of the passing runs and the refinement. Left, in this order:

1. A composition of Injection with HookVerify: what `hook.done` means for a container whose
   processors all failed.
2. MissedGaugeCovers under overlapping commits: how far the gauge can be off.
