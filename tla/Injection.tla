----------------------------- MODULE Injection -----------------------------
(***************************************************************************)
(* How one container gets the organisation's CA: the CreateRuntime hook    *)
(* (internal/runtime/hook) applies the processors in the order of their    *)
(* priority to the root file system, persists what they found out, and the *)
(* entrypoint wrapper (internal/runtime/wrapper) turns that into the       *)
(* environment of the container's command.  Files are replaced atomically; *)
(* any of them may fail to be, and the runtime may kill the hook between   *)
(* two of them.                                                            *)
(*                                                                         *)
(* A file is the set of certificates it holds: "sys" stands for the roots  *)
(* of the image, "own" for those that only a separate /etc/ssl/cert.pem    *)
(* has, "org" for the organisation's.  Of the processors that differ only  *)
(* in names and paths one is kept: os-debian for the distributions but     *)
(* Alpine, lang-python for the languages that replace the trust with       *)
(* SSL_CERT_FILE (.NET, Go, Python, Ruby).                                 *)
(***************************************************************************)
EXTENDS Integers

CONSTANTS
    Cacerts,      \* the Java key stores an image may have
    MaxIOErrors,  \* bound: failed file operations
    None          \* no such file, no such fact, not set

Distro == {"os-debian", "os-alpine"}
OsStore == Distro \cup {"os-fallback"}
Language == {"lang-java", "lang-nodejs", "lang-python"}
Processor == OsStore \cup Language

\* What the hook can write: in the root file system the trust store, Alpine's
\* /etc/ssl/cert.pem, the anchor and the key stores; on the node, beside the
\* staged bundle, the merged bundle and the merged key store.  The paths on
\* the node are none of the container's: CreateContainer mounts the wrapper
\* and nothing else.
Staged == {"staged", "staged-merged", "staged-java"}
Named == {"store", "default", "anchor"} \cup Staged
Path == Named \cup Cacerts
Content == {{"sys"}, {"own"}, {"org"}, {"sys", "own"}, {"sys", "org"},
            {"own", "org"}, {"sys", "own", "org"}}

ASSUME CacertsAssumption == Cacerts \cap Named = {}
ASSUME ErrorAssumption == MaxIOErrors \in Nat
ASSUME NoneAssumption == None \notin Path /\ None \notin Content

Variable == {"SSL_CERT_FILE", "NODE_EXTRA_CA_CERTS", "JAVA_TOOL_OPTIONS"}
Fact == {"trust_store_path", "merged_ca_path", "individual_ca_path",
         "java_trust_store_path"}

VARIABLES
    (* the container, fixed *)
    writable,   \* the root file system is mounted writable
    linked,     \* /etc/ssl/cert.pem is a link to the trust store
    command,    \* the container's command can be resolved
    applicable, \* processors selected by the annotations and detected
    image,      \* the files the image brought
    (* the hook *)
    file,       \* the files now
    pc,         \* where hook.Run is
    todo,       \* processors still to be applied
    cur,        \* the OS processor being applied
    stores,     \* key stores the Java processor has still to look at
    patched,    \* it has found or made one that trusts the CA
    pending,    \* the first merged key store it could not write
    facts,      \* ctx.Facts
    (* from the hook to the wrapper *)
    context,    \* the facts in hook-context.json
    (* the wrapper *)
    wrapper,    \* "waiting", "exec" or "failed"
    env,        \* what it adds to the command's environment
    ioErrors

fixedVars == <<writable, linked, command, applicable, image>>
javaVars == <<stores, patched, pending>>
wrapperVars == <<wrapper, env>>
vars == <<fixedVars, file, pc, todo, cur, javaVars, facts, context,
          wrapperVars, ioErrors>>

NoFacts == [k \in Fact |-> None]

\* What readOSRelease finds in ID and ID_LIKE: nothing if there is no file, it
\* cannot be read, or has no ID.
OsRelease == SUBSET {"debian", "alpine", "other"}

\* matches: one of the processor's matchIDs is among them.
Matches(p, release) ==
    \/ p = "os-debian" /\ "debian" \in release
    \/ p = "os-alpine" /\ "alpine" \in release

\* The processors that find themselves applicable: a distribution if
\* os-release names it, a language if its runtime is installed, the fallback
\* always.
Detect(release, installed) ==
    {p \in Distro : Matches(p, release)} \cup installed \cup {"os-fallback"}

\* The processors the annotations leave: those included, or all if none is,
\* but for those excluded.
FilterByNames(include, exclude) ==
    {p \in Processor : (include = {} \/ p \in include) /\ p \notin exclude}

\* The processors that apply, for all annotations and images.
Applicable ==
    {selected \cap detected :
        selected \in {FilterByNames(i, e) : i, e \in SUBSET Processor},
        detected \in {Detect(release, installed) :
                        release \in OsRelease, installed \in SUBSET Language}}

\* The container as the plugin and the image left it.
Init ==
    /\ applicable \in Applicable
    /\ writable \in BOOLEAN /\ linked \in BOOLEAN /\ command \in BOOLEAN
    /\ \E store \in {None, {"sys"}, {"sys", "org"}},
          default \in IF linked THEN {None} ELSE {None, {"sys"}, {"own"}},
          keyStores \in SUBSET Cacerts :
         image = [f \in Path |-> CASE f = "store" -> store
                                   [] f = "default" -> default
                                   [] f = "staged" -> {"org"}
                                   [] f \in keyStores -> {"sys"}
                                   [] OTHER -> None]
    /\ file = image
    /\ pc = "start" /\ todo = {} /\ cur = None
    /\ stores = {} /\ patched = FALSE /\ pending = None
    /\ facts = NoFacts /\ context = None
    /\ wrapper = "waiting" /\ env = [v \in Variable |-> None]
    /\ ioErrors = 0

\* A file operation fails.
IOError == ioErrors < MaxIOErrors /\ ioErrors' = ioErrors + 1

\* A write into the root file system fails; the file stays as it was.
WriteFails == (~writable /\ UNCHANGED ioErrors) \/ IOError

\* Fault: the merged file starts from nothing.
MergedBare(f) == {"org"}

\* What MergePEM and mergeStore make of a file.
Merged(f) == (IF file[f] = None THEN {} ELSE file[f]) \cup {"org"}

\* The organisation's certificates are all there: nothing would be added.
Trusts(f) == file[f] # None /\ "org" \in file[f]

\* The file is replaced, in the root file system or beside the staged bundle.
WriteFile(f, content) == file' = [file EXCEPT ![f] = content]
StageFile(f, content) == file' = [file EXCEPT ![f] = content]

\* The key stores there are, each once.
DiscoverTrustStores == {s \in Cacerts : file[s] # None}

-----------------------------------------------------------------------------
(* The hook                                                                *)

\* OCI state and spec are read, the processors filtered and detected.
HookStart ==
    /\ pc = "start"
    /\ \/ pc' = "next" /\ todo' = applicable /\ UNCHANGED ioErrors
       \/ pc' = "failed" /\ IOError /\ UNCHANGED todo
    /\ UNCHANGED <<fixedVars, file, cur, javaVars, facts, context,
                   wrapperVars>>

\* The order DetectSorted gives: by priority, then by registration.
Order == [p \in Processor |->
            CASE p = "os-debian" -> 1 [] p = "os-alpine" -> 2
              [] p = "lang-java" -> 3 [] p = "lang-nodejs" -> 4
              [] p = "lang-python" -> 5 [] p = "os-fallback" -> 6]

\* The next processor's Apply begins.  An OS processor is done if another
\* has configured the store; the Java processor gives up if it cannot read
\* the staged bundle; the other languages have nothing to do here.
ApplyNext(p) ==
    /\ pc = "next"
    /\ p \in todo /\ \A q \in todo : Order[p] =< Order[q]
    /\ todo' = todo \ {p}
    /\ \/ /\ p \in OsStore /\ facts["trust_store_path"] = None
          /\ pc' = "os" /\ cur' = p
          /\ UNCHANGED javaVars
          /\ UNCHANGED ioErrors
       \/ /\ p = "lang-java"
          /\ pc' = "java"
          /\ stores' = DiscoverTrustStores
          /\ patched' = FALSE /\ pending' = None
          /\ UNCHANGED <<cur, ioErrors>>
       \/ /\ p = "lang-java" /\ IOError
          /\ UNCHANGED <<pc, cur, javaVars>>
       \/ /\ \/ p \in OsStore /\ facts["trust_store_path"] # None
             \/ p \in {"lang-nodejs", "lang-python"}
          /\ UNCHANGED <<pc, cur, javaVars, ioErrors>>
    /\ UNCHANGED <<fixedVars, file, facts, context, wrapperVars>>

\* detectTrustStorePath: the first candidate there is, else the first one.
Target(p) ==
    IF p = "os-fallback" /\ file["store"] = None /\ file["default"] # None
    THEN "default" ELSE "store"

\* Writable is probed.  If the root file system is not, or the probe failed,
\* the staged bundle becomes the individual CA.
OsProbe ==
    /\ pc = "os"
    /\ \/ /\ writable
          /\ pc' = "write"
          /\ UNCHANGED <<facts, ioErrors>>
       \/ /\ WriteFails
          /\ pc' = "stage"
          /\ facts' = [facts EXCEPT !["trust_store_path"] = Target(cur),
                                    !["individual_ca_path"] = "staged"]
    /\ UNCHANGED <<fixedVars, file, todo, cur, javaVars, context, wrapperVars>>

\* stageMergedCA: a merged bundle is staged beside it, if there is a store to
\* merge with and nothing fails; the facts that are set already stay.
OsStageMerged ==
    /\ pc = "stage"
    /\ pc' = "next"
    /\ \/ /\ file[Target(cur)] = None
          /\ UNCHANGED <<file, facts, ioErrors>>
       \/ /\ file[Target(cur)] # None
          /\ StageFile("staged-merged", Merged(Target(cur)))
          /\ facts' = [facts EXCEPT !["merged_ca_path"] = "staged-merged"]
          /\ UNCHANGED ioErrors
       \/ IOError /\ UNCHANGED <<file, facts>>
    /\ UNCHANGED <<fixedVars, todo, cur, javaVars, context, wrapperVars>>

\* The merged bundle replaces the store, unless it trusts the CA already.
OsWriteStore ==
    /\ pc = "write"
    /\ LET t == Target(cur)
       IN  IF Trusts(t)
           THEN pc' = "anchor" /\ UNCHANGED file
           ELSE /\ WriteFile(t, Merged(t))
                /\ pc' = IF cur = "os-alpine" THEN "alpine" ELSE "anchor"
    /\ UNCHANGED <<fixedVars, todo, cur, javaVars, facts, context,
                   wrapperVars, ioErrors>>

\* Alpine: the same content goes to /etc/ssl/cert.pem, link or not; what a
\* separate one held is not read.
OsWriteDefault ==
    /\ pc = "alpine"
    /\ pc' = "anchor"
    /\ IF linked THEN UNCHANGED file ELSE WriteFile("default", file["store"])
    /\ UNCHANGED <<fixedVars, todo, cur, javaVars, facts, context,
                   wrapperVars, ioErrors>>

\* The anchor is written, but by the fallback, which has none, and the facts
\* are set.
OsWriteAnchor ==
    /\ pc = "anchor"
    /\ pc' = "next"
    /\ IF cur = "os-fallback" THEN UNCHANGED file
       ELSE WriteFile("anchor", {"org"})
    /\ facts' = [facts EXCEPT
                   !["trust_store_path"] = Target(cur),
                   !["merged_ca_path"] = Target(cur),
                   !["individual_ca_path"] =
                      IF cur = "os-fallback" THEN @ ELSE "anchor"]
    /\ UNCHANGED <<fixedVars, todo, cur, javaVars, context, wrapperVars,
                   ioErrors>>

\* Fault: the facts are set before the files are written.
OsFailsFactsFirst ==
    /\ pc \in {"os", "write", "alpine", "anchor"}
    /\ IOError
    /\ pc' = "next"
    /\ facts' = [facts EXCEPT !["trust_store_path"] = Target(cur)]
    /\ UNCHANGED <<fixedVars, file, todo, cur, javaVars, context, wrapperVars>>

\* A step of the processor fails: what it wrote stays, no fact is set, and
\* the next processor has its turn.
OsFails ==
    /\ pc \in {"os", "write", "alpine", "anchor"}
    /\ IOError
    /\ pc' = "next"
    /\ UNCHANGED <<fixedVars, file, todo, cur, javaVars, facts, context,
                   wrapperVars>>

\* Fault: the path is kept, not the merged key store.
KeepPath(s) == IF pending = None THEN s ELSE pending

\* Of the merged key stores that could not be written the first is kept.
Keep(s) == IF pending = None THEN Merged(s) ELSE pending

\* One key store of the Java processor, in any order: it trusts the CA, is
\* replaced by the merged one, cannot be replaced, or cannot be merged.
JavaStore(s) ==
    /\ pc = "java"
    /\ s \in stores
    /\ stores' = stores \ {s}
    /\ \/ /\ Trusts(s)
          /\ patched' = TRUE
          /\ UNCHANGED <<file, pending, ioErrors>>
       \/ /\ ~Trusts(s) /\ writable
          /\ WriteFile(s, Merged(s))
          /\ patched' = TRUE
          /\ UNCHANGED <<pending, ioErrors>>
       \/ /\ ~Trusts(s) /\ WriteFails
          /\ pending' = Keep(s)
          /\ UNCHANGED <<file, patched>>
       \/ IOError /\ UNCHANGED <<file, patched, pending>>
    /\ UNCHANGED <<fixedVars, pc, todo, cur, facts, context, wrapperVars>>

\* A merged key store is staged only if none was patched; staging may fail.
JavaEnd ==
    /\ pc = "java"
    /\ stores = {}
    /\ pc' = "next"
    /\ IF patched \/ pending = None
       THEN UNCHANGED <<file, facts, ioErrors>>
       ELSE \/ /\ StageFile("staged-java", pending)
               /\ facts' = [facts EXCEPT
                              !["java_trust_store_path"] = "staged-java"]
               /\ UNCHANGED ioErrors
            \/ IOError /\ UNCHANGED <<file, facts>>
    /\ UNCHANGED <<fixedVars, todo, cur, javaVars, context, wrapperVars>>

\* persistWrapperContext, and hook.done if it succeeds.
Persist ==
    /\ pc = "next"
    /\ todo = {}
    /\ \/ /\ writable
          /\ context' = facts
          /\ pc' = "done"
          /\ UNCHANGED ioErrors
       \/ /\ WriteFails
          /\ pc' = "failed"
          /\ UNCHANGED context
    /\ UNCHANGED <<fixedVars, file, todo, cur, javaVars, facts, wrapperVars>>

\* The runtime kills the hook at its deadline; the container does not start.
HookKilled ==
    /\ pc \notin {"done", "failed", "killed"}
    /\ pc' = "killed"
    /\ UNCHANGED <<fixedVars, file, todo, cur, javaVars, facts, context,
                   wrapperVars, ioErrors>>

-----------------------------------------------------------------------------
(* The wrapper                                                             *)

\* Fault: the bare CA is preferred.
PreferIndividual(f) ==
    IF f["individual_ca_path"] # None THEN f["individual_ca_path"]
                                      ELSE f["merged_ca_path"]

\* PreferredCABundlePath: the merged bundle, else the bare CA.
PreferredCABundlePath(f) ==
    IF f["merged_ca_path"] # None THEN f["merged_ca_path"]
                                  ELSE f["individual_ca_path"]

\* What ApplyWrapper of the languages sets: a variable that replaces the
\* default trust, one that adds to it, one that names a key store.  The paths
\* are not looked at, be they the container's or the node's.
PythonEnv(f) == PreferredCABundlePath(f)
NodeEnv(f) == f["individual_ca_path"]
JavaEnv(f) == f["java_trust_store_path"]

\* Every applicable processor has its turn.
WrapperEnv(f) ==
    [v \in Variable |->
       CASE v = "SSL_CERT_FILE" /\ "lang-python" \in applicable -> PythonEnv(f)
         [] v = "NODE_EXTRA_CA_CERTS" /\ "lang-nodejs" \in applicable -> NodeEnv(f)
         [] v = "JAVA_TOOL_OPTIONS" /\ "lang-java" \in applicable -> JavaEnv(f)
         [] OTHER -> None]

\* The command replaces the wrapper, if it can be found.
Exec == wrapper' = IF command THEN "exec" ELSE "failed"

\* Fault: the wrapper insists on a context.
WrapperRunStrict ==
    /\ pc \in {"done", "failed"}
    /\ wrapper = "waiting"
    /\ context # None
    /\ Exec
    /\ env' = WrapperEnv(context)
    /\ UNCHANGED <<fixedVars, file, pc, todo, cur, javaVars, facts, context,
                   ioErrors>>

\* A hook that failed has exited with success (the plugin asks for fail-open),
\* so the container starts.  Without a context, or with one that cannot be
\* read, the command runs with the environment it had.
WrapperRun ==
    /\ pc \in {"done", "failed"}
    /\ wrapper = "waiting"
    /\ Exec
    /\ \/ /\ context # None
          /\ env' = WrapperEnv(context)
          /\ UNCHANGED ioErrors
       \/ /\ context = None
          /\ UNCHANGED <<env, ioErrors>>
       \/ IOError /\ UNCHANGED env
    /\ UNCHANGED <<fixedVars, file, pc, todo, cur, javaVars, facts, context>>

-----------------------------------------------------------------------------
Hook ==
    \/ HookStart \/ Persist
    \/ \E p \in Processor : ApplyNext(p)
    \/ OsProbe \/ OsStageMerged
    \/ OsWriteStore \/ OsWriteDefault \/ OsWriteAnchor \/ OsFails
    \/ JavaEnd \/ \E s \in Cacerts : JavaStore(s)

Next == Hook \/ HookKilled \/ WrapperRun

Spec == Init /\ [][Next]_vars

\* The hook and the wrapper are sequential programs that go on.
FairSpec == Spec /\ WF_vars(Hook) /\ WF_vars(WrapperRun)

-----------------------------------------------------------------------------
(* Properties                                                              *)

TypeOK ==
    /\ writable \in BOOLEAN /\ linked \in BOOLEAN /\ command \in BOOLEAN
    /\ applicable \subseteq Processor
    /\ image \in [Path -> {None} \cup Content]
    /\ file \in [Path -> {None} \cup Content]
    /\ pc \in {"start", "next", "os", "stage", "write", "alpine", "anchor",
               "java", "done", "failed", "killed"}
    /\ todo \subseteq Processor /\ cur \in OsStore \cup {None}
    /\ stores \subseteq Cacerts /\ patched \in BOOLEAN
    /\ pending \in {None} \cup Content
    /\ facts \in [Fact -> {None} \cup Path]
    /\ context \in [Fact -> {None} \cup Path] \cup {None}
    /\ wrapper \in {"waiting", "exec", "failed"}
    /\ env \in [Variable -> {None} \cup Path]
    /\ ioErrors \in 0..MaxIOErrors

\* The command can open the file, and the organisation's CA is in it.
Opens(f) == f # None /\ f \notin Staged /\ Trusts(f)

\* Whatever fails and whenever the hook is killed, the trust stores and the
\* key stores of the image keep the certificates they had (MergePEM,
\* mergeStore, AtomicWrite).  The exception is a separate /etc/ssl/cert.pem of
\* an Alpine image: the processor overwrites it, unread, with the store it has
\* just merged (osstore.go:190-196), and the certificates that only it had are
\* lost.  If it was the only store of the image, the bare CA is left.
RootsKept ==
    \A f \in {"store", "default"} \cup Cacerts :
        \/ image[f] = None
        \/ file[f] # None /\ image[f] \subseteq file[f]
        \/ /\ f = "default" /\ "os-alpine" \in applicable
           /\ file[f] = file["store"] /\ Trusts(f)

\* Every path the wrapper puts into the environment names a file with the
\* organisation's CA in it, whichever processors failed at which step before,
\* and as long as no file operation failed, one that the command can open:
\* only a failed probe of the root file system (osstore.go:156-174) or a key
\* store that could not be written puts a path of the node there.  And after
\* at most one failure the file that replaces the default trust holds the
\* roots of the store too (PreferredCABundlePath: a merged bundle, not the
\* bare CA).
ExportedTrusted ==
    /\ \A v \in Variable : env[v] # None =>
         Trusts(env[v]) /\ (ioErrors = 0 => Opens(env[v]))
    /\ env["SSL_CERT_FILE"] # None /\ ioErrors =< 1 =>
         LET store == context["trust_store_path"]
         IN  image[store] = None \/ image[store] \subseteq file[env["SSL_CERT_FILE"]]

\* One failed file operation of the distribution's processor does not leave
\* the languages that replace the trust without a bundle: the fallback, which
\* runs last, makes up for it with one that the command can open and that has
\* the roots of the store.  Unless it is the probe that failed: then the
\* processor has not, the fallback does nothing, and the bundle is one of the
\* node.  For Node.js, which takes the bare CA, the fallback does not make up
\* (it has no anchor, osstore.go:314-316): that it has a file to name is sure
\* only if nothing failed.
FallbackCovers ==
    /\ pc = "done"
    /\ ioErrors =< 1
    /\ applicable \cap Distro # {} /\ "os-fallback" \in applicable
    =>
    LET bundle == PreferredCABundlePath(facts)
        store == facts["trust_store_path"]
    IN  /\ \/ /\ Opens(bundle)
              /\ image[store] = None \/ image[store] \subseteq file[bundle]
           \/ ioErrors = 1 /\ facts["individual_ca_path"] = "staged"
        /\ ioErrors = 0 => Opens(NodeEnv(facts))

\* Fail-open: the command runs in the end, whatever the hook and the wrapper
\* fail at, unless the runtime kills the hook at its deadline: then the
\* container does not start (plugin.go:146-149).
CommandRuns ==
    command ~> wrapper = "exec" \/ pc = "killed"

\* On a read-only root file system the languages get their bundle from the
\* environment.
ReadOnlyServed ==
    /\ wrapper = "exec"
    /\ ~writable /\ ioErrors = 0
    /\ applicable \cap OsStore # {} /\ "lang-python" \in applicable
    => env["SSL_CERT_FILE"] # None

=============================================================================
