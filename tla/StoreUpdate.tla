---------------------------- MODULE StoreUpdate ----------------------------
(***************************************************************************)
(* The hook adds the organisation's certificates to one trust store of a   *)
(* container: the path is resolved inside the root file system             *)
(* (containerfs.ResolveSymlinks), the file is read and merged (TrustStore),*)
(* and replaced by AtomicWrite, system call by system call.  Any call may  *)
(* fail, the runtime may kill the hook between any two, the power may      *)
(* fail, and the hook may run again over what is left.  Nobody else writes *)
(* to the root file system meanwhile: the container has not started.       *)
(*                                                                         *)
(* This is one read-merge-write of one store.  The Alpine processor writes *)
(* the merged content a second time, to /etc/ssl/cert.pem, without reading *)
(* what is there: Injection has that step.                                 *)
(*                                                                         *)
(* A regular file is [kind, data, mode, owner, whole, synced]; whole says  *)
(* that all of the data has been written, synced that it is on the disk.   *)
(***************************************************************************)
EXTENDS ContainerPath, TrustStore

CONSTANTS
    Jobs,     \* what the hook may be asked to do: records of
              \*   tree, path   the image's files and the store's path
              \*   caller       "os" (osstore) or "java"
              \*   bundle       the certificates of the staged bundle
              \*   mayChown     files can be given away
              \*   faults, crashes   bounds: failed calls, and kills and
              \*                power failures
    MaxHops,  \* maxSymlinkHops
    MaxRuns   \* bound: runs of the hook

\* A file tree without its root: whatever it lists is in a directory that it
\* lists too.
IsTree(t) ==
    /\ t = [p \in DOMAIN t |-> t[p]]
    /\ <<>> \notin DOMAIN t
    /\ \A p \in DOMAIN t :
         /\ p \in Path
         /\ \A q \in Parents(p) : q \in DOMAIN t /\ t[q].kind = "dir"
         /\ t[p].kind \in {"dir", "file", "link", "special"}
         /\ t[p].kind = "file" => t[p].data \in Content
         /\ t[p].kind = "link" => t[p].to.path \in Path

\* The files of the image are on the disk.  One user stands for all but root.
\* To the OS processor every file is text, a key store too: a PEM bundle with
\* nothing but an "other" block.  What the staged bundle says is a certificate
\* need not be one.
ASSUME JobsAssumption ==
    \A j \in Jobs :
        /\ IsTree(j.tree)
        /\ \A p \in DOMAIN j.tree :
               j.tree[p].kind = "file" =>
                 /\ j.tree[p].whole /\ j.tree[p].synced
                 /\ j.tree[p].owner \in {"root", "user"}
                 /\ j.caller = "os" => j.tree[p].data.format = "PEM"
        /\ j.path \in Path
        /\ j.caller \in {"os", "java"}
        /\ j.bundle \in Seq(STRING)
        /\ j.faults \in Nat /\ j.crashes \in Nat

ASSUME BoundsAssumption == MaxHops \in Nat /\ MaxRuns \in Nat \ {0}

VARIABLES
    job,       \* the job, fixed
    tree,      \* the root file system
    earlier,   \* trees a power failure may bring back
    pc,        \* the next step
    purpose,   \* of the resolution: "read" or "write"
    resolved, remaining, hops,   \* of ResolveSymlinks
    data,      \* what was read, then what is to be written
    tmp,       \* the temporary file, a set of at most one
    outcome,   \* what AtomicWrite is about to return
    faults, crashes, runs,
    settled    \* history: the tree when the update was reported as done,
               \* a set of at most one

resolveVars == <<resolved, remaining, hops>>
diskVars == <<tree, earlier, tmp>>
boundVars == <<faults, crashes, runs>>
vars == <<job, diskVars, pc, purpose, resolveVars, data, outcome, boundVars,
          settled>>

Ended == {"done", "error", "killed"}
Running == pc \notin Ended

Init ==
    /\ job \in Jobs
    /\ tree = job.tree /\ earlier = {} /\ tmp = {}
    /\ pc = "start" /\ purpose = "read"
    /\ resolved = <<>> /\ remaining = <<>> /\ hops = 0
    /\ data = Empty /\ outcome = "error"
    /\ faults = 0 /\ crashes = 0 /\ runs = 1
    /\ settled = {}

\* A system call fails.
Fault == faults < job.faults /\ faults' = faults + 1

\* The update ends; a reader of the code sees an error or not.
Return(result) ==
    /\ pc' = result
    /\ settled' = IF result = "done" THEN {tree} ELSE settled

-----------------------------------------------------------------------------
(* ResolveSymlinks                                                         *)

BeginResolve(why) ==
    /\ purpose' = why
    /\ resolved' = <<>> /\ remaining' = Clean(job.path) /\ hops' = 0
    /\ pc' = "resolve"

Start ==
    /\ pc = "start"
    /\ BeginResolve("read")
    /\ UNCHANGED <<job, diskVars, data, outcome, boundVars, settled>>

Resolving == pc = "resolve" /\ remaining # <<>>
Candidate == Append(resolved, Head(remaining))

\* What does not exist is taken as it is, with all that follows.
ResolveMissing ==
    /\ Resolving
    /\ Lstat(tree, Candidate) = "absent"
    /\ resolved' = resolved \o remaining /\ remaining' = <<>>
    /\ UNCHANGED <<job, diskVars, pc, purpose, hops, data, outcome, boundVars,
                   settled>>

ResolvePlain ==
    /\ Resolving
    /\ Lstat(tree, Candidate) \in {"dir", "file", "special"}
    /\ resolved' = Candidate /\ remaining' = Tail(remaining)
    /\ UNCHANGED <<job, diskVars, pc, purpose, hops, data, outcome, boundVars,
                   settled>>

\* Fault: one hop too many.
HopsLeftOneMore == hops =< MaxHops

HopsLeft == hops < MaxHops

\* Fault: the hops are counted per restart.
HopsRestarted == 0

\* The hops after one more link.
NextHops == hops + 1

\* Fault: what is resolved so far stays in front of an absolute target.
RestartJoined == resolved \o TargetPath(resolved, tree[Candidate].to)

\* Where the resolution goes on after a link.
Restart == TargetPath(resolved, tree[Candidate].to)

\* A link: its target is put before what remains, from the root again.
ResolveLink ==
    /\ Resolving
    /\ Lstat(tree, Candidate) = "link"
    /\ HopsLeft
    /\ hops' = NextHops
    /\ remaining' = Restart \o Tail(remaining)
    /\ resolved' = <<>>
    /\ UNCHANGED <<job, diskVars, pc, purpose, data, outcome, boundVars,
                   settled>>

ResolveFails ==
    /\ Resolving
    /\ \/ Lstat(tree, Candidate) = "notdir" /\ UNCHANGED faults
       \/ Lstat(tree, Candidate) = "link" /\ ~HopsLeft /\ UNCHANGED faults
       \/ Fault
    /\ Return("error")
    /\ UNCHANGED <<job, diskVars, purpose, resolveVars, data, outcome,
                   crashes, runs>>

ResolveEnds ==
    /\ pc = "resolve"
    /\ remaining = <<>>
    /\ pc' = IF purpose = "read" THEN "read" ELSE "mkdir"
    /\ UNCHANGED <<job, diskVars, purpose, resolveVars, data, outcome,
                   boundVars, settled>>

-----------------------------------------------------------------------------
(* Read and merge                                                          *)

\* ReadRegularFile succeeds: a regular file that is not too long.
Read ==
    /\ tree[resolved].kind = "file"
    /\ Len(tree[resolved].data.entries) =< MaxReadSize
    /\ data' = tree[resolved].data

\* A missing file is an empty bundle to the OS processor.
ReadFile ==
    /\ pc = "read"
    /\ \/ Lstat(tree, resolved) = "absent" /\ job.caller = "os" /\ data' = Empty
       \/ resolved \in DOMAIN tree /\ Read
    /\ pc' = "merge"
    /\ UNCHANGED <<job, diskVars, purpose, resolveVars, outcome, boundVars,
                   settled>>

ReadFails ==
    /\ pc = "read"
    /\ \/ /\ \/ Lstat(tree, resolved) \in {"dir", "special"}
             \/ Lstat(tree, resolved) = "absent" /\ job.caller = "java"
             \/ /\ Lstat(tree, resolved) = "file"
                /\ Len(tree[resolved].data.entries) > MaxReadSize
          /\ UNCHANGED faults
       \/ Fault
    /\ Return("error")
    /\ UNCHANGED <<job, diskVars, purpose, resolveVars, data, outcome,
                   crashes, runs>>

\* The staged bundle can be read and parsed, and so can the store, which must
\* be a key store to the Java processor.
Mergeable ==
    /\ Range(job.bundle) \subseteq Cert
    /\ Parsable(data)
    /\ job.caller = "java" => data.format # "PEM"

MergeFails ==
    /\ pc = "merge"
    /\ \/ ~Mergeable /\ UNCHANGED faults
       \/ Fault
    /\ Return("error")
    /\ UNCHANGED <<job, diskVars, purpose, resolveVars, data, outcome,
                   crashes, runs>>

\* All certificates are there already.
MergeNothing ==
    /\ pc = "merge"
    /\ Mergeable
    /\ UpToDate(data, job.bundle)
    /\ Return("done")
    /\ UNCHANGED <<job, diskVars, purpose, resolveVars, data, outcome,
                   boundVars>>

MergeStore ==
    /\ pc = "merge"
    /\ Mergeable
    /\ ~UpToDate(data, job.bundle)
    /\ data' = Merge(data, job.bundle)
    /\ BeginResolve("write")
    /\ UNCHANGED <<job, diskVars, outcome, boundVars, settled>>

-----------------------------------------------------------------------------
(* WriteFile and AtomicWrite                                               *)

\* A node is put into a tree.
Put(p, node, t) == [q \in DOMAIN t \cup {p} |-> IF q = p THEN node ELSE t[q]]

\* A new directory is not on the disk yet either.
MkdirAll ==
    /\ pc = "mkdir"
    /\ earlier' = IF Parents(resolved) \subseteq DOMAIN tree THEN earlier
                  ELSE earlier \cup {tree}
    /\ tree' = [q \in DOMAIN tree \cup Parents(resolved) |->
                  IF q \in DOMAIN tree THEN tree[q] ELSE [kind |-> "dir"]]
    /\ pc' = "lstat"
    /\ UNCHANGED <<job, tmp, purpose, resolveVars, data, outcome,
                   boundVars, settled>>

RefuseSymlink ==
    /\ pc = "lstat"
    /\ IF Lstat(tree, resolved) = "link" THEN Return("error")
       ELSE pc' = "create" /\ UNCHANGED settled
    /\ UNCHANGED <<job, diskVars, purpose, resolveVars, data, outcome,
                   boundVars>>

\* The deferred function removes the file from here on.
CreateTemp ==
    /\ pc = "create"
    /\ tmp' = {[kind |-> "file", data |-> Empty, mode |-> "owner",
                owner |-> "root", whole |-> FALSE, synced |-> FALSE]}
    /\ pc' = "write"
    /\ UNCHANGED <<job, tree, earlier, purpose, resolveVars, data, outcome,
                   boundVars, settled>>

\* A system call on the temporary file.
OnTemp(step, next, file(_)) ==
    /\ pc = step
    /\ tmp' = {file(f) : f \in tmp}
    /\ pc' = next
    /\ UNCHANGED <<job, tree, earlier, purpose, resolveVars, data, outcome,
                   boundVars, settled>>

WriteTemp ==
    OnTemp("write", "chmod",
           LAMBDA f : [f EXCEPT !.data = data, !.whole = TRUE])

Replaces == Lstat(tree, resolved) = "file"

\* Fault: the mode of the temporary file stays.
ChmodNot == OnTemp("chmod", "chown", LAMBDA f : f)

\* The mode of the file that is replaced, else 0644.
Chmod ==
    OnTemp("chmod", "chown",
           LAMBDA f : [f EXCEPT !.mode = IF Replaces THEN tree[resolved].mode
                                         ELSE "all"])

\* The Stat of the file that is replaced has failed, which is ignored: the
\* new one is made 0644 and is not given away.
StatFails ==
    /\ pc = "chmod"
    /\ Fault
    /\ tmp' = {[f EXCEPT !.mode = "all"] : f \in tmp}
    /\ pc' = "sync"
    /\ UNCHANGED <<job, tree, earlier, purpose, resolveVars, data, outcome,
                   crashes, runs, settled>>

\* Its owner too, if that is permitted.
Chown ==
    OnTemp("chown", "sync",
           LAMBDA f : [f EXCEPT !.owner = IF Replaces /\ job.mayChown
                                          THEN tree[resolved].owner ELSE @])

\* Fault: the data is left to the page cache.
SyncNot == OnTemp("sync", "rename", LAMBDA f : f)

Sync == OnTemp("sync", "rename", LAMBDA f : [f EXCEPT !.synced = TRUE])

\* Fault: what the caller named is replaced, be it a link.
RenameUnresolved ==
    /\ pc = "rename"
    /\ LET p == Clean(job.path)
       IN  \E f \in tmp :
             tree' = Put(IF p \in DOMAIN tree THEN p ELSE resolved, f, tree)
    /\ earlier' = earlier \cup {tree}
    /\ tmp' = {} /\ pc' = "dirsync"
    /\ UNCHANGED <<job, purpose, resolveVars, data, outcome, boundVars, settled>>

\* The file takes its place; until the directory is synced a power failure
\* may bring back what was there.
Rename ==
    /\ pc = "rename"
    /\ \E f \in tmp : tree' = Put(resolved, f, tree)
    /\ earlier' = earlier \cup {tree}
    /\ tmp' = {} /\ pc' = "dirsync"
    /\ UNCHANGED <<job, purpose, resolveVars, data, outcome, boundVars, settled>>

\* Fault: the directory is left to the page cache.
SyncDirNot ==
    /\ pc = "dirsync"
    /\ outcome' = "done"
    /\ pc' = "cleanup"
    /\ UNCHANGED <<job, diskVars, purpose, resolveVars, data, boundVars, settled>>

\* Trees without the directory itself: its own entry is in its parent.
WithoutDir(trees) == {t \in trees : ~(Parents(resolved) \subseteq DOMAIN t)}

\* The directory of the file is synced, none above it.  A failure is ignored.
SyncDir ==
    /\ pc = "dirsync"
    /\ \/ earlier' = WithoutDir(earlier) /\ UNCHANGED faults
       \/ Fault /\ UNCHANGED earlier
    /\ outcome' = "done"
    /\ pc' = "cleanup"
    /\ UNCHANGED <<job, tree, tmp, purpose, resolveVars, data, crashes, runs,
                   settled>>

\* A call before there is a temporary file fails.
PrepareFails ==
    /\ pc \in {"mkdir", "create"}
    /\ Fault
    /\ Return("error")
    /\ UNCHANGED <<job, diskVars, purpose, resolveVars, data, outcome,
                   crashes, runs>>

\* A call on the temporary file fails; the write may have got half way.
TempFails ==
    /\ pc \in {"write", "chmod", "chown", "sync", "rename"}
    /\ Fault
    /\ outcome' = "error"
    /\ pc' = "cleanup"
    /\ UNCHANGED <<job, diskVars, purpose, resolveVars, data, crashes, runs,
                   settled>>

\* Fault: only the descriptor is closed.
CleanupNot ==
    /\ pc = "cleanup"
    /\ Return(outcome)
    /\ UNCHANGED <<job, diskVars, purpose, resolveVars, data, outcome,
                   boundVars>>

\* The deferred function; its failure is ignored.
Cleanup ==
    /\ pc = "cleanup"
    /\ \/ tmp' = {} /\ UNCHANGED faults
       \/ tmp # {} /\ Fault /\ UNCHANGED tmp
    /\ Return(outcome)
    /\ UNCHANGED <<job, tree, earlier, purpose, resolveVars, data, outcome,
                   crashes, runs>>

-----------------------------------------------------------------------------
(* The environment                                                         *)

Crash == crashes < job.crashes /\ crashes' = crashes + 1

\* The runtime kills the hook at its timeout.
Kill ==
    /\ Running
    /\ Crash
    /\ pc' = "killed"
    /\ UNCHANGED <<job, diskVars, purpose, resolveVars, data, outcome, faults,
                   runs, settled>>

\* What is left of a tree: of a file that is not on the disk, only its name.
Surviving(t) ==
    [p \in DOMAIN t |-> IF t[p].kind = "file" /\ ~t[p].synced
                        THEN [t[p] EXCEPT !.whole = FALSE] ELSE t[p]]

\* The power fails: the present or an earlier tree is left.
PowerLoss ==
    /\ Crash
    /\ \E t \in earlier \cup {tree} : tree' = Surviving(t)
    /\ earlier' = {} /\ tmp' \in {{}, tmp}
    /\ pc' = "killed"
    /\ settled' = {}
    /\ UNCHANGED <<job, purpose, resolveVars, data, outcome, faults, runs>>

\* The hook runs again over the same root file system.
Rerun ==
    /\ ~Running
    /\ runs < MaxRuns
    /\ runs' = runs + 1
    /\ pc' = "start"
    /\ tmp' = {}
    /\ outcome' = "error"
    /\ UNCHANGED <<job, tree, earlier, purpose, resolveVars, data, faults,
                   crashes, settled>>

-----------------------------------------------------------------------------
Resolve ==
    ResolveMissing \/ ResolvePlain \/ ResolveLink \/ ResolveFails \/ ResolveEnds

Replace ==
    \/ MkdirAll \/ RefuseSymlink \/ CreateTemp \/ WriteTemp
    \/ Chmod \/ StatFails \/ Chown \/ Sync \/ Rename \/ SyncDir
    \/ PrepareFails \/ TempFails \/ Cleanup

Hook ==
    \/ Start \/ Resolve
    \/ ReadFile \/ ReadFails
    \/ MergeFails \/ MergeNothing \/ MergeStore
    \/ Replace

\* The hook has run for the last time.
Over == ~Running /\ runs = MaxRuns /\ UNCHANGED vars

Next == Hook \/ Kill \/ PowerLoss \/ Rerun \/ Over

Spec == Init /\ [][Next]_vars

\* The hook is a sequential program that goes on unless it is killed.
FairSpec == Spec /\ WF_vars(Hook)

-----------------------------------------------------------------------------
(* What a process in the container finds                                   *)

\* The kernel's walk, with the container's root as its root: at is the
\* directory that has been reached, rest the names to go, left the links that
\* may still be followed.
Walker == [at : Path, rest : Path, left : Nat]
Ahead(w) == Append(w.at, Head(w.rest))

WalkOver(t, w) ==
    \/ w.rest = <<>>
    \/ /\ Head(w.rest) # ".."
       /\ \/ Lstat(t, Ahead(w)) \in {"absent", "notdir"}
          \/ Lstat(t, Ahead(w)) = "link" /\ w.left = 0

\* ".." is the directory above the one that has been reached.
WalkOn(t, w) ==
    IF Head(w.rest) = ".."
    THEN [at |-> IF w.at = <<>> THEN <<>> ELSE Front(w.at),
          rest |-> Tail(w.rest), left |-> w.left]
    ELSE IF Lstat(t, Ahead(w)) = "link"
    THEN LET to == t[Ahead(w)].to
         IN  [at |-> IF to.abs THEN <<>> ELSE w.at,
              rest |-> to.path \o Tail(w.rest), left |-> w.left - 1]
    ELSE [at |-> Ahead(w), rest |-> Tail(w.rest), left |-> w.left]

\* The walk ends at no path, and no file is called "..".
Nowhere == <<"..">>

\* The path that is opened, or would be created.
WalkEnd(t, w) ==
    IF w.rest = <<>> THEN w.at
    ELSE IF Lstat(t, Ahead(w)) = "absent" THEN w.at \o w.rest
    ELSE Nowhere

Walk(t) ==
    LET walk[w \in Walker] ==
          IF WalkOver(t, w) THEN WalkEnd(t, w) ELSE walk[WalkOn(t, w)]
    IN  walk

Found(t) == Walk(t)[[at |-> <<>>, rest |-> job.path, left |-> MaxHops]]

\* What the file at the path holds for whoever opens it.
HeldIn(t) ==
    UNION {View(t[p].data) : p \in {q \in {Found(t)} \cap DOMAIN t :
                                      t[q].kind = "file" /\ t[q].whole}}

Promise == INSTANCE TrustFile WITH
    Item <- STRING,
    base <- HeldIn(job.tree), org <- Range(job.bundle),
    held <- HeldIn(tree), done <- pc = "done"

-----------------------------------------------------------------------------
(* Properties                                                              *)

TypeOK ==
    /\ tree = [p \in DOMAIN tree |-> tree[p]]
    /\ pc \in {"start", "resolve", "read", "merge", "mkdir", "lstat", "create",
               "write", "chmod", "chown", "sync", "rename", "dirsync",
               "cleanup"} \cup Ended
    /\ purpose \in {"read", "write"}
    /\ hops \in 0..MaxHops
    /\ outcome \in {"done", "error"}
    /\ faults \in 0..job.faults /\ crashes \in 0..job.crashes
    /\ runs \in 1..MaxRuns

Whole(t) == \A p \in DOMAIN t : t[p].kind = "file" => t[p].whole

\* A reader of the root file system, and one that looks at what a power
\* failure has left of it, never finds a file half written (AtomicWrite:
\* temporary file, Sync, Rename).
NeverTorn == Whole(tree) /\ \A t \in earlier : Whole(t)

\* A power failure does not undo an update that is reported as done, unless
\* the directory could not be synced, an error that AtomicWrite ignores, or
\* WriteFile has created it.  This is about the first run: a later one may
\* only find what a killed one had put there.
DoneSurvives ==
    pc = "done" /\ runs = 1 /\ faults = 0 => WithoutDir(earlier) = earlier

\* No link of the image is ever replaced, whatever it leads to
\* (ResolveSymlinks, RefuseSymlink).
LinksKept ==
    \A p \in DOMAIN job.tree :
        job.tree[p].kind = "link" => p \in DOMAIN tree /\ tree[p] = job.tree[p]

Readers(file) ==
    IF file.mode = "all" THEN {"root", "user"} ELSE {"root", file.owner}

\* Whoever could read a file before the update can read it afterwards, and
\* everybody can read a new one; but for a private file that could not be
\* given back to its owner, an error that AtomicWrite ignores.
StaysReadable ==
    \A p \in DOMAIN tree : tree[p].kind = "file" =>
        IF p \in DOMAIN job.tree
        THEN \/ Readers(job.tree[p]) \subseteq Readers(tree[p])
             \/ ~job.mayChown /\ job.tree[p].mode # "all"
        ELSE tree[p].mode = "all"

\* The temporary file is gone when the update ends, with or without an error,
\* unless removing it is what failed too.
NoLitter == pc \in {"done", "error"} /\ tmp # {} => faults > 1

\* Once an update is reported as done no later run changes a file, and a
\* later run fails only if a system call does, or if the merged store is
\* longer than what the hook reads (mergeStore: "re-running the hook is
\* idempotent").
Idempotent ==
    \A t \in settled :
        /\ tree = t
        /\ pc = "error" /\ faults = 0 =>
             \E p \in DOMAIN tree :
                 tree[p].kind = "file" /\ ~Rereadable(tree[p].data)

\* ResolveSymlinks comes to the path the kernel comes to, or the one it would
\* create, and fails where the kernel does.
ResolvesLikeKernel ==
    /\ pc \in {"read", "mkdir"} => resolved = Found(tree)
    /\ pc = "error" /\ purpose = "read" /\ remaining # <<>> /\ faults = 0 =>
         Found(tree) = Nowhere

\* To whoever opens the path in the container the update is a TrustFile:
\* nothing is lost from the store at any moment, and a reported update has
\* added the organisation's certificates.
ImplementsTrustFile == Promise!Spec

Stages == [start |-> 1, read |-> 3, merge |-> 4, mkdir |-> 6, lstat |-> 7,
           create |-> 8, write |-> 9, chmod |-> 10, chown |-> 11, sync |-> 12,
           rename |-> 13, dirsync |-> 14, cleanup |-> 15,
           done |-> 16, error |-> 16, killed |-> 16]
Stage == IF pc # "resolve" THEN Stages[pc]
         ELSE IF purpose = "read" THEN 2 ELSE 5

\* The hook never goes back: a step of it comes to a later stage, or follows
\* one more of at most MaxHops links, or leaves fewer names to resolve
\* (ResolveSymlinks: a link puts names back, and only maxSymlinkHops ends it).
GoesOn ==
    [][Hook =>
         \/ Stage' > Stage
         \/ Stage' = Stage /\ hops' > hops
         \/ /\ Stage' = Stage /\ hops' = hops
            /\ Len(remaining') < Len(remaining)]_vars

\* The update ends, whatever cycles the links of the image make.
UpdateEnds == pc = "start" ~> ~Running

=============================================================================
