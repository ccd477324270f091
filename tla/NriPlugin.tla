----------------------------- MODULE NriPlugin -----------------------------
(***************************************************************************)
(* The long-running NRI plugin (internal/nri): the request handlers that   *)
(* the container runtime calls (CreateContainer, RemoveContainer,          *)
(* Synchronize), the missed-container scan that Synchronize starts, the    *)
(* orphan cleaner, the reconnect loop, and the process's exits and         *)
(* restarts.  What the handlers, the scans and the cleaner share is the    *)
(* in-memory sets tracked and missed with their gauges, and the staged CA  *)
(* directories on the node, which outlive the process.                     *)
(*                                                                         *)
(* The container runtime is external: it sends one request at a time,      *)
(* goes on without the plugin when the connection is lost, and hands       *)
(* Synchronize the containers it knows.  A handler that is running when    *)
(* the connection is lost runs to its end (the goroutine is not killed).   *)
(*                                                                         *)
(* One Tick stands for a minute.                                           *)
(***************************************************************************)
EXTENDS Integers, FiniteSets

CONSTANTS
    Container,     \* container ids (already sanitised: the keys of both maps)
    Pods,          \* Pods[c]: what c's pod says of the opt-in, see Pod
    Excluded,      \* containers named in their pod's exclude annotation
    GiveUp,        \* nriGiveUp, in ticks
    SweepInterval, \* the cleaner's interval, in ticks
    OrphanAge,     \* the age from which an untracked directory is an orphan
    MaxExits,      \* bound: unforced process exits
    MaxDrops,      \* bound: connections lost while the process lives
    MaxIOErrors,   \* bound: failed stagings and removals
    MaxScans,      \* bound: missed-container scans running at a time
    NoContainer    \* not a container

\* The opt-in key's value as an annotation and as a label of the pod; namespace
\* is what looking it up among the namespace's labels may come to: someone may
\* edit them, and the lookup may fail.
Value == {"true", "other", "absent"}
Pod == [annotation : Value, label : Value,
        namespace : SUBSET (Value \cup {"failed"})]

ASSUME ContainerAssumption ==
    /\ IsFiniteSet(Container)
    /\ NoContainer \notin Container

ASSUME PodsAssumption ==
    /\ Pods \in [Container -> Pod]
    /\ \A c \in Container : Pods[c].namespace # {}
    /\ Excluded \subseteq Container

\* Two minutes, five minutes, ten minutes in the code.  The process gives up
\* on a connection before the cleaner it started makes its first sweep.
ASSUME TimingAssumption ==
    /\ GiveUp \in Nat /\ SweepInterval \in Nat /\ OrphanAge \in Nat
    /\ GiveUp + 1 < SweepInterval
    /\ OrphanAge > 0

ASSUME BoundAssumption ==
    /\ MaxExits \in Nat /\ MaxDrops \in Nat /\ MaxIOErrors \in Nat
    /\ MaxScans \in Nat

Scan == 1..MaxScans

VARIABLES
    (* the runtime *)
    life,          \* life[c]: how far the runtime has got with container c
    hooked,        \* containers created with the plugin's adjustment
    injected,      \* history: containers whose hook ran to its end and could
                   \* write hook.done
    req,           \* the container whose request the runtime is waiting for
    (* the node's file system *)
    dir,           \* containers that have a staged CA directory
    dirAge,        \* ticks since the directory was last modified (0: none)
    done,          \* containers whose directory holds hook.done
    (* the plugin process *)
    alive,         \* the process runs
    ready,         \* p.ready: Synchronize was called on this connection
    synced,        \* history: some Synchronize was served by this process
    failFor,       \* ticks since failingSince
    tracked,       \* p.tracked
    activeGauge,   \* the gauge ActiveContainers
    missed,        \* p.missed
    missedGauge,   \* the gauge MissedContainers
    creating,      \* creating[c]: where the CreateContainer handler for c is
    removing,      \* removing[c]: where the RemoveContainer handler for c is
    scanPc,        \* scanPc[s]: where missed-container scan s is
    scanRun,       \* the containers it was handed that were running
    scanTodo,      \* those handed to it that it has still to look at, later
                   \* those to store
    scanKeys,      \* those it has found to be missed
    scanned,       \* history: the running containers of the last scan committed
    (* the orphan cleaner *)
    sweepAge,      \* ticks since the ticker last fired
    sweepPc,       \* where the sweep is
    sweepTodo,     \* the entries it has still to look at
    sweepTarget,   \* the entry it is about to remove
    (* how often the bounded events have happened *)
    exits, drops, ioErrors

runtimeVars == <<life, hooked, injected, req>>
fsVars == <<dir, dirAge, done>>
linkVars == <<alive, ready, synced, failFor>>
activeVars == <<tracked, activeGauge>>
missedVars == <<missed, missedGauge>>
handlerVars == <<creating, removing>>
scanVars == <<scanPc, scanRun, scanTodo, scanKeys, scanned>>
sweepVars == <<sweepAge, sweepPc, sweepTodo, sweepTarget>>
boundVars == <<exits, drops, ioErrors>>
vars == <<runtimeVars, fsVars, linkVars, activeVars, missedVars, handlerVars,
          scanVars, sweepVars, boundVars>>

Init ==
    /\ life = [c \in Container |-> "none"]
    /\ hooked = {} /\ injected = {} /\ req = NoContainer
    /\ dir = {} /\ dirAge = [c \in Container |-> 0] /\ done = {}
    /\ alive = TRUE /\ ready = FALSE /\ synced = FALSE /\ failFor = 0
    /\ tracked = {} /\ activeGauge = 0
    /\ missed = {} /\ missedGauge = 0
    /\ creating = [c \in Container |-> "idle"]
    /\ removing = [c \in Container |-> "idle"]
    /\ scanPc = [s \in Scan |-> "idle"]
    /\ scanRun = [s \in Scan |-> {}] /\ scanTodo = [s \in Scan |-> {}]
    /\ scanKeys = [s \in Scan |-> {}] /\ scanned = {}
    /\ sweepAge = 0
    /\ sweepPc = "idle" /\ sweepTodo = {} /\ sweepTarget = NoContainer
    /\ exits = 0 /\ drops = 0 /\ ioErrors = 0

-----------------------------------------------------------------------------
(* The runtime: what containerd does with a container.                     *)

\* containerd asks the plugin about a new container, or creates it alone.
RuntimeCreate(c) ==
    /\ life[c] = "none"
    /\ req = NoContainer
    /\ IF ready
       THEN /\ life' = [life EXCEPT ![c] = "creating"]
            /\ creating' = [creating EXCEPT ![c] = "decide"]
            /\ req' = c
       ELSE /\ life' = [life EXCEPT ![c] = "created"]
            /\ UNCHANGED <<creating, req>>
    /\ UNCHANGED <<hooked, injected, fsVars, linkVars, activeVars, missedVars,
                   removing, scanVars, sweepVars, boundVars>>

\* The container starts.  If it was created with the plugin's adjustment its
\* hook runs first: to its end (hook.done is written into the staged
\* directory, which renews the directory's mtime), without hook.done (it fails
\* open, or the breadcrumb cannot be written, which it ignores), or killed at
\* its deadline, which fails the start.
RuntimeStart(c) ==
    /\ life[c] = "created"
    /\ \/ /\ c \notin hooked
          /\ life' = [life EXCEPT ![c] = "running"]
          /\ UNCHANGED <<injected, done, dirAge>>
       \/ /\ c \in hooked
          /\ life' = [life EXCEPT ![c] = "running"]
          /\ injected' = injected \cup {c}
          /\ done' = IF c \in dir THEN done \cup {c} ELSE done
          /\ dirAge' = [dirAge EXCEPT ![c] = 0]
       \/ /\ c \in hooked
          /\ life' \in {[life EXCEPT ![c] = l] : l \in {"running", "failed"}}
          /\ dirAge' \in {dirAge, [dirAge EXCEPT ![c] = 0]}
          /\ UNCHANGED <<injected, done>>
    /\ UNCHANGED <<hooked, req, dir, linkVars, activeVars, missedVars,
                   handlerVars, scanVars, sweepVars, boundVars>>

\* The container is removed, with a RemoveContainer request if connected.
RuntimeRemove(c) ==
    /\ life[c] \in {"created", "running", "failed"}
    /\ req = NoContainer
    /\ life' = [life EXCEPT ![c] = "gone"]
    /\ IF ready
       THEN /\ removing' = [removing EXCEPT ![c] = "untrack"]
            /\ req' = c
       ELSE UNCHANGED <<removing, req>>
    /\ UNCHANGED <<hooked, injected, fsVars, linkVars, activeVars, missedVars,
                   creating, scanVars, sweepVars, boundVars>>

\* What the runtime does with a request whose connection is gone: a container
\* that was being created is created without the plugin's adjustment.
Abandon ==
    /\ life' = [c \in Container |->
                  IF life[c] = "creating" THEN "created" ELSE life[c]]
    /\ req' = NoContainer

-----------------------------------------------------------------------------
(* CreateContainer                                                         *)

\* cleanupDynamicCAFile: the directory goes with all it holds.
CleanupDir(c) ==
    /\ dir' = dir \ {c}
    /\ done' = done \ {c}
    /\ dirAge' = [dirAge EXCEPT ![c] = 0]

\* The handler answers: the runtime takes the answer only if it still waits.
Answer(c, l) ==
    IF life[c] = "creating"
    THEN life' = [life EXCEPT ![c] = l] /\ req' = NoContainer
    ELSE UNCHANGED <<life, req>>

DecisionFromValue(v) == IF v = "true" THEN "inject" ELSE "skip"

\* decide: the annotation before the label before the namespace.
Decide(pod, found) ==
    IF pod.annotation # "absent" THEN DecisionFromValue(pod.annotation)
    ELSE IF pod.label # "absent" THEN DecisionFromValue(pod.label)
    ELSE IF found = "failed" THEN "lookup-failed"
    ELSE DecisionFromValue(found)

\* What decide may say of c.
Answers(c) == {Decide(Pods[c], found) : found \in Pods[c].namespace}

\* decide and isContainerExcluded: go on to stage, or answer "no adjustment".
CreateDecide(c) ==
    /\ creating[c] = "decide"
    /\ \E v \in Answers(c) :
         IF v = "inject" /\ c \notin Excluded
         THEN /\ creating' = [creating EXCEPT ![c] = "stage"]
              /\ UNCHANGED <<life, req>>
         ELSE /\ creating' = [creating EXCEPT ![c] = "idle"]
              /\ Answer(c, "created")
    /\ UNCHANGED <<hooked, injected, fsVars, linkVars, activeVars, missedVars,
                   removing, scanVars, sweepVars, boundVars>>

\* stageDynamicCAFile: the directory and the bundle are on disk.
CreateStage(c) ==
    /\ creating[c] = "stage"
    /\ creating' = [creating EXCEPT ![c] = "track"]
    /\ dir' = dir \cup {c}
    /\ dirAge' = [dirAge EXCEPT ![c] = 0]
    /\ UNCHANGED <<runtimeVars, done, linkVars, activeVars, missedVars,
                   removing, scanVars, sweepVars, boundVars>>

\* Reading, validating or writing the bundle fails: the directory is removed
\* again, best effort, and the request fails.
CreateStageFails(c) ==
    /\ creating[c] = "stage"
    /\ ioErrors < MaxIOErrors
    /\ ioErrors' = ioErrors + 1
    /\ creating' = [creating EXCEPT ![c] = "idle"]
    /\ \/ CleanupDir(c)
       \/ /\ dir' = dir \cup {c}
          /\ dirAge' = [dirAge EXCEPT ![c] = 0]
          /\ UNCHANGED done
    /\ Answer(c, "failed")
    /\ UNCHANGED <<hooked, injected, linkVars, activeVars, missedVars,
                   removing, scanVars, sweepVars, exits, drops>>

\* The container is tracked and the adjustment goes back to the runtime.
CreateTrack(c) ==
    /\ creating[c] = "track"
    /\ creating' = [creating EXCEPT ![c] = "idle"]
    /\ tracked' = tracked \cup {c}
    /\ activeGauge' = activeGauge + 1
    /\ hooked' = IF life[c] = "creating" THEN hooked \cup {c} ELSE hooked
    /\ Answer(c, "created")
    /\ UNCHANGED <<injected, fsVars, linkVars, missedVars, removing, scanVars,
                   sweepVars, boundVars>>

-----------------------------------------------------------------------------
(* RemoveContainer                                                         *)

\* Fault: the gauges go down whether or not the key was there.
RemoveUntrackUnchecked(c) ==
    /\ removing[c] = "untrack"
    /\ removing' = [removing EXCEPT ![c] = "cleanup"]
    /\ tracked' = tracked \ {c} /\ activeGauge' = activeGauge - 1
    /\ missed' = missed \ {c} /\ missedGauge' = missedGauge - 1
    /\ UNCHANGED <<runtimeVars, fsVars, linkVars, creating, scanVars,
                   sweepVars, boundVars>>

\* Fault: the container stays in the tracked set.
RemoveUntrackForgets(c) ==
    /\ removing[c] = "untrack"
    /\ removing' = [removing EXCEPT ![c] = "cleanup"]
    /\ missed' = missed \ {c}
    /\ missedGauge' = IF c \in missed THEN missedGauge - 1 ELSE missedGauge
    /\ UNCHANGED <<runtimeVars, fsVars, linkVars, activeVars, creating,
                   scanVars, sweepVars, boundVars>>

\* The container is no longer tracked and no longer missed.
RemoveUntrack(c) ==
    /\ removing[c] = "untrack"
    /\ removing' = [removing EXCEPT ![c] = "cleanup"]
    /\ tracked' = tracked \ {c}
    /\ activeGauge' = IF c \in tracked THEN activeGauge - 1 ELSE activeGauge
    /\ missed' = missed \ {c}
    /\ missedGauge' = IF c \in missed THEN missedGauge - 1 ELSE missedGauge
    /\ UNCHANGED <<runtimeVars, fsVars, linkVars, creating, scanVars,
                   sweepVars, boundVars>>

\* The opt-in is looked up again.  Only a definite "no" leaves the directory
\* to the orphan cleaner; a removal that fails does too.
RemoveCleanup(c) ==
    /\ removing[c] = "cleanup"
    /\ removing' = [removing EXCEPT ![c] = "idle"]
    /\ req' = IF req = c THEN NoContainer ELSE req
    /\ \E v \in Answers(c) :
         \/ /\ v = "skip"
            /\ UNCHANGED <<fsVars, ioErrors>>
         \/ /\ v # "skip"
            /\ CleanupDir(c)
            /\ UNCHANGED ioErrors
         \/ /\ v # "skip"
            /\ ioErrors < MaxIOErrors
            /\ ioErrors' = ioErrors + 1
            /\ UNCHANGED fsVars
    /\ UNCHANGED <<life, hooked, injected, linkVars, activeVars,
                   missedVars, creating, scanVars, sweepVars, exits, drops>>

-----------------------------------------------------------------------------
(* Synchronize and the missed-container scan                               *)

\* The containers the runtime hands to Synchronize.
Listed == {c \in Container : life[c] \in {"created", "running"}}

Running == {c \in Container : life[c] = "running"}

\* Fault: a restarted plugin tracks only what it stages itself.
AdoptNothing == UNCHANGED activeVars

\* adoptStagedContainers: what the runtime lists and has a directory is
\* tracked again, and the gauge is set to the number of these.
AdoptStagedContainers ==
    LET staged == Listed \cap dir
    IN  /\ tracked' = tracked \cup staged
        /\ activeGauge' = Cardinality(staged)

\* The stub has connected: the plugin is ready, adopts the staged containers
\* and starts a scan of them in the background.
Synchronize ==
    /\ alive
    /\ ~ready
    /\ req = NoContainer
    /\ ready' = TRUE /\ synced' = TRUE
    /\ AdoptStagedContainers
    /\ \E s \in Scan :
         /\ scanPc[s] = "idle"
         /\ scanPc' = [scanPc EXCEPT ![s] = "check"]
         /\ scanRun' = [scanRun EXCEPT ![s] = Running]
         /\ scanTodo' = [scanTodo EXCEPT ![s] = Listed]
    /\ UNCHANGED <<runtimeVars, fsVars, alive, failFor, missedVars,
                   handlerVars, scanKeys, scanned, sweepVars, boundVars>>

\* One container of the scan: running, opted in, not excluded and without
\* hook.done it counts as missed.  A failed lookup is no opt-in here.  (The
\* pods of the containers are listed with them.)
ScanCheck(s, c) ==
    /\ scanPc[s] = "check"
    /\ c \in scanTodo[s]
    /\ scanTodo' = [scanTodo EXCEPT ![s] = @ \ {c}]
    /\ \E v \in Answers(c) :
         scanKeys' = IF /\ c \in scanRun[s] /\ v = "inject"
                        /\ c \notin Excluded /\ c \notin done
                     THEN [scanKeys EXCEPT ![s] = @ \cup {c}]
                     ELSE scanKeys
    /\ UNCHANGED <<runtimeVars, fsVars, linkVars, activeVars, missedVars,
                   handlerVars, scanPc, scanRun, scanned, sweepVars,
                   boundVars>>

\* The scan's goroutine returns.
ScanEnd(s) ==
    /\ scanPc' = [scanPc EXCEPT ![s] = "idle"]
    /\ scanRun' = [scanRun EXCEPT ![s] = {}]
    /\ scanTodo' = [scanTodo EXCEPT ![s] = {}]
    /\ scanKeys' = [scanKeys EXCEPT ![s] = {}]

\* Fault: a scan that times out commits what it has found so far.
ScanAbortCommits(s) ==
    /\ scanPc[s] = "check"
    /\ scanTodo[s] # {}
    /\ scanTodo' = [scanTodo EXCEPT ![s] = {}]
    /\ UNCHANGED <<runtimeVars, fsVars, linkVars, activeVars, missedVars,
                   handlerVars, scanPc, scanRun, scanKeys, scanned, sweepVars,
                   boundVars>>

\* The scan's two minutes are over, which is looked at before each container:
\* nothing is committed.
ScanAbort(s) ==
    /\ scanPc[s] = "check"
    /\ scanTodo[s] # {}
    /\ ScanEnd(s)
    /\ UNCHANGED <<runtimeVars, fsVars, linkVars, activeVars, missedVars,
                   handlerVars, scanned, sweepVars, boundVars>>

\* The commit is not one step: clear the map, store the keys, set the gauge.
ScanClear(s) ==
    /\ scanPc[s] = "check"
    /\ scanTodo[s] = {}
    /\ missed' = {}
    /\ scanPc' = [scanPc EXCEPT ![s] = "store"]
    /\ scanTodo' = [scanTodo EXCEPT ![s] = scanKeys[s]]
    /\ UNCHANGED <<runtimeVars, fsVars, linkVars, activeVars, missedGauge,
                   handlerVars, scanRun, scanKeys, scanned, sweepVars,
                   boundVars>>

ScanStore(s, c) ==
    /\ scanPc[s] = "store"
    /\ c \in scanTodo[s]
    /\ missed' = missed \cup {c}
    /\ scanTodo' = [scanTodo EXCEPT ![s] = @ \ {c}]
    /\ UNCHANGED <<runtimeVars, fsVars, linkVars, activeVars, missedGauge,
                   handlerVars, scanPc, scanRun, scanKeys, scanned, sweepVars,
                   boundVars>>

ScanSetGauge(s) ==
    /\ scanPc[s] = "store"
    /\ scanTodo[s] = {}
    /\ missedGauge' = Cardinality(scanKeys[s])
    /\ scanned' = scanRun[s]
    /\ ScanEnd(s)
    /\ UNCHANGED <<runtimeVars, fsVars, linkVars, activeVars, missed,
                   handlerVars, sweepVars, boundVars>>

-----------------------------------------------------------------------------
(* The orphan cleaner                                                      *)

\* The ticker fires: the directory entries are read once.
SweepStart ==
    /\ alive
    /\ sweepPc = "idle"
    /\ sweepAge >= SweepInterval
    /\ sweepAge' = 0
    /\ sweepPc' = "check" /\ sweepTodo' = dir
    /\ UNCHANGED <<sweepTarget, runtimeVars, fsVars, linkVars, activeVars,
                   missedVars, handlerVars, scanVars, boundVars>>

\* Fault: only the age of a directory is looked at.
OldEntry(c) == c \in dir /\ dirAge[c] >= OrphanAge

\* An entry that is not tracked, still there and old enough.
Orphan(c) == c \notin tracked /\ c \in dir /\ dirAge[c] >= OrphanAge

SweepCheck(c) ==
    /\ sweepPc = "check"
    /\ c \in sweepTodo
    /\ sweepTodo' = sweepTodo \ {c}
    /\ IF Orphan(c) THEN sweepPc' = "remove" /\ sweepTarget' = c
                    ELSE UNCHANGED <<sweepPc, sweepTarget>>
    /\ UNCHANGED <<runtimeVars, fsVars, linkVars, activeVars, missedVars,
                   handlerVars, scanVars, sweepAge, boundVars>>

SweepRemove ==
    /\ sweepPc = "remove"
    /\ sweepPc' = "check" /\ sweepTarget' = NoContainer
    /\ \/ CleanupDir(sweepTarget) /\ UNCHANGED ioErrors
       \/ /\ ioErrors < MaxIOErrors
          /\ ioErrors' = ioErrors + 1
          /\ UNCHANGED fsVars
    /\ UNCHANGED <<runtimeVars, linkVars, activeVars, missedVars,
                   handlerVars, scanVars, sweepAge, sweepTodo, exits, drops>>

SweepEnd ==
    /\ sweepPc = "check"
    /\ sweepTodo = {}
    /\ sweepPc' = "idle"
    /\ UNCHANGED <<sweepTodo, sweepTarget, runtimeVars, fsVars, linkVars,
                   activeVars, missedVars, handlerVars, scanVars, sweepAge,
                   boundVars>>

-----------------------------------------------------------------------------
(* Connection and process                                                  *)

\* stub.Run returns: runNRI swaps ready to false and starts failingSince.
ConnectionLost ==
    /\ ready
    /\ drops < MaxDrops
    /\ drops' = drops + 1
    /\ ready' = FALSE /\ failFor' = 0
    /\ Abandon
    /\ UNCHANGED <<hooked, injected, fsVars, alive, synced, activeVars,
                   missedVars, handlerVars, scanVars, sweepVars, exits,
                   ioErrors>>

\* The process is gone and with it everything it kept in memory.
ProcessGone ==
    /\ alive' = FALSE /\ ready' = FALSE /\ synced' = FALSE /\ failFor' = 0
    /\ tracked' = {} /\ activeGauge' = 0
    /\ missed' = {} /\ missedGauge' = 0
    /\ creating' = [c \in Container |-> "idle"]
    /\ removing' = [c \in Container |-> "idle"]
    /\ scanPc' = [s \in Scan |-> "idle"]
    /\ scanRun' = [s \in Scan |-> {}] /\ scanTodo' = [s \in Scan |-> {}]
    /\ scanKeys' = [s \in Scan |-> {}] /\ scanned' = {}
    /\ sweepAge' = 0
    /\ sweepPc' = "idle" /\ sweepTodo' = {} /\ sweepTarget' = NoContainer
    /\ Abandon
    /\ UNCHANGED <<hooked, injected, fsVars, drops, ioErrors>>

\* A crash, a rollout or a node's SIGTERM.
Exit ==
    /\ alive
    /\ exits < MaxExits
    /\ exits' = exits + 1
    /\ ProcessGone

\* runNRI returns an error after nriGiveUp without a connection.
GiveUpExit ==
    /\ alive
    /\ ~ready
    /\ failFor > GiveUp
    /\ ProcessGone
    /\ UNCHANGED exits

\* The kubelet starts the container again.
Restart ==
    /\ ~alive
    /\ alive' = TRUE
    /\ UNCHANGED <<runtimeVars, fsVars, ready, synced, failFor, activeVars,
                   missedVars, handlerVars, scanVars, sweepVars, boundVars>>

\* A handler is done within a minute.
NoHandler == \A c \in Container : creating[c] = "idle" /\ removing[c] = "idle"

\* Fault: the process never gives up on the connection.
MayTickAlways == NoHandler

\* A process that has had no connection for longer than GiveUp exits before
\* the next minute.
MayTick == NoHandler /\ (alive /\ ~ready => failFor =< GiveUp)

\* A minute passes.
Tick ==
    /\ MayTick
    /\ dirAge' = [c \in Container |->
                    IF c \in dir /\ dirAge[c] < OrphanAge
                    THEN dirAge[c] + 1 ELSE dirAge[c]]
    /\ failFor' = IF alive /\ ~ready THEN failFor + 1 ELSE failFor
    /\ sweepAge' = IF alive /\ sweepAge < SweepInterval
                   THEN sweepAge + 1 ELSE sweepAge
    /\ UNCHANGED <<runtimeVars, dir, done, alive, ready, synced, activeVars,
                   missedVars, handlerVars, scanVars, sweepPc, sweepTodo,
                   sweepTarget, boundVars>>

-----------------------------------------------------------------------------
Handler(c) ==
    \/ CreateDecide(c) \/ CreateStage(c) \/ CreateStageFails(c)
    \/ CreateTrack(c) \/ RemoveUntrack(c) \/ RemoveCleanup(c)

ScanStep(s) ==
    \/ ScanAbort(s) \/ ScanClear(s) \/ ScanSetGauge(s)
    \/ \E c \in Container : ScanCheck(s, c) \/ ScanStore(s, c)

SweepStep == SweepStart \/ SweepRemove \/ SweepEnd
             \/ \E c \in Container : SweepCheck(c)

Next ==
    \/ \E c \in Container :
         RuntimeCreate(c) \/ RuntimeStart(c) \/ RuntimeRemove(c) \/ Handler(c)
    \/ Synchronize
    \/ \E s \in Scan : ScanStep(s)
    \/ SweepStep
    \/ ConnectionLost \/ Exit \/ GiveUpExit \/ Restart
    \/ Tick

Spec == Init /\ [][Next]_vars

\* Goroutines run, time passes, the kubelet restarts the pod and the retries
\* every two seconds meet a runtime that accepts connections again and again.
Fairness ==
    /\ \A c \in Container : WF_vars(Handler(c))
    /\ \A s \in Scan : WF_vars(ScanStep(s))
    /\ WF_vars(SweepStep)
    /\ WF_vars(Restart)
    /\ WF_vars(Tick)
    /\ SF_vars(Synchronize)

FairSpec == Spec /\ Fairness

-----------------------------------------------------------------------------
(* Properties                                                              *)

\* The containers the runtime still knows, and those that may still run.
Present == {c \in Container : life[c] \in {"created", "running", "failed"}}

Handling == {"idle", "decide", "stage", "track"}

TypeOK ==
    /\ life \in [Container -> {"none", "creating", "created", "running",
                              "failed", "gone"}]
    /\ hooked \subseteq Container /\ injected \subseteq Container
    /\ req \in Container \cup {NoContainer}
    /\ dir \subseteq Container /\ done \subseteq Container
    /\ dirAge \in [Container -> 0..OrphanAge]
    /\ alive \in BOOLEAN /\ ready \in BOOLEAN /\ synced \in BOOLEAN
    /\ failFor \in 0..(GiveUp + 1)
    /\ tracked \subseteq Container /\ activeGauge \in Int
    /\ missed \subseteq Container /\ missedGauge \in Int
    /\ creating \in [Container -> Handling]
    /\ removing \in [Container -> {"idle", "untrack", "cleanup"}]
    /\ scanPc \in [Scan -> {"idle", "check", "store"}]
    /\ scanRun \in [Scan -> SUBSET Container]
    /\ scanTodo \in [Scan -> SUBSET Container]
    /\ scanKeys \in [Scan -> SUBSET Container]
    /\ scanned \subseteq Container
    /\ sweepAge \in 0..SweepInterval
    /\ sweepPc \in {"idle", "check", "remove"}
    /\ sweepTodo \subseteq Container
    /\ sweepTarget \in Container \cup {NoContainer}
    /\ exits \in 0..MaxExits /\ drops \in 0..MaxDrops
    /\ ioErrors \in 0..MaxIOErrors

\* A container that was given the plugin's adjustment keeps its staged CA
\* directory for as long as it exists, whatever the orphan cleaner, a late
\* handler, a reconnect or a restart of the plugin does: the cleaner must
\* not take the directory of a container that an earlier process staged.
LiveKeepsDir ==
    \A c \in hooked : life[c] \in {"created", "running"} => c \in dir

\* A running container whose hook has left hook.done is never reported as missed,
\* across restarts of the plugin: the scan goes by the breadcrumb in the
\* staged directory, which therefore must have survived.
NoFalseMissed ==
    \A c \in missed : life[c] = "running" => c \notin injected

\* Between requests of one connection the tracked set is the containers that
\* exist and were staged, and the gauge ActiveContainers is its size.
ActiveSetExact ==
    ready /\ req = NoContainer =>
        /\ tracked \subseteq Present
        /\ Listed \cap dir \subseteq tracked
        /\ activeGauge = Cardinality(tracked)

NoScan == \A s \in Scan : scanPc[s] = "idle"

\* Once a scan has committed, the gauge MissedContainers never shows fewer
\* containers than the missed set holds, whatever RemoveContainer did while
\* the scan was clearing the set, storing its keys and setting the gauge.
MissedGaugeCovers == NoScan => missedGauge >= Cardinality(missed)

\* Every container the last committed scan saw running, that is still running,
\* surely opted in and without hook.done, is in the missed set.
MissedComplete ==
    NoScan => \A c \in scanned :
        /\ life[c] = "running"
        /\ "inject" \in Answers(c) /\ "skip" \notin Answers(c)
        /\ c \notin Excluded /\ c \notin done
        => c \in missed

\* The gauge MissedContainers shows outstanding work: with no scan and no
\* request under way it is the number of missed containers that still exist,
\* having dropped for each one that was removed.
MissedIsOutstanding ==
    NoScan /\ NoHandler =>
        missedGauge = Cardinality({c \in missed : life[c] # "gone"})

\* The staged directory of a container that is gone is removed in the end:
\* by RemoveContainer, or by the orphan cleaner if that request was lost,
\* skipped the removal or failed at it, or the plugin was down.
OrphanReclaimed ==
    \A c \in Container : life[c] = "gone" /\ c \in dir ~> c \notin dir

\* The same, but for what OrphanReclaimed finds broken: the only directories
\* that stay are of containers the process still tracks after a connection
\* was lost; whatever is not tracked goes, with lost requests, failed
\* removals, exits and reconnects in between.
UntrackedReclaimed ==
    \A c \in Container :
        life[c] = "gone" /\ c \in dir
        ~> c \notin dir \/ (c \in tracked /\ drops > 0)

=============================================================================
