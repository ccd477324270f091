-------------------------- MODULE NriGauges_proofs --------------------------
(***************************************************************************)
(* Proofs about what the NRI plugin's gauges show, for every set of        *)
(* containers and every opt-in answer: the gauge ActiveContainers and the  *)
(* tracked set on the first connection of a process, the gauge             *)
(* MissedContainers and the missed set while the commits of scans do not   *)
(* overlap.                                                                *)
(***************************************************************************)
EXTENDS NriPlugin_proofs

\* As long as no connection was lost, a handler works on the request the
\* runtime is waiting for, and a process without a connection tracks nothing.
HandlersInv ==
    /\ ~ready => NoHandler /\ tracked = {} /\ activeGauge = 0
    /\ \A c \in Container :
         /\ creating[c] # "idle" => life[c] = "creating" /\ req = c
         /\ removing[c] # "idle" => req = c

\* What is tracked exists, or RemoveContainer has just been called for it;
\* what exists and is staged is tracked.
TrackedInv ==
    /\ \A c \in tracked : c \in Present \/ removing[c] = "untrack"
    /\ ready => Listed \cap dir \subseteq tracked
    /\ activeGauge = Cardinality(tracked)

ActiveInv == drops = 0 => HandlersInv /\ TrackedInv

\* Scans do not commit at the same time.
OneCommit ==
    \A r, s \in Scan : scanPc[r] = "store" /\ scanPc[s] = "store" => r = s

NoCommit == \A s \in Scan : scanPc[s] # "store"

\* The gauge may be wrong only during a commit, which then puts into the set
\* what it is about to count.
CoverInv ==
    /\ NoCommit => missedGauge >= Cardinality(missed)
    /\ \A s \in Scan : scanPc[s] = "store" =>
         missed \cup scanTodo[s] \subseteq scanKeys[s]

\* The opt-in of a container that is surely opted in can always be read.
Reliable ==
    \A c \in Container : "inject" \in Answers(c) /\ "skip" \notin Answers(c) =>
        Answers(c) = {"inject"}

\* What a scan that could look at c now would report.
Outstanding(c) ==
    /\ life[c] = "running"
    /\ "inject" \in Answers(c) /\ "skip" \notin Answers(c)
    /\ c \notin Excluded /\ c \notin done

\* What a scan has looked at and is outstanding it has found, and what it has
\* found is in the missed set once it is committed.
CompleteInv ==
    /\ done \subseteq hooked
    /\ \A c \in scanned : life[c] \in {"running", "gone"}
    /\ \A s \in Scan : \A c \in scanRun[s] :
         /\ life[c] \in {"running", "gone"}
         /\ scanPc[s] = "check" /\ Outstanding(c) =>
              c \in scanTodo[s] \cup scanKeys[s]
         /\ scanPc[s] = "store" /\ Outstanding(c) =>
              c \in scanTodo[s] \cup missed
    /\ NoCommit => \A c \in scanned : Outstanding(c) => c \in missed

-----------------------------------------------------------------------------
\* The sizes of sets of containers.
LEMMA SizeSteps ==
    ASSUME NEW S \in SUBSET Container, NEW c
    PROVE  /\ Cardinality(S) \in Nat
           /\ Cardinality(S \cup {c}) =
                IF c \in S THEN Cardinality(S) ELSE Cardinality(S) + 1
           /\ Cardinality(S \ {c}) =
                IF c \in S THEN Cardinality(S) - 1 ELSE Cardinality(S)
<1>1. IsFiniteSet(S)
  BY ContainerAssumption, FS_Subset
<1> QED
  BY <1>1, FS_CardinalityType, FS_AddElement, FS_RemoveElement

\* Without a lost connection, the steps of the handlers and of the runtime
\* keep the tracked set and its gauge exact.
LEMMA ActiveStep == IInv /\ ActiveInv /\ [Next]_vars => ActiveInv'
<1> SUFFICES ASSUME IInv, ActiveInv, [Next]_vars, drops' = 0
             PROVE  HandlersInv' /\ TrackedInv'
  BY DEF ActiveInv
<1> USE DEF HandlersInv, TrackedInv, Present, Listed, NoHandler
<1>0. /\ TypeOK /\ LifeInv /\ StageInv /\ drops \in Nat
      /\ ready => synced
      /\ drops = 0 => HandlersInv /\ TrackedInv
  BY BoundAssumption DEF IInv, LinkInv, TypeOK, ActiveInv
<1>1. ASSUME NEW c \in Container, RuntimeCreate(c)
      PROVE  HandlersInv' /\ TrackedInv'
  BY <1>0, <1>1, ContainerAssumption
  DEF TypeOK, LifeInv, RuntimeCreate, fsVars, linkVars, activeVars, boundVars
<1>2. ASSUME NEW c \in Container, RuntimeStart(c)
      PROVE  HandlersInv' /\ TrackedInv'
  BY <1>0, <1>2
  DEF TypeOK, LifeInv, RuntimeStart, linkVars, activeVars, handlerVars,
      boundVars
<1>3. ASSUME NEW c \in Container, RuntimeRemove(c)
      PROVE  HandlersInv' /\ TrackedInv'
  BY <1>0, <1>3, ContainerAssumption
  DEF TypeOK, LifeInv, RuntimeRemove, fsVars, linkVars, activeVars, boundVars
<1>4. ASSUME NEW c \in Container, CreateDecide(c)
      PROVE  HandlersInv' /\ TrackedInv'
  BY <1>0, <1>4
  DEF TypeOK, LifeInv, StageInv, CreateDecide, Answer, fsVars, linkVars,
      activeVars, boundVars
<1>5. ASSUME NEW c \in Container, CreateStage(c)
      PROVE  HandlersInv' /\ TrackedInv'
  BY <1>0, <1>5
  DEF TypeOK, LifeInv, Handling, CreateStage, runtimeVars, linkVars, activeVars,
      boundVars
<1>6. ASSUME NEW c \in Container, CreateStageFails(c)
      PROVE  HandlersInv' /\ TrackedInv'
  BY <1>0, <1>6
  DEF TypeOK, LifeInv, CreateStageFails, CleanupDir, Answer, linkVars,
      activeVars,
      boundVars
<1>7. ASSUME NEW c \in Container, CreateTrack(c)
      PROVE  HandlersInv' /\ TrackedInv'
  <2>1. drops = 0 /\ creating[c] # "idle"
    BY <1>7 DEF CreateTrack, boundVars
  <2>2. /\ life[c] = "creating" /\ removing[c] = "idle" /\ ready
        /\ HandlersInv /\ TrackedInv
    BY <1>0, <2>1 DEF LifeInv, TypeOK
  <2>3. c \notin tracked
    BY <2>2
  <2>4. activeGauge' = Cardinality(tracked')
    BY <1>0, <1>7, <2>2, <2>3, SizeSteps DEF CreateTrack, TypeOK
  <2>5. /\ HandlersInv'
        /\ \A d \in tracked' : d \in Present' \/ removing'[d] = "untrack"
        /\ ready' => Listed' \cap dir' \subseteq tracked'
    BY <1>0, <1>7, <2>2 DEF TypeOK, CreateTrack, Answer, fsVars, linkVars
  <2> QED
    BY <2>4, <2>5
<1>8. ASSUME NEW c \in Container, RemoveUntrack(c)
      PROVE  HandlersInv' /\ TrackedInv'
  <2>1. drops = 0 /\ removing[c] # "idle"
    BY <1>8 DEF RemoveUntrack, boundVars
  <2>2. life[c] = "gone" /\ ready /\ HandlersInv /\ TrackedInv
    BY <1>0, <2>1 DEF LifeInv
  <2>4. activeGauge' = Cardinality(tracked')
    BY <1>0, <1>8, <2>2, SizeSteps DEF RemoveUntrack, TypeOK
  <2>5. /\ HandlersInv'
        /\ \A d \in tracked' : d \in Present' \/ removing'[d] = "untrack"
        /\ ready' => Listed' \cap dir' \subseteq tracked'
    BY <1>0, <1>8, <2>2
    DEF TypeOK, RemoveUntrack, runtimeVars, fsVars, linkVars
  <2> QED
    BY <2>4, <2>5
<1>9. ASSUME NEW c \in Container, RemoveCleanup(c)
      PROVE  HandlersInv' /\ TrackedInv'
  BY <1>0, <1>9
  DEF TypeOK, LifeInv, RemoveCleanup, CleanupDir, fsVars, linkVars, activeVars
<1>10. CASE Synchronize
  <2>1. /\ drops = 0 /\ ~ready /\ ready'
        /\ UNCHANGED <<life, req, dir, creating, removing>>
    BY <1>10 DEF Synchronize, runtimeVars, fsVars, handlerVars, boundVars
  <2>2. /\ tracked' = Listed \cap dir
        /\ activeGauge' = Cardinality(Listed \cap dir)
    BY <1>0, <1>10, <2>1 DEF Synchronize, AdoptStagedContainers
  <2> QED
    BY <1>0, <2>1, <2>2
<1>11. CASE Exit \/ GiveUpExit
  <2>1. ProcessGone
    BY <1>11 DEF Exit, GiveUpExit
  <2>2. Cardinality({}) = 0
    BY FS_EmptySet
  <2> QED
    BY <2>1, <2>2 DEF ProcessGone
<1>12. CASE ConnectionLost
  BY <1>0, <1>12 DEF ConnectionLost
<1>13. CASE SweepRemove
  BY <1>0, <1>13
  DEF SweepRemove, CleanupDir, runtimeVars, fsVars, linkVars, activeVars,
      handlerVars
<1>14. CASE UNCHANGED <<life, req, dir, ready, tracked, activeGauge, creating,
                        removing, drops>>
  BY <1>0, <1>14
<1> QED
  BY <1>1, <1>2, <1>3, <1>4, <1>5, <1>6, <1>7, <1>8, <1>9, <1>10, <1>11,
     <1>12, <1>13, <1>14
  DEF Next, Handler, ScanStep, SweepStep, SweepCheck, ScanAbort, ScanClear,
      ScanSetGauge, ScanCheck, ScanStore, SweepStart, SweepEnd, Restart, Tick,
      vars, runtimeVars, fsVars, linkVars, activeVars, missedVars,
      handlerVars, scanVars, sweepVars, boundVars

\* Until the first connection is lost, and however often the process exits
\* and starts again, the tracked set between requests is the staged
\* containers that exist and ActiveContainers is their number.
THEOREM ActiveExact == Spec => [](drops = 0 => ActiveSetExact)
<1>1. Init => ActiveInv
  BY FS_EmptySet
  DEF Init, ActiveInv, HandlersInv, TrackedInv, NoHandler
<1>2. IInv /\ ActiveInv => (drops = 0 => ActiveSetExact)
  <2> SUFFICES ASSUME IInv, ActiveInv, drops = 0, ready, req = NoContainer
               PROVE  /\ tracked \subseteq Present
                      /\ Listed \cap dir \subseteq tracked
                      /\ activeGauge = Cardinality(tracked)
    BY DEF ActiveSetExact
  <2>1. HandlersInv /\ TrackedInv
    BY DEF ActiveInv
  <2>2. \A c \in Container : removing[c] = "idle"
    BY <2>1, ContainerAssumption DEF HandlersInv
  <2>3. tracked \subseteq Container
    BY DEF IInv, TypeOK
  <2> QED
    BY <2>1, <2>2, <2>3 DEF TrackedInv
<1> QED
  BY <1>1, <1>2, ActiveStep, Invariance, PTL DEF Spec

-----------------------------------------------------------------------------
(* The missed set and its gauge                                            *)

LEMMA CoverStep ==
    IInv /\ CoverInv /\ OneCommit /\ OneCommit' /\ [Next]_vars => CoverInv'
<1> SUFFICES ASSUME IInv, CoverInv, OneCommit, OneCommit', [Next]_vars
             PROVE  CoverInv'
  OBVIOUS
<1>0. TypeOK
  BY DEF IInv
<1> USE <1>0 DEF CoverInv, NoCommit
<1>1. ASSUME NEW c \in Container, RemoveUntrack(c) PROVE CoverInv'
  <2>1. /\ missed' = missed \ {c} /\ UNCHANGED <<scanPc, scanTodo, scanKeys>>
        /\ missedGauge' = IF c \in missed THEN missedGauge - 1 ELSE missedGauge
    BY <1>1 DEF RemoveUntrack, scanVars
  <2>2. NoCommit => missedGauge' >= Cardinality(missed')
    <3>1. /\ missedGauge \in Int /\ Cardinality(missed) \in Nat
          /\ Cardinality(missed') = IF c \in missed THEN Cardinality(missed) - 1
                                    ELSE Cardinality(missed)
      BY <2>1, SizeSteps DEF TypeOK
    <3> QED
      BY <2>1, <3>1
  <2> QED
    BY <2>1, <2>2
<1>2. ASSUME NEW s \in Scan, ScanAbort(s) PROVE CoverInv'
  BY <1>2 DEF TypeOK, ScanAbort, ScanEnd, missedVars
<1>3. ASSUME NEW s \in Scan, ScanClear(s) PROVE CoverInv'
  <2>1. /\ missed' = {} /\ scanKeys' = scanKeys
        /\ scanPc'[s] = "store" /\ scanTodo'[s] = scanKeys[s]
    BY <1>3 DEF TypeOK, ScanClear
  <2>2. \A r \in Scan : scanPc'[r] = "store" => r = s
    BY <2>1 DEF OneCommit
  <2> QED
    BY <2>1, <2>2
<1>4. ASSUME NEW s \in Scan, ScanSetGauge(s) PROVE CoverInv'
  <2>1. /\ scanPc[s] = "store" /\ missed' = missed
        /\ missedGauge' = Cardinality(scanKeys[s])
        /\ \A r \in Scan : scanPc'[r] = "store" => scanPc[r] = "store" /\ r # s
    BY <1>4 DEF TypeOK, ScanSetGauge, ScanEnd
  <2>2. \A r \in Scan : scanPc'[r] # "store"
    BY <2>1 DEF OneCommit
  <2>3. Cardinality(missed) =< Cardinality(scanKeys[s])
    <3>1. missed \in SUBSET scanKeys[s] /\ scanKeys[s] \in SUBSET Container
      BY <2>1 DEF TypeOK
    <3>2. IsFiniteSet(scanKeys[s])
      BY <3>1, ContainerAssumption, FS_Subset
    <3> QED
      BY <3>1, <3>2, FS_Subset
  <2>4. Cardinality(missed) \in Nat /\ Cardinality(scanKeys[s]) \in Nat
    BY SizeSteps DEF TypeOK
  <2> QED
    BY <2>1, <2>2, <2>3, <2>4
<1>5. ASSUME NEW s \in Scan, NEW c \in Container, ScanCheck(s, c)
      PROVE  CoverInv'
  BY <1>5 DEF TypeOK, ScanCheck, missedVars
<1>6. ASSUME NEW s \in Scan, NEW c \in Container, ScanStore(s, c)
      PROVE  CoverInv'
  <2>1. /\ scanPc[s] = "store" /\ c \in scanTodo[s] /\ missed' = missed \cup {c}
        /\ UNCHANGED <<scanPc, scanKeys>>
        /\ \A r \in Scan : scanTodo'[r] \subseteq scanTodo[r]
    BY <1>6 DEF TypeOK, ScanStore
  <2>2. \A r \in Scan : scanPc[r] = "store" => r = s
    BY <2>1 DEF OneCommit
  <2> QED
    BY <2>1, <2>2
<1>7. CASE Synchronize
  BY <1>7 DEF TypeOK, Synchronize, missedVars
<1>8. CASE Exit \/ GiveUpExit
  <2>1. ProcessGone
    BY <1>8 DEF Exit, GiveUpExit
  <2> QED
    BY <2>1, FS_EmptySet DEF ProcessGone
<1>9. CASE UNCHANGED <<missed, missedGauge, scanPc, scanTodo, scanKeys>>
  BY <1>9
<1> QED
  BY <1>1, <1>2, <1>3, <1>4, <1>5, <1>6, <1>7, <1>8, <1>9
  DEF Next, Handler, ScanStep, SweepStep, RuntimeCreate, RuntimeStart,
      RuntimeRemove, CreateDecide, CreateStage, CreateStageFails, CreateTrack,
      RemoveCleanup, SweepCheck, SweepStart, SweepRemove, SweepEnd,
      ConnectionLost, Restart, Tick, vars, missedVars, scanVars

\* Unless two scans commit at the same time MissedContainers shows no fewer
\* containers than p.missed holds, whatever RemoveContainer does between the
\* steps of a commit.
THEOREM GaugeCovers == Spec /\ []OneCommit => []MissedGaugeCovers
<1>1. Init => CoverInv
  BY FS_EmptySet DEF Init, CoverInv
<1>2. CoverInv => MissedGaugeCovers
  BY DEF CoverInv, NoCommit, MissedGaugeCovers, NoScan
<1> QED
  BY <1>1, <1>2, CoverStep, Invariance, PTL DEF Spec

-----------------------------------------------------------------------------
(* What a committed scan has found                                         *)

\* A container that goes on running keeps its breadcrumb and stays missed.
Stays ==
    \A c \in Container : life[c] \in {"running", "gone"} =>
        /\ life'[c] \in {"running", "gone"}
        /\ life'[c] = "running" => /\ life[c] = "running"
                                   /\ c \in done => c \in done'
                                   /\ c \in missed => c \in missed'

\* The steps that are not of a scan and do not end the process.
Otherwise ==
    \/ \E c \in Container :
         RuntimeCreate(c) \/ RuntimeStart(c) \/ RuntimeRemove(c) \/ Handler(c)
    \/ SweepStep \/ ConnectionLost \/ Restart \/ Tick
    \/ UNCHANGED vars

LEMMA OtherwiseStays ==
    ASSUME IInv, done \subseteq hooked, Otherwise
    PROVE  Stays /\ done' \subseteq hooked' /\ UNCHANGED scanVars
<1>0. /\ TypeOK /\ LifeInv /\ SweepInv
  BY DEF IInv
<1> USE <1>0 DEF Stays, TypeOK, runtimeVars, fsVars, missedVars, scanVars
<1>1. ASSUME NEW c \in Container, RuntimeCreate(c) \/ RuntimeRemove(c)
      PROVE  Stays /\ done' \subseteq hooked' /\ UNCHANGED scanVars
  BY <1>1 DEF RuntimeCreate, RuntimeRemove
<1>2. ASSUME NEW c \in Container, RuntimeStart(c)
      PROVE  Stays /\ done' \subseteq hooked' /\ UNCHANGED scanVars
  BY <1>2 DEF RuntimeStart
<1>3. ASSUME NEW c \in Container, CreateDecide(c) \/ CreateStage(c)
      PROVE  Stays /\ done' \subseteq hooked' /\ UNCHANGED scanVars
  BY <1>3 DEF CreateDecide, CreateStage, Answer
<1>4. ASSUME NEW c \in Container, CreateStageFails(c)
      PROVE  Stays /\ done' \subseteq hooked' /\ UNCHANGED scanVars
  <2>1. c \notin done
    BY <1>4 DEF CreateStageFails, LifeInv
  <2> QED
    BY <1>4, <2>1 DEF CreateStageFails, CleanupDir, Answer
<1>5. ASSUME NEW c \in Container, CreateTrack(c)
      PROVE  Stays /\ done' \subseteq hooked' /\ UNCHANGED scanVars
  BY <1>5 DEF CreateTrack, Answer
<1>6. ASSUME NEW c \in Container, RemoveUntrack(c) \/ RemoveCleanup(c)
      PROVE  Stays /\ done' \subseteq hooked' /\ UNCHANGED scanVars
  <2>1. life[c] = "gone"
    BY <1>6 DEF RemoveUntrack, RemoveCleanup, LifeInv
  <2> QED
    BY <1>6, <2>1 DEF RemoveUntrack, RemoveCleanup, CleanupDir
<1>7. CASE SweepRemove
  <2>1. /\ sweepTarget \in Container
        /\ sweepTarget \in done => life[sweepTarget] # "running"
    BY <1>7 DEF SweepRemove, SweepInv, Live
  <2> QED
    BY <1>7, <2>1 DEF SweepRemove, CleanupDir
<1>8. CASE \/ SweepStart \/ SweepEnd \/ (\E c \in Container : SweepCheck(c))
           \/ Restart \/ Tick \/ UNCHANGED vars
  BY <1>8 DEF SweepStart, SweepEnd, SweepCheck, Restart, Tick, vars
<1>9. CASE ConnectionLost
  BY <1>9 DEF ConnectionLost, Abandon
<1> QED
  BY <1>1, <1>2, <1>3, <1>4, <1>5, <1>6, <1>7, <1>8, <1>9
  DEF Otherwise, Handler, SweepStep

LEMMA CompleteStep ==
    ASSUME Reliable
    PROVE  /\ IInv /\ CompleteInv /\ OneCommit /\ OneCommit' /\ [Next]_vars
           => CompleteInv'
<1> SUFFICES ASSUME IInv, CompleteInv, OneCommit, OneCommit', [Next]_vars
             PROVE  CompleteInv'
  OBVIOUS
<1>0. TypeOK
  BY DEF IInv
<1>1. CASE Otherwise
  <2>1. Stays /\ done' \subseteq hooked' /\ UNCHANGED scanVars
    BY <1>1, OtherwiseStays DEF CompleteInv
  <2>2. \A c \in Container : life[c] \in {"running", "gone"} =>
          /\ life'[c] \in {"running", "gone"}
          /\ Outstanding(c)' => /\ Outstanding(c)
                                /\ c \in missed => c \in missed'
    BY <2>1 DEF Stays, Outstanding
  <2> HIDE DEF Outstanding
  <2> QED
    BY <1>0, <2>1, <2>2 DEF CompleteInv, NoCommit, TypeOK, scanVars
<1>2. ASSUME UNCHANGED <<life, hooked, done>>
      PROVE  /\ done' \subseteq hooked'
             /\ \A c \in Container : Outstanding(c)' <=> Outstanding(c)
  BY <1>2 DEF CompleteInv, Outstanding
<1>3. ASSUME NEW s \in Scan, NEW c \in Container, ScanCheck(s, c)
      PROVE  CompleteInv'
  <2>1. /\ scanPc[s] = "check" /\ c \in scanTodo[s]
        /\ scanTodo' = [scanTodo EXCEPT ![s] = @ \ {c}]
        /\ UNCHANGED <<life, hooked, done, missed, scanPc, scanRun, scanned>>
        /\ \A r \in Scan : scanKeys[r] \subseteq scanKeys'[r]
    BY <1>0, <1>3 DEF ScanCheck, runtimeVars, fsVars, missedVars, TypeOK
  <2>2. c \in scanRun[s] /\ Outstanding(c) => c \in scanKeys'[s]
    BY <1>0, <1>3 DEF ScanCheck, Outstanding, Reliable, TypeOK
  <2>3. \A r \in Scan :
          /\ scanTodo'[r] \cup {c} = scanTodo[r] \cup {c}
          /\ r # s => scanTodo'[r] = scanTodo[r]
    BY <1>0, <2>1 DEF TypeOK
  <2> QED
    BY <1>0, <1>2, <2>1, <2>2, <2>3 DEF CompleteInv, NoCommit, TypeOK
<1>4. ASSUME NEW s \in Scan, ScanAbort(s) PROVE CompleteInv'
  <2>1. /\ UNCHANGED <<life, hooked, done, missed, scanned>>
        /\ scanPc[s] = "check" /\ scanPc'[s] = "idle" /\ scanRun'[s] = {}
        /\ \A r \in Scan \ {s} :
             /\ scanPc'[r] = scanPc[r] /\ scanRun'[r] = scanRun[r]
             /\ scanTodo'[r] = scanTodo[r] /\ scanKeys'[r] = scanKeys[r]
    BY <1>0, <1>4
    DEF ScanAbort, ScanEnd, runtimeVars, fsVars, missedVars, TypeOK
  <2> QED
    BY <1>0, <1>2, <2>1 DEF CompleteInv, NoCommit, TypeOK
<1>5. ASSUME NEW s \in Scan, ScanClear(s) PROVE CompleteInv'
  <2>1. /\ UNCHANGED <<life, hooked, done, scanned, scanRun, scanKeys>>
        /\ scanPc[s] = "check" /\ scanPc'[s] = "store" /\ scanTodo[s] = {}
        /\ scanTodo'[s] = scanKeys[s]
        /\ \A r \in Scan \ {s} :
             scanPc'[r] = scanPc[r] /\ scanTodo'[r] = scanTodo[r]
    BY <1>0, <1>5 DEF ScanClear, runtimeVars, fsVars, TypeOK
  <2>2. \A r \in Scan \ {s} : scanPc[r] # "store"
    BY <2>1 DEF OneCommit
  <2> QED
    BY <1>0, <1>2, <2>1, <2>2 DEF CompleteInv, NoCommit, TypeOK
<1>6. ASSUME NEW s \in Scan, NEW c \in Container, ScanStore(s, c)
      PROVE  CompleteInv'
  <2>1. /\ UNCHANGED <<life, hooked, done, scanned, scanPc, scanRun, scanKeys>>
        /\ missed' = missed \cup {c}
        /\ \A r \in Scan :
             /\ scanTodo[r] \subseteq scanTodo'[r] \cup {c}
             /\ r # s => scanTodo'[r] = scanTodo[r]
        /\ scanPc[s] = "store"
    BY <1>0, <1>6 DEF ScanStore, runtimeVars, fsVars, TypeOK
  <2> QED
    BY <1>0, <1>2, <2>1 DEF CompleteInv, NoCommit, TypeOK
<1>7. ASSUME NEW s \in Scan, ScanSetGauge(s) PROVE CompleteInv'
  <2>1. /\ UNCHANGED <<life, hooked, done, missed>>
        /\ scanPc[s] = "store" /\ scanPc'[s] = "idle" /\ scanTodo[s] = {}
        /\ scanned' = scanRun[s] /\ scanRun'[s] = {}
        /\ \A r \in Scan \ {s} :
             /\ scanPc'[r] = scanPc[r] /\ scanRun'[r] = scanRun[r]
             /\ scanTodo'[r] = scanTodo[r] /\ scanKeys'[r] = scanKeys[r]
    BY <1>0, <1>7 DEF ScanSetGauge, ScanEnd, runtimeVars, fsVars, TypeOK
  <2> QED
    BY <1>0, <1>2, <2>1 DEF CompleteInv, NoCommit, TypeOK
<1>8. CASE Synchronize
  <2>1. /\ UNCHANGED <<life, hooked, done, missed, scanned, scanKeys>>
        /\ \E s \in Scan :
             /\ scanPc[s] = "idle" /\ scanPc'[s] = "check"
             /\ scanRun'[s] = Running /\ scanTodo'[s] = Listed
             /\ \A r \in Scan \ {s} :
                  /\ scanPc'[r] = scanPc[r] /\ scanRun'[r] = scanRun[r]
                  /\ scanTodo'[r] = scanTodo[r]
    BY <1>0, <1>8 DEF Synchronize, runtimeVars, fsVars, missedVars, TypeOK
  <2> QED
    BY <1>0, <1>2, <2>1 DEF CompleteInv, NoCommit, TypeOK, Running, Listed
<1>9. CASE Exit \/ GiveUpExit
  <2>1. /\ done' = done /\ hooked' = hooked /\ scanned' = {}
        /\ \A s \in Scan : scanRun'[s] = {}
    BY <1>9 DEF Exit, GiveUpExit, ProcessGone, fsVars
  <2> QED
    BY <2>1 DEF CompleteInv
<1> QED
  BY <1>1, <1>3, <1>4, <1>5, <1>6, <1>7, <1>8, <1>9 DEF Next, ScanStep,
     Otherwise

\* If the opt-in of a container can always be read, and unless two scans
\* commit at the same time, a committed scan has every running container that
\* opted in and whose hook left no hook.done in p.missed, until it is removed.
THEOREM MissedAll ==
    ASSUME Reliable
    PROVE  Spec /\ []OneCommit => []MissedComplete
<1>1. Init => CompleteInv
  BY DEF Init, CompleteInv
<1>2. CompleteInv => MissedComplete
  BY DEF CompleteInv, NoCommit, MissedComplete, NoScan, Outstanding
<1>3. IInv /\ CompleteInv /\ OneCommit /\ OneCommit' /\ [Next]_vars
      => CompleteInv'
  BY CompleteStep
<1> QED
  BY <1>1, <1>2, <1>3, Invariance, PTL DEF Spec

=============================================================================
