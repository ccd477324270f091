-------------------------- MODULE NriPlugin_proofs --------------------------
(***************************************************************************)
(* Proofs about NriPlugin for every set of containers, every opt-in        *)
(* answer and every value of the timing constants: type correctness, that  *)
(* a live injected container keeps its staged directory, and that it is    *)
(* never reported as missed.                                               *)
(***************************************************************************)
EXTENDS NriPlugin, FiniteSetTheorems, TLAPS

Live(c) == life[c] \in {"created", "running"}

\* Before the first Synchronize of a process no handler and no sweep runs,
\* and the cleaner's clock is not ahead of the reconnect loop's.
LinkInv ==
    /\ ready => synced
    /\ synced => alive
    /\ ~synced => /\ sweepPc = "idle"
                  /\ sweepAge =< failFor
                  /\ \A c \in Container : /\ creating[c] = "idle"
                                          /\ removing[c] = "idle"

\* How the handlers in flight relate to what the runtime has done.
LifeInv ==
    \A c \in Container :
        /\ life[c] = "none" => /\ creating[c] = "idle"
                               /\ c \notin dir /\ c \notin hooked
        /\ life[c] = "creating" => creating[c] # "idle"
        /\ removing[c] # "idle" => life[c] = "gone"
        /\ creating[c] # "idle" => c \notin hooked

\* What CreateContainer has on disk: nothing before it stages, a young
\* directory until it tracks.
StageInv ==
    \A c \in Container :
        /\ creating[c] \in {"decide", "stage"} => c \notin dir
        /\ creating[c] = "track" => dirAge[c] = 0
        /\ creating[c] = "track" /\ life[c] = "creating" => c \in dir

\* A live injected container has its directory and, once the process has
\* synchronised, is tracked.
KeepInv ==
    /\ LiveKeepsDir
    /\ synced => \A c \in hooked : Live(c) => c \in tracked

\* What the cleaner has decided to remove can never come to be needed.
SweepInv ==
    sweepPc = "remove" =>
        /\ sweepTarget \in Container
        /\ creating[sweepTarget] = "idle"
        /\ life[sweepTarget] # "none"
        /\ ~(sweepTarget \in hooked /\ Live(sweepTarget))

\* The breadcrumb of a live injected container is there, and what a scan
\* takes for running or reports was running when it started.
ScanInv ==
    /\ injected \subseteq hooked
    /\ \A c \in injected : Live(c) => c \in done
    /\ \A c \in missed : life[c] \in {"running", "gone"}
    /\ NoFalseMissed
    /\ \A s \in Scan, c \in Container :
         /\ c \in scanRun[s] => life[c] \in {"running", "gone"}
         /\ c \in scanKeys[s] => life[c] \in {"running", "gone"}
         /\ c \in scanKeys[s] /\ life[c] = "running" => c \notin injected
         /\ scanPc[s] = "store" /\ c \in scanTodo[s] => c \in scanKeys[s]

IInv == /\ TypeOK /\ LinkInv /\ LifeInv /\ StageInv /\ KeepInv /\ SweepInv
        /\ ScanInv

-----------------------------------------------------------------------------
\* The sizes that the gauges are set to are integers.
LEMMA SizeType ==
    ASSUME NEW S \in SUBSET Container
    PROVE  Cardinality(S) \in Int
BY ContainerAssumption, FS_Subset, FS_CardinalityType

\* The initial state is well typed.
LEMMA TypeInit == Init => TypeOK
<1> SUFFICES ASSUME Init PROVE TypeOK
  OBVIOUS
<1>1. /\ life \in [Container -> {"none", "creating", "created", "running",
                                 "failed", "gone"}]
      /\ dirAge \in [Container -> 0..OrphanAge]
      /\ creating \in [Container -> Handling]
      /\ removing \in [Container -> {"idle", "untrack", "cleanup"}]
  BY TimingAssumption DEF Init, Handling
<1>2. /\ scanPc \in [Scan -> {"idle", "check", "store"}]
      /\ scanRun \in [Scan -> SUBSET Container]
      /\ scanTodo \in [Scan -> SUBSET Container]
      /\ scanKeys \in [Scan -> SUBSET Container]
  BY DEF Init
<1>3. /\ alive \in BOOLEAN /\ ready \in BOOLEAN /\ synced \in BOOLEAN
  BY DEF Init
<1>4. /\ hooked \subseteq Container /\ injected \subseteq Container
      /\ req \in Container \cup {NoContainer}
      /\ dir \subseteq Container /\ done \subseteq Container
      /\ tracked \subseteq Container /\ missed \subseteq Container
      /\ scanned \subseteq Container
      /\ sweepPc \in {"idle", "check", "remove"}
      /\ sweepTodo \subseteq Container
      /\ sweepTarget \in Container \cup {NoContainer}
  BY DEF Init
<1>5. /\ failFor \in 0..(GiveUp + 1) /\ sweepAge \in 0..SweepInterval
      /\ activeGauge \in Int /\ missedGauge \in Int
      /\ exits \in 0..MaxExits /\ drops \in 0..MaxDrops
      /\ ioErrors \in 0..MaxIOErrors
  BY TimingAssumption, BoundAssumption DEF Init
<1> QED
  BY <1>1, <1>2, <1>3, <1>4, <1>5 DEF TypeOK

\* Dropping the runtime's request keeps the types of what it rebuilds.
LEMMA AbandonType ==
    TypeOK /\ Abandon =>
        /\ life' \in [Container -> {"none", "creating", "created", "running",
                                    "failed", "gone"}]
        /\ req' \in Container \cup {NoContainer}
BY DEF TypeOK, Abandon

\* The loss of the process leaves a well-typed state.
LEMMA ProcessGoneType ==
    TypeOK /\ ProcessGone /\ exits' \in 0..MaxExits => TypeOK'
<1> SUFFICES ASSUME TypeOK, ProcessGone, exits' \in 0..MaxExits PROVE TypeOK'
  OBVIOUS
<1>1. /\ creating' \in [Container -> Handling]
      /\ removing' \in [Container -> {"idle", "untrack", "cleanup"}]
  BY DEF ProcessGone, Handling
<1>2. /\ scanPc' \in [Scan -> {"idle", "check", "store"}]
      /\ scanRun' \in [Scan -> SUBSET Container]
      /\ scanTodo' \in [Scan -> SUBSET Container]
      /\ scanKeys' \in [Scan -> SUBSET Container]
  BY DEF ProcessGone
<1>3. /\ life' \in [Container -> {"none", "creating", "created", "running",
                                  "failed", "gone"}]
      /\ req' \in Container \cup {NoContainer}
  BY AbandonType DEF ProcessGone
<1>4. /\ alive' \in BOOLEAN /\ ready' \in BOOLEAN /\ synced' \in BOOLEAN
  BY DEF ProcessGone
<1>5. /\ hooked' \subseteq Container /\ injected' \subseteq Container
      /\ dir' \subseteq Container /\ done' \subseteq Container
      /\ dirAge' \in [Container -> 0..OrphanAge]
      /\ tracked' \subseteq Container /\ missed' \subseteq Container
      /\ scanned' \subseteq Container
      /\ sweepPc' \in {"idle", "check", "remove"}
      /\ sweepTodo' \subseteq Container
      /\ sweepTarget' \in Container \cup {NoContainer}
  BY DEF ProcessGone, fsVars, TypeOK
<1>6. /\ failFor' \in 0..(GiveUp + 1) /\ sweepAge' \in 0..SweepInterval
      /\ activeGauge' \in Int /\ missedGauge' \in Int
      /\ drops' \in 0..MaxDrops /\ ioErrors' \in 0..MaxIOErrors
  BY TimingAssumption DEF ProcessGone, TypeOK
<1> QED
  BY <1>1, <1>2, <1>3, <1>4, <1>5, <1>6 DEF TypeOK

\* Every step keeps the types.
LEMMA TypeStep == TypeOK /\ [Next]_vars => TypeOK'
<1> SUFFICES ASSUME TypeOK, [Next]_vars PROVE TypeOK'
  OBVIOUS
<1> USE ContainerAssumption, TimingAssumption, BoundAssumption
        DEF TypeOK, Handling
<1>1. ASSUME NEW c \in Container, RuntimeCreate(c) PROVE TypeOK'
  BY <1>1
  DEF RuntimeCreate, runtimeVars, fsVars, linkVars, activeVars, missedVars,
      handlerVars, scanVars, sweepVars, boundVars
<1>2. ASSUME NEW c \in Container, RuntimeStart(c) PROVE TypeOK'
  BY <1>2
  DEF RuntimeStart, runtimeVars, fsVars, linkVars, activeVars, missedVars,
      handlerVars, scanVars, sweepVars, boundVars
<1>3. ASSUME NEW c \in Container, RuntimeRemove(c) PROVE TypeOK'
  BY <1>3
  DEF RuntimeRemove, runtimeVars, fsVars, linkVars, activeVars, missedVars,
      handlerVars, scanVars, sweepVars, boundVars
<1>4. ASSUME NEW c \in Container, CreateDecide(c) PROVE TypeOK'
  BY <1>4
  DEF CreateDecide, Answer, runtimeVars, fsVars, linkVars, activeVars,
      missedVars, handlerVars, scanVars, sweepVars, boundVars
<1>5. ASSUME NEW c \in Container, CreateStage(c) PROVE TypeOK'
  BY <1>5
  DEF CreateStage, runtimeVars, fsVars, linkVars, activeVars, missedVars,
      handlerVars, scanVars, sweepVars, boundVars
<1>6. ASSUME NEW c \in Container, CreateStageFails(c) PROVE TypeOK'
  BY <1>6
  DEF CreateStageFails, Answer, CleanupDir, runtimeVars, fsVars, linkVars,
      activeVars, missedVars, handlerVars, scanVars, sweepVars, boundVars
<1>7. ASSUME NEW c \in Container, CreateTrack(c) PROVE TypeOK'
  BY <1>7
  DEF CreateTrack, Answer, runtimeVars, fsVars, linkVars, activeVars,
      missedVars, handlerVars, scanVars, sweepVars, boundVars
<1>8. ASSUME NEW c \in Container, RemoveUntrack(c) PROVE TypeOK'
  BY <1>8
  DEF RemoveUntrack, runtimeVars, fsVars, linkVars, activeVars, missedVars,
      handlerVars, scanVars, sweepVars, boundVars
<1>9. ASSUME NEW c \in Container, RemoveCleanup(c) PROVE TypeOK'
  BY <1>9
  DEF RemoveCleanup, CleanupDir, runtimeVars, fsVars, linkVars, activeVars,
      missedVars, handlerVars, scanVars, sweepVars, boundVars
<1>10. ASSUME NEW c \in Container, SweepCheck(c) PROVE TypeOK'
  BY <1>10
  DEF SweepCheck, Orphan, runtimeVars, fsVars, linkVars, activeVars,
      missedVars, handlerVars, scanVars, sweepVars, boundVars
<1>11. ASSUME NEW s \in Scan, ScanAbort(s) PROVE TypeOK'
  BY <1>11
  DEF ScanAbort, ScanEnd, runtimeVars, fsVars, linkVars, activeVars,
      missedVars, handlerVars, scanVars, sweepVars, boundVars
<1>12. ASSUME NEW s \in Scan, ScanClear(s) PROVE TypeOK'
  BY <1>12
  DEF ScanClear, runtimeVars, fsVars, linkVars, activeVars, missedVars,
      handlerVars, scanVars, sweepVars, boundVars
<1>13. ASSUME NEW s \in Scan, ScanSetGauge(s) PROVE TypeOK'
  BY <1>13, SizeType
  DEF ScanSetGauge, ScanEnd, runtimeVars, fsVars, linkVars, activeVars,
      missedVars, handlerVars, scanVars, sweepVars, boundVars
<1>14. ASSUME NEW s \in Scan, NEW c \in Container, ScanCheck(s, c)
       PROVE  TypeOK'
  BY <1>14
  DEF ScanCheck, runtimeVars, fsVars, linkVars, activeVars, missedVars,
      handlerVars, scanVars, sweepVars, boundVars
<1>15. ASSUME NEW s \in Scan, NEW c \in Container, ScanStore(s, c)
       PROVE  TypeOK'
  BY <1>15
  DEF ScanStore, runtimeVars, fsVars, linkVars, activeVars, missedVars,
      handlerVars, scanVars, sweepVars, boundVars
<1>16. CASE Synchronize
  BY <1>16, SizeType
  DEF Synchronize, AdoptStagedContainers, Listed, Running, runtimeVars,
      fsVars, linkVars, activeVars, missedVars, handlerVars, scanVars,
      sweepVars, boundVars
<1>17. CASE SweepStart
  BY <1>17
  DEF SweepStart, runtimeVars, fsVars, linkVars, activeVars, missedVars,
      handlerVars, scanVars, sweepVars, boundVars
<1>18. CASE SweepRemove
  BY <1>18
  DEF SweepRemove, CleanupDir, runtimeVars, fsVars, linkVars, activeVars,
      missedVars, handlerVars, scanVars, sweepVars, boundVars
<1>19. CASE SweepEnd
  BY <1>19
  DEF SweepEnd, runtimeVars, fsVars, linkVars, activeVars, missedVars,
      handlerVars, scanVars, sweepVars, boundVars
<1>20. CASE ConnectionLost
  <2>1. /\ life' \in [Container -> {"none", "creating", "created",
                                    "running", "failed", "gone"}]
        /\ req' \in Container \cup {NoContainer}
    BY <1>20, AbandonType DEF ConnectionLost
  <2>2. /\ failFor' \in 0..(GiveUp + 1) /\ drops' \in 0..MaxDrops
    BY <1>20 DEF ConnectionLost
  <2>3. ready' \in BOOLEAN
    BY <1>20 DEF ConnectionLost
  <2>4. UNCHANGED <<hooked, injected, fsVars, alive, synced, activeVars,
                    missedVars, handlerVars, scanVars, sweepVars, exits,
                    ioErrors>>
    BY <1>20 DEF ConnectionLost
  <2> QED
    BY <2>1, <2>2, <2>3, <2>4
    DEF fsVars, activeVars, missedVars, handlerVars, scanVars, sweepVars
<1>21. CASE Exit
  BY <1>21, ProcessGoneType DEF Exit
<1>22. CASE GiveUpExit
  BY <1>22, ProcessGoneType DEF GiveUpExit
<1>23. CASE Restart
  BY <1>23
  DEF Restart, runtimeVars, fsVars, linkVars, activeVars, missedVars,
      handlerVars, scanVars, sweepVars, boundVars
<1>24. CASE Tick
  BY <1>24
  DEF Tick, MayTick, NoHandler, runtimeVars, fsVars, linkVars, activeVars,
      missedVars, handlerVars, scanVars, sweepVars, boundVars
<1>25. CASE UNCHANGED vars
  BY <1>25
  DEF vars, runtimeVars, fsVars, linkVars, activeVars, missedVars,
      handlerVars, scanVars, sweepVars, boundVars
<1> QED
  BY <1>1, <1>2, <1>3, <1>4, <1>5, <1>6, <1>7, <1>8, <1>9, <1>10, <1>11,
     <1>12, <1>13, <1>14, <1>15, <1>16, <1>17, <1>18, <1>19, <1>20, <1>21,
     <1>22, <1>23, <1>24, <1>25
  DEF Next, Handler, ScanStep, SweepStep

\* A sweep cannot start before the first Synchronize: the process would have
\* given up on its connection earlier (nriGiveUp against the interval).
LEMMA LinkStep ==
    TypeOK /\ LinkInv /\ [Next]_vars => LinkInv'
<1> SUFFICES ASSUME TypeOK, LinkInv, [Next]_vars
             PROVE  LinkInv'
  OBVIOUS
<1> USE TimingAssumption
        DEF TypeOK, LinkInv
<1>1. ASSUME NEW c \in Container, RuntimeCreate(c) PROVE LinkInv'
  BY <1>1
  DEF RuntimeCreate, runtimeVars, fsVars, linkVars, activeVars, missedVars,
      handlerVars, scanVars, sweepVars, boundVars
<1>2. ASSUME NEW c \in Container, RuntimeRemove(c) PROVE LinkInv'
  BY <1>2
  DEF RuntimeRemove, runtimeVars, fsVars, linkVars, activeVars, missedVars,
      handlerVars, scanVars, sweepVars, boundVars
<1>3. ASSUME NEW c \in Container, CreateDecide(c) PROVE LinkInv'
  BY <1>3
  DEF CreateDecide, Answer, runtimeVars, fsVars, linkVars, activeVars,
      missedVars, handlerVars, scanVars, sweepVars, boundVars
<1>4. ASSUME NEW c \in Container, CreateStage(c) PROVE LinkInv'
  BY <1>4
  DEF CreateStage, runtimeVars, fsVars, linkVars, activeVars, missedVars,
      handlerVars, scanVars, sweepVars, boundVars
<1>5. ASSUME NEW c \in Container, CreateStageFails(c) PROVE LinkInv'
  BY <1>5
  DEF CreateStageFails, Answer, CleanupDir, runtimeVars, fsVars, linkVars,
      activeVars, missedVars, handlerVars, scanVars, sweepVars, boundVars
<1>6. ASSUME NEW c \in Container, CreateTrack(c) PROVE LinkInv'
  BY <1>6
  DEF CreateTrack, Answer, runtimeVars, fsVars, linkVars, activeVars,
      missedVars, handlerVars, scanVars, sweepVars, boundVars
<1>7. ASSUME NEW c \in Container, RemoveUntrack(c) PROVE LinkInv'
  BY <1>7
  DEF RemoveUntrack, runtimeVars, fsVars, linkVars, activeVars, missedVars,
      handlerVars, scanVars, sweepVars, boundVars
<1>8. ASSUME NEW c \in Container, RemoveCleanup(c) PROVE LinkInv'
  BY <1>8
  DEF RemoveCleanup, CleanupDir, runtimeVars, fsVars, linkVars, activeVars,
      missedVars, handlerVars, scanVars, sweepVars, boundVars
<1>9. ASSUME NEW c \in Container, SweepCheck(c) PROVE LinkInv'
  BY <1>9
  DEF SweepCheck, Orphan, runtimeVars, fsVars, linkVars, activeVars,
      missedVars, handlerVars, scanVars, sweepVars, boundVars
<1>10. CASE Synchronize
  BY <1>10
  DEF Synchronize, AdoptStagedContainers, Listed, Running, runtimeVars,
      fsVars, linkVars, activeVars, missedVars, handlerVars, scanVars,
      sweepVars, boundVars
<1>11. CASE SweepStart
  BY <1>11
  DEF SweepStart, runtimeVars, fsVars, linkVars, activeVars, missedVars,
      handlerVars, scanVars, sweepVars, boundVars
<1>12. CASE SweepRemove
  BY <1>12
  DEF SweepRemove, CleanupDir, runtimeVars, fsVars, linkVars, activeVars,
      missedVars, handlerVars, scanVars, sweepVars, boundVars
<1>13. CASE SweepEnd
  BY <1>13
  DEF SweepEnd, runtimeVars, fsVars, linkVars, activeVars, missedVars,
      handlerVars, scanVars, sweepVars, boundVars
<1>14. CASE ConnectionLost
  BY <1>14
  DEF ConnectionLost, Abandon, runtimeVars, fsVars, linkVars, activeVars,
      missedVars, handlerVars, scanVars, sweepVars, boundVars
<1>15. CASE Exit
  BY <1>15
  DEF Exit, ProcessGone, Abandon, runtimeVars, fsVars, linkVars, activeVars,
      missedVars, handlerVars, scanVars, sweepVars, boundVars
<1>16. CASE GiveUpExit
  BY <1>16
  DEF GiveUpExit, ProcessGone, Abandon, runtimeVars, fsVars, linkVars,
      activeVars, missedVars, handlerVars, scanVars, sweepVars, boundVars
<1>17. CASE Restart
  BY <1>17
  DEF Restart, runtimeVars, fsVars, linkVars, activeVars, missedVars,
      handlerVars, scanVars, sweepVars, boundVars
<1>18. CASE Tick
  BY <1>18
  DEF Tick, MayTick, NoHandler, runtimeVars, fsVars, linkVars, activeVars,
      missedVars, handlerVars, scanVars, sweepVars, boundVars
<1>19. CASE UNCHANGED <<alive, ready, synced, failFor, sweepAge, sweepPc,
                        creating, removing>>
  BY <1>19
<1> QED
  BY <1>1, <1>2, <1>3, <1>4, <1>5, <1>6, <1>7, <1>8, <1>9, <1>10, <1>11,
     <1>12, <1>13, <1>14, <1>15, <1>16, <1>17, <1>18, <1>19
  DEF Next, Handler, ScanStep, SweepStep, RuntimeStart, ScanAbort, ScanClear,
      ScanSetGauge, ScanCheck, ScanStore, vars, runtimeVars, fsVars, linkVars,
      activeVars, missedVars, handlerVars, scanVars, sweepVars, boundVars

\* Every step keeps the handlers in line with the runtime.
LEMMA LifeStep ==
    TypeOK /\ LifeInv /\ [Next]_vars => LifeInv'
<1> SUFFICES ASSUME TypeOK, LifeInv, [Next]_vars
             PROVE  LifeInv'
  OBVIOUS
<1> USE DEF TypeOK, LifeInv, Handling
<1>1. ASSUME NEW c \in Container, RuntimeCreate(c) PROVE LifeInv'
  BY <1>1
  DEF RuntimeCreate, runtimeVars, fsVars, linkVars, activeVars, missedVars,
      handlerVars, scanVars, sweepVars, boundVars
<1>2. ASSUME NEW c \in Container, RuntimeStart(c) PROVE LifeInv'
  BY <1>2
  DEF RuntimeStart, runtimeVars, fsVars, linkVars, activeVars, missedVars,
      handlerVars, scanVars, sweepVars, boundVars
<1>3. ASSUME NEW c \in Container, RuntimeRemove(c) PROVE LifeInv'
  BY <1>3
  DEF RuntimeRemove, runtimeVars, fsVars, linkVars, activeVars, missedVars,
      handlerVars, scanVars, sweepVars, boundVars
<1>4. ASSUME NEW c \in Container, CreateDecide(c) PROVE LifeInv'
  BY <1>4
  DEF CreateDecide, Answer, runtimeVars, fsVars, linkVars, activeVars,
      missedVars, handlerVars, scanVars, sweepVars, boundVars
<1>5. ASSUME NEW c \in Container, CreateStage(c) PROVE LifeInv'
  BY <1>5
  DEF CreateStage, runtimeVars, fsVars, linkVars, activeVars, missedVars,
      handlerVars, scanVars, sweepVars, boundVars
<1>6. ASSUME NEW c \in Container, CreateStageFails(c) PROVE LifeInv'
  BY <1>6
  DEF CreateStageFails, Answer, CleanupDir, runtimeVars, fsVars, linkVars,
      activeVars, missedVars, handlerVars, scanVars, sweepVars, boundVars
<1>7. ASSUME NEW c \in Container, CreateTrack(c) PROVE LifeInv'
  BY <1>7
  DEF CreateTrack, Answer, runtimeVars, fsVars, linkVars, activeVars,
      missedVars, handlerVars, scanVars, sweepVars, boundVars
<1>8. ASSUME NEW c \in Container, RemoveUntrack(c) PROVE LifeInv'
  BY <1>8
  DEF RemoveUntrack, runtimeVars, fsVars, linkVars, activeVars, missedVars,
      handlerVars, scanVars, sweepVars, boundVars
<1>9. ASSUME NEW c \in Container, RemoveCleanup(c) PROVE LifeInv'
  BY <1>9
  DEF RemoveCleanup, CleanupDir, runtimeVars, fsVars, linkVars, activeVars,
      missedVars, handlerVars, scanVars, sweepVars, boundVars
<1>10. CASE SweepRemove
  BY <1>10
  DEF SweepRemove, CleanupDir, runtimeVars, fsVars, linkVars, activeVars,
      missedVars, handlerVars, scanVars, sweepVars, boundVars
<1>11. CASE ConnectionLost
  BY <1>11
  DEF ConnectionLost, Abandon, runtimeVars, fsVars, linkVars, activeVars,
      missedVars, handlerVars, scanVars, sweepVars, boundVars
<1>12. CASE Exit
  BY <1>12
  DEF Exit, ProcessGone, Abandon, runtimeVars, fsVars, linkVars, activeVars,
      missedVars, handlerVars, scanVars, sweepVars, boundVars
<1>13. CASE GiveUpExit
  BY <1>13
  DEF GiveUpExit, ProcessGone, Abandon, runtimeVars, fsVars, linkVars,
      activeVars, missedVars, handlerVars, scanVars, sweepVars, boundVars
<1>14. CASE UNCHANGED <<life, creating, removing, dir, hooked>>
  BY <1>14
<1> QED
  BY <1>1, <1>2, <1>3, <1>4, <1>5, <1>6, <1>7, <1>8, <1>9, <1>10, <1>11,
     <1>12, <1>13, <1>14
  DEF Next, Handler, ScanStep, SweepStep, SweepCheck, ScanAbort, ScanClear,
      ScanSetGauge, ScanCheck, ScanStore, Synchronize, SweepStart, SweepEnd,
      Restart, Tick, vars, runtimeVars, fsVars, linkVars, activeVars,
      missedVars, handlerVars, scanVars, sweepVars, boundVars

\* Every step keeps what CreateContainer has on disk.
LEMMA StageStep ==
    TypeOK /\ LifeInv /\ StageInv /\ SweepInv /\ [Next]_vars => StageInv'
<1> SUFFICES ASSUME TypeOK, LifeInv, StageInv, SweepInv, [Next]_vars
             PROVE  StageInv'
  OBVIOUS
<1> USE TimingAssumption
        DEF TypeOK, LifeInv, StageInv, SweepInv, Handling
<1>1. ASSUME NEW c \in Container, RuntimeCreate(c) PROVE StageInv'
  BY <1>1
  DEF RuntimeCreate, runtimeVars, fsVars, linkVars, activeVars, missedVars,
      handlerVars, scanVars, sweepVars, boundVars
<1>2. ASSUME NEW c \in Container, RuntimeStart(c) PROVE StageInv'
  BY <1>2
  DEF RuntimeStart, runtimeVars, fsVars, linkVars, activeVars, missedVars,
      handlerVars, scanVars, sweepVars, boundVars
<1>3. ASSUME NEW c \in Container, RuntimeRemove(c) PROVE StageInv'
  BY <1>3
  DEF RuntimeRemove, runtimeVars, fsVars, linkVars, activeVars, missedVars,
      handlerVars, scanVars, sweepVars, boundVars
<1>4. ASSUME NEW c \in Container, CreateDecide(c) PROVE StageInv'
  BY <1>4
  DEF CreateDecide, Answer, runtimeVars, fsVars, linkVars, activeVars,
      missedVars, handlerVars, scanVars, sweepVars, boundVars
<1>5. ASSUME NEW c \in Container, CreateStage(c) PROVE StageInv'
  BY <1>5
  DEF CreateStage, runtimeVars, fsVars, linkVars, activeVars, missedVars,
      handlerVars, scanVars, sweepVars, boundVars
<1>6. ASSUME NEW c \in Container, CreateStageFails(c) PROVE StageInv'
  BY <1>6
  DEF CreateStageFails, Answer, CleanupDir, runtimeVars, fsVars, linkVars,
      activeVars, missedVars, handlerVars, scanVars, sweepVars, boundVars
<1>7. ASSUME NEW c \in Container, CreateTrack(c) PROVE StageInv'
  BY <1>7
  DEF CreateTrack, Answer, runtimeVars, fsVars, linkVars, activeVars,
      missedVars, handlerVars, scanVars, sweepVars, boundVars
<1>8. ASSUME NEW c \in Container, RemoveCleanup(c) PROVE StageInv'
  BY <1>8
  DEF RemoveCleanup, CleanupDir, runtimeVars, fsVars, linkVars, activeVars,
      missedVars, handlerVars, scanVars, sweepVars, boundVars
<1>9. CASE SweepRemove
  BY <1>9
  DEF SweepRemove, CleanupDir, runtimeVars, fsVars, linkVars, activeVars,
      missedVars, handlerVars, scanVars, sweepVars, boundVars
<1>10. CASE ConnectionLost
  BY <1>10
  DEF ConnectionLost, Abandon, runtimeVars, fsVars, linkVars, activeVars,
      missedVars, handlerVars, scanVars, sweepVars, boundVars
<1>11. CASE Exit
  BY <1>11
  DEF Exit, ProcessGone, Abandon, runtimeVars, fsVars, linkVars, activeVars,
      missedVars, handlerVars, scanVars, sweepVars, boundVars
<1>12. CASE GiveUpExit
  BY <1>12
  DEF GiveUpExit, ProcessGone, Abandon, runtimeVars, fsVars, linkVars,
      activeVars, missedVars, handlerVars, scanVars, sweepVars, boundVars
<1>13. CASE Tick
  BY <1>13
  DEF Tick, MayTick, NoHandler, runtimeVars, fsVars, linkVars, activeVars,
      missedVars, handlerVars, scanVars, sweepVars, boundVars
<1>14. CASE UNCHANGED <<life, creating, dir, dirAge>>
  BY <1>14
<1> QED
  BY <1>1, <1>2, <1>3, <1>4, <1>5, <1>6, <1>7, <1>8, <1>9, <1>10, <1>11,
     <1>12, <1>13, <1>14
  DEF Next, Handler, ScanStep, SweepStep, RemoveUntrack, SweepCheck,
      ScanAbort, ScanClear, ScanSetGauge, ScanCheck, ScanStore, Synchronize,
      SweepStart, SweepEnd, Restart, vars, runtimeVars, fsVars, linkVars,
      activeVars, missedVars, handlerVars, scanVars, sweepVars, boundVars

\* No step takes a live injected container's directory or untracks it.
LEMMA KeepStep ==
    TypeOK /\ LinkInv /\ LifeInv /\ StageInv /\ KeepInv /\ SweepInv /\
    [Next]_vars => KeepInv'
<1> SUFFICES ASSUME TypeOK, LinkInv, LifeInv, StageInv, KeepInv, SweepInv,
                    [Next]_vars
             PROVE  KeepInv'
  OBVIOUS
<1> USE TimingAssumption
        DEF TypeOK, LinkInv, LifeInv, StageInv, KeepInv, SweepInv, Handling,
            Live, LiveKeepsDir
<1>1. ASSUME NEW c \in Container, RuntimeCreate(c) PROVE KeepInv'
  BY <1>1
  DEF RuntimeCreate, runtimeVars, fsVars, linkVars, activeVars, missedVars,
      handlerVars, scanVars, sweepVars, boundVars
<1>2. ASSUME NEW c \in Container, RuntimeStart(c) PROVE KeepInv'
  BY <1>2
  DEF RuntimeStart, runtimeVars, fsVars, linkVars, activeVars, missedVars,
      handlerVars, scanVars, sweepVars, boundVars
<1>3. ASSUME NEW c \in Container, RuntimeRemove(c) PROVE KeepInv'
  BY <1>3
  DEF RuntimeRemove, runtimeVars, fsVars, linkVars, activeVars, missedVars,
      handlerVars, scanVars, sweepVars, boundVars
<1>4. ASSUME NEW c \in Container, CreateDecide(c) PROVE KeepInv'
  BY <1>4
  DEF CreateDecide, Answer, runtimeVars, fsVars, linkVars, activeVars,
      missedVars, handlerVars, scanVars, sweepVars, boundVars
<1>5. ASSUME NEW c \in Container, CreateStage(c) PROVE KeepInv'
  BY <1>5
  DEF CreateStage, runtimeVars, fsVars, linkVars, activeVars, missedVars,
      handlerVars, scanVars, sweepVars, boundVars
<1>6. ASSUME NEW c \in Container, CreateStageFails(c) PROVE KeepInv'
  BY <1>6
  DEF CreateStageFails, Answer, CleanupDir, runtimeVars, fsVars, linkVars,
      activeVars, missedVars, handlerVars, scanVars, sweepVars, boundVars
<1>7. ASSUME NEW c \in Container, CreateTrack(c) PROVE KeepInv'
  BY <1>7
  DEF CreateTrack, Answer, runtimeVars, fsVars, linkVars, activeVars,
      missedVars, handlerVars, scanVars, sweepVars, boundVars
<1>8. ASSUME NEW c \in Container, RemoveUntrack(c) PROVE KeepInv'
  BY <1>8
  DEF RemoveUntrack, runtimeVars, fsVars, linkVars, activeVars, missedVars,
      handlerVars, scanVars, sweepVars, boundVars
<1>9. ASSUME NEW c \in Container, RemoveCleanup(c) PROVE KeepInv'
  BY <1>9
  DEF RemoveCleanup, CleanupDir, runtimeVars, fsVars, linkVars, activeVars,
      missedVars, handlerVars, scanVars, sweepVars, boundVars
<1>10. CASE Synchronize
  BY <1>10
  DEF Synchronize, AdoptStagedContainers, Listed, Running, runtimeVars,
      fsVars, linkVars, activeVars, missedVars, handlerVars, scanVars,
      sweepVars, boundVars
<1>11. CASE SweepRemove
  BY <1>11
  DEF SweepRemove, CleanupDir, runtimeVars, fsVars, linkVars, activeVars,
      missedVars, handlerVars, scanVars, sweepVars, boundVars
<1>12. CASE ConnectionLost
  BY <1>12
  DEF ConnectionLost, Abandon, runtimeVars, fsVars, linkVars, activeVars,
      missedVars, handlerVars, scanVars, sweepVars, boundVars
<1>13. CASE Exit
  BY <1>13
  DEF Exit, ProcessGone, Abandon, runtimeVars, fsVars, linkVars, activeVars,
      missedVars, handlerVars, scanVars, sweepVars, boundVars
<1>14. CASE GiveUpExit
  BY <1>14
  DEF GiveUpExit, ProcessGone, Abandon, runtimeVars, fsVars, linkVars,
      activeVars, missedVars, handlerVars, scanVars, sweepVars, boundVars
<1>15. CASE UNCHANGED <<life, hooked, dir, tracked, synced>>
  BY <1>15
<1> QED
  BY <1>1, <1>2, <1>3, <1>4, <1>5, <1>6, <1>7, <1>8, <1>9, <1>10, <1>11,
     <1>12, <1>13, <1>14, <1>15
  DEF Next, Handler, ScanStep, SweepStep, SweepCheck, ScanAbort, ScanClear,
      ScanSetGauge, ScanCheck, ScanStore, SweepStart, SweepEnd, Restart, Tick,
      vars, runtimeVars, fsVars, linkVars, activeVars, missedVars,
      handlerVars, scanVars, sweepVars, boundVars

\* What the cleaner is about to remove stays unneeded.
LEMMA SweepInvStep ==
    TypeOK /\ LinkInv /\ LifeInv /\ StageInv /\ KeepInv /\ SweepInv /\
    [Next]_vars => SweepInv'
<1> SUFFICES ASSUME TypeOK, LinkInv, LifeInv, StageInv, KeepInv, SweepInv,
                    [Next]_vars
             PROVE  SweepInv'
  OBVIOUS
<1> USE TimingAssumption
        DEF TypeOK, LinkInv, LifeInv, StageInv, KeepInv, SweepInv, Handling,
            Live
<1>1. ASSUME NEW c \in Container, RuntimeCreate(c) PROVE SweepInv'
  BY <1>1
  DEF RuntimeCreate, runtimeVars, fsVars, linkVars, activeVars, missedVars,
      handlerVars, scanVars, sweepVars, boundVars
<1>2. ASSUME NEW c \in Container, RuntimeStart(c) PROVE SweepInv'
  BY <1>2
  DEF RuntimeStart, runtimeVars, fsVars, linkVars, activeVars, missedVars,
      handlerVars, scanVars, sweepVars, boundVars
<1>3. ASSUME NEW c \in Container, RuntimeRemove(c) PROVE SweepInv'
  BY <1>3
  DEF RuntimeRemove, runtimeVars, fsVars, linkVars, activeVars, missedVars,
      handlerVars, scanVars, sweepVars, boundVars
<1>4. ASSUME NEW c \in Container, CreateDecide(c) PROVE SweepInv'
  BY <1>4
  DEF CreateDecide, Answer, runtimeVars, fsVars, linkVars, activeVars,
      missedVars, handlerVars, scanVars, sweepVars, boundVars
<1>5. ASSUME NEW c \in Container, CreateStage(c) PROVE SweepInv'
  BY <1>5
  DEF CreateStage, runtimeVars, fsVars, linkVars, activeVars, missedVars,
      handlerVars, scanVars, sweepVars, boundVars
<1>6. ASSUME NEW c \in Container, CreateStageFails(c) PROVE SweepInv'
  BY <1>6
  DEF CreateStageFails, Answer, CleanupDir, runtimeVars, fsVars, linkVars,
      activeVars, missedVars, handlerVars, scanVars, sweepVars, boundVars
<1>7. ASSUME NEW c \in Container, CreateTrack(c) PROVE SweepInv'
  BY <1>7
  DEF CreateTrack, Answer, runtimeVars, fsVars, linkVars, activeVars,
      missedVars, handlerVars, scanVars, sweepVars, boundVars
<1>8. ASSUME NEW c \in Container, SweepCheck(c) PROVE SweepInv'
  BY <1>8
  DEF SweepCheck, Orphan, runtimeVars, fsVars, linkVars, activeVars,
      missedVars, handlerVars, scanVars, sweepVars, boundVars
<1>9. CASE SweepStart
  BY <1>9
  DEF SweepStart, runtimeVars, fsVars, linkVars, activeVars, missedVars,
      handlerVars, scanVars, sweepVars, boundVars
<1>10. CASE SweepRemove
  BY <1>10
  DEF SweepRemove, CleanupDir, runtimeVars, fsVars, linkVars, activeVars,
      missedVars, handlerVars, scanVars, sweepVars, boundVars
<1>11. CASE SweepEnd
  BY <1>11
  DEF SweepEnd, runtimeVars, fsVars, linkVars, activeVars, missedVars,
      handlerVars, scanVars, sweepVars, boundVars
<1>12. CASE ConnectionLost
  BY <1>12
  DEF ConnectionLost, Abandon, runtimeVars, fsVars, linkVars, activeVars,
      missedVars, handlerVars, scanVars, sweepVars, boundVars
<1>13. CASE Exit
  BY <1>13
  DEF Exit, ProcessGone, Abandon, runtimeVars, fsVars, linkVars, activeVars,
      missedVars, handlerVars, scanVars, sweepVars, boundVars
<1>14. CASE GiveUpExit
  BY <1>14
  DEF GiveUpExit, ProcessGone, Abandon, runtimeVars, fsVars, linkVars,
      activeVars, missedVars, handlerVars, scanVars, sweepVars, boundVars
<1>15. CASE UNCHANGED <<life, creating, hooked, sweepPc, sweepTarget>>
  BY <1>15
<1> QED
  BY <1>1, <1>2, <1>3, <1>4, <1>5, <1>6, <1>7, <1>8, <1>9, <1>10, <1>11,
     <1>12, <1>13, <1>14, <1>15
  DEF Next, Handler, ScanStep, SweepStep, RemoveUntrack, RemoveCleanup,
      ScanAbort, ScanClear, ScanSetGauge, ScanCheck, ScanStore, Synchronize,
      Restart, Tick, vars, runtimeVars, fsVars, linkVars, activeVars,
      missedVars, handlerVars, scanVars, sweepVars, boundVars

\* No step makes a scan or the missed set hold an injected container.
LEMMA ScanInvStep ==
    TypeOK /\ LifeInv /\ KeepInv /\ SweepInv /\ ScanInv /\ [Next]_vars =>
    ScanInv'
<1> SUFFICES ASSUME TypeOK, LifeInv, KeepInv, SweepInv, ScanInv, [Next]_vars
             PROVE  ScanInv'
  OBVIOUS
<1> USE DEF TypeOK, LifeInv, KeepInv, SweepInv, ScanInv, Handling, Live,
            LiveKeepsDir, NoFalseMissed
<1>1. ASSUME NEW c \in Container, RuntimeCreate(c) PROVE ScanInv'
  BY <1>1
  DEF RuntimeCreate, runtimeVars, fsVars, linkVars, activeVars, missedVars,
      handlerVars, scanVars, sweepVars, boundVars
<1>2. ASSUME NEW c \in Container, RuntimeStart(c) PROVE ScanInv'
  <2>1. life[c] = "created"
    BY <1>2 DEF RuntimeStart
  <2>2. c \notin missed
    BY <2>1
  <2>3. ASSUME NEW s \in Scan PROVE c \notin scanRun[s] /\ c \notin scanKeys[s]
    BY <2>1
  <2>4. \A d \in Container \ {c} : life'[d] = life[d]
    BY <1>2 DEF RuntimeStart
  <2>5. /\ injected' \subseteq hooked /\ injected' \subseteq injected \cup {c}
        /\ done \subseteq done' /\ hooked' = hooked /\ missed' = missed
        /\ UNCHANGED <<scanPc, scanRun, scanTodo, scanKeys>>
    BY <1>2 DEF RuntimeStart, missedVars, scanVars
  <2>6. c \in injected' => c \in done'
    BY <1>2 DEF RuntimeStart
  <2> QED
    BY <2>2, <2>3, <2>4, <2>5, <2>6
<1>3. ASSUME NEW c \in Container, RuntimeRemove(c) PROVE ScanInv'
  BY <1>3
  DEF RuntimeRemove, runtimeVars, fsVars, linkVars, activeVars, missedVars,
      handlerVars, scanVars, sweepVars, boundVars
<1>4. ASSUME NEW c \in Container, CreateDecide(c) PROVE ScanInv'
  BY <1>4
  DEF CreateDecide, Answer, runtimeVars, fsVars, linkVars, activeVars,
      missedVars, handlerVars, scanVars, sweepVars, boundVars
<1>5. ASSUME NEW c \in Container, CreateStage(c) PROVE ScanInv'
  BY <1>5
  DEF CreateStage, runtimeVars, fsVars, linkVars, activeVars, missedVars,
      handlerVars, scanVars, sweepVars, boundVars
<1>6. ASSUME NEW c \in Container, CreateStageFails(c) PROVE ScanInv'
  BY <1>6
  DEF CreateStageFails, Answer, CleanupDir, runtimeVars, fsVars, linkVars,
      activeVars, missedVars, handlerVars, scanVars, sweepVars, boundVars
<1>7. ASSUME NEW c \in Container, CreateTrack(c) PROVE ScanInv'
  BY <1>7
  DEF CreateTrack, Answer, runtimeVars, fsVars, linkVars, activeVars,
      missedVars, handlerVars, scanVars, sweepVars, boundVars
<1>8. ASSUME NEW c \in Container, RemoveUntrack(c) PROVE ScanInv'
  BY <1>8
  DEF RemoveUntrack, runtimeVars, fsVars, linkVars, activeVars, missedVars,
      handlerVars, scanVars, sweepVars, boundVars
<1>9. ASSUME NEW c \in Container, RemoveCleanup(c) PROVE ScanInv'
  BY <1>9
  DEF RemoveCleanup, CleanupDir, runtimeVars, fsVars, linkVars, activeVars,
      missedVars, handlerVars, scanVars, sweepVars, boundVars
<1>10. ASSUME NEW s \in Scan, ScanAbort(s) PROVE ScanInv'
  BY <1>10
  DEF ScanAbort, ScanEnd, runtimeVars, fsVars, linkVars, activeVars,
      missedVars, handlerVars, scanVars, sweepVars, boundVars
<1>11. ASSUME NEW s \in Scan, ScanClear(s) PROVE ScanInv'
  <2>1. /\ missed' = {}
        /\ UNCHANGED <<life, hooked, injected, done, scanRun, scanKeys>>
    BY <1>11 DEF ScanClear, runtimeVars, fsVars
  <2>2. \A t \in Scan :
          /\ t # s => scanTodo'[t] = scanTodo[t] /\ scanPc'[t] = scanPc[t]
          /\ t = s => scanTodo'[t] = scanKeys[t]
    BY <1>11 DEF ScanClear
  <2>3. ASSUME NEW t \in Scan, NEW c \in Container, c \in scanTodo'[t]
        PROVE  scanPc'[t] = "store" => c \in scanKeys[t]
    BY <2>2, <2>3
  <2> QED
    BY <2>1, <2>3
<1>12. ASSUME NEW s \in Scan, ScanSetGauge(s) PROVE ScanInv'
  BY <1>12
  DEF ScanSetGauge, ScanEnd, runtimeVars, fsVars, linkVars, activeVars,
      missedVars, handlerVars, scanVars, sweepVars, boundVars
<1>13. ASSUME NEW s \in Scan, NEW c \in Container, ScanCheck(s, c)
       PROVE  ScanInv'
  BY <1>13
  DEF ScanCheck, runtimeVars, fsVars, linkVars, activeVars, missedVars,
      handlerVars, scanVars, sweepVars, boundVars
<1>14. ASSUME NEW s \in Scan, NEW c \in Container, ScanStore(s, c)
       PROVE  ScanInv'
  BY <1>14
  DEF ScanStore, runtimeVars, fsVars, linkVars, activeVars, missedVars,
      handlerVars, scanVars, sweepVars, boundVars
<1>15. CASE Synchronize
  BY <1>15
  DEF Synchronize, AdoptStagedContainers, Listed, Running, runtimeVars,
      fsVars, linkVars, activeVars, missedVars, handlerVars, scanVars,
      sweepVars, boundVars
<1>16. CASE SweepRemove
  BY <1>16
  DEF SweepRemove, CleanupDir, runtimeVars, fsVars, linkVars, activeVars,
      missedVars, handlerVars, scanVars, sweepVars, boundVars
<1>17. CASE ConnectionLost
  BY <1>17
  DEF ConnectionLost, Abandon, runtimeVars, fsVars, linkVars, activeVars,
      missedVars, handlerVars, scanVars, sweepVars, boundVars
<1>18. CASE Exit
  BY <1>18
  DEF Exit, ProcessGone, Abandon, runtimeVars, fsVars, linkVars, activeVars,
      missedVars, handlerVars, scanVars, sweepVars, boundVars
<1>19. CASE GiveUpExit
  BY <1>19
  DEF GiveUpExit, ProcessGone, Abandon, runtimeVars, fsVars, linkVars,
      activeVars, missedVars, handlerVars, scanVars, sweepVars, boundVars
<1>20. CASE UNCHANGED <<life, hooked, injected, done, missed, scanPc,
                        scanRun, scanTodo, scanKeys>>
  BY <1>20
<1> QED
  BY <1>1, <1>2, <1>3, <1>4, <1>5, <1>6, <1>7, <1>8, <1>9, <1>10, <1>11,
     <1>12, <1>13, <1>14, <1>15, <1>16, <1>17, <1>18, <1>19, <1>20
  DEF Next, Handler, ScanStep, SweepStep, SweepCheck, SweepStart, SweepEnd,
      Restart, Tick, vars, runtimeVars, fsVars, linkVars, activeVars,
      missedVars, handlerVars, scanVars, sweepVars, boundVars

\* The inductive invariant holds initially.
LEMMA InvInit == Init => IInv
<1> SUFFICES ASSUME Init PROVE IInv
  OBVIOUS
<1>1. TypeOK
  BY TypeInit
<1>2. LinkInv /\ LifeInv /\ StageInv
  BY DEF Init, LinkInv, LifeInv, StageInv
<1>3. KeepInv /\ SweepInv
  BY DEF Init, KeepInv, SweepInv, LiveKeepsDir
<1>4. ScanInv
  BY DEF Init, ScanInv, NoFalseMissed
<1> QED
  BY <1>1, <1>2, <1>3, <1>4 DEF IInv

\* The inductive invariant is preserved.
LEMMA InvStep == IInv /\ [Next]_vars => IInv'
BY TypeStep, LinkStep, LifeStep, StageStep, KeepStep, SweepInvStep, ScanInvStep
DEF IInv

\* The inductive invariant holds in every reachable state of the plugin.
THEOREM Invariance == Spec => []IInv
<1>1. Init => IInv
  BY InvInit
<1>2. IInv /\ [Next]_vars => IInv'
  BY InvStep
<1> QED
  BY <1>1, <1>2, PTL DEF Spec

\* Every variable keeps its type; in particular the process never goes on for
\* more than GiveUp + 1 ticks without a connection.
THEOREM TypeCorrect == Spec => []TypeOK
<1>1. IInv => TypeOK
  BY DEF IInv
<1> QED
  BY <1>1, Invariance, PTL

\* No restart, reconnect, late handler or sweep takes the staged CA directory
\* of a container that was created with the plugin's adjustment and still
\* exists (adoptStagedContainers, sweep, RemoveContainer).
THEOREM LiveDirSafe == Spec => []LiveKeepsDir
<1>1. IInv => LiveKeepsDir
  BY DEF IInv, KeepInv
<1> QED
  BY <1>1, Invariance, PTL

\* A running container whose hook ran to its end is never in p.missed.
THEOREM MissedSound == Spec => []NoFalseMissed
<1>1. IInv => NoFalseMissed
  BY DEF IInv, ScanInv
<1> QED
  BY <1>1, Invariance, PTL

=============================================================================
