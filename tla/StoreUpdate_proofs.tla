------------------------- MODULE StoreUpdate_proofs -------------------------
(***************************************************************************)
(* What AtomicWrite and ResolveSymlinks guarantee for every tree, every    *)
(* content and any number of failures, kills, power failures and runs.     *)
(* TrustStore's operators are never expanded: what merging does is said by *)
(* the theorems of TrustStore_proofs.                                      *)
(***************************************************************************)
EXTENDS StoreUpdate, TrustStore_proofs

Typed == TypeOK /\ job \in Jobs

USE DEF Ended

-----------------------------------------------------------------------------
(* Types                                                                   *)

LEMMA TypedInit == Init => Typed
  BY JobsAssumption, BoundsAssumption DEF Init, Typed, TypeOK, IsTree

LEMMA TypedStep == Typed /\ [Next]_vars => Typed'
  <1> SUFFICES ASSUME Typed, [Next]_vars PROVE Typed'
      OBVIOUS
  <1>0. job.faults \in Nat /\ job.crashes \in Nat
        BY JobsAssumption DEF Typed
  <1> USE <1>0, BoundsAssumption DEF Typed, TypeOK, diskVars, resolveVars,
          boundVars
  <1>1. CASE Start
        BY <1>1 DEF Start, BeginResolve
  <1>2. CASE ResolveMissing
        BY <1>2 DEF ResolveMissing
  <1>3. CASE ResolvePlain
        BY <1>3 DEF ResolvePlain
  <1>4. CASE ResolveLink
        BY <1>4 DEF ResolveLink, HopsLeft, NextHops
  <1>5. CASE ResolveFails
        BY <1>5 DEF ResolveFails, Resolving, Fault, Return
  <1>6. CASE ResolveEnds
        BY <1>6 DEF ResolveEnds
  <1>7. CASE ReadFile
        BY <1>7 DEF ReadFile
  <1>8. CASE ReadFails
        BY <1>8 DEF ReadFails, Fault, Return
  <1>9. CASE MergeFails
        BY <1>9 DEF MergeFails, Fault, Return
  <1>10. CASE MergeNothing
        BY <1>10 DEF MergeNothing, Return
  <1>11. CASE MergeStore
        BY <1>11 DEF MergeStore, BeginResolve
  <1>12. CASE MkdirAll
        BY <1>12 DEF MkdirAll
  <1>13. CASE RefuseSymlink
        BY <1>13 DEF RefuseSymlink, Return
  <1>14. CASE CreateTemp
        BY <1>14 DEF CreateTemp
  <1>15. CASE WriteTemp
        BY <1>15 DEF WriteTemp, OnTemp
  <1>16. CASE Chmod \/ StatFails
        BY <1>16 DEF Chmod, StatFails, Fault, OnTemp
  <1>17. CASE Chown
        BY <1>17 DEF Chown, OnTemp
  <1>18. CASE Sync
        BY <1>18 DEF Sync, OnTemp
  <1>19. CASE Rename
        BY <1>19 DEF Rename, Put
  <1>20. CASE SyncDir
        BY <1>20 DEF SyncDir, Fault
  <1>21. CASE PrepareFails
        BY <1>21 DEF PrepareFails, Fault, Return
  <1>22. CASE TempFails
        BY <1>22 DEF TempFails, Fault
  <1>23. CASE Cleanup
        BY <1>23 DEF Cleanup, Fault, Return
  <1>24. CASE Kill
        BY <1>24 DEF Kill, Crash
  <1>25. CASE PowerLoss
        BY <1>25 DEF PowerLoss, Crash, Surviving
  <1>26. CASE Rerun
        BY <1>26 DEF Rerun
  <1>27. CASE UNCHANGED vars
        BY <1>27 DEF vars
  <1> QED
      BY <1>1, <1>2, <1>3, <1>4, <1>5, <1>6, <1>7, <1>8, <1>9, <1>10, <1>11,
         <1>12, <1>13, <1>14, <1>15, <1>16, <1>17, <1>18, <1>19, <1>20, <1>21,
         <1>22, <1>23, <1>24, <1>25, <1>26, <1>27
         DEF Next, Hook, Resolve, Replace, Over

\* The variables of the update keep their types: the hops never exceed
\* maxSymlinkHops, every failure and crash stays in its bound.
THEOREM TypeCorrect == Spec => []TypeOK
  <1>1. Typed => TypeOK
        BY DEF Typed
  <1> QED
      BY <1>1, TypedInit, TypedStep, PTL DEF Spec

-----------------------------------------------------------------------------
(* The file is whole                                                       *)

Stable(t) ==
    \A p \in DOMAIN t : t[p].kind = "file" => t[p].whole /\ t[p].synced

FileFields == {"kind", "data", "mode", "owner", "whole", "synced"}

IsFile(f) == f = [x \in FileFields |-> f[x]] /\ f.kind = "file"

\* Every file of every tree is on the disk, because the temporary file is
\* before it is renamed.
Durable ==
    /\ Stable(tree) /\ \A t \in earlier : Stable(t)
    /\ \A f \in tmp :
         /\ IsFile(f)
         /\ pc \in {"chmod", "chown", "sync", "rename"} => f.whole
         /\ pc = "rename" => f.synced

LEMMA DurableInit == Init => Durable
  BY JobsAssumption DEF Init, Durable, Stable

\* The steps that touch neither a tree nor the temporary file, and do not
\* lead to a call on it.
Aside ==
    /\ UNCHANGED diskVars
    /\ pc' \in {"start", "resolve", "read", "merge", "mkdir", "lstat", "create",
               "dirsync", "cleanup"} \cup Ended

LEMMA AsideSteps ==
    ASSUME Typed,
           \/ Start \/ Resolve \/ ReadFile \/ ReadFails \/ MergeFails
           \/ MergeNothing \/ MergeStore \/ RefuseSymlink \/ PrepareFails
           \/ TempFails \/ Kill
    PROVE  Aside
  <1>1. CASE Resolve
        BY <1>1 DEF Resolve, ResolveMissing, ResolvePlain, ResolveLink,
           ResolveFails, ResolveEnds, Resolving, Return, Aside, diskVars
  <1> QED
      BY <1>1 DEF Start, ReadFile, ReadFails, MergeFails, MergeNothing,
         MergeStore, RefuseSymlink, PrepareFails, TempFails, Kill,
         BeginResolve, Return, Aside, diskVars

LEMMA DurableStep == Typed /\ Durable /\ [Next]_vars => Durable'
  <1> SUFFICES ASSUME Typed, Durable, [Next]_vars PROVE Durable'
      OBVIOUS
  <1>1. CASE Aside
        BY <1>1 DEF Aside, Durable, diskVars
  <1>2. CASE MkdirAll
        BY <1>2 DEF MkdirAll, Durable, Stable
  <1>3. CASE CreateTemp
        BY <1>3 DEF CreateTemp, Durable, IsFile, FileFields
  <1>4. CASE WriteTemp
        BY <1>4 DEF WriteTemp, OnTemp, Durable, IsFile, FileFields
  <1>5. CASE Chmod \/ StatFails
        BY <1>5 DEF Chmod, StatFails, OnTemp, Durable, IsFile, FileFields
  <1>6. CASE Chown
        BY <1>6 DEF Chown, OnTemp, Durable, IsFile, FileFields
  <1>7. CASE Sync
        BY <1>7 DEF Sync, OnTemp, Durable, IsFile, FileFields
  <1>8. CASE Rename
        BY <1>8 DEF Rename, Put, Durable, Stable, IsFile
  <1>9. CASE SyncDir \/ Cleanup \/ Rerun
        BY <1>9 DEF SyncDir, WithoutDir, Cleanup, Rerun, Return, Durable, Typed,
           TypeOK
  <1>10. CASE PowerLoss
        BY <1>10 DEF PowerLoss, Surviving, Durable, Stable
  <1>11. CASE UNCHANGED vars
        BY <1>11 DEF vars, diskVars, Durable
  <1> QED
      BY <1>1, <1>2, <1>3, <1>4, <1>5, <1>6, <1>7, <1>8, <1>9, <1>10, <1>11,
         AsideSteps DEF Next, Hook, Replace, Over

\* For any number of failed calls, kills, power failures and runs, no file of
\* the root file system is ever half written, and none comes back so after a
\* power failure (AtomicWrite).
THEOREM FilesWhole == Spec => []NeverTorn
  <1>1. Durable => NeverTorn
        BY DEF Durable, NeverTorn, Stable, Whole
  <1> QED
      BY <1>1, TypedInit, TypedStep, DurableInit, DurableStep, PTL DEF Spec

-----------------------------------------------------------------------------
(* Links                                                                   *)

Keeps(t) ==
    \A p \in DOMAIN job.tree :
        job.tree[p].kind = "link" => p \in DOMAIN t /\ t[p] = job.tree[p]

\* The links are in every tree a power failure may bring back, and from
\* RefuseSymlink to Rename the path that is replaced is not a link.
Spared ==
    /\ Keeps(tree) /\ \A t \in earlier : Keeps(t)
    /\ pc \in {"create", "write", "chmod", "chown", "sync", "rename"} =>
         Lstat(tree, resolved) # "link"

LEMMA SparedInit == Init => Spared
  BY JobsAssumption DEF Init, Spared, Keeps

LEMMA SparedStep == Typed /\ Spared /\ [Next]_vars => Spared'
  <1> SUFFICES ASSUME Typed, Spared, [Next]_vars PROVE Spared'
      OBVIOUS
  <1> USE DEF diskVars, resolveVars
  <1>1. CASE Start \/ MergeStore
        BY <1>1 DEF Start, MergeStore, BeginResolve, Spared, Keeps
  <1>2. CASE Resolve
        BY <1>2 DEF Resolve, ResolveMissing, ResolvePlain, ResolveLink,
           ResolveFails, ResolveEnds, Resolving, Return, Spared, Keeps
  <1>3. CASE \/ ReadFile \/ ReadFails \/ MergeFails \/ MergeNothing
             \/ PrepareFails \/ TempFails \/ Kill
        BY <1>3 DEF ReadFile, ReadFails, MergeFails, MergeNothing,
           PrepareFails, TempFails, Kill, Return, Spared, Keeps
  <1>4. CASE MkdirAll
        BY <1>4 DEF MkdirAll, Spared, Keeps
  <1>5. CASE RefuseSymlink
        BY <1>5 DEF RefuseSymlink, Return, Spared, Keeps
  <1>6. CASE CreateTemp \/ WriteTemp \/ Chmod \/ StatFails \/ Chown \/ Sync
        BY <1>6 DEF CreateTemp, WriteTemp, Chmod, StatFails, Chown, Sync,
           OnTemp, Spared, Keeps
  <1>7. CASE Rename
    <2>1. <<>> \notin DOMAIN job.tree
          BY JobsAssumption DEF Typed, IsTree
    <2>2. resolved \notin DOMAIN job.tree \/ job.tree[resolved].kind # "link"
          BY <1>7, <2>1 DEF Rename, Spared, Keeps, Lstat
    <2> QED
        BY <1>7, <2>2 DEF Rename, Put, Spared, Keeps
  <1>8. CASE SyncDir \/ Cleanup \/ Rerun
        BY <1>8 DEF SyncDir, WithoutDir, Cleanup, Rerun, Return, Spared, Keeps,
           Typed, TypeOK
  <1>9. CASE PowerLoss
    <2>1. PICK t \in earlier \cup {tree} : tree' = Surviving(t)
          BY <1>9 DEF PowerLoss
    <2>2. Keeps(t)
          BY DEF Spared
    <2>3. ASSUME NEW p \in DOMAIN job.tree, job.tree[p].kind = "link"
          PROVE  p \in DOMAIN tree' /\ tree'[p] = job.tree[p]
          BY <2>1, <2>2, <2>3 DEF Surviving, Keeps
    <2> QED
        BY <1>9, <2>3 DEF PowerLoss, Spared, Keeps
  <1>10. CASE UNCHANGED vars
        BY <1>10 DEF vars, Spared, Keeps
  <1> QED
      BY <1>1, <1>2, <1>3, <1>4, <1>5, <1>6, <1>7, <1>8, <1>9, <1>10
         DEF Next, Hook, Replace, Over

\* Whatever the links of the image are, none is replaced (RefuseSymlink).
THEOREM LinksStay == Spec => []LinksKept
  <1>1. Spared => LinksKept
        BY DEF Spared, Keeps, LinksKept
  <1> QED
      BY <1>1, TypedInit, TypedStep, SparedInit, SparedStep, PTL DEF Spec

-----------------------------------------------------------------------------
(* The temporary file and the directory                                    *)

\* There is a temporary file only between CreateTemp and Rename; when the
\* deferred function finds one, a call has failed.
Tidy ==
    /\ pc \in {"start", "resolve", "read", "merge", "mkdir", "lstat", "create",
              "dirsync"} => tmp = {}
    /\ pc = "cleanup" /\ tmp # {} => faults > 0
    /\ NoLitter

LEMMA TidyInit == Init => Tidy
  BY DEF Init, Tidy, NoLitter

LEMMA TidyStep == Typed /\ Tidy /\ [Next]_vars => Tidy'
  <1> SUFFICES ASSUME Typed, Tidy, [Next]_vars PROVE Tidy'
      OBVIOUS
  <1>0. faults \in Nat
        BY JobsAssumption DEF Typed, TypeOK
  <1> USE <1>0 DEF Tidy, NoLitter, diskVars, boundVars
  <1>1. CASE Start \/ MergeStore
        BY <1>1 DEF Start, MergeStore, BeginResolve
  <1>2. CASE Resolve
        BY <1>2 DEF Resolve, ResolveMissing, ResolvePlain, ResolveLink,
           ResolveFails, ResolveEnds, Resolving, Return
  <1>3. CASE ReadFile \/ ReadFails \/ MergeFails \/ MergeNothing
        BY <1>3 DEF ReadFile, ReadFails, MergeFails, MergeNothing, Return
  <1>4. CASE MkdirAll \/ RefuseSymlink \/ CreateTemp \/ PrepareFails
        BY <1>4 DEF MkdirAll, RefuseSymlink, CreateTemp, PrepareFails, Return
  <1>5. CASE WriteTemp \/ Chmod \/ StatFails \/ Chown \/ Sync
        BY <1>5 DEF WriteTemp, Chmod, StatFails, Chown, Sync, OnTemp
  <1>6. CASE Rename \/ TempFails \/ Kill
        BY <1>6 DEF Rename, TempFails, Kill, Fault
  <1>7. CASE SyncDir
        BY <1>7 DEF SyncDir, Fault
  <1>8. CASE Cleanup
        BY <1>8 DEF Cleanup, Return, Fault, Typed, TypeOK
  <1>9. CASE PowerLoss \/ Rerun
        BY <1>9 DEF PowerLoss, Rerun
  <1>10. CASE UNCHANGED vars
        BY <1>10 DEF vars
  <1> QED
      BY <1>1, <1>2, <1>3, <1>4, <1>5, <1>6, <1>7, <1>8, <1>9, <1>10
         DEF Next, Hook, Replace, Over

\* An update that ends leaves no temporary file, unless two calls failed, the
\* second of them its removal.
THEOREM TempRemoved == Spec => []NoLitter
  <1>1. Tidy => NoLitter
        BY DEF Tidy
  <1> QED
      BY <1>1, TypedInit, TypedStep, TidyInit, TidyStep, PTL DEF Spec

\* In a first run without failures, trees that may come back are there only
\* while the directory is not synced, but for those without the directory.
DirSynced ==
    runs = 1 /\ faults = 0 =>
        /\ pc \in {"start", "resolve", "read", "merge", "mkdir"} => earlier = {}
        /\ pc \in {"lstat", "create", "write", "chmod", "chown", "sync",
                  "rename", "cleanup", "done"} => WithoutDir(earlier) = earlier

LEMMA DirSyncedStep == Typed /\ DirSynced /\ [Next]_vars => DirSynced'
  <1> SUFFICES ASSUME Typed, DirSynced, [Next]_vars PROVE DirSynced'
      OBVIOUS
  <1>0. faults \in Nat /\ runs \in Nat \ {0}
        BY JobsAssumption, BoundsAssumption DEF Typed, TypeOK
  <1> USE <1>0 DEF DirSynced, WithoutDir, diskVars, boundVars, resolveVars
  <1>1. CASE Start \/ MergeStore
        BY <1>1 DEF Start, MergeStore, BeginResolve
  <1>2. CASE Resolve
        BY <1>2 DEF Resolve, ResolveMissing, ResolvePlain, ResolveLink,
           ResolveFails, ResolveEnds, Resolving, Return
  <1>3. CASE ReadFile \/ ReadFails \/ MergeFails \/ MergeNothing
        BY <1>3 DEF ReadFile, ReadFails, MergeFails, MergeNothing, Return
  <1>4. CASE MkdirAll
        BY <1>4 DEF MkdirAll
  <1>5. CASE RefuseSymlink \/ CreateTemp \/ PrepareFails
        BY <1>5 DEF RefuseSymlink, CreateTemp, PrepareFails, Return
  <1>6. CASE WriteTemp \/ Chmod \/ Chown \/ Sync
        BY <1>6 DEF WriteTemp, Chmod, Chown, Sync, OnTemp
  <1>7. CASE Rename \/ TempFails \/ StatFails
        BY <1>7 DEF Rename, TempFails, StatFails, Fault
  <1>8. CASE SyncDir
        BY <1>8 DEF SyncDir, Fault
  <1>9. CASE Cleanup
        BY <1>9 DEF Cleanup, Return, Fault, Typed, TypeOK
  <1>10. CASE PowerLoss \/ Kill
        BY <1>10 DEF PowerLoss, Kill
  <1>11. CASE Rerun
        BY <1>11 DEF Rerun
  <1>12. CASE UNCHANGED vars
        BY <1>12 DEF vars
  <1> QED
      BY <1>1, <1>2, <1>3, <1>4, <1>5, <1>6, <1>7, <1>8, <1>9, <1>10, <1>11,
         <1>12 DEF Next, Hook, Replace, Over

\* Without a failed call, an update that the first run reports as done
\* survives a power failure, if its directory was there before.
THEOREM UpdateSurvives == Spec => []DoneSurvives
  <1>1. Init => DirSynced
        BY DEF Init, DirSynced
  <1>2. DirSynced => DoneSurvives
        BY DEF DirSynced, DoneSurvives
  <1> QED
      BY <1>1, <1>2, TypedInit, TypedStep, DirSyncedStep, PTL DEF Spec

-----------------------------------------------------------------------------
(* Paths                                                                   *)

\* The step of the recursion in Clean.
CleanStep(p, done, n) ==
    IF n = 0 THEN <<>>
    ELSE IF p[n] # ".." THEN Append(done[n - 1], p[n])
    ELSE IF done[n - 1] = <<>> THEN <<>>
    ELSE Front(done[n - 1])

\* The recursion of Clean has a solution.
LEMMA CleanExists ==
    ASSUME NEW p, Len(p) \in Nat
    PROVE  \E done : done = [n \in 0..Len(p) |-> CleanStep(p, done, n)]
  <1> DEFINE P == {m \in Nat : \E g : g = [n \in 0..m |-> CleanStep(p, g, n)]}
  <1>1. 0 \in P
    <2> DEFINE g == [n \in 0..0 |-> <<>>]
    <2>1. g = [n \in 0..0 |-> CleanStep(p, g, n)]
          BY DEF CleanStep
    <2> QED
        BY <2>1
  <1>2. ASSUME NEW m \in Nat, m \in P PROVE m + 1 \in P
    <2>1. PICK g : g = [n \in 0..m |-> CleanStep(p, g, n)]
          BY <1>2
    <2> DEFINE h == [n \in 0..(m + 1) |->
                       IF n = m + 1 THEN CleanStep(p, g, n) ELSE g[n]]
    <2>2. ASSUME NEW n \in 0..(m + 1)
          PROVE  CleanStep(p, h, n) = CleanStep(p, g, n)
      <3>1. n # 0 => n - 1 \in 0..m /\ h[n - 1] = g[n - 1]
            OBVIOUS
      <3> HIDE DEF h
      <3> QED
          BY <3>1 DEF CleanStep
    <2>3. \A n \in 0..m : g[n] = CleanStep(p, g, n)
          BY <2>1
    <2>4. h = [n \in 0..(m + 1) |-> CleanStep(p, h, n)]
      <3>1. \A n \in 0..(m + 1) : h[n] = CleanStep(p, h, n)
            BY <2>2, <2>3
      <3>2. h = [n \in 0..(m + 1) |-> h[n]]
            OBVIOUS
      <3> HIDE DEF h
      <3> QED
          BY <3>1, <3>2
    <2> HIDE DEF h
    <2> QED
        BY <2>4
  <1>3. Len(p) \in P
    <2> HIDE DEF P
    <2> QED
        BY <1>1, <1>2, Induction
  <1> QED
      BY <1>3

LEMMA FrontTyped ==
    ASSUME NEW S, NEW s \in Seq(S), s # <<>>
    PROVE  Front(s) \in Seq(S)
  <1>1. Len(s) \in Nat /\ \A i \in 1..(Len(s) - 1) : s[i] \in S
        BY LenProperties, ElementOfSeq
  <1> QED
      BY <1>1, SubSeqProperties DEF Front

LEMMA CleanTyped ==
    ASSUME NEW p \in Path
    PROVE  Clean(p) \in Path
  <1> DEFINE F(g) == [n \in 0..Len(p) |-> CleanStep(p, g, n)]
             done == CHOOSE g : g = F(g)
             P == {n \in Nat : n =< Len(p) => done[n] \in Path}
  <1>1. Len(p) \in Nat /\ \A n \in 1..Len(p) : p[n] \in STRING
        BY LenProperties, ElementOfSeq DEF Path
  <1>2. done = F(done)
        BY <1>1, CleanExists
  <1>3. Clean(p) = done[Len(p)]
        BY DEF Clean, CleanStep
  <1> HIDE DEF done
  <1>4. \A n \in 0..Len(p) : done[n] = CleanStep(p, done, n)
        BY <1>2
  <1>5. 0 \in P
    <2>1. done[0] = <<>>
          BY <1>1, <1>4 DEF CleanStep
    <2>2. <<>> \in Path
          BY EmptySeq DEF Path
    <2> QED
        BY <2>1, <2>2
  <1>6. ASSUME NEW n \in Nat, n \in P PROVE n + 1 \in P
    <2> SUFFICES ASSUME n + 1 =< Len(p) PROVE done[n + 1] \in Path
        OBVIOUS
    <2>1. done[n] \in Path
          BY <1>1, <1>6
    <2>2. done[n + 1] = CleanStep(p, done, n + 1)
          BY <1>1, <1>4
    <2>3. /\ Append(done[n], p[n + 1]) \in Path
          /\ done[n] # <<>> => Front(done[n]) \in Path
          /\ <<>> \in Path
      <3>1. p[n + 1] \in STRING
            BY <1>1
      <3>2. Append(done[n], p[n + 1]) \in Path
            BY <2>1, <3>1, AppendProperties DEF Path
      <3>3. ASSUME done[n] # <<>> PROVE Front(done[n]) \in Path
            BY <2>1, <3>3, FrontTyped DEF Path
      <3>4. <<>> \in Path
            BY EmptySeq DEF Path
      <3> QED
          BY <3>2, <3>3, <3>4
    <2> QED
        BY <2>2, <2>3 DEF CleanStep
  <1>7. Len(p) \in P
    <2> HIDE DEF P
    <2> QED
        BY <1>1, <1>5, <1>6, Induction
  <1> QED
      BY <1>1, <1>3, <1>7

LEMMA TargetTyped ==
    ASSUME NEW base \in Path, NEW to, to.path \in Path
    PROVE  TargetPath(base, to) \in Path
  <1> DEFINE b == IF to.abs THEN <<>> ELSE base
  <1>1. b \in Path
        BY EmptySeq DEF Path
  <1> HIDE DEF b
  <1>2. b \o to.path \in Path
        BY <1>1, ConcatProperties DEF Path
  <1> QED
      BY <1>2, CleanTyped DEF TargetPath, b

\* The first i names of a path.
Pre(p, i) == SubSeq(p, 1, i)

LEMMA PreFacts ==
    ASSUME NEW p \in Path, NEW i \in 0..Len(p)
    PROVE  /\ Pre(p, i) \in Path /\ Len(Pre(p, i)) = i
           /\ \A j \in 1..i : Pre(p, i)[j] = p[j]
           /\ \A j \in 0..i : Pre(Pre(p, i), j) = Pre(p, j)
  <1>1. Len(p) \in Nat /\ \A k \in 1..Len(p) : p[k] \in STRING
        BY LenProperties, ElementOfSeq DEF Path
  <1>2. ASSUME NEW k \in 0..Len(p)
        PROVE  /\ Pre(p, k) \in Path /\ Len(Pre(p, k)) = k
               /\ \A j \in 1..k : Pre(p, k)[j] = p[j]
    <2>1. k \in Int /\ \A j \in 1..k : p[j] \in STRING
          BY <1>1
    <2> QED
        BY <1>1, <2>1, SubSeqProperties DEF Pre, Path
  <1>3. ASSUME NEW j \in 0..i PROVE Pre(Pre(p, i), j) = Pre(p, j)
    <2> DEFINE s == Pre(p, i)
               u == Pre(s, j)
               v == Pre(p, j)
    <2>1. s \in Path /\ Len(s) = i /\ \A k \in 1..i : s[k] = p[k]
          BY <1>2
    <2>2. v \in Path /\ Len(v) = j /\ \A k \in 1..j : v[k] = p[k]
          BY <1>1, <1>2
    <2> HIDE DEF s, v
    <2>3. j \in Int /\ \A k \in 1..j : s[k] \in STRING
          BY <1>1, <2>1
    <2>4. u \in Path /\ Len(u) = j /\ \A k \in 1..j : u[k] = s[k]
          BY <1>1, <2>3, SubSeqProperties DEF Pre, Path
    <2> HIDE DEF u
    <2>5. \A k \in 1..j : u[k] = v[k]
          BY <1>1, <2>1, <2>2, <2>4
    <2>6. u = v
          BY <2>2, <2>4, <2>5, SeqEqual DEF Path
    <2> QED
        BY <2>6 DEF s, u, v
  <1> QED
      BY <1>2, <1>3

LEMMA PreTyped ==
    ASSUME NEW p \in Path, NEW i \in 0..Len(p)
    PROVE  Pre(p, i) \in Path /\ Len(Pre(p, i)) = i
  BY PreFacts

LEMMA PrePre ==
    ASSUME NEW p \in Path, NEW i \in 0..Len(p), NEW j \in 0..i
    PROVE  Pre(Pre(p, i), j) = Pre(p, j)
  BY PreFacts

LEMMA ParentsPre ==
    ASSUME NEW p
    PROVE  Parents(p) = {Pre(p, i) : i \in 1..(Len(p) - 1)}
  BY DEF Parents, Pre

\* A path and what follows: the path and its next name are prefixes of both.
LEMMA PreConcat ==
    ASSUME NEW r \in Path, NEW m \in Path
    PROVE  /\ r \o m \in Path /\ Len(r \o m) = Len(r) + Len(m)
           /\ Pre(r \o m, Len(r)) = r
           /\ m # <<>> => /\ Append(r, Head(m)) = Pre(r \o m, Len(r) + 1)
                          /\ Len(m) > 0
  <1> DEFINE F == r \o m
             n == Len(r)
  <1>1. /\ n \in Nat /\ Len(m) \in Nat
        /\ F \in Path /\ Len(F) = n + Len(m)
        /\ \A i \in 1..(n + Len(m)) :
             F[i] = IF i =< n THEN r[i] ELSE m[i - n]
        BY LenProperties, ConcatProperties DEF Path
  <1> HIDE DEF F, n
  <1>2. /\ Pre(F, n) \in Path /\ Len(Pre(F, n)) = n
        /\ \A j \in 1..n : Pre(F, n)[j] = F[j]
        BY <1>1, PreFacts
  <1>3. Pre(F, n) = r
    <2>1. \A j \in 1..n : Pre(F, n)[j] = r[j]
          BY <1>1, <1>2
    <2> HIDE DEF Pre
    <2> QED
        BY <1>2, <2>1, SeqEqual DEF Path, n
  <1>4. ASSUME m # <<>>
        PROVE  Append(r, Head(m)) = Pre(F, n + 1) /\ Len(m) > 0
    <2>1. Len(m) \in Nat \ {0}
          BY <1>4, EmptySeq DEF Path
    <2>2. Head(m) = m[1] /\ Head(m) \in STRING
          BY <1>4, <2>1, HeadTailProperties DEF Path
    <2> DEFINE u == Append(r, Head(m))
               v == Pre(F, n + 1)
    <2>3. /\ u \in Path /\ Len(u) = n + 1 /\ u[n + 1] = m[1]
          /\ \A i \in 1..n : u[i] = r[i]
          BY <2>2, AppendProperties DEF Path, n
    <2>4. /\ v \in Path /\ Len(v) = n + 1
          /\ \A i \in 1..(n + 1) : v[i] = F[i]
          BY <1>1, <2>1, PreFacts
    <2> HIDE DEF u, v
    <2>5. \A i \in 1..(n + 1) : u[i] = v[i]
          BY <1>1, <2>1, <2>3, <2>4
    <2>6. u = v
          BY <1>1, <2>3, <2>4, <2>5, SeqEqual DEF Path
    <2> QED
        BY <2>1, <2>6 DEF u, v
  <1> QED
      BY <1>1, <1>3, <1>4 DEF F, n

\* What follows the first k names of a path.
Rest(p, k) == SubSeq(p, k + 1, Len(p))

LEMMA RestConcat ==
    ASSUME NEW r \in Path, NEW m \in Path, m # <<>>
    PROVE  Rest(r \o m, Len(r)) = m
  <1>1. Len(r) \in Nat /\ Len(m) \in Nat \ {0} /\ Len(r \o m) = Len(r) + Len(m)
        BY LenProperties, EmptySeq, ConcatProperties DEF Path
  <1> DEFINE a == Len(r) + 1
             b == Len(r) + Len(m)
  <1>2. /\ a \in (Len(r) + 1)..(Len(r) + Len(m))
        /\ b \in (Len(r) + 1)..(Len(r) + Len(m))
        /\ a - Len(r) = 1 /\ b - Len(r) = Len(m)
        BY <1>1
  <1> HIDE DEF a, b
  <1>3. SubSeq(r \o m, a, b) = SubSeq(m, a - Len(r), b - Len(r))
        BY <1>2, SubSeqOfConcat2 DEF Path
  <1>4. SubSeq(m, 1, Len(m)) = m
        BY SubSeqFull DEF Path
  <1> QED
      BY <1>1, <1>2, <1>3, <1>4 DEF Rest, a, b

LEMMA RestFacts ==
    ASSUME NEW p \in Path, NEW k \in 0..(Len(p) - 1)
    PROVE  /\ Rest(p, k) # <<>> /\ Tail(Rest(p, k)) = Rest(p, k + 1)
           /\ Head(Rest(p, k)) = p[k + 1]
           /\ Append(Pre(p, k), Head(Rest(p, k))) = Pre(p, k + 1)
           /\ Pre(p, k) \o Rest(p, k) = p
  <1> DEFINE N == Len(p)
             s == Rest(p, k)
  <1>1. N \in Nat /\ \A i \in 1..N : p[i] \in STRING
        BY LenProperties, ElementOfSeq DEF Path
  <1> HIDE DEF N
  <1>2. k \in 0..(N - 1)
        BY DEF N
  <1>3. k + 1 \in 1..N /\ N \in (k + 1)..N /\ k \in 0..N /\ k + 1 \in 0..N
        BY <1>1, <1>2
  <1>4. Head(s) = p[k + 1] /\ Tail(s) = SubSeq(p, (k + 1) + 1, N)
        BY <1>3, HeadTailOfSubSeq DEF Path, Rest, N
  <1>5. Pre(p, k) \o s = p
    <2>1. /\ 1 \in 1..(Len(p) + 1) /\ k \in (1 - 1)..Len(p) /\ N \in k..Len(p)
          BY <1>1, <1>2 DEF N
    <2>2. SubSeq(p, 1, k) \o SubSeq(p, k + 1, N) = SubSeq(p, 1, N)
          BY <2>1, ConcatAdjacentSubSeq DEF Path
    <2>3. SubSeq(p, 1, N) = p
          BY SubSeqFull DEF Path, N
    <2> QED
        BY <2>2, <2>3 DEF Pre, Rest, N
  <1>6. s # <<>>
    <2>1. Pre(p, k) \in Path /\ Len(Pre(p, k)) = k
          BY <1>3, PreTyped DEF N
    <2>2. Pre(p, k) \o <<>> = Pre(p, k)
          BY <2>1, ConcatEmptySeq DEF Path
    <2>3. p # Pre(p, k)
          BY <1>1, <1>2, <2>1 DEF N
    <2> QED
        BY <1>5, <2>2, <2>3
  <1>7. Append(Pre(p, k), p[k + 1]) = Pre(p, k + 1)
    <2> DEFINE u == Pre(p, k)
               v == Pre(p, k + 1)
               w == Append(u, p[k + 1])
    <2>1. /\ u \in Path /\ Len(u) = k /\ \A j \in 1..k : u[j] = p[j]
          /\ v \in Path /\ Len(v) = k + 1 /\ \A j \in 1..(k + 1) : v[j] = p[j]
          BY <1>3, PreFacts DEF N
    <2>2. p[k + 1] \in STRING
          BY <1>1, <1>3
    <2> HIDE DEF u, v
    <2>3. /\ w \in Path /\ Len(w) = k + 1 /\ w[k + 1] = p[k + 1]
          /\ \A j \in 1..k : w[j] = u[j]
          BY <2>1, <2>2, AppendProperties DEF Path
    <2> HIDE DEF w
    <2>4. \A j \in 1..(k + 1) : w[j] = v[j]
          BY <1>2, <2>1, <2>3
    <2>5. w = v
          BY <2>1, <2>3, <2>4, SeqEqual DEF Path
    <2> QED
        BY <2>5 DEF u, v, w
  <1> QED
      BY <1>4, <1>5, <1>6, <1>7 DEF Rest, N

-----------------------------------------------------------------------------
(* Where a resolution leads                                                *)

\* A state of ResolveSymlinks, and one of its steps in a tree.
NextName(c) == Append(c.at, Head(c.rest))

Moves(t, c) ==
    /\ c.rest # <<>>
    /\ \/ Lstat(t, NextName(c)) \in {"absent", "dir", "file", "special"}
       \/ Lstat(t, NextName(c)) = "link" /\ c.hops < MaxHops

Moved(t, c) ==
    IF Lstat(t, NextName(c)) = "absent"
    THEN [at |-> c.at \o c.rest, rest |-> <<>>, hops |-> c.hops]
    ELSE IF Lstat(t, NextName(c)) = "link"
    THEN [at |-> <<>>,
          rest |-> TargetPath(c.at, t[NextName(c)].to) \o Tail(c.rest),
          hops |-> c.hops + 1]
    ELSE [at |-> NextName(c), rest |-> Tail(c.rest), hops |-> c.hops]

\* From c the resolution comes to d: d is in every set that has c and is
\* closed under steps.
Closed(t, S) == \A c \in S : Moves(t, c) => Moved(t, c) \in S
Leads(t, c, d) == \A S : c \in S /\ Closed(t, S) => d \in S

LEMMA LeadsOn ==
    ASSUME NEW t, NEW c, NEW d, Leads(t, c, d), Moves(t, d)
    PROVE  Leads(t, c, Moved(t, d))
  BY DEF Leads, Closed

\* A resolution that stops has come to where it leads.
LEMMA LeadsEnd ==
    ASSUME NEW t, NEW c, NEW d, Leads(t, c, d), ~Moves(t, c)
    PROVE  c = d
  <1>1. Closed(t, {c})
        BY DEF Closed
  <1> QED
      BY <1>1 DEF Leads

\* There is one way only: a step leads on to where the resolution stops.
LEMMA LeadsFrom ==
    ASSUME NEW t, NEW c, NEW d, Leads(t, c, d), d.rest = <<>>, Moves(t, c)
    PROVE  Leads(t, Moved(t, c), d)
  <1> SUFFICES ASSUME NEW S, Moved(t, c) \in S, Closed(t, S) PROVE d \in S
      BY DEF Leads
  <1>1. Closed(t, S \cup {c})
        BY DEF Closed
  <1>2. d \in S \cup {c}
        BY <1>1 DEF Leads
  <1>3. d # c
        BY DEF Moves
  <1> QED
      BY <1>2, <1>3

IsState(c) ==
    /\ c = [at |-> c.at, rest |-> c.rest, hops |-> c.hops]
    /\ c.at \in Path /\ c.rest \in Path /\ c.hops \in Nat

\* What is resolved is no link, and at the end all directories of the path
\* that exist are directories.
Sound(t, c) ==
    /\ IsState(c)
    /\ c.at # <<>> /\ c.rest # <<>> =>
         c.at \in DOMAIN t /\ t[c.at].kind # "link"
    /\ c.rest = <<>> =>
         \A q \in Parents(c.at) : q \in DOMAIN t => t[q].kind = "dir"

LEMMA LstatFacts ==
    ASSUME NEW t, IsTree(t), NEW p \in Path, p # <<>>
    PROVE  /\ p \in DOMAIN t => Lstat(t, p) = t[p].kind
           /\ p \notin DOMAIN t => Lstat(t, p) \in {"absent", "notdir"}
           /\ Lstat(t, p) = "absent" <=>
                /\ p \notin DOMAIN t
                /\ \A q \in Parents(p) :
                     q \in DOMAIN t => t[q].kind \in {"dir", "link"}
  <1>1. p \in DOMAIN t => t[p].kind \notin {"absent", "notdir"}
        BY DEF IsTree
  <1> QED
      BY <1>1 DEF Lstat, Parents

\* Every step of a resolution keeps it sound.
LEMMA MovedSound ==
    ASSUME NEW t, IsTree(t), NEW c, Sound(t, c), Moves(t, c)
    PROVE  Sound(t, Moved(t, c))
  <1> DEFINE n == NextName(c)
             r == c.at
             m == c.rest
             F == r \o m
  <1>1. /\ r \in Path /\ m \in Path /\ m # <<>> /\ c.hops \in Nat
        /\ Len(r) \in Nat /\ Len(m) \in Nat /\ Len(m) > 0
    <2>1. r \in Path /\ m \in Path /\ m # <<>> /\ c.hops \in Nat
          BY DEF Sound, IsState, Moves
    <2>2. Len(r) \in Nat /\ Len(m) \in Nat \ {0}
          BY <2>1, LenProperties, EmptySeq DEF Path
    <2> QED
        BY <2>1, <2>2
  <1>2. /\ F \in Path /\ Len(F) = Len(r) + Len(m)
        /\ n = Pre(F, Len(r) + 1) /\ r = Pre(F, Len(r))
        BY <1>1, PreConcat DEF NextName
  <1> HIDE DEF n, r, m, F
  <1>3. n \in Path /\ n # <<>> /\ Len(n) = Len(r) + 1
    <2>1. n \in Path /\ Len(n) = Len(r) + 1
      <3>1. Len(r) + 1 \in 0..Len(F)
            BY <1>1, <1>2
      <3> QED
          BY <1>2, <3>1, PreTyped
    <2>2. Len(<<>>) = 0
          BY EmptySeq
    <2> QED
        BY <1>1, <2>1, <2>2
  <1>4. Tail(m) \in Path
        BY <1>1, HeadTailProperties DEF Path
  <1>5. <<>> \in Path /\ Parents(<<>>) = {}
    <2>1. <<>> \in Path /\ Len(<<>>) = 0
          BY EmptySeq DEF Path
    <2> QED
        BY <2>1 DEF Parents
  <1>6. CASE Lstat(t, n) = "absent"
    <2>1. /\ n \notin DOMAIN t
          /\ \A q \in Parents(n) :
               q \in DOMAIN t => t[q].kind \in {"dir", "link"}
          BY <1>3, <1>6, LstatFacts
    <2>2. Moved(t, c) = [at |-> F, rest |-> <<>>, hops |-> c.hops]
          BY <1>6 DEF Moved, n, r, m, F
    <2>3. ASSUME NEW q \in Parents(F), q \in DOMAIN t
          PROVE  t[q].kind = "dir"
      <3>1. PICK i \in 1..(Len(F) - 1) : q = Pre(F, i)
            BY ParentsPre
      <3>0. i \in 0..Len(F) /\ Len(r) + 1 \in 0..Len(F) /\ Len(r) \in 0..Len(F)
            BY <1>1, <1>2
      <3>2. Len(q) = i /\ q \in Path
            BY <1>2, <3>0, <3>1, PreTyped
      <3>3. CASE i > Len(r) + 1
        <4>1. n = Pre(q, Len(r) + 1)
          <5>1. Len(r) + 1 \in 0..i
                BY <1>1, <3>0, <3>3
          <5> QED
              BY <1>2, <3>0, <3>1, <5>1, PrePre
        <4>2. n \in Parents(q)
              BY <1>1, <3>2, <3>3, <4>1, ParentsPre
        <4> QED
            BY <2>1, <2>3, <4>2 DEF IsTree
      <3>4. CASE i = Len(r) + 1
            BY <1>2, <2>1, <2>3, <3>1, <3>4
      <3>5. CASE i < Len(r)
        <4>1. q = Pre(r, i)
          <5>1. i \in 0..Len(r)
                BY <1>1, <3>0, <3>5
          <5> QED
              BY <1>2, <3>0, <3>1, <5>1, PrePre
        <4>2. q \in Parents(r)
              BY <1>1, <3>5, <4>1, ParentsPre
        <4>3. r # <<>>
              BY <1>5, <4>2
        <4> QED
            BY <1>1, <4>2, <4>3 DEF Sound, IsTree, r, m
      <3>6. CASE i = Len(r)
        <4>1. q = r /\ r # <<>> /\ r \in DOMAIN t
              BY <1>1, <1>2, <2>3, <3>1, <3>6 DEF IsTree
        <4>2. q = Pre(n, Len(r))
          <5>1. Len(r) \in 0..(Len(r) + 1)
                BY <1>1
          <5> QED
              BY <1>2, <3>0, <3>1, <3>6, <5>1, PrePre
        <4>3. q \in Parents(n)
              BY <1>1, <1>3, <3>6, <4>2, ParentsPre
        <4> QED
            BY <1>1, <2>1, <4>1, <4>3 DEF Sound, r, m
      <3> QED
          BY <1>1, <3>3, <3>4, <3>5, <3>6
    <2> DEFINE z == Moved(t, c)
    <2>4. /\ z = [at |-> z.at, rest |-> z.rest, hops |-> z.hops]
          /\ z.at = F /\ z.rest = <<>> /\ z.hops = c.hops
          BY <2>2
    <2> HIDE DEF z
    <2>5. IsState(z)
      <3>1. z.rest \in Path
            BY <1>5, <2>4
      <3> QED
          BY <1>1, <1>2, <2>4, <3>1 DEF IsState
    <2>6. Sound(t, z)
          BY <2>3, <2>4, <2>5 DEF Sound
    <2> QED
        BY <2>6 DEF z
  <1>7. CASE Lstat(t, n) = "link"
    <2>1. n \in DOMAIN t /\ t[n].kind = "link"
          BY <1>3, <1>7, LstatFacts
    <2>2. TargetPath(r, t[n].to) \in Path
          BY <1>1, <2>1, TargetTyped DEF IsTree
    <2>3. TargetPath(r, t[n].to) \o Tail(m) \in Path
          BY <1>4, <2>2, ConcatProperties DEF Path
    <2>4. Moved(t, c) = [at |-> <<>>,
                         rest |-> TargetPath(r, t[n].to) \o Tail(m),
                         hops |-> c.hops + 1]
          BY <1>7 DEF Moved, n, r, m
    <2> DEFINE z == Moved(t, c)
    <2>5. /\ z = [at |-> z.at, rest |-> z.rest, hops |-> z.hops]
          /\ z.at = <<>> /\ z.rest = TargetPath(r, t[n].to) \o Tail(m)
          /\ z.hops = c.hops + 1
          BY <1>1, <2>4
    <2> HIDE DEF z
    <2>6. IsState(z)
      <3>1. z.at \in Path
            BY <1>5, <2>5
      <3> QED
          BY <1>1, <2>3, <2>5, <3>1 DEF IsState
    <2>7. Sound(t, z)
          BY <1>5, <2>5, <2>6 DEF Sound
    <2> QED
        BY <2>7 DEF z
  <1>8. CASE Lstat(t, n) \in {"dir", "file", "special"}
    <2>1. n \in DOMAIN t /\ t[n].kind # "link"
          BY <1>3, <1>8, LstatFacts
    <2>2. \A q \in Parents(n) : t[q].kind = "dir"
          BY <2>1 DEF IsTree
    <2>3. Moved(t, c) = [at |-> n, rest |-> Tail(m), hops |-> c.hops]
          BY <1>8 DEF Moved, n, r, m
    <2> QED
        BY <1>1, <1>3, <1>4, <2>1, <2>2, <2>3 DEF Sound, IsState
  <1> QED
      BY <1>6, <1>7, <1>8 DEF Moves, n

\* The directories of p are made, or the regular file p is written.
Grown(t, u, p) ==
    /\ DOMAIN t \subseteq DOMAIN u
    /\ \A q \in DOMAIN t : q # p => u[q] = t[q]
    /\ \A q \in Parents(p) : q \in DOMAIN u /\ u[q].kind = "dir"
    /\ p \in DOMAIN t => t[p].kind = "file"
    /\ p \in DOMAIN u => u[p].kind = "file"

\* Once all its directories are there, a path is resolved name by name.
LEMMA Descend ==
    ASSUME NEW u, IsTree(u), NEW p \in Path,
           \A q \in Parents(p) : q \in DOMAIN u /\ u[q].kind = "dir",
           p \in DOMAIN u => u[p].kind = "file",
           NEW S, Closed(u, S),
           NEW c \in S, IsState(c), c.rest # <<>>, c.at \o c.rest = p
    PROVE  [at |-> p, rest |-> <<>>, hops |-> c.hops] \in S
  <1> DEFINE N == Len(p)
             n == Len(c.at)
             h == c.hops
             Conf(k) == [at |-> Pre(p, k), rest |-> Rest(p, k), hops |-> h]
             P == {k \in Nat : n + k =< N => Conf(n + k) \in S}
  <1>1. /\ N \in Nat /\ n \in Nat /\ Len(c.rest) \in Nat
        /\ N = n + Len(c.rest) /\ Len(c.rest) > 0
        /\ Pre(p, n) = c.at /\ Rest(p, n) = c.rest
    <2>1. c.at \in Path /\ c.rest \in Path /\ c.rest # <<>>
          BY DEF IsState
    <2>2. Len(p) \in Nat /\ Len(c.at) \in Nat /\ Len(c.rest) \in Nat
          BY <2>1, LenProperties DEF Path
    <2>3. N = n + Len(c.rest) /\ Len(c.rest) > 0 /\ Pre(p, n) = c.at
          BY <2>1, PreConcat
    <2>4. Rest(p, n) = c.rest
          BY <2>1, RestConcat
    <2> QED
        BY <2>2, <2>3, <2>4
  <1>4. c = Conf(n)
        BY <1>1 DEF IsState
  <1> HIDE DEF N, n, h
  <1>5. ASSUME NEW k \in 0..(N - 1), Conf(k) \in S
        PROVE  Conf(k + 1) \in S
    <2> DEFINE d == Conf(k)
               next == Pre(p, k + 1)
    <2>1. /\ Rest(p, k) # <<>> /\ Tail(Rest(p, k)) = Rest(p, k + 1)
          /\ Append(Pre(p, k), Head(Rest(p, k))) = next
          /\ Pre(p, k) \o Rest(p, k) = p
          BY RestFacts DEF N
    <2>2. NextName(d) = next
          BY <2>1 DEF NextName
    <2>3. next \in Path /\ Len(next) = k + 1 /\ next # <<>>
      <3>1. next \in Path /\ Len(next) = k + 1
        <4>1. k + 1 \in 0..N
              BY <1>1
        <4> QED
            BY <4>1, PreTyped DEF N
      <3>2. Len(<<>>) = 0
            BY EmptySeq
      <3> QED
          BY <3>1, <3>2
    <2>4. d.at = Pre(p, k) /\ d.rest = Rest(p, k) /\ d.hops = h
          OBVIOUS
    <2>5. CASE k + 1 < N
      <3>1. next \in Parents(p)
        <4>1. k + 1 \in 1..(N - 1)
              BY <1>1, <2>5
        <4> QED
            BY <4>1, ParentsPre DEF N
      <3>2. Lstat(u, next) = "dir"
            BY <2>3, <3>1, LstatFacts
      <3>3. Moves(u, d) /\ Moved(u, d) = Conf(k + 1)
            BY <2>1, <2>2, <2>4, <3>2 DEF Moves, Moved
      <3> QED
          BY <1>5, <3>3 DEF Closed
    <2>6. CASE k + 1 = N
      <3>1. next = p
            BY <2>6, SubSeqFull DEF Pre, Path, N
      <3>2. CASE p \in DOMAIN u
        <4>1. Lstat(u, next) = "file"
              BY <2>3, <3>1, <3>2, LstatFacts
        <4>2. Moves(u, d) /\ Moved(u, d) = Conf(k + 1)
              BY <2>1, <2>2, <2>4, <4>1 DEF Moves, Moved
        <4> QED
            BY <1>5, <4>2 DEF Closed
      <3>3. CASE p \notin DOMAIN u
        <4>1. Lstat(u, next) = "absent"
              BY <2>3, <3>1, <3>3, LstatFacts
        <4>3. Rest(p, k + 1) = <<>>
              BY <1>1, <2>6, SubSeqEmpty DEF Rest, N
        <4>4. Moves(u, d) /\ Moved(u, d) = Conf(k + 1)
              BY <2>1, <2>2, <2>4, <3>1, <4>1, <4>3 DEF Moves, Moved
        <4> QED
            BY <1>5, <4>4 DEF Closed
      <3> QED
          BY <3>2, <3>3
    <2> QED
        BY <1>1, <2>5, <2>6
  <1>6. 0 \in P
        BY <1>1, <1>4
  <1>7. ASSUME NEW k \in Nat, k \in P PROVE k + 1 \in P
    <2> SUFFICES ASSUME n + (k + 1) =< N PROVE Conf(n + (k + 1)) \in S
        OBVIOUS
    <2>1. n + k \in 0..(N - 1) /\ Conf(n + k) \in S /\ (n + k) + 1 = n + (k + 1)
          BY <1>1, <1>7
    <2> HIDE DEF Conf
    <2> QED
        BY <1>5, <2>1
  <1>8. Conf(N) \in S
    <2>1. Len(c.rest) \in P
      <3> HIDE DEF P
      <3> QED
          BY <1>1, <1>6, <1>7, Induction
    <2> HIDE DEF Conf
    <2> QED
        BY <1>1, <2>1
  <1>9. Conf(N) = [at |-> p, rest |-> <<>>, hops |-> h]
    <2>1. Pre(p, N) = p
          BY SubSeqFull DEF Pre, Path, N
    <2>2. Rest(p, N) = <<>>
          BY <1>1, SubSeqEmpty DEF Rest, N
    <2> QED
        BY <2>1, <2>2
  <1> QED
      BY <1>8, <1>9 DEF h

\* Making the directories of a path, and writing the file at it, leaves the
\* resolution leading there.
LEMMA LeadsKept ==
    ASSUME NEW t, IsTree(t), NEW u, IsTree(u), NEW c, Sound(t, c),
           NEW d, Leads(t, c, d), d.rest = <<>>, Grown(t, u, d.at)
    PROVE  Leads(u, c, d)
  <1> SUFFICES ASSUME NEW S, c \in S, Closed(u, S), d \notin S PROVE FALSE
      BY DEF Leads
  <1> DEFINE U == {x \in S : Sound(t, x) /\ Leads(t, x, d)}
  <1>1. c \in U
        OBVIOUS
  <1>2. ASSUME NEW x \in U, Moves(t, x) PROVE Moved(t, x) \in U
    <2> DEFINE n == NextName(x)
               y == Moved(t, x)
    <2>1. Sound(t, x) /\ Leads(t, x, d) /\ IsState(x) /\ x.rest # <<>>
          BY <1>2 DEF Sound, Moves
    <2>2. Sound(t, y) /\ Leads(t, y, d)
          BY <1>2, <2>1, MovedSound, LeadsFrom
    <2>3. n \in Path /\ n # <<>>
      <3>1. Head(x.rest) \in STRING /\ x.at \in Path
            BY <2>1, HeadTailProperties DEF IsState, Path
      <3> QED
          BY <3>1, AppendProperties DEF NextName, Path
    <2>4. CASE Lstat(t, n) = "absent"
      <3>1. y = [at |-> x.at \o x.rest, rest |-> <<>>, hops |-> x.hops]
            BY <2>4 DEF Moved
      <3>2. y.rest = <<>> /\ y.at = x.at \o x.rest
        <4> DEFINE p == x.at \o x.rest
        <4> HIDE DEF p, y
        <4>1. y = [at |-> p, rest |-> <<>>, hops |-> x.hops]
              BY <3>1 DEF p
        <4> QED
            BY <4>1 DEF p
      <3>3. ~Moves(t, y)
            BY <3>2 DEF Moves
      <3>4. y = d
            BY <2>2, <3>3, LeadsEnd
      <3>5. d.at \in Path
            BY <2>2, <3>4 DEF Sound, IsState
      <3>6. [at |-> d.at, rest |-> <<>>, hops |-> x.hops] \in S
            BY <2>1, <3>2, <3>4, <3>5, Descend DEF Grown
      <3> QED
          BY <3>1, <3>2, <3>4, <3>6
    <2>5. CASE Lstat(t, n) # "absent"
      <3>1. n \in DOMAIN t /\ Lstat(t, n) = t[n].kind
            BY <1>2, <2>3, <2>5, LstatFacts DEF Moves
      <3>2. n \in DOMAIN u /\ u[n].kind = t[n].kind
            BY <3>1 DEF Grown
      <3>3. t[n].kind = "link" => u[n] = t[n]
            BY <3>1 DEF Grown
      <3>4. Lstat(u, n) = Lstat(t, n)
            BY <2>3, <3>1, <3>2, LstatFacts
      <3>5. Moves(u, x) /\ Moved(u, x) = y
            BY <1>2, <3>1, <3>3, <3>4 DEF Moves, Moved
      <3>6. y \in S
            BY <3>5 DEF Closed
      <3> QED
          BY <2>2, <3>6
    <2> QED
        BY <2>4, <2>5
  <1>3. Closed(t, U)
        BY <1>2 DEF Closed
  <1>4. d \in U
    <2> HIDE DEF U
    <2> QED
        BY <1>1, <1>3 DEF Leads
  <1> QED
      BY <1>4

-----------------------------------------------------------------------------
(* The trees                                                               *)

\* What a program reads at a path, through no link.
ContentAt(t, p) ==
    IF p \in DOMAIN t /\ t[p].kind = "file" THEN t[p].data ELSE Empty

BaseAt(j, p) == ContentAt(j.tree, p)

\* A file holds what the image's file held, or that with the bundle merged.
Merged(j, t, p) ==
    Parsable(BaseAt(j, p)) /\ ContentAt(t, p) = Merge(BaseAt(j, p), j.bundle)

\* A new file has the mode and the owner of the one it replaces, or can be
\* read by all.
Like(j, t, p) ==
    IF p \in DOMAIN j.tree
    THEN /\ j.tree[p].kind = "file"
         /\ \/ t[p].mode = "all"
            \/ /\ t[p].mode = j.tree[p].mode
               /\ j.mayChown => t[p].owner = j.tree[p].owner
    ELSE t[p].mode = "all"

\* What the hook makes of the image's tree.
Good(j, t) ==
    /\ IsTree(t)
    /\ \A p \in DOMAIN j.tree :
         p \in DOMAIN t /\ (j.tree[p].kind = "file" => t[p].kind = "file")
    /\ \A p \in DOMAIN t : t[p].kind = "file" => Like(j, t, p)
    /\ \A p \in DOMAIN t : ContentAt(t, p) = BaseAt(j, p) \/ Merged(j, t, p)

\* A tree that a power failure may bring back differs from the present one
\* only in that a file may still be the image's.
TreesInv ==
    /\ Good(job, tree)
    /\ \A t \in earlier :
         /\ Good(job, t)
         /\ \A p \in DOMAIN t :
              \/ ContentAt(t, p) = BaseAt(job, p)
              \/ ContentAt(t, p) = ContentAt(tree, p)

-----------------------------------------------------------------------------
(* The course of an update                                                 *)

Here == [at |-> resolved, rest |-> remaining, hops |-> hops]
Begin(j) == [at |-> <<>>, rest |-> Clean(j.path), hops |-> 0]

\* What is to be written belongs to the file p, which is there or can be made.
Target(j, t, x, p) ==
    /\ p \in Path /\ Lstat(t, p) \in {"file", "absent"}
    /\ \A q \in Parents(p) : q \in DOMAIN t => t[q].kind = "dir"
    /\ Range(j.bundle) \subseteq Cert
    /\ Parsable(ContentAt(t, p)) /\ ~UpToDate(ContentAt(t, p), j.bundle)
    /\ j.caller = "java" => ContentAt(t, p).format # "PEM"
    /\ x = Merge(ContentAt(t, p), j.bundle)

\* The path of the store leads to d, a file that needs no update.
Fixed(j, t, d) ==
    /\ d.rest = <<>> /\ Leads(t, Begin(j), d)
    /\ Lstat(t, d.at) \in {"file", "absent"}
    /\ Lstat(t, d.at) = "absent" => j.caller = "os"
    /\ Range(j.bundle) \subseteq Cert
    /\ UpToDate(ContentAt(t, d.at), j.bundle)
    /\ j.caller = "java" => ContentAt(t, d.at).format # "PEM"
    /\ Rereadable(ContentAt(t, d.at)) => Parsable(ContentAt(t, d.at))

Preparing == {"mkdir", "lstat", "create", "write", "chmod", "chown", "sync",
              "rename"}

\* The resolution that precedes the reading.
Reads ==
    /\ pc \in {"resolve", "read", "merge"} => Sound(tree, Here)
    /\ pc \in {"read", "merge"} => remaining = <<>> /\ purpose = "read"
    /\ pc \in {"resolve", "read", "merge"} /\ purpose = "read" =>
         Leads(tree, Begin(job), Here)
    /\ pc = "merge" =>
         /\ Lstat(tree, resolved) \in {"file", "absent"}
         /\ Lstat(tree, resolved) = "absent" => job.caller = "os"
         /\ data = ContentAt(tree, resolved)

\* The one that precedes the writing leads to the file that was read.
Writes ==
    /\ pc = "resolve" /\ purpose = "write" =>
         \E d : /\ d.rest = <<>> /\ Target(job, tree, data, d.at)
                /\ Leads(tree, Begin(job), d) /\ Leads(tree, Here, d)
    /\ pc \in Preparing =>
         /\ remaining = <<>> /\ Target(job, tree, data, resolved)
         /\ Leads(tree, Begin(job), Here)
    /\ pc \in Preparing \ {"mkdir"} => Parents(resolved) \subseteq DOMAIN tree

\* The temporary file becomes the file it replaces, or one that all can read.
TempInv ==
    \A f \in tmp :
        /\ pc \in {"chmod", "chown", "sync", "rename"} => f.data = data
        /\ pc \in {"chown", "sync", "rename"} =>
             f.mode = "all" \/ (Replaces /\ f.mode = tree[resolved].mode)
        /\ pc \in {"sync", "rename"} /\ Replaces /\ job.mayChown =>
             f.mode = "all" \/ f.owner = tree[resolved].owner

\* After the file has been replaced, and for good once that is reported.
Settles ==
    /\ pc = "dirsync" \/ (pc = "cleanup" /\ outcome = "done") =>
         /\ Fixed(job, tree, Here)
         /\ Range(job.bundle) \subseteq View(ContentAt(tree, resolved))
    /\ settled \subseteq {tree}
    /\ settled # {} =>
         /\ pc \in {"start", "resolve", "read", "merge"} \cup Ended
         /\ pc = "resolve" => purpose = "read"
         /\ \E d :
              /\ Fixed(job, tree, d)
              /\ pc \in {"resolve", "read", "merge"} => Leads(tree, Here, d)
         /\ pc = "error" /\ faults = 0 =>
              \E p \in DOMAIN tree :
                  tree[p].kind = "file" /\ ~Rereadable(tree[p].data)

-----------------------------------------------------------------------------
(* The trees stay good                                                     *)

LEMMA ParentsFacts ==
    ASSUME NEW p \in Path, NEW q \in Parents(p)
    PROVE  q \in Path /\ q # <<>> /\ Parents(q) \subseteq Parents(p)
  <1>1. Len(p) \in Nat
        BY LenProperties DEF Path
  <1>2. PICK i \in 1..(Len(p) - 1) : q = Pre(p, i)
        BY ParentsPre
  <1>3. i \in 0..Len(p) /\ i \in Nat /\ i > 0
        BY <1>1
  <1>4. q \in Path /\ Len(q) = i
        BY <1>2, <1>3, PreTyped
  <1>5. q # <<>>
    <2>1. Len(<<>>) = 0
          BY EmptySeq
    <2> QED
        BY <1>3, <1>4, <2>1
  <1>6. ASSUME NEW r \in Parents(q) PROVE r \in Parents(p)
    <2>1. PICK j \in 1..(Len(q) - 1) : r = Pre(q, j)
          BY ParentsPre
    <2>2. j \in 0..i /\ j \in 1..(Len(p) - 1)
          BY <1>1, <1>3, <1>4
    <2>3. r = Pre(p, j)
          BY <1>2, <1>3, <2>1, <2>2, PrePre
    <2> QED
        BY <2>2, <2>3, ParentsPre
  <1> QED
      BY <1>4, <1>5, <1>6

\* What Lstat says of the path that is written.
LEMMA TargetFacts ==
    ASSUME IsTree(tree), NEW p, Target(job, tree, data, p)
    PROVE  /\ p \in Path /\ p # <<>>
           /\ p \in DOMAIN tree => tree[p].kind = "file"
           /\ p \in DOMAIN tree <=> Lstat(tree, p) = "file"
  <1>1. p \in Path /\ p # <<>>
        BY DEF Target, Lstat
  <1> QED
      BY <1>1, LstatFacts DEF Target

\* Everything the image's files and the trees hold is a content.
LEMMA ContentTyped ==
    ASSUME NEW t, IsTree(t), NEW p
    PROVE  ContentAt(t, p) \in Content
  <1>1. Empty \in Content
    <2> DEFINE f == "PEM"
               w == ""
               e == <<>>
    <2>1. f \in Text /\ w \in Text
          BY DEF Text
    <2>2. e \in Seq(Entry)
          BY EmptySeq
    <2>3. Empty = [format |-> f, version |-> 0, password |-> w, cut |-> FALSE,
                   entries |-> e]
          BY DEF Empty
    <2> HIDE DEF f, w, e
    <2> QED
        BY <2>1, <2>2, <2>3 DEF Content
  <1> QED
      BY <1>1 DEF ContentAt, IsTree

LEMMA JobFacts ==
    ASSUME Typed
    PROVE  /\ IsTree(job.tree) /\ job.bundle \in Seq(STRING)
           /\ job.path \in Path
           /\ job.caller \in {"os", "java"}
  BY JobsAssumption DEF Typed

LEMMA TreesInit == Init => TreesInv
  <1> SUFFICES ASSUME Init PROVE TreesInv
      OBVIOUS
  <1>1. IsTree(job.tree)
        BY JobsAssumption DEF Init
  <1> QED
      BY <1>1 DEF Init, TreesInv, Good, Like, BaseAt, ContentAt

\* The directories of the target are made.
LEMMA MkdirGrows ==
    ASSUME Typed, TreesInv, Writes, MkdirAll
    PROVE  /\ IsTree(tree') /\ Grown(tree, tree', resolved)
           /\ \A p : ContentAt(tree', p) = ContentAt(tree, p)
  <1>1. IsTree(tree) /\ Target(job, tree, data, resolved)
        BY DEF TreesInv, Good, Writes, MkdirAll, Preparing
  <1>2. /\ resolved \in Path /\ resolved # <<>>
        /\ resolved \in DOMAIN tree => tree[resolved].kind = "file"
        BY <1>1, TargetFacts
  <1>3. \A q \in Parents(resolved) : q \in DOMAIN tree => tree[q].kind = "dir"
        BY <1>1 DEF Target
  <1> DEFINE D == DOMAIN tree \cup Parents(resolved)
  <1>4. tree' = [q \in D |-> IF q \in DOMAIN tree THEN tree[q]
                             ELSE [kind |-> "dir"]]
        BY DEF MkdirAll
  <1>5. /\ DOMAIN tree' = D /\ tree' = [q \in DOMAIN tree' |-> tree'[q]]
        /\ \A q \in DOMAIN tree : tree'[q] = tree[q]
        /\ \A q \in D : q \notin DOMAIN tree => tree'[q] = [kind |-> "dir"]
        BY <1>4
  <1>6. \A q \in Parents(resolved) :
          /\ q \in DOMAIN tree' /\ tree'[q].kind = "dir"
          /\ q \in Path /\ q # <<>> /\ Parents(q) \subseteq Parents(resolved)
        BY <1>2, <1>3, <1>5, ParentsFacts
  <1>7. \A q \in D : q \notin DOMAIN tree =>
          q \in Parents(resolved) /\ tree'[q].kind = "dir"
        BY <1>5
  <1> HIDE DEF D
  <1>8. IsTree(tree')
    <2>1. \A q \in DOMAIN tree :
            /\ q \in Path /\ q # <<>>
            /\ \A r \in Parents(q) : r \in DOMAIN tree' /\ tree'[r].kind = "dir"
            /\ tree'[q].kind \in {"dir", "file", "link", "special"}
            /\ tree'[q].kind = "file" => tree'[q].data \in Content
            /\ tree'[q].kind = "link" => tree'[q].to.path \in Path
      <3>1. DOMAIN tree \subseteq DOMAIN tree'
            BY <1>5 DEF D
      <3> QED
          BY <1>1, <1>5, <3>1 DEF IsTree
    <2>2. \A q \in DOMAIN tree' : q \notin DOMAIN tree =>
            /\ q \in Path /\ q # <<>>
            /\ \A r \in Parents(q) : r \in DOMAIN tree' /\ tree'[r].kind = "dir"
            /\ tree'[q].kind = "dir"
          BY <1>5, <1>6, <1>7
    <2> QED
        BY <1>5, <2>1, <2>2 DEF IsTree
  <1>9. Grown(tree, tree', resolved)
    <2>1. resolved \notin Parents(resolved) \/ resolved \in DOMAIN tree
      <3>1. Len(resolved) \in Nat
            BY <1>2, LenProperties DEF Path
      <3>2. \A i \in 1..(Len(resolved) - 1) : Len(Pre(resolved, i)) = i
            BY <1>2, <3>1, PreTyped
      <3> QED
          BY <3>1, <3>2, ParentsPre
    <2>2. resolved \in DOMAIN tree' => resolved \in DOMAIN tree
          BY <1>5, <1>7, <2>1
    <2> QED
        BY <1>2, <1>5, <1>6, <2>2 DEF Grown, D
  <1>10. ASSUME NEW p PROVE ContentAt(tree', p) = ContentAt(tree, p)
    <2>1. CASE p \in DOMAIN tree
          BY <1>5, <2>1 DEF ContentAt, D
    <2>2. CASE p \notin DOMAIN tree
          BY <1>5, <1>7, <2>2 DEF ContentAt
    <2> QED
        BY <2>1, <2>2
  <1> QED
      BY <1>8, <1>9, <1>10

\* The new file takes the place of the target.
LEMMA RenameGrows ==
    ASSUME Typed, TreesInv, Durable, Writes, TempInv, Rename
    PROVE  /\ IsTree(tree') /\ Grown(tree, tree', resolved)
           /\ resolved \in DOMAIN tree' /\ tree'[resolved].kind = "file"
           /\ ContentAt(tree', resolved) = data
           /\ \A p : p # resolved => ContentAt(tree', p) = ContentAt(tree, p)
           /\ Like(job, tree', resolved)
           /\ \A p \in DOMAIN tree' : p # resolved => p \in DOMAIN tree
  <1>1. /\ Good(job, tree) /\ IsTree(tree) /\ Target(job, tree, data, resolved)
        /\ Parents(resolved) \subseteq DOMAIN tree
        BY DEF TreesInv, Good, Writes, Rename, Preparing
  <1>2. /\ resolved \in Path /\ resolved # <<>>
        /\ resolved \in DOMAIN tree => tree[resolved].kind = "file"
        /\ resolved \in DOMAIN tree <=> Replaces
        BY <1>1, TargetFacts DEF Replaces
  <1>3. \A q \in Parents(resolved) : q \in DOMAIN tree /\ tree[q].kind = "dir"
        BY <1>1 DEF Target
  <1>4. data \in Content
    <2>1. ContentAt(tree, resolved) \in Content /\ job.bundle \in Seq(STRING)
          BY <1>1, ContentTyped, JobFacts
    <2> QED
        BY <1>1, <2>1, MergeFacts DEF Target
  <1>5. PICK f \in tmp : tree' = Put(resolved, f, tree)
        BY DEF Rename
  <1>6. /\ f.kind = "file" /\ f.data = data
        /\ f.mode = "all" \/ (Replaces /\ f.mode = tree[resolved].mode)
        /\ Replaces /\ job.mayChown =>
             f.mode = "all" \/ f.owner = tree[resolved].owner
        BY DEF Durable, IsFile, TempInv, Rename
  <1>7. /\ DOMAIN tree' = DOMAIN tree \cup {resolved}
        /\ tree' = [q \in DOMAIN tree' |-> tree'[q]]
        /\ tree'[resolved] = f
        /\ \A q \in DOMAIN tree : q # resolved => tree'[q] = tree[q]
        BY <1>5 DEF Put
  <1>8. \A q \in DOMAIN tree : tree[q].kind # "file" => q # resolved
        BY <1>2
  <1>9. IsTree(tree')
    <2>1. ASSUME NEW p \in DOMAIN tree'
          PROVE  /\ p \in Path /\ p # <<>>
                 /\ \A q \in Parents(p) :
                      q \in DOMAIN tree' /\ tree'[q].kind = "dir"
      <3>1. p \in Path /\ p # <<>>
            BY <1>1, <1>2, <1>7, <2>1 DEF IsTree
      <3>2. \A q \in Parents(p) : q \in DOMAIN tree /\ tree[q].kind = "dir"
            BY <1>1, <1>3, <1>7, <2>1 DEF IsTree
      <3> QED
          BY <1>7, <1>8, <3>1, <3>2
    <2>2. ASSUME NEW p \in DOMAIN tree'
          PROVE  /\ tree'[p].kind \in {"dir", "file", "link", "special"}
                 /\ tree'[p].kind = "file" => tree'[p].data \in Content
                 /\ tree'[p].kind = "link" => tree'[p].to.path \in Path
      <3>1. CASE p = resolved
            BY <1>4, <1>6, <1>7, <3>1
      <3>2. CASE p # resolved
            BY <1>1, <1>7, <2>2, <3>2 DEF IsTree
      <3> QED
          BY <3>1, <3>2
    <2> QED
        BY <1>7, <2>1, <2>2 DEF IsTree
  <1>10. Grown(tree, tree', resolved)
        BY <1>2, <1>3, <1>6, <1>7, <1>8 DEF Grown
  <1>11. ASSUME NEW p, p # resolved
         PROVE  ContentAt(tree', p) = ContentAt(tree, p)
        BY <1>7, <1>11 DEF ContentAt
  <1>12. Like(job, tree', resolved)
    <2>1. resolved \in DOMAIN job.tree => resolved \in DOMAIN tree
          BY <1>1 DEF Good
    <2>2. CASE Replaces
      <3>1. Like(job, tree, resolved)
            BY <1>1, <1>2, <2>2 DEF Good
      <3> QED
          BY <1>6, <1>7, <2>2, <3>1 DEF Like
    <2>3. CASE ~Replaces
          BY <1>2, <1>6, <1>7, <2>1, <2>3 DEF Like
    <2> QED
        BY <2>2, <2>3
  <1>13. ContentAt(tree', resolved) = data
        BY <1>6, <1>7 DEF ContentAt
  <1> QED
      BY <1>6, <1>7, <1>9, <1>10, <1>11, <1>12, <1>13

\* A file that still has to be updated is the image's.
LEMMA TargetIsBase ==
    ASSUME Typed, Good(job, tree), NEW p, Target(job, tree, data, p)
    PROVE  ContentAt(tree, p) = BaseAt(job, p)
  <1>1. CASE p \in DOMAIN tree
    <2>1. ASSUME Merged(job, tree, p) PROVE FALSE
      <3>1. BaseAt(job, p) \in Content /\ job.bundle \in Seq(STRING)
            BY JobFacts, ContentTyped DEF BaseAt
      <3>2. UpToDate(ContentAt(tree, p), job.bundle)
            BY <2>1, <3>1, MergeOnce DEF Merged
      <3> QED
          BY <3>2 DEF Target
    <2> QED
        BY <1>1, <2>1 DEF Good
  <1>2. CASE p \notin DOMAIN tree
        BY <1>2 DEF Good, ContentAt, BaseAt
  <1> QED
      BY <1>1, <1>2

LEMMA SurvivingSame ==
    ASSUME NEW t, IsTree(t), Stable(t)
    PROVE  Surviving(t) = t
  <1>1. \A p \in DOMAIN t : ~(t[p].kind = "file" /\ ~t[p].synced)
        BY DEF Stable
  <1>2. Surviving(t) = [p \in DOMAIN t |-> t[p]]
        BY <1>1 DEF Surviving
  <1> QED
      BY <1>2 DEF IsTree

\* The steps other than those that change a tree.
LEMMA TreeSteps ==
    ASSUME [Next]_vars
    PROVE  \/ MkdirAll \/ Rename \/ PowerLoss
           \/ tree' = tree /\ earlier' \subseteq earlier
  <1>1. CASE Resolve
        BY <1>1 DEF Resolve, ResolveMissing, ResolvePlain, ResolveLink,
           ResolveFails, ResolveEnds, diskVars
  <1>2. CASE Replace
        BY <1>2 DEF Replace, RefuseSymlink, CreateTemp, WriteTemp, Chmod,
           StatFails, Chown, Sync, OnTemp, SyncDir, WithoutDir, PrepareFails,
           TempFails, Cleanup, diskVars
  <1>3. CASE \/ Start \/ ReadFile \/ ReadFails \/ MergeFails \/ MergeNothing
             \/ MergeStore \/ Kill \/ Rerun
        BY <1>3 DEF Start, ReadFile, ReadFails, MergeFails, MergeNothing,
           MergeStore, Kill, Rerun, diskVars
  <1> QED
      BY <1>1, <1>2, <1>3 DEF Next, Hook, Over, vars, diskVars

LEMMA JobFixed ==
    ASSUME [Next]_vars
    PROVE  job' = job
  <1>1. CASE Resolve
        BY <1>1 DEF Resolve, ResolveMissing, ResolvePlain, ResolveLink,
           ResolveFails, ResolveEnds
  <1>2. CASE Replace
        BY <1>2 DEF Replace, MkdirAll, RefuseSymlink, CreateTemp, WriteTemp,
           Chmod, StatFails, Chown, Sync, OnTemp, Rename, SyncDir,
           PrepareFails, TempFails, Cleanup
  <1>3. CASE \/ Start \/ ReadFile \/ ReadFails \/ MergeFails \/ MergeNothing
             \/ MergeStore \/ Kill \/ PowerLoss \/ Rerun
        BY <1>3 DEF Start, ReadFile, ReadFails, MergeFails, MergeNothing,
           MergeStore, Kill, PowerLoss, Rerun
  <1> QED
      BY <1>1, <1>2, <1>3 DEF Next, Hook, Over, vars

LEMMA TreesStep ==
    Typed /\ TreesInv /\ Durable /\ Writes /\ TempInv /\ [Next]_vars
    => TreesInv'
  <1> SUFFICES ASSUME Typed, TreesInv, Durable, Writes, TempInv, [Next]_vars
               PROVE  TreesInv'
      OBVIOUS
  <1>0. job' = job
        BY JobFixed
  <1>1. CASE tree' = tree /\ earlier' \subseteq earlier
        BY <1>0, <1>1 DEF TreesInv
  <1>2. CASE MkdirAll
    <2>1. /\ IsTree(tree') /\ Grown(tree, tree', resolved)
          /\ \A p : ContentAt(tree', p) = ContentAt(tree, p)
          BY <1>2, MkdirGrows
    <2>2. earlier' \subseteq earlier \cup {tree}
          BY <1>2 DEF MkdirAll
    <2>3. ASSUME NEW p \in DOMAIN tree'
          PROVE  \/ p \in DOMAIN tree /\ tree'[p] = tree[p]
                 \/ p \notin DOMAIN tree /\ tree'[p].kind = "dir"
          BY <1>2, <2>3 DEF MkdirAll
    <2>4. Good(job, tree')
      <3>1. \A p \in DOMAIN job.tree :
              /\ p \in DOMAIN tree'
              /\ job.tree[p].kind = "file" => tree'[p].kind = "file"
            BY <2>1, <2>3 DEF Grown, TreesInv, Good
      <3>2. ASSUME NEW p \in DOMAIN tree', tree'[p].kind = "file"
            PROVE  Like(job, tree', p)
        <4>1. p \in DOMAIN tree /\ tree'[p] = tree[p]
              BY <2>3, <3>2
        <4>2. Like(job, tree, p)
              BY <3>2, <4>1 DEF TreesInv, Good
        <4> QED
            BY <4>1, <4>2 DEF Like
      <3>3. ASSUME NEW p \in DOMAIN tree'
            PROVE  ContentAt(tree', p) = BaseAt(job, p) \/ Merged(job, tree', p)
        <4>1. CASE p \in DOMAIN tree
              BY <2>1, <4>1 DEF TreesInv, Good, Merged
        <4>2. CASE p \notin DOMAIN tree
          <5>1. p \notin DOMAIN job.tree
                BY <4>2 DEF TreesInv, Good
          <5> QED
              BY <2>1, <4>2, <5>1 DEF ContentAt, BaseAt
        <4> QED
            BY <4>1, <4>2
      <3> QED
          BY <2>1, <3>1, <3>2, <3>3 DEF Good
    <2>5. ASSUME NEW t \in earlier'
          PROVE  /\ Good(job, t)
                 /\ \A p \in DOMAIN t : \/ ContentAt(t, p) = BaseAt(job, p)
                                        \/ ContentAt(t, p) = ContentAt(tree', p)
          BY <2>1, <2>2, <2>5 DEF TreesInv
    <2> QED
        BY <1>0, <2>4, <2>5 DEF TreesInv
  <1>3. CASE Rename
    <2>1. /\ IsTree(tree') /\ Grown(tree, tree', resolved)
          /\ resolved \in DOMAIN tree' /\ tree'[resolved].kind = "file"
          /\ ContentAt(tree', resolved) = data
          /\ \A p : p # resolved => ContentAt(tree', p) = ContentAt(tree, p)
          /\ Like(job, tree', resolved)
          /\ \A p \in DOMAIN tree' : p # resolved => p \in DOMAIN tree
          BY <1>3, RenameGrows
    <2>2. Good(job, tree) /\ Target(job, tree, data, resolved)
          BY <1>3 DEF TreesInv, Writes, Rename, Preparing
    <2>3. /\ ContentAt(tree, resolved) = BaseAt(job, resolved)
          /\ Merged(job, tree', resolved)
      <3>1. ContentAt(tree, resolved) = BaseAt(job, resolved)
            BY <2>2, TargetIsBase
      <3> QED
          BY <2>1, <2>2, <3>1 DEF Target, Merged
    <2>4. Good(job, tree')
      <3>1. \A p \in DOMAIN job.tree :
              /\ p \in DOMAIN tree'
              /\ job.tree[p].kind = "file" => tree'[p].kind = "file"
            BY <2>1, <2>2 DEF Grown, Good
      <3>2. ASSUME NEW p \in DOMAIN tree', tree'[p].kind = "file"
            PROVE  Like(job, tree', p)
        <4>1. CASE p # resolved
          <5>1. p \in DOMAIN tree /\ tree'[p] = tree[p]
                BY <2>1, <4>1 DEF Grown
          <5>2. Like(job, tree, p)
                BY <2>2, <3>2, <5>1 DEF Good
          <5> QED
              BY <5>1, <5>2 DEF Like
        <4> QED
            BY <2>1, <4>1
      <3>3. ASSUME NEW p \in DOMAIN tree'
            PROVE  ContentAt(tree', p) = BaseAt(job, p) \/ Merged(job, tree', p)
        <4>1. CASE p # resolved
              BY <2>1, <2>2, <4>1 DEF Good, Merged
        <4> QED
            BY <2>3, <4>1
      <3> QED
          BY <2>1, <3>1, <3>2, <3>3 DEF Good
    <2>5. earlier' = earlier \cup {tree}
          BY <1>3 DEF Rename
    <2>6. ASSUME NEW t \in earlier'
          PROVE  /\ Good(job, t)
                 /\ \A p \in DOMAIN t : \/ ContentAt(t, p) = BaseAt(job, p)
                                        \/ ContentAt(t, p) = ContentAt(tree', p)
      <3>1. /\ Good(job, t)
            /\ \A p \in DOMAIN t : \/ ContentAt(t, p) = BaseAt(job, p)
                                   \/ ContentAt(t, p) = ContentAt(tree, p)
            BY <2>5, <2>6 DEF TreesInv
      <3>2. \A p : \/ ContentAt(tree, p) = BaseAt(job, p)
                   \/ ContentAt(tree, p) = ContentAt(tree', p)
            BY <2>1, <2>3
      <3>3. ASSUME NEW p \in DOMAIN t
            PROVE  \/ ContentAt(t, p) = BaseAt(job, p)
                   \/ ContentAt(t, p) = ContentAt(tree', p)
            BY <3>1, <3>2
      <3> QED
          BY <3>1, <3>3
    <2> QED
        BY <1>0, <2>4, <2>6 DEF TreesInv
  <1>4. CASE PowerLoss
    <2>1. PICK t \in earlier \cup {tree} : tree' = Surviving(t)
          BY <1>4 DEF PowerLoss
    <2>2. Good(job, t) /\ Stable(t)
          BY DEF TreesInv, Durable
    <2>3. tree' = t
          BY <2>1, <2>2, SurvivingSame DEF Good
    <2>4. earlier' = {}
          BY <1>4 DEF PowerLoss
    <2> QED
        BY <1>0, <2>2, <2>3, <2>4 DEF TreesInv
  <1> QED
      BY <1>1, <1>2, <1>3, <1>4, TreeSteps

-----------------------------------------------------------------------------
(* The update stays on its course                                          *)

LEMMA BeginSound ==
    ASSUME Typed, NEW t
    PROVE  Sound(t, Begin(job))
  <1> DEFINE c == Begin(job)
             e == <<>>
  <1>1. e \in Path /\ Parents(e) = {}
    <2>1. e \in Path /\ Len(e) = 0
          BY EmptySeq DEF Path
    <2> QED
        BY <2>1 DEF Parents
  <1>2. Clean(job.path) \in Path
        BY JobFacts, CleanTyped
  <1>3. /\ c = [at |-> c.at, rest |-> c.rest, hops |-> c.hops]
        /\ c.at = e /\ c.rest = Clean(job.path) /\ c.hops = 0
        BY DEF Begin
  <1>4. IsState(c)
    <2> HIDE DEF c, e
    <2> QED
        BY <1>1, <1>2, <1>3 DEF IsState
  <1>5. \A q \in Parents(c.at) : FALSE
        BY <1>1, <1>3
  <1> QED
      BY <1>3, <1>4, <1>5 DEF Sound

\* The steps of ResolveSymlinks are those of the resolution.
LEMMA ResolveMoves ==
    ASSUME Typed, ResolveMissing \/ ResolvePlain \/ ResolveLink
    PROVE  /\ Moves(tree, Here) /\ Here' = Moved(tree, Here)
           /\ pc = "resolve"
           /\ UNCHANGED <<job, tree, pc, purpose, data, settled>>
  <1>0. hops \in Nat
        BY BoundsAssumption DEF Typed, TypeOK
  <1>1. NextName(Here) = Candidate /\ Here.rest = remaining
        BY DEF NextName, Here, Candidate
  <1>2. CASE ResolveMissing
        BY <1>1, <1>2 DEF ResolveMissing, Resolving, Moves, Moved, Here,
           diskVars
  <1>3. CASE ResolvePlain
        BY <1>1, <1>3 DEF ResolvePlain, Resolving, Moves, Moved, Here,
           Candidate,
           diskVars
  <1>4. CASE ResolveLink
        BY <1>0, <1>1, <1>4 DEF ResolveLink, Resolving, Moves, Moved, Here,
           HopsLeft, NextHops, Restart, Candidate, diskVars
  <1> QED
      BY <1>2, <1>3, <1>4

\* A step that neither resolves nor reads nor goes on to write.
Leaves == pc' \in {"start", "dirsync", "cleanup"} \cup Ended

LEMMA LeavesSteps ==
    ASSUME Typed,
           \/ ResolveFails \/ ReadFails \/ MergeFails \/ MergeNothing \/ Rename
           \/ SyncDir \/ PrepareFails \/ TempFails \/ Cleanup \/ Kill
           \/ PowerLoss \/ Rerun
    PROVE  Leaves
  BY DEF ResolveFails, ReadFails, MergeFails, MergeNothing, Rename, SyncDir,
     PrepareFails, TempFails, Cleanup, Kill, PowerLoss, Rerun, Return, Leaves,
     Typed, TypeOK

\* The steps of AtomicWrite up to the renaming.
Prepares ==
    /\ pc \in Preparing \ {"mkdir"}
    /\ pc' \in (Preparing \ {"mkdir", "lstat"}) \cup Ended
    /\ UNCHANGED <<job, tree, resolveVars, data>>

LEMMA PreparesSteps ==
    ASSUME RefuseSymlink \/ CreateTemp \/ WriteTemp \/ Chmod \/ StatFails
           \/ Chown \/ Sync
    PROVE  Prepares
  BY DEF RefuseSymlink, CreateTemp, WriteTemp, Chmod, StatFails, Chown, Sync,
     OnTemp, Return, Prepares, Preparing, diskVars

\* All steps, for the invariants about the course.
LEMMA CourseSteps ==
    ASSUME Typed, [Next]_vars
    PROVE  \/ Start \/ MergeStore \/ ResolveEnds \/ ReadFile \/ MkdirAll
           \/ ResolveMissing \/ ResolvePlain \/ ResolveLink
           \/ Leaves \/ Prepares \/ UNCHANGED vars
  BY LeavesSteps, PreparesSteps DEF Next, Hook, Resolve, Replace, Over

LEMMA ReadsStep ==
    Typed /\ TreesInv /\ Reads /\ [Next]_vars => Reads'
  <1> SUFFICES ASSUME Typed, TreesInv, Reads, [Next]_vars PROVE Reads'
      OBVIOUS
  <1>0. IsTree(tree)
        BY DEF TreesInv, Good
  <1>1. CASE Start \/ MergeStore
    <2>1. /\ pc' = "resolve" /\ Here' = Begin(job)
          /\ tree' = tree /\ job' = job
          BY <1>1 DEF Start, MergeStore, BeginResolve, Here, Begin, diskVars
    <2>2. Sound(tree, Begin(job)) /\ Leads(tree, Begin(job), Begin(job))
          BY BeginSound DEF Leads
    <2> QED
        BY <2>1, <2>2 DEF Reads
  <1>2. CASE ResolveMissing \/ ResolvePlain \/ ResolveLink
    <2>1. /\ Moves(tree, Here) /\ Here' = Moved(tree, Here)
          /\ pc = "resolve" /\ UNCHANGED <<job, tree, pc, purpose>>
          BY <1>2, ResolveMoves
    <2>2. Sound(tree, Here')
          BY <1>0, <2>1, MovedSound DEF Reads
    <2>3. purpose = "read" => Leads(tree, Begin(job), Here')
          BY <2>1, LeadsOn DEF Reads
    <2> QED
        BY <2>1, <2>2, <2>3 DEF Reads
  <1>3. CASE ResolveEnds
    <2>1. /\ pc = "resolve" /\ remaining' = <<>> /\ Here' = Here
          /\ pc' \in {"read", "mkdir"}
          /\ pc' = "read" => purpose' = "read"
          /\ UNCHANGED <<job, tree, purpose>>
          BY <1>3 DEF ResolveEnds, resolveVars, diskVars, Here
    <2> QED
        BY <2>1 DEF Reads
  <1>4. CASE ReadFile
    <2>1. /\ pc = "read" /\ pc' = "merge" /\ Here' = Here
          /\ UNCHANGED <<job, tree, purpose, remaining, resolved>>
          BY <1>4 DEF ReadFile, resolveVars, diskVars, Here
    <2>2. \/ /\ Lstat(tree, resolved) = "absent"
             /\ job.caller = "os" /\ data' = Empty
          \/ resolved \in DOMAIN tree /\ Read
          BY <1>4 DEF ReadFile
    <2>3. /\ Lstat(tree, resolved) \in {"file", "absent"}
          /\ Lstat(tree, resolved) = "absent" => job.caller = "os"
          /\ data' = ContentAt(tree, resolved)
      <3>1. CASE resolved \in DOMAIN tree /\ Read
        <4>1. resolved # <<>> /\ tree[resolved].kind = "file"
              BY <1>0, <3>1 DEF Read, IsTree
        <4> QED
            BY <3>1, <4>1 DEF Read, ContentAt, Lstat
      <3>2. CASE Lstat(tree, resolved) = "absent" /\ job.caller = "os"
                 /\ data' = Empty
        <4>1. resolved # <<>>
              BY <3>2 DEF Lstat
        <4>2. resolved \in DOMAIN tree => tree[resolved].kind # "file"
              BY <3>2, <4>1 DEF Lstat
        <4> QED
            BY <3>2, <4>2 DEF ContentAt
      <3> QED
          BY <2>2, <3>1, <3>2
    <2> QED
        BY <2>1, <2>3 DEF Reads
  <1>5. CASE MkdirAll \/ Leaves \/ Prepares
    <2>1. pc' \notin {"resolve", "read", "merge"}
          BY <1>5 DEF MkdirAll, Leaves, Prepares, Preparing
    <2> QED
        BY <2>1 DEF Reads
  <1>6. CASE UNCHANGED vars
        BY <1>6 DEF vars, diskVars, resolveVars, Reads, Here
  <1> QED
      BY <1>1, <1>2, <1>3, <1>4, <1>5, <1>6, CourseSteps

LEMMA WritesStep ==
    Typed /\ TreesInv /\ Reads /\ Writes /\ [Next]_vars => Writes'
  <1> SUFFICES ASSUME Typed, TreesInv, Reads, Writes, [Next]_vars PROVE Writes'
      OBVIOUS
  <1>0. IsTree(tree)
        BY DEF TreesInv, Good
  <1>1. CASE Start \/ ReadFile \/ Leaves
    <2>1. /\ pc' \notin Preparing
          /\ pc' = "resolve" => purpose' = "read"
          BY <1>1 DEF Start, BeginResolve, ReadFile, Leaves, Preparing
    <2> QED
        BY <2>1 DEF Writes
  <1>2. CASE MergeStore
    <2>1. /\ pc = "merge" /\ pc' = "resolve" /\ Here' = Begin(job)
          /\ UNCHANGED <<job, tree>>
          /\ Range(job.bundle) \subseteq Cert /\ Parsable(data)
          /\ job.caller = "java" => data.format # "PEM"
          /\ ~UpToDate(data, job.bundle)
          /\ data' = Merge(data, job.bundle)
          BY <1>2 DEF MergeStore, Mergeable, BeginResolve, Here, Begin, diskVars
    <2>2. /\ Sound(tree, Here) /\ remaining = <<>>
          /\ Leads(tree, Begin(job), Here)
          /\ Lstat(tree, resolved) \in {"file", "absent"}
          /\ data = ContentAt(tree, resolved)
          BY <2>1 DEF Reads
    <2>3. Here.at = resolved /\ Here.rest = <<>>
          BY <2>2 DEF Here
    <2>4. Target(job, tree, data', resolved)
          BY <2>1, <2>2, <2>3 DEF Target, Sound, IsState
    <2>5. \E d : /\ d.rest = <<>> /\ Target(job, tree, data', d.at)
                 /\ Leads(tree, Begin(job), d) /\ Leads(tree, Here', d)
          BY <2>1, <2>2, <2>3, <2>4
    <2> QED
        BY <2>1, <2>5 DEF Writes, Preparing
  <1>3. CASE ResolveMissing \/ ResolvePlain \/ ResolveLink
    <2>1. /\ Moves(tree, Here) /\ Here' = Moved(tree, Here)
          /\ pc = "resolve" /\ UNCHANGED <<job, tree, pc, purpose, data>>
          BY <1>3, ResolveMoves
    <2>2. CASE purpose = "write"
      <3>1. PICK d : /\ d.rest = <<>> /\ Target(job, tree, data, d.at)
                     /\ Leads(tree, Begin(job), d) /\ Leads(tree, Here, d)
            BY <2>1, <2>2 DEF Writes
      <3>2. Leads(tree, Here', d)
            BY <2>1, <3>1, LeadsFrom
      <3> QED
          BY <2>1, <3>1, <3>2 DEF Writes, Preparing
    <2>3. CASE purpose # "write"
          BY <2>1, <2>3 DEF Writes, Preparing
    <2> QED
        BY <2>2, <2>3
  <1>4. CASE ResolveEnds
    <2>1. /\ pc = "resolve" /\ remaining = <<>> /\ Here' = Here
          /\ pc' = IF purpose = "read" THEN "read" ELSE "mkdir"
          /\ UNCHANGED <<job, tree, data, resolved, remaining>>
          BY <1>4 DEF ResolveEnds, resolveVars, diskVars, Here
    <2>2. CASE purpose = "write"
      <3>1. PICK d : /\ d.rest = <<>> /\ Target(job, tree, data, d.at)
                     /\ Leads(tree, Begin(job), d) /\ Leads(tree, Here, d)
            BY <2>1, <2>2 DEF Writes
      <3>2. Here.rest = <<>> /\ Here.at = resolved
            BY <2>1 DEF Here
      <3>3. Here = d
            BY <3>1, <3>2, LeadsEnd DEF Moves
      <3>4. Target(job, tree, data, resolved) /\ Leads(tree, Begin(job), Here)
            BY <3>1, <3>2, <3>3
      <3>5. pc' = "mkdir"
            BY <2>1, <2>2
      <3> QED
          BY <2>1, <3>4, <3>5 DEF Writes
    <2>3. CASE purpose = "read"
          BY <2>1, <2>3 DEF Writes, Preparing
    <2> QED
        BY <2>2, <2>3 DEF Typed, TypeOK
  <1>5. CASE MkdirAll
    <2>1. /\ pc = "mkdir" /\ pc' = "lstat" /\ Here' = Here
          /\ UNCHANGED <<job, data, resolved, remaining>>
          BY <1>5 DEF MkdirAll, resolveVars, Here
    <2>2. /\ remaining = <<>> /\ Target(job, tree, data, resolved)
          /\ Leads(tree, Begin(job), Here)
          BY <2>1 DEF Writes, Preparing
    <2>3. /\ IsTree(tree') /\ Grown(tree, tree', resolved)
          /\ \A p : ContentAt(tree', p) = ContentAt(tree, p)
          BY <1>5, MkdirGrows
    <2>4. resolved \in Path /\ resolved # <<>>
          BY <1>0, <2>2, TargetFacts
    <2>5. \A q \in Parents(resolved) :
            q \in DOMAIN tree' /\ tree'[q].kind = "dir"
          BY <2>3 DEF Grown
    <2>6. Lstat(tree', resolved) \in {"file", "absent"}
      <3>1. CASE resolved \in DOMAIN tree'
            BY <2>3, <2>4, <3>1, LstatFacts DEF Grown
      <3>2. CASE resolved \notin DOMAIN tree'
            BY <2>3, <2>4, <2>5, <3>2, LstatFacts
      <3> QED
          BY <3>1, <3>2
    <2>7. Target(job, tree', data, resolved)
          BY <2>2, <2>3, <2>5, <2>6 DEF Target
    <2>8. Leads(tree', Begin(job), Here)
      <3>1. Here.rest = <<>> /\ Here.at = resolved
            BY <2>2 DEF Here
      <3> QED
          BY <1>0, <2>2, <2>3, <3>1, BeginSound, LeadsKept
    <2> QED
        BY <2>1, <2>2, <2>5, <2>7, <2>8 DEF Writes
  <1>6. CASE Prepares
    <2>1. Here' = Here
          BY <1>6 DEF Prepares, resolveVars, Here
    <2> QED
        BY <1>6, <2>1 DEF Prepares, Preparing, Ended, resolveVars, Writes
  <1>7. CASE UNCHANGED vars
        BY <1>7 DEF vars, diskVars, resolveVars, Writes, Here
  <1> QED
      BY <1>1, <1>2, <1>3, <1>4, <1>5, <1>6, <1>7, CourseSteps

LEMMA TempStep ==
    Typed /\ Durable /\ TempInv /\ [Next]_vars => TempInv'
  <1> SUFFICES ASSUME Typed, Durable, TempInv, [Next]_vars PROVE TempInv'
      OBVIOUS
  <1>1. CASE WriteTemp
        BY <1>1 DEF WriteTemp, OnTemp, TempInv, Durable, IsFile, FileFields
  <1>2. CASE Chmod \/ StatFails
        BY <1>2 DEF Chmod, StatFails, OnTemp, TempInv, Durable, IsFile,
           FileFields, Replaces, resolveVars
  <1>3. CASE Chown
        BY <1>3 DEF Chown, OnTemp, TempInv, Durable, IsFile, FileFields,
           Replaces,
           resolveVars
  <1>4. CASE Sync
        BY <1>4 DEF Sync, OnTemp, TempInv, Durable, IsFile, FileFields,
           Replaces,
           resolveVars
  <1>5. CASE \/ Start \/ MergeStore \/ ResolveEnds \/ ReadFile \/ MkdirAll
             \/ ResolveMissing \/ ResolvePlain \/ ResolveLink \/ Leaves
             \/ RefuseSymlink \/ CreateTemp
    <2>1. pc' \notin {"chmod", "chown", "sync", "rename"}
          BY <1>5 DEF Start, MergeStore, BeginResolve, ResolveEnds, ReadFile,
             MkdirAll, ResolveMissing, ResolvePlain, ResolveLink, Resolving,
             Leaves, RefuseSymlink, Return, CreateTemp
    <2> QED
        BY <2>1 DEF TempInv
  <1>6. CASE UNCHANGED vars
        BY <1>6 DEF vars, diskVars, resolveVars, TempInv, Replaces
  <1> QED
      BY <1>1, <1>2, <1>3, <1>4, <1>5, <1>6, LeavesSteps
         DEF Next, Hook, Resolve, Replace, Over

\* A run over a tree that is settled reads the file that needs no update.
LEMMA SettledHere ==
    ASSUME Reads, Settles, settled # {}, pc \in {"read", "merge"}
    PROVE  Fixed(job, tree, Here)
  <1>1. PICK d : Fixed(job, tree, d) /\ Leads(tree, Here, d)
        BY DEF Settles
  <1>2. ~Moves(tree, Here)
        BY DEF Reads, Here, Moves
  <1> QED
      BY <1>1, <1>2, LeadsEnd

\* It fails without a failed call only if the file has become too long.
LEMMA SettledFails ==
    ASSUME Typed, TreesInv, Reads, Settles, settled # {}, UNCHANGED faults,
           ResolveFails \/ ReadFails \/ MergeFails, faults = 0
    PROVE  \E p \in DOMAIN tree :
               tree[p].kind = "file" /\ ~Rereadable(tree[p].data)
  <1>0. IsTree(tree) /\ ~Fault
    <2>1. faults \in Nat
          BY JobsAssumption DEF Typed, TypeOK
    <2> QED
        BY <2>1 DEF TreesInv, Good, Fault
  <1>1. CASE ResolveFails
    <2>1. PICK d : Fixed(job, tree, d) /\ Leads(tree, Here, d)
          BY <1>1 DEF ResolveFails, Resolving, Settles
    <2>2. NextName(Here) = Candidate /\ Here.rest # <<>> /\ Here.hops = hops
          BY <1>1 DEF ResolveFails, Resolving, Here, NextName, Candidate
    <2>3. ~Moves(tree, Here)
          BY <1>0, <1>1, <2>2 DEF ResolveFails, Moves, HopsLeft
    <2> QED
        BY <2>1, <2>2, <2>3, LeadsEnd DEF Fixed
  <1>2. CASE ReadFails
    <2>1. Fixed(job, tree, Here) /\ Here.at = resolved
          BY <1>2, SettledHere DEF ReadFails, Here
    <2>2. /\ Lstat(tree, resolved) = "file"
          /\ Len(tree[resolved].data.entries) > MaxReadSize
          BY <1>0, <1>2, <2>1 DEF ReadFails, Fixed
    <2>3. resolved \in DOMAIN tree /\ tree[resolved].kind = "file"
          BY <2>2 DEF Lstat
    <2>4. tree[resolved].data \in Content
          BY <1>0, <2>3 DEF IsTree
    <2>5. Len(tree[resolved].data.entries) \in Nat
          BY <2>4, LenProperties DEF Content
    <2>6. ~Rereadable(tree[resolved].data)
          BY <2>2, <2>5, SizesAssumption DEF Rereadable
    <2> QED
        BY <2>3, <2>6
  <1>3. CASE MergeFails
    <2>1. Fixed(job, tree, Here) /\ Here.at = resolved
          BY <1>3, SettledHere DEF MergeFails, Here
    <2>2. data = ContentAt(tree, resolved)
          BY <1>3 DEF MergeFails, Reads
    <2>3. ~Parsable(ContentAt(tree, resolved))
          BY <1>0, <1>3, <2>1, <2>2 DEF MergeFails, Mergeable, Fixed
    <2>4. ~Rereadable(ContentAt(tree, resolved))
          BY <2>1, <2>3 DEF Fixed
    <2>5. Parsable(Empty)
          BY DEF Parsable, Empty
    <2> QED
        BY <2>3, <2>4, <2>5 DEF ContentAt
  <1> QED
      BY <1>1, <1>2, <1>3

\* Once the new file is in its place no update is needed.
LEMMA RenameFixes ==
    ASSUME Typed, TreesInv, Durable, Writes, TempInv, Rename
    PROVE  /\ Fixed(job, tree', Here)
           /\ Range(job.bundle) \subseteq View(ContentAt(tree', resolved))
  <1>1. /\ IsTree(tree') /\ Grown(tree, tree', resolved)
        /\ resolved \in DOMAIN tree' /\ tree'[resolved].kind = "file"
        /\ ContentAt(tree', resolved) = data
        BY RenameGrows
  <1>2. /\ IsTree(tree) /\ Target(job, tree, data, resolved)
        /\ remaining = <<>> /\ Leads(tree, Begin(job), Here)
        BY DEF TreesInv, Good, Writes, Rename, Preparing
  <1>3. Here.at = resolved /\ Here.rest = <<>>
        BY <1>2 DEF Here
  <1>4. Leads(tree', Begin(job), Here)
        BY <1>1, <1>2, <1>3, BeginSound, LeadsKept
  <1>5. Lstat(tree', resolved) = "file"
        BY <1>1 DEF Lstat, IsTree
  <1> DEFINE c == ContentAt(tree, resolved)
  <1>6. /\ c \in Content /\ job.bundle \in Seq(STRING)
        /\ Range(job.bundle) \subseteq Cert /\ Parsable(c)
        /\ data = Merge(c, job.bundle)
        /\ job.caller = "java" => c.format # "PEM"
        BY <1>2, ContentTyped, JobFacts DEF Target
  <1> HIDE DEF c
  <1>7. /\ UpToDate(data, job.bundle)
        /\ Rereadable(data) => Parsable(data)
        /\ Range(job.bundle) \subseteq View(data)
        /\ data.format = c.format
        BY <1>6, MergeOnce, MergeParses, MergeKeeps, MergeFacts
  <1> QED
      BY <1>1, <1>3, <1>4, <1>5, <1>6, <1>7 DEF Fixed

LEMMA SettlesStep ==
    /\ Typed /\ TreesInv /\ Durable /\ Reads /\ Writes /\ TempInv /\ Settles
    /\ [Next]_vars
    => Settles'
  <1> SUFFICES ASSUME Typed, TreesInv, Durable, Reads, Writes, TempInv, Settles,
                      [Next]_vars
               PROVE  Settles'
      OBVIOUS
  <1>0. job' = job
        BY JobFixed
  <1>1. CASE Start
    <2>1. /\ pc' = "resolve" /\ purpose' = "read" /\ Here' = Begin(job)
          /\ UNCHANGED <<tree, settled>>
          BY <1>1 DEF Start, BeginResolve, Here, Begin, diskVars
    <2>2. settled # {} =>
            \E d : Fixed(job, tree, d) /\ Leads(tree, Begin(job), d)
          BY DEF Settles, Fixed
    <2> QED
        BY <1>0, <2>1, <2>2 DEF Settles
  <1>2. CASE ResolveMissing \/ ResolvePlain \/ ResolveLink
    <2>1. /\ Moves(tree, Here) /\ Here' = Moved(tree, Here)
          /\ pc = "resolve" /\ UNCHANGED <<tree, pc, purpose, settled>>
          BY <1>2, ResolveMoves
    <2>2. ASSUME settled # {}
          PROVE  \E d : Fixed(job, tree, d) /\ Leads(tree, Here', d)
      <3>1. PICK d : Fixed(job, tree, d) /\ Leads(tree, Here, d)
            BY <2>1, <2>2 DEF Settles
      <3>2. Leads(tree, Here', d)
            BY <2>1, <3>1, LeadsFrom DEF Fixed
      <3> QED
          BY <3>1, <3>2
    <2> QED
        BY <1>0, <2>1, <2>2 DEF Settles
  <1>3. CASE ResolveFails \/ ReadFails \/ MergeFails
    <2>1. /\ pc \in {"resolve", "read", "merge"} /\ pc' = "error"
          /\ UNCHANGED <<tree, settled>>
          /\ Fault \/ UNCHANGED faults
          BY <1>3 DEF ResolveFails, Resolving, ReadFails, MergeFails, Return,
             diskVars
    <2>2. Fault => faults' # 0
          BY JobsAssumption DEF Fault, Typed, TypeOK
    <2>3. settled # {} /\ faults' = 0 =>
            \E p \in DOMAIN tree :
                tree[p].kind = "file" /\ ~Rereadable(tree[p].data)
          BY <1>3, <2>1, <2>2, SettledFails
    <2> QED
        BY <1>0, <2>1, <2>3 DEF Settles
  <1>4. CASE ResolveEnds
    <2>1. /\ pc = "resolve" /\ Here' = Here
          /\ pc' \in {"read", "mkdir"}
          /\ purpose = "read" => pc' = "read"
          /\ UNCHANGED <<tree, settled>>
          BY <1>4 DEF ResolveEnds, Here, resolveVars, diskVars
    <2> QED
        BY <1>0, <2>1 DEF Settles
  <1>5. CASE ReadFile
    <2>1. /\ pc = "read" /\ pc' = "merge" /\ Here' = Here
          /\ UNCHANGED <<tree, settled>>
          BY <1>5 DEF ReadFile, Here, resolveVars, diskVars
    <2> QED
        BY <1>0, <2>1 DEF Settles
  <1>6. CASE MergeNothing
    <2>1. /\ pc = "merge" /\ pc' = "done" /\ settled' = {tree} /\ tree' = tree
          /\ Range(job.bundle) \subseteq Cert /\ Parsable(data)
          /\ UpToDate(data, job.bundle)
          /\ job.caller = "java" => data.format # "PEM"
          BY <1>6 DEF MergeNothing, Mergeable, Return, diskVars
    <2>2. Here.at = resolved /\ Here.rest = <<>>
          BY <2>1 DEF Reads, Here
    <2>3. Fixed(job, tree, Here)
          BY <2>1, <2>2 DEF Reads, Fixed
    <2> QED
        BY <1>0, <2>1, <2>3 DEF Settles, Ended
  <1>7. CASE MergeStore
    <2>1. /\ pc = "merge" /\ pc' = "resolve" /\ UNCHANGED <<tree, settled>>
          /\ ~UpToDate(data, job.bundle)
          BY <1>7 DEF MergeStore, BeginResolve, diskVars
    <2>2. settled = {}
          BY <2>1, SettledHere DEF Reads, Fixed, Here
    <2> QED
        BY <2>1, <2>2 DEF Settles
  <1>8. CASE \/ MkdirAll \/ RefuseSymlink \/ CreateTemp \/ WriteTemp
             \/ Chmod \/ StatFails
             \/ Chown \/ Sync \/ PrepareFails \/ TempFails
    <2>1. /\ pc \in Preparing /\ settled' = settled /\ pc' # "dirsync"
          /\ pc' = "cleanup" => outcome' # "done"
          BY <1>8 DEF MkdirAll, RefuseSymlink, CreateTemp, WriteTemp, Chmod,
             StatFails, Chown, Sync, OnTemp, PrepareFails, TempFails, Return,
             Preparing
    <2>2. settled = {}
          BY <2>1 DEF Settles, Preparing, Ended
    <2> QED
        BY <2>1, <2>2 DEF Settles
  <1>9. CASE Rename
    <2>1. /\ Here' = Here /\ resolved' = resolved
          /\ pc = "rename" /\ pc' = "dirsync" /\ settled' = settled
          BY <1>9 DEF Rename, Here, resolveVars
    <2>2. settled = {}
          BY <2>1 DEF Settles, Ended
    <2>3. /\ Fixed(job, tree', Here)
          /\ Range(job.bundle) \subseteq View(ContentAt(tree', resolved))
          BY <1>9, RenameFixes
    <2> QED
        BY <1>0, <2>1, <2>2, <2>3 DEF Settles
  <1>10. CASE SyncDir
    <2>1. /\ Here' = Here /\ pc = "dirsync" /\ pc' = "cleanup"
          /\ UNCHANGED <<tree, settled, resolved>>
          BY <1>10 DEF SyncDir, Here, resolveVars
    <2>2. settled = {}
          BY <2>1 DEF Settles, Ended
    <2> QED
        BY <1>0, <2>1, <2>2 DEF Settles
  <1>11. CASE Cleanup
    <2>1. /\ pc = "cleanup" /\ pc' = outcome /\ tree' = tree
          /\ settled' = IF outcome = "done" THEN {tree} ELSE settled
          /\ outcome \in {"done", "error"}
          BY <1>11 DEF Cleanup, Return, Typed, TypeOK
    <2>2. settled = {}
          BY <2>1 DEF Settles, Ended
    <2>3. CASE outcome = "done"
      <3>1. Fixed(job, tree, Here)
            BY <2>1, <2>3 DEF Settles
      <3> QED
          BY <1>0, <2>1, <2>3, <3>1 DEF Settles, Ended
    <2>4. CASE outcome = "error"
          BY <2>1, <2>2, <2>4 DEF Settles
    <2> QED
        BY <2>1, <2>3, <2>4
  <1>12. CASE Kill \/ Rerun
    <2>1. pc' \in {"killed", "start"} /\ UNCHANGED <<tree, settled>>
          BY <1>12 DEF Kill, Rerun, diskVars
    <2> QED
        BY <1>0, <2>1 DEF Settles, Ended
  <1>13. CASE PowerLoss
        BY <1>13 DEF PowerLoss, Settles
  <1>14. CASE UNCHANGED vars
        BY <1>14 DEF vars, diskVars, resolveVars, boundVars, Settles, Here
  <1> QED
      BY <1>1, <1>2, <1>3, <1>4, <1>5, <1>6, <1>7, <1>8, <1>9, <1>10, <1>11,
         <1>12, <1>13, <1>14 DEF Next, Hook, Resolve, Replace, Over

-----------------------------------------------------------------------------
(* What the update keeps                                                   *)

\* The course of an update and its trees.
Course ==
    /\ Typed /\ Durable
    /\ TreesInv /\ Reads /\ Writes /\ TempInv /\ Settles

LEMMA CourseInit == Init => Course
  <1>1. Init => Reads /\ Writes /\ TempInv /\ Settles
        BY DEF Init, Reads, Writes, Preparing, TempInv, Settles
  <1> QED
      BY <1>1, TypedInit, DurableInit, TreesInit DEF Course

LEMMA CourseStep == Course /\ [Next]_vars => Course'
  BY TypedStep, DurableStep, TreesStep, ReadsStep, WritesStep, TempStep,
     SettlesStep DEF Course

\* Whoever could read a file of the image can read what AtomicWrite has made
\* of it, whichever call failed and wherever the hook was killed.
THEOREM ReadersKept == Spec => []StaysReadable
  <1>1. Course => StaysReadable
    <2> SUFFICES ASSUME Course, NEW p \in DOMAIN tree, tree[p].kind = "file"
                 PROVE  IF p \in DOMAIN job.tree
                        THEN \/ Readers(job.tree[p]) \subseteq Readers(tree[p])
                             \/ ~job.mayChown /\ job.tree[p].mode # "all"
                        ELSE tree[p].mode = "all"
        BY DEF StaysReadable
    <2>1. Like(job, tree, p)
          BY DEF Course, TreesInv, Good
    <2>2. p \in DOMAIN job.tree =>
            job.tree[p].kind = "file" /\ job.tree[p].owner \in {"root", "user"}
          BY <2>1, JobsAssumption DEF Like, Course, Typed
    <2> QED
        BY <2>1, <2>2 DEF Like, Readers
  <1> QED
      BY <1>1, CourseInit, CourseStep, PTL DEF Spec

\* A run after an update that was reported as done changes no file, and fails
\* only with a system call or over a store that is too long to be read.
THEOREM RunsOnce == Spec => []Idempotent
  <1>1. Course => Idempotent
        BY DEF Course, Settles, Idempotent
  <1> QED
      BY <1>1, CourseInit, CourseStep, PTL DEF Spec

\* The stages of the steps that go on to a later one.
LEMMA StagesLater ==
    ASSUME Typed, Hook, ~(ResolveMissing \/ ResolvePlain \/ ResolveLink)
    PROVE  Stage' > Stage
  <1> USE DEF Stage, Stages
  <1>1. CASE \/ Start \/ ReadFile \/ ReadFails \/ MergeFails \/ MergeNothing
             \/ MergeStore
        BY <1>1 DEF Start, BeginResolve, ReadFile, ReadFails, MergeFails,
           MergeNothing, MergeStore, Return
  <1>2. CASE ResolveFails \/ ResolveEnds
        BY <1>2 DEF ResolveFails, ResolveEnds, Resolving, Return, Typed, TypeOK
  <1>3. CASE \/ MkdirAll \/ RefuseSymlink \/ CreateTemp \/ WriteTemp
             \/ Chmod \/ StatFails
             \/ Chown \/ Sync
    <2>1. \/ pc = "mkdir" /\ pc' = "lstat"
          \/ pc = "lstat" /\ pc' \in {"create", "error"}
          \/ pc = "create" /\ pc' = "write"
          \/ pc = "write" /\ pc' = "chmod"
          \/ pc = "chmod" /\ pc' \in {"chown", "sync"}
          \/ pc = "chown" /\ pc' = "sync"
          \/ pc = "sync" /\ pc' = "rename"
          BY <1>3 DEF MkdirAll, RefuseSymlink, CreateTemp, WriteTemp, Chmod,
             StatFails, Chown, Sync, OnTemp, Return
    <2> QED
        BY <2>1
  <1>4. CASE Rename \/ SyncDir \/ PrepareFails \/ TempFails \/ Cleanup
        BY <1>4 DEF Rename, SyncDir, PrepareFails, TempFails, Cleanup, Return,
           Typed, TypeOK
  <1> QED
      BY <1>1, <1>2, <1>3, <1>4 DEF Hook, Resolve, Replace

\* Every step of the hook goes on, whatever cycles the links make: with
\* hops =< MaxHops, that is why an update that is not killed ends.
THEOREM NeverBack == Spec => GoesOn
  <1> DEFINE A == Hook =>
                    \/ Stage' > Stage
                    \/ Stage' = Stage /\ hops' > hops
                    \/ /\ Stage' = Stage /\ hops' = hops
                       /\ Len(remaining') < Len(remaining)
  <1>1. Course /\ [Next]_vars => [A]_vars
    <2> SUFFICES ASSUME Course, Hook
                 PROVE  \/ Stage' > Stage
                        \/ Stage' = Stage /\ hops' > hops
                        \/ /\ Stage' = Stage /\ hops' = hops
                           /\ Len(remaining') < Len(remaining)
        OBVIOUS
    <2>0. Typed
          BY DEF Course
    <2>1. CASE ResolveMissing \/ ResolvePlain \/ ResolveLink
      <3>1. pc = "resolve" /\ remaining # <<>> /\ UNCHANGED <<pc, purpose>>
            BY <2>1 DEF ResolveMissing, ResolvePlain, ResolveLink, Resolving
      <3>2. Stage' = Stage
            BY <3>1 DEF Stage
      <3>3. remaining \in Path
            BY <3>1 DEF Course, Reads, Sound, IsState, Here
      <3>4. /\ Len(remaining) \in Nat \ {0} /\ Len(<<>>) = 0
            /\ Len(Tail(remaining)) = Len(remaining) - 1
            BY <3>1, <3>3, LenProperties, EmptySeq, HeadTailProperties DEF Path
      <3>5. CASE ResolveLink
        <4>1. hops \in Nat /\ hops' = hops + 1
              BY <2>0, <3>5, BoundsAssumption
                 DEF ResolveLink, NextHops, Typed, TypeOK
        <4> QED
            BY <3>2, <4>1
      <3>6. CASE ResolveMissing \/ ResolvePlain
        <4>1. hops' = hops /\ remaining' \in {<<>>, Tail(remaining)}
              BY <3>6 DEF ResolveMissing, ResolvePlain
        <4>2. Len(remaining') < Len(remaining)
              BY <3>4, <4>1
        <4> QED
            BY <3>2, <4>1, <4>2
      <3> QED
          BY <2>1, <3>5, <3>6
    <2>2. CASE ~(ResolveMissing \/ ResolvePlain \/ ResolveLink)
          BY <2>0, <2>2, StagesLater
    <2> QED
        BY <2>1, <2>2
  <1> QED
      BY <1>1, CourseInit, CourseStep, PTL DEF Spec, GoesOn

-----------------------------------------------------------------------------
(* Every file of the container keeps the promise of TrustFile              *)

\* What a program that opens the file p finds.
HeldAt(t, p) == View(ContentAt(t, p))

FileAt(p) == INSTANCE TrustFile WITH
    Item <- STRING,
    base <- HeldAt(job.tree, p), org <- Range(job.bundle),
    held <- HeldAt(tree, p), done <- pc = "done" /\ resolved = p

\* No key store of the image has the whole bundle, but some of it only in an
\* entry that a later one with the same alias hides.  mergeStore looks at all
\* entries, and leaves such a store as it is.
NothingHidden ==
    \A j \in Jobs : \A p \in DOMAIN j.tree :
        /\ j.tree[p].kind = "file"
        /\ UpToDate(j.tree[p].data, j.bundle)
        => Range(j.bundle) \subseteq View(j.tree[p].data)

LEMMA HeldTyped ==
    ASSUME NEW t, IsTree(t), NEW p
    PROVE  HeldAt(t, p) \subseteq STRING
  <1> DEFINE c == ContentAt(t, p)
  <1>1. c \in Content
        BY ContentTyped
  <1> HIDE DEF c
  <1>2. \A i \in DOMAIN c.entries : c.entries[i].cert \in STRING
    <2>1. c.entries \in Seq(Entry)
          BY <1>1 DEF Content
    <2>2. \A i \in DOMAIN c.entries : c.entries[i] \in Entry
          BY <2>1, ElementOfSeq, LenProperties
    <2> QED
        BY <2>2 DEF Entry
  <1>3. View(c) \subseteq STRING
        BY <1>2 DEF View
  <1> QED
      BY <1>3 DEF HeldAt, c

LEMMA BundleTyped ==
    ASSUME NEW b \in Seq(STRING)
    PROVE  Range(b) \subseteq STRING
  <1>1. \A i \in DOMAIN b : b[i] \in STRING
        BY ElementOfSeq, LenProperties
  <1> QED
      BY <1>1 DEF Range

\* An up-to-date store shows all certificates of the bundle.
LEMMA UpToDateShown ==
    ASSUME NothingHidden, Course, NEW p,
           UpToDate(ContentAt(tree, p), job.bundle)
    PROVE  Range(job.bundle) \subseteq HeldAt(tree, p)
  <1> DEFINE c == ContentAt(tree, p)
             b == job.bundle
  <1>1. /\ IsTree(tree) /\ IsTree(job.tree) /\ b \in Seq(STRING)
        /\ job \in Jobs
        BY JobFacts DEF Course, TreesInv, Good, Typed
  <1>2. Range(b) \subseteq Certs(c.entries)
    <2>1. Range(<<>>) = {}
          BY EmptySeq DEF Range
    <2>2. /\ Range(b) \subseteq Certs(c.entries) \cup
                                 Range(Missing(Certs(c.entries), b))
          BY <1>1, MissingFacts
    <2> QED
        BY <2>1, <2>2 DEF UpToDate
  <1>3. CASE p \in DOMAIN tree /\ tree[p].kind = "file" /\ Merged(job, tree, p)
    <2>1. BaseAt(job, p) \in Content
          BY <1>1, ContentTyped DEF BaseAt
    <2> QED
        BY <1>1, <1>3, <2>1, MergeKeeps DEF Merged, HeldAt
  <1>4. CASE p \in DOMAIN tree /\ tree[p].kind = "file" /\ c = BaseAt(job, p)
    <2>1. CASE p \in DOMAIN job.tree /\ job.tree[p].kind = "file"
          BY <1>1, <1>4, <2>1 DEF NothingHidden, BaseAt, ContentAt, HeldAt
    <2>2. CASE ~(p \in DOMAIN job.tree /\ job.tree[p].kind = "file")
      <3>1. c = Empty
            BY <1>4, <2>2 DEF BaseAt, ContentAt
      <3>2. Certs(Empty.entries) = {}
            BY EmptySeq DEF Certs, Empty
      <3> QED
          BY <1>2, <3>1, <3>2
    <2> QED
        BY <2>1, <2>2
  <1>5. CASE ~(p \in DOMAIN tree /\ tree[p].kind = "file")
    <2>1. c = Empty
          BY <1>5 DEF ContentAt
    <2>2. Certs(Empty.entries) = {}
          BY EmptySeq DEF Certs, Empty
    <2> QED
        BY <1>2, <2>1, <2>2
  <1>6. p \in DOMAIN tree => c = BaseAt(job, p) \/ Merged(job, tree, p)
        BY DEF Course, TreesInv, Good
  <1> QED
      BY <1>3, <1>4, <1>5, <1>6

LEMMA FileInit ==
    ASSUME NEW p
    PROVE  Init => FileAt(p)!Init
  <1> SUFFICES ASSUME Init PROVE FileAt(p)!Init
      OBVIOUS
  <1>1. IsTree(job.tree) /\ job.bundle \in Seq(STRING) /\ tree = job.tree
        BY JobsAssumption DEF Init
  <1>2. /\ HeldAt(job.tree, p) \subseteq STRING
        /\ Range(job.bundle) \subseteq STRING
        BY <1>1, HeldTyped, BundleTyped
  <1> QED
      BY <1>1, <1>2 DEF Init, FileAt!Init

LEMMA FileStep ==
    ASSUME NothingHidden, NEW p
    PROVE  Course /\ [Next]_vars => [FileAt(p)!Next]_(FileAt(p)!vars)
  <1> SUFFICES ASSUME Course, [Next]_vars
               PROVE  [FileAt(p)!Next]_(FileAt(p)!vars)
      OBVIOUS
  <1> USE DEF FileAt!Next, FileAt!vars
  <1>0. job' = job
        BY JobFixed DEF Course
  <1>1. CASE MergeNothing
    <2>1. /\ pc = "merge" /\ pc' = "done" /\ UNCHANGED <<tree, resolved>>
          /\ UpToDate(ContentAt(tree, resolved), job.bundle)
          BY <1>1 DEF MergeNothing, Return, diskVars, resolveVars, Course, Reads
    <2>2. Range(job.bundle) \subseteq HeldAt(tree, resolved)
          BY <2>1, UpToDateShown
    <2> QED
        BY <1>0, <2>1, <2>2 DEF FileAt!Report
  <1>2. CASE Cleanup
    <2>1. pc = "cleanup" /\ pc' = outcome /\ UNCHANGED <<tree, resolved>>
          BY <1>2 DEF Cleanup, Return, resolveVars
    <2>2. outcome = "done" => Range(job.bundle) \subseteq HeldAt(tree, resolved)
          BY <2>1 DEF Course, Settles, HeldAt
    <2> QED
        BY <1>0, <2>1, <2>2 DEF FileAt!Report
  <1>3. CASE Rename
    <2>1. /\ pc = "rename" /\ pc' = "dirsync"
          BY <1>3 DEF Rename
    <2>2. /\ IsTree(tree') /\ ContentAt(tree', resolved) = data
          /\ \A q : q # resolved => ContentAt(tree', q) = ContentAt(tree, q)
          BY <1>3, RenameGrows DEF Course
    <2>3. CASE p # resolved
          BY <1>0, <2>1, <2>2, <2>3 DEF HeldAt
    <2>4. CASE p = resolved
      <3> DEFINE c == ContentAt(tree, resolved)
      <3>1. /\ c \in Content /\ job.bundle \in Seq(STRING)
            /\ Parsable(c) /\ data = Merge(c, job.bundle)
            BY <2>1, ContentTyped, JobFacts
               DEF Course, TreesInv, Good, Writes, Preparing, Target
      <3>2. View(c) \cup Range(job.bundle) \subseteq View(data)
            BY <3>1, MergeKeeps
      <3>3. HeldAt(tree', p) \subseteq STRING
            BY <2>2, HeldTyped
      <3> QED
          BY <1>0, <2>1, <2>2, <2>4, <3>2, <3>3 DEF HeldAt, FileAt!Patch
    <2> QED
        BY <2>3, <2>4
  <1>4. CASE MkdirAll
    <2>1. ContentAt(tree', p) = ContentAt(tree, p)
          BY <1>4, MkdirGrows DEF Course
    <2> QED
        BY <1>0, <1>4, <2>1 DEF MkdirAll, HeldAt
  <1>5. CASE PowerLoss
    <2>1. PICK t \in earlier \cup {tree} : tree' = Surviving(t)
          BY <1>5 DEF PowerLoss
    <2>2. Good(job, t) /\ Stable(t)
          BY DEF Course, TreesInv, Durable
    <2>3. tree' = t
          BY <2>1, <2>2, SurvivingSame DEF Good
    <2>4. \/ ContentAt(t, p) = BaseAt(job, p)
          \/ ContentAt(t, p) = ContentAt(tree, p)
      <3>1. CASE p \in DOMAIN t
            BY <3>1 DEF Course, TreesInv
      <3>2. CASE p \notin DOMAIN t
            BY <2>2, <3>2 DEF Good, BaseAt, ContentAt
      <3> QED
          BY <3>1, <3>2
    <2>5. pc' = "killed"
          BY <1>5 DEF PowerLoss
    <2> QED
        BY <1>0, <2>3, <2>4, <2>5 DEF HeldAt, BaseAt, FileAt!PowerLoss
  <1>6. CASE Rerun
        BY <1>0, <1>6 DEF Rerun, Running, Ended, FileAt!Again
  <1>7. CASE \/ Start \/ Resolve \/ ReadFile \/ ReadFails \/ MergeFails
             \/ MergeStore \/ RefuseSymlink \/ CreateTemp \/ WriteTemp
             \/ Chmod \/ StatFails
             \/ Chown \/ Sync \/ SyncDir \/ PrepareFails \/ TempFails \/ Kill
    <2>1. CASE \/ Resolve \/ Start \/ ReadFile \/ ReadFails \/ MergeFails
               \/ MergeStore \/ Kill
          BY <1>0, <2>1 DEF Start, Resolve, ResolveMissing, ResolvePlain,
             ResolveLink, ResolveFails, ResolveEnds, Resolving, BeginResolve,
             Return, ReadFile, ReadFails, MergeFails, MergeStore, Kill, Running,
             Ended, diskVars
    <2>2. CASE \/ RefuseSymlink \/ CreateTemp \/ WriteTemp \/ Chmod
               \/ StatFails \/ Chown
               \/ Sync \/ SyncDir \/ PrepareFails \/ TempFails
          BY <1>0, <2>2 DEF RefuseSymlink, CreateTemp, WriteTemp, Chmod,
             StatFails, Chown, Sync, OnTemp, SyncDir, PrepareFails, TempFails,
             Return, diskVars
    <2> QED
        BY <1>7, <2>1, <2>2
  <1>8. CASE UNCHANGED vars
        BY <1>8 DEF vars, diskVars, resolveVars
  <1> QED
      BY <1>1, <1>2, <1>3, <1>4, <1>5, <1>6, <1>7, <1>8
         DEF Next, Hook, Replace, Over

\* Whoever opens a file of the container finds all that the image's file
\* held, with or without the organisation's certificates and never some of
\* them only, and all of them once the update of that file is reported as
\* done, whichever calls fail and whenever the hook is killed.
THEOREM FilesPromise ==
    ASSUME NothingHidden, NEW p
    PROVE  Spec => FileAt(p)!Spec
  <1>1. Init => FileAt(p)!Init
        BY FileInit
  <1>2. Course /\ [Next]_vars => [FileAt(p)!Next]_(FileAt(p)!vars)
        BY FileStep
  <1> QED
      BY <1>1, <1>2, CourseInit, CourseStep, PTL DEF Spec, FileAt!Spec

-----------------------------------------------------------------------------
(* The kernel's walk                                                       *)

LEMMA WalkOnTyped ==
    ASSUME NEW t, IsTree(t), NEW w \in Walker, ~WalkOver(t, w)
    PROVE  WalkOn(t, w) \in Walker
  <1> DEFINE a == w.at
             r == w.rest
  <1>1. a \in Path /\ r \in Path /\ w.left \in Nat /\ r # <<>>
        BY DEF Walker, WalkOver
  <1>2. Head(r) \in STRING /\ Tail(r) \in Path
        BY <1>1, HeadTailProperties DEF Path
  <1>3. Ahead(w) \in Path /\ Ahead(w) # <<>>
        BY <1>1, <1>2, AppendProperties DEF Path, Ahead
  <1>4. <<>> \in Path
        BY EmptySeq DEF Path
  <1>5. a # <<>> => Front(a) \in Path
        BY <1>1, FrontTyped DEF Path
  <1>6. CASE Head(r) = ".."
    <2> DEFINE b == IF a = <<>> THEN <<>> ELSE Front(a)
    <2>1. b \in Path
          BY <1>4, <1>5
    <2>2. WalkOn(t, w) = [at |-> b, rest |-> Tail(r), left |-> w.left]
          BY <1>6 DEF WalkOn
    <2> HIDE DEF b
    <2> QED
        BY <1>1, <1>2, <2>1, <2>2 DEF Walker
  <1>7. CASE Head(r) # ".." /\ Lstat(t, Ahead(w)) = "link"
    <2>1. Ahead(w) \in DOMAIN t /\ t[Ahead(w)].kind = "link"
          BY <1>3, <1>7, LstatFacts
    <2> DEFINE to == t[Ahead(w)].to
               b == IF to.abs THEN <<>> ELSE a
               q == to.path \o Tail(r)
    <2>2. to.path \in Path
          BY <2>1 DEF IsTree
    <2>3. b \in Path /\ q \in Path
          BY <1>1, <1>2, <1>4, <2>2, ConcatProperties DEF Path
    <2>4. w.left - 1 \in Nat
          BY <1>1, <1>7 DEF WalkOver
    <2>5. WalkOn(t, w) = [at |-> b, rest |-> q, left |-> w.left - 1]
          BY <1>7 DEF WalkOn
    <2> HIDE DEF b, q
    <2> QED
        BY <2>3, <2>4, <2>5 DEF Walker
  <1>8. CASE Head(r) # ".." /\ Lstat(t, Ahead(w)) # "link"
    <2>1. WalkOn(t, w) = [at |-> Ahead(w), rest |-> Tail(r),
                          left |-> w.left]
          BY <1>8 DEF WalkOn
    <2> QED
        BY <1>1, <1>2, <1>3, <2>1 DEF Walker
  <1> QED
      BY <1>6, <1>7, <1>8

\* The equation of the walk has a solution: where the walk comes to its end,
\* or anything where it does not.
LEMMA WalkExists ==
    ASSUME NEW t, IsTree(t)
    PROVE  \E f : f = [w \in Walker |->
                         IF WalkOver(t, w) THEN WalkEnd(t, w)
                         ELSE f[WalkOn(t, w)]]
  <1> DEFINE Shut(S) == \A w \in S : ~WalkOver(t, w) => WalkOn(t, w) \in S
             Ends(w) == {d \in Walker :
                           /\ WalkOver(t, d)
                           /\ \A S \in SUBSET Walker :
                                w \in S /\ Shut(S) => d \in S}
             End(S) == CHOOSE d : d \in S
             f == [w \in Walker |-> WalkEnd(t, End(Ends(w)))]
  <1>1. ASSUME NEW w \in Walker, WalkOver(t, w)
        PROVE  Ends(w) = {w}
    <2>1. Shut({w}) /\ {w} \in SUBSET Walker
          BY <1>1
    <2>2. \A d \in Ends(w) : d = w
          BY <2>1
    <2>3. w \in Ends(w)
          BY <1>1
    <2> QED
        BY <2>2, <2>3
  <1>2. ASSUME NEW w \in Walker, ~WalkOver(t, w)
        PROVE  Ends(w) = Ends(WalkOn(t, w))
    <2> DEFINE x == WalkOn(t, w)
    <2>1. x \in Walker
          BY <1>2, WalkOnTyped
    <2>2. ASSUME NEW d \in Ends(w) PROVE d \in Ends(x)
      <3> SUFFICES ASSUME NEW S \in SUBSET Walker, x \in S, Shut(S)
                   PROVE  d \in S
          BY <2>2
      <3>1. S \cup {w} \in SUBSET Walker /\ Shut(S \cup {w})
            OBVIOUS
      <3>2. d \in S \cup {w}
            BY <2>2, <3>1
      <3> QED
          BY <1>2, <2>2, <3>2
    <2>3. ASSUME NEW d \in Ends(x) PROVE d \in Ends(w)
      <3> SUFFICES ASSUME NEW S \in SUBSET Walker, w \in S, Shut(S)
                   PROVE  d \in S
          BY <2>3
      <3>1. x \in S
            BY <1>2
      <3> QED
          BY <2>3, <3>1
    <2> QED
        BY <2>2, <2>3
  <1> HIDE DEF Ends
  <1>3. ASSUME NEW w \in Walker
        PROVE  f[w] = IF WalkOver(t, w) THEN WalkEnd(t, w)
                      ELSE f[WalkOn(t, w)]
    <2>1. CASE WalkOver(t, w)
      <3>1. End(Ends(w)) = w
            BY <1>1, <2>1
      <3> HIDE DEF End
      <3> QED
          BY <2>1, <3>1
    <2>2. CASE ~WalkOver(t, w)
      <3> DEFINE x == WalkOn(t, w)
      <3>1. x \in Walker /\ Ends(w) = Ends(x)
            BY <1>2, <2>2, WalkOnTyped
      <3> HIDE DEF x
      <3>2. f[w] = f[x]
            BY <3>1
      <3> HIDE DEF f
      <3> QED
          BY <2>2, <3>2 DEF x
    <2> QED
        BY <2>1, <2>2
  <1>4. f = [w \in Walker |-> f[w]]
        OBVIOUS
  <1> HIDE DEF f
  <1> QED
      BY <1>3, <1>4

LEMMA WalkEquation ==
    ASSUME NEW t, IsTree(t), NEW w \in Walker
    PROVE  Walk(t)[w] = IF WalkOver(t, w) THEN WalkEnd(t, w)
                        ELSE Walk(t)[WalkOn(t, w)]
  <1> DEFINE F(g) == [x \in Walker |-> IF WalkOver(t, x) THEN WalkEnd(t, x)
                                       ELSE g[WalkOn(t, x)]]
             f == CHOOSE g : g = F(g)
  <1>1. f = F(f)
        BY WalkExists
  <1>2. Walk(t) = f
        BY DEF Walk
  <1> HIDE DEF f
  <1>3. f[w] = F(f)[w]
        BY <1>1
  <1> QED
      BY <1>2, <1>3

\* The walk from a directory with some names to go.
From(t, a, r, l) == Walk(t)[[at |-> a, rest |-> r, left |-> l]]

LEMMA RestTyped ==
    ASSUME NEW p \in Path, NEW k \in 0..Len(p)
    PROVE  Rest(p, k) \in Path
  <1>1. Len(p) \in Nat /\ \A i \in 1..Len(p) : p[i] \in STRING
        BY LenProperties, ElementOfSeq DEF Path
  <1>2. k + 1 \in Int /\ \A i \in (k + 1)..Len(p) : p[i] \in STRING
        BY <1>1
  <1> QED
      BY <1>1, <1>2, SubSeqProperties DEF Rest, Path

LEMMA WalkSteps ==
    ASSUME NEW t, IsTree(t), NEW a \in Path, NEW r \in Path, NEW l \in Nat,
           r # <<>>
    PROVE  /\ Head(r) = ".." =>
                From(t, a, r, l) =
                  From(t, IF a = <<>> THEN <<>> ELSE Front(a), Tail(r), l)
           /\ /\ Head(r) # ".."
              /\ Lstat(t, Append(a, Head(r))) \in {"dir", "file", "special"}
              => From(t, a, r, l) = From(t, Append(a, Head(r)), Tail(r), l)
           /\ /\ Head(r) # ".." /\ l # 0
              /\ Lstat(t, Append(a, Head(r))) = "link"
              => LET to == t[Append(a, Head(r))].to
                 IN  From(t, a, r, l) =
                       From(t, IF to.abs THEN <<>> ELSE a,
                            to.path \o Tail(r), l - 1)
           /\ /\ Head(r) # ".." /\ Lstat(t, Append(a, Head(r))) = "absent"
              => From(t, a, r, l) = a \o r
           /\ /\ Head(r) # ".."
              /\ \/ Lstat(t, Append(a, Head(r))) = "notdir"
                 \/ Lstat(t, Append(a, Head(r))) = "link" /\ l = 0
              => From(t, a, r, l) = Nowhere
  <1> DEFINE w == [at |-> a, rest |-> r, left |-> l]
  <1>1. /\ w \in Walker /\ w.at = a /\ w.rest = r /\ w.left = l
        /\ Ahead(w) = Append(a, Head(r))
        BY DEF Walker, Ahead
  <1>2. From(t, a, r, l) = Walk(t)[w]
        BY DEF From
  <1> HIDE DEF w
  <1>3. Walk(t)[w] = IF WalkOver(t, w) THEN WalkEnd(t, w)
                     ELSE Walk(t)[WalkOn(t, w)]
        BY <1>1, WalkEquation
  <1>4. ASSUME Head(r) = ".."
        PROVE  From(t, a, r, l) =
                 From(t, IF a = <<>> THEN <<>> ELSE Front(a), Tail(r), l)
    <2>1. ~WalkOver(t, w)
          BY <1>1, <1>4 DEF WalkOver
    <2>2. WalkOn(t, w) = [at |-> IF a = <<>> THEN <<>> ELSE Front(a),
                          rest |-> Tail(r), left |-> l]
          BY <1>1, <1>4 DEF WalkOn
    <2> QED
        BY <1>2, <1>3, <2>1, <2>2 DEF From
  <1>5. ASSUME Head(r) # "..",
               Lstat(t, Append(a, Head(r))) \in {"dir", "file", "special"}
        PROVE  From(t, a, r, l) = From(t, Append(a, Head(r)), Tail(r), l)
    <2>1. ~WalkOver(t, w)
          BY <1>1, <1>5 DEF WalkOver
    <2>2. WalkOn(t, w) = [at |-> Append(a, Head(r)), rest |-> Tail(r),
                          left |-> l]
          BY <1>1, <1>5 DEF WalkOn
    <2> QED
        BY <1>2, <1>3, <2>1, <2>2 DEF From
  <1>6. ASSUME Head(r) # "..", l # 0, Lstat(t, Append(a, Head(r))) = "link"
        PROVE  LET to == t[Append(a, Head(r))].to
               IN  From(t, a, r, l) =
                     From(t, IF to.abs THEN <<>> ELSE a,
                          to.path \o Tail(r), l - 1)
    <2> DEFINE to == t[Append(a, Head(r))].to
    <2>1. ~WalkOver(t, w)
          BY <1>1, <1>6 DEF WalkOver
    <2>2. WalkOn(t, w) = [at |-> IF to.abs THEN <<>> ELSE a,
                          rest |-> to.path \o Tail(r), left |-> l - 1]
          BY <1>1, <1>6 DEF WalkOn
    <2> QED
        BY <1>2, <1>3, <2>1, <2>2 DEF From
  <1>7. ASSUME Head(r) # "..", Lstat(t, Append(a, Head(r))) = "absent"
        PROVE  From(t, a, r, l) = a \o r
    <2>1. WalkOver(t, w) /\ WalkEnd(t, w) = a \o r
          BY <1>1, <1>7 DEF WalkOver, WalkEnd
    <2> QED
        BY <1>2, <1>3, <2>1
  <1>8. ASSUME Head(r) # "..",
               \/ Lstat(t, Append(a, Head(r))) = "notdir"
               \/ Lstat(t, Append(a, Head(r))) = "link" /\ l = 0
        PROVE  From(t, a, r, l) = Nowhere
    <2>1. WalkOver(t, w) /\ WalkEnd(t, w) = Nowhere
          BY <1>1, <1>8 DEF WalkOver, WalkEnd
    <2> QED
        BY <1>2, <1>3, <2>1
  <1> QED
      BY <1>4, <1>5, <1>6, <1>7, <1>8

LEMMA WalkAtEnd ==
    ASSUME NEW t, IsTree(t), NEW a \in Path, NEW l \in Nat
    PROVE  From(t, a, <<>>, l) = a
  <1> DEFINE w == [at |-> a, rest |-> <<>>, left |-> l]
  <1>1. <<>> \in Path
        BY EmptySeq DEF Path
  <1>2. w \in Walker /\ w.at = a /\ w.rest = <<>>
        BY <1>1 DEF Walker
  <1>3. From(t, a, <<>>, l) = Walk(t)[w]
        BY DEF From
  <1> HIDE DEF w
  <1>4. WalkOver(t, w) /\ WalkEnd(t, w) = a
        BY <1>2 DEF WalkOver, WalkEnd
  <1> QED
      BY <1>2, <1>3, <1>4, WalkEquation

NoDots(p) == \A i \in 1..Len(p) : p[i] # ".."

\* A directory of the tree, or its root.
DirAt(t, p) == p = <<>> \/ (p \in DOMAIN t /\ t[p].kind = "dir")

\* Names that lead down to a directory are as good as the directory.
LEMMA WalkDown ==
    ASSUME NEW t, IsTree(t), NEW p \in Path, DirAt(t, p), NoDots(p),
           NEW r \in Path, NEW l \in Nat
    PROVE  From(t, <<>>, p \o r, l) = From(t, p, r, l)
  <1> DEFINE q == p \o r
             n == Len(p)
             v == From(t, <<>>, q, l)
             P == {i \in Nat : i =< n => From(t, Pre(q, i), Rest(q, i), l) = v}
  <1>1. /\ n \in Nat /\ Len(r) \in Nat /\ q \in Path /\ Len(q) = n + Len(r)
        /\ Pre(q, n) = p
        BY PreConcat, LenProperties DEF Path
  <1>2. Rest(q, n) = r
    <2>1. CASE r # <<>>
          BY <2>1, RestConcat
    <2>2. CASE r = <<>>
      <3>1. Len(r) = 0
            BY <2>2, EmptySeq
      <3>2. n + 1 > Len(q)
            BY <1>1, <3>1
      <3> QED
          BY <1>1, <2>2, <3>2, SubSeqEmpty DEF Rest, Path
    <2> QED
        BY <2>1, <2>2
  <1>3. ASSUME NEW i \in 0..(n - 1)
        PROVE  /\ Pre(q, i + 1) \in DOMAIN t /\ t[Pre(q, i + 1)].kind = "dir"
               /\ Pre(q, i + 1)[i + 1] # ".."
               /\ Pre(q, i + 1) \in Path /\ Pre(q, i + 1) # <<>>
    <2>1. i + 1 \in 0..n /\ n \in 0..Len(q) /\ i + 1 \in 1..n
          BY <1>1
    <2>2. Pre(q, i + 1) = Pre(p, i + 1)
      <3>1. Pre(Pre(q, n), i + 1) = Pre(q, i + 1)
            BY <1>1, <2>1, PrePre
      <3> QED
          BY <1>1, <3>1
    <2>3. /\ Pre(p, i + 1) \in Path /\ Len(Pre(p, i + 1)) = i + 1
          /\ Pre(p, i + 1)[i + 1] = p[i + 1]
          BY <2>1, PreFacts
    <2>4. p # <<>>
      <3>1. Len(<<>>) = 0
            BY EmptySeq
      <3> QED
          BY <1>1, <3>1
    <2>5. Pre(p, i + 1) \in DOMAIN t /\ t[Pre(p, i + 1)].kind = "dir"
      <3>1. CASE i + 1 = n
        <4>1. Pre(p, n) = p
              BY SubSeqFull DEF Pre, Path
        <4> QED
            BY <2>4, <3>1, <4>1 DEF DirAt
      <3>2. CASE i + 1 # n
        <4>1. i + 1 \in 1..(n - 1)
              BY <1>1, <3>2
        <4>2. Pre(p, i + 1) \in Parents(p)
              BY <4>1, ParentsPre
        <4> QED
            BY <2>4, <4>2 DEF DirAt, IsTree
      <3> QED
          BY <3>1, <3>2
    <2>6. Pre(p, i + 1) # <<>>
      <3>1. Len(<<>>) = 0
            BY EmptySeq
      <3> QED
          BY <2>3, <3>1
    <2> QED
        BY <2>1, <2>2, <2>3, <2>5, <2>6 DEF NoDots
  <1>4. Pre(q, 0) = <<>> /\ Rest(q, 0) = q
    <2>1. Pre(q, 0) = <<>>
          BY <1>1, SubSeqEmpty DEF Pre, Path
    <2>2. Rest(q, 0) = q
          BY <1>1, SubSeqFull DEF Rest, Path
    <2> QED
        BY <2>1, <2>2
  <1> HIDE DEF q, n, v
  <1>5. 0 \in P
        BY <1>4 DEF v
  <1>6. ASSUME NEW i \in Nat, i \in P PROVE i + 1 \in P
    <2> SUFFICES ASSUME i + 1 =< n
                 PROVE  From(t, Pre(q, i + 1), Rest(q, i + 1), l) = v
        OBVIOUS
    <2>0. i \in 0..(n - 1) /\ i \in 0..(Len(q) - 1) /\ i \in 0..Len(q)
          /\ i + 1 \in 0..Len(q) /\ From(t, Pre(q, i), Rest(q, i), l) = v
          BY <1>1, <1>6
    <2>1. /\ Rest(q, i) # <<>> /\ Tail(Rest(q, i)) = Rest(q, i + 1)
          /\ Head(Rest(q, i)) = q[i + 1]
          /\ Append(Pre(q, i), Head(Rest(q, i))) = Pre(q, i + 1)
          BY <1>1, <2>0, RestFacts
    <2>2. q[i + 1] = Pre(q, i + 1)[i + 1]
      <3>1. i + 1 \in 1..(i + 1)
            OBVIOUS
      <3> QED
          BY <1>1, <2>0, <3>1, PreFacts
    <2>3. Lstat(t, Pre(q, i + 1)) = "dir"
          BY <1>3, <2>0, LstatFacts
    <2>4. Pre(q, i) \in Path
          BY <1>1, <2>0, PreTyped
    <2>5. Rest(q, i) \in Path
          BY <1>1, <2>0, RestTyped
    <2> QED
      <3> DEFINE a == Pre(q, i)
                 x == Rest(q, i)
      <3>1. a \in Path /\ x \in Path /\ x # <<>> /\ Head(x) # ".."
            /\ Lstat(t, Append(a, Head(x))) = "dir"
            BY <1>3, <2>0, <2>1, <2>2, <2>3, <2>4, <2>5
      <3>2. Append(a, Head(x)) = Pre(q, i + 1) /\ Tail(x) = Rest(q, i + 1)
            BY <2>1
      <3>3. From(t, a, x, l) = v
            BY <2>0
      <3> HIDE DEF a, x
      <3>4. From(t, a, x, l) = From(t, Append(a, Head(x)), Tail(x), l)
            BY <3>1, WalkSteps
      <3> QED
          BY <3>2, <3>3, <3>4
  <1>7. n \in P
    <2> HIDE DEF P
    <2> QED
        BY <1>1, <1>5, <1>6, Induction
  <1> QED
      BY <1>1, <1>2, <1>7 DEF q, v

\* A name is moved over from what remains.
LEMMA Shift ==
    ASSUME NEW x \in Path, NEW y \in Path, y # <<>>
    PROVE  x \o y = Append(x, Head(y)) \o Tail(y)
  <1> DEFINE n == Len(x)
             m == Len(y)
             e == Append(x, Head(y))
             z == Tail(y)
             u == x \o y
             v == e \o z
  <1>1. /\ n \in Nat /\ m \in Nat \ {0} /\ Head(y) = y[1]
        /\ Head(y) \in STRING /\ z \in Path /\ Len(z) = m - 1
        /\ \A i \in 1..(m - 1) : z[i] = y[i + 1]
        BY LenProperties, EmptySeq, HeadTailProperties DEF Path
  <1>2. /\ e \in Path /\ Len(e) = n + 1 /\ e[n + 1] = y[1]
        /\ \A i \in 1..n : e[i] = x[i]
        BY <1>1, AppendProperties DEF Path
  <1>3. /\ u \in Path /\ Len(u) = n + m
        /\ \A i \in 1..(n + m) : u[i] = IF i =< n THEN x[i] ELSE y[i - n]
        BY ConcatProperties DEF Path
  <1> HIDE DEF e, z
  <1>4. /\ v \in Path /\ Len(v) = (n + 1) + (m - 1)
        /\ \A i \in 1..((n + 1) + (m - 1)) :
             v[i] = IF i =< n + 1 THEN e[i] ELSE z[i - (n + 1)]
    <2>1. /\ v \in Path /\ Len(v) = Len(e) + Len(z)
          /\ \A i \in 1..(Len(e) + Len(z)) :
               v[i] = IF i =< Len(e) THEN e[i] ELSE z[i - Len(e)]
          BY <1>1, <1>2, ConcatProperties DEF Path
    <2> QED
        BY <1>1, <1>2, <2>1
  <1> HIDE DEF u, v, n, m
  <1>5. \A i \in 1..(n + m) : u[i] = v[i]
    <2> TAKE i \in 1..(n + m)
    <2>1. CASE i =< n
      <3>1. i \in 1..n /\ i \in 1..((n + 1) + (m - 1)) /\ i =< n + 1
            BY <1>1, <2>1
      <3>2. u[i] = x[i]
            BY <1>3, <2>1
      <3>3. v[i] = e[i]
            BY <1>4, <3>1
      <3> QED
          BY <1>2, <3>1, <3>2, <3>3
    <2>2. CASE i = n + 1
          BY <1>1, <1>2, <1>3, <1>4, <2>2
    <2>3. CASE i > n + 1
      <3>1. i - (n + 1) \in 1..(m - 1) /\ (i - (n + 1)) + 1 = i - n
            BY <1>1, <2>3
      <3>2. u[i] = y[i - n] /\ v[i] = z[i - (n + 1)]
            BY <1>1, <1>3, <1>4, <2>3
      <3> QED
          BY <1>1, <3>1, <3>2
    <2> QED
        BY <1>1, <2>1, <2>2, <2>3
  <1>6. u = v
    <2>1. Len(u) = Len(v) /\ Len(u) = n + m
          BY <1>1, <1>3, <1>4
    <2> QED
        BY <1>3, <1>4, <1>5, <2>1, SeqEqual DEF Path
  <1> QED
      BY <1>6 DEF u, v, e, z

\* The names that Clean has kept after n of them.
Kept(p) == CHOOSE g : g = [n \in 0..Len(p) |-> CleanStep(p, g, n)]

LEMMA KeptFacts ==
    ASSUME NEW p \in Path
    PROVE  /\ Clean(p) = Kept(p)[Len(p)]
           /\ \A n \in 0..Len(p) : Kept(p)[n] = CleanStep(p, Kept(p), n)
  <1> DEFINE F(g) == [n \in 0..Len(p) |-> CleanStep(p, g, n)]
             done == CHOOSE g : g = F(g)
  <1>1. Len(p) \in Nat
        BY LenProperties DEF Path
  <1>2. done = F(done)
        BY <1>1, CleanExists
  <1>3. Clean(p) = done[Len(p)]
        BY DEF Clean, CleanStep
  <1>4. done = Kept(p)
        BY DEF Kept
  <1> HIDE DEF done
  <1>5. \A n \in 0..Len(p) : done[n] = CleanStep(p, done, n)
        BY <1>2
  <1> QED
      BY <1>3, <1>4, <1>5

\* As long as there is no ".." all of them are kept.
LEMMA KeptPlain ==
    ASSUME NEW b \in Path, NoDots(b), NEW p \in Path
    PROVE  Kept(b \o p)[Len(b)] = b
  <1> DEFINE q == b \o p
             n == Len(b)
             K == Kept(q)
             P == {i \in Nat : i =< n => K[i] = Pre(q, i)}
  <1>1. /\ n \in Nat /\ Len(p) \in Nat /\ q \in Path /\ Len(q) = n + Len(p)
        /\ Pre(q, n) = b /\ \A i \in 1..n : q[i] = b[i]
    <2>1. /\ n \in Nat /\ Len(p) \in Nat /\ q \in Path /\ Len(q) = n + Len(p)
          /\ Pre(q, n) = b
          BY PreConcat, LenProperties DEF Path
    <2>2. n \in 0..Len(q)
          BY <2>1
    <2>3. \A i \in 1..n : Pre(q, n)[i] = q[i]
          BY <2>1, <2>2, PreFacts
    <2> QED
        BY <2>1, <2>3
  <1>2. \A i \in 0..Len(q) : K[i] = CleanStep(q, K, i)
        BY <1>1, KeptFacts
  <1>3. \A i \in 1..n : q[i] # ".."
        BY <1>1 DEF NoDots
  <1> HIDE DEF q, n, K
  <1>4. 0 \in P
    <2>1. K[0] = <<>>
          BY <1>1, <1>2 DEF CleanStep
    <2>2. Pre(q, 0) = <<>>
          BY <1>1, SubSeqEmpty DEF Pre, Path
    <2> QED
        BY <2>1, <2>2
  <1>5. ASSUME NEW i \in Nat, i \in P PROVE i + 1 \in P
    <2> SUFFICES ASSUME i + 1 =< n PROVE K[i + 1] = Pre(q, i + 1)
        OBVIOUS
    <2>1. i + 1 \in 1..n /\ i + 1 \in 0..Len(q) /\ i \in 0..(Len(q) - 1)
          /\ K[i] = Pre(q, i) /\ i + 1 # 0 /\ (i + 1) - 1 = i
          BY <1>1, <1>5
    <2>2. K[i + 1] = Append(K[i], q[i + 1])
          BY <1>2, <1>3, <2>1 DEF CleanStep
    <2>3. Append(Pre(q, i), q[i + 1]) = Pre(q, i + 1)
          BY <1>1, <2>1, RestFacts
    <2> QED
        BY <2>1, <2>2, <2>3
  <1>6. n \in P
    <2> HIDE DEF P
    <2> QED
        BY <1>1, <1>4, <1>5, Induction
  <1> QED
      BY <1>1, <1>6 DEF q, n, K

\* ".." is in front of all names only.
DotsFirst(p) ==
    \A i \in 1..Len(p) : p[i] = ".." => \A k \in 1..i : p[k] = ".."

LEMMA FrontFacts ==
    ASSUME NEW t, IsTree(t), NEW p \in Path, p # <<>>, DirAt(t, p), NoDots(p)
    PROVE  Front(p) \in Path /\ DirAt(t, Front(p)) /\ NoDots(Front(p))
  <1> DEFINE n == Len(p) - 1
             f == Front(p)
  <1>1. Len(p) \in Nat \ {0} /\ n \in 0..Len(p) /\ n \in Nat
    <2>1. Len(p) \in Nat \ {0}
          BY LenProperties, EmptySeq DEF Path
    <2> QED
        BY <2>1
  <1>2. f = Pre(p, n)
        BY DEF Front, Pre
  <1>3. f \in Path /\ Len(f) = n /\ \A i \in 1..n : f[i] = p[i]
        BY <1>1, <1>2, PreFacts
  <1>4. DirAt(t, f)
    <2>1. CASE n = 0
          BY <1>3, <2>1, EmptySeq DEF DirAt, Path
    <2>2. CASE n # 0
      <3> DEFINE k == Len(p)
      <3>1. k \in Nat \ {0} /\ n = k - 1
            BY <1>1
      <3> HIDE DEF n, k
      <3>2. n \in 1..(k - 1)
            BY <2>2, <3>1
      <3>3. n \in 1..(Len(p) - 1)
            BY <3>2 DEF k
      <3>4. f \in Parents(p)
            BY <1>2, <3>3, ParentsPre
      <3> QED
          BY <3>4 DEF DirAt, IsTree
    <2> QED
        BY <2>1, <2>2
  <1>5. NoDots(f)
    <2>1. \A i \in 1..n : i \in 1..Len(p)
          BY <1>1
    <2> HIDE DEF f, n
    <2> QED
        BY <1>3, <2>1 DEF NoDots
  <1> QED
      BY <1>3, <1>4, <1>5

LEMMA AppendNoDots ==
    ASSUME NEW p \in Path, NoDots(p), NEW x \in STRING, x # ".."
    PROVE  Append(p, x) \in Path /\ NoDots(Append(p, x))
  <1> DEFINE a == Append(p, x)
  <1>1. /\ a \in Path /\ Len(a) = Len(p) + 1 /\ a[Len(p) + 1] = x
        /\ \A i \in 1..Len(p) : a[i] = p[i]
        /\ Len(p) \in Nat
        BY AppendProperties, LenProperties DEF Path
  <1> HIDE DEF a
  <1>2. NoDots(a)
    <2> SUFFICES ASSUME NEW i \in 1..Len(a) PROVE a[i] # ".."
        BY DEF NoDots
    <2>1. i \in 1..Len(p) \/ i = Len(p) + 1
          BY <1>1
    <2> QED
        BY <1>1, <2>1 DEF NoDots
  <1> QED
      BY <1>1, <1>2 DEF a

\* From a directory, a path with ".." in front of its names leads the kernel
\* to where what path.Clean makes of the two leads it from the root.
LEMMA CleanWalk ==
    ASSUME NEW t, IsTree(t), NEW b \in Path, DirAt(t, b), NoDots(b),
           NEW p \in Path, DotsFirst(p), NEW r \in Path, NEW l \in Nat
    PROVE  /\ From(t, b, p \o r, l) = From(t, <<>>, Clean(b \o p) \o r, l)
           /\ Clean(b \o p) \in Path /\ NoDots(Clean(b \o p))
  <1> DEFINE q == p \o r
             d == b \o p
             n == Len(p)
             m == Len(b)
             v == From(t, b, q, l)
             D(i) == Kept(d)[m + i]
             Up(i) == /\ \A k \in 1..i : p[k] = ".."
                      /\ DirAt(t, D(i))
                      /\ From(t, D(i), Rest(q, i), l) = v
             Down(i) == /\ \E k \in 1..i : p[k] # ".."
                        /\ From(t, <<>>, D(i) \o Rest(q, i), l) = v
             P == {i \in Nat : i =< n =>
                     /\ D(i) \in Path /\ NoDots(D(i))
                     /\ Up(i) \/ Down(i)}
  <1>1. /\ n \in Nat /\ m \in Nat /\ Len(r) \in Nat
        /\ q \in Path /\ Len(q) = n + Len(r)
        /\ d \in Path /\ Len(d) = m + n
        /\ \A i \in 1..n : q[i] = p[i] /\ d[m + i] = p[i]
    <2>1. /\ n \in Nat /\ m \in Nat /\ Len(r) \in Nat
          /\ q \in Path /\ Len(q) = n + Len(r)
          /\ \A i \in 1..(n + Len(r)) :
               q[i] = IF i =< n THEN p[i] ELSE r[i - n]
          BY ConcatProperties, LenProperties DEF Path
    <2>2. /\ d \in Path /\ Len(d) = m + n
          /\ \A i \in 1..(m + n) :
               d[i] = IF i =< m THEN b[i] ELSE p[i - m]
          BY ConcatProperties, LenProperties DEF Path
    <2> HIDE DEF q, d, n, m
    <2>3. ASSUME NEW i \in 1..n PROVE q[i] = p[i] /\ d[m + i] = p[i]
      <3>1. /\ i \in 1..(n + Len(r)) /\ i =< n
            /\ m + i \in 1..(m + n) /\ ~(m + i =< m) /\ (m + i) - m = i
            BY <2>1
      <3> QED
          BY <2>1, <2>2, <3>1
    <2> QED
        BY <2>1, <2>2, <2>3
  <1>2. /\ Clean(d) = Kept(d)[m + n]
        /\ \A i \in 0..(m + n) : Kept(d)[i] = CleanStep(d, Kept(d), i)
        /\ Kept(d)[m] = b
        BY <1>1, KeptFacts, KeptPlain
  <1>3. \A i \in 1..n : p[i] \in STRING
        BY ElementOfSeq DEF Path
  <1>4. Rest(q, 0) = q
        BY <1>1, SubSeqFull DEF Rest, Path
  <1>5. Rest(q, n) = r
    <2>1. CASE r # <<>>
          BY <2>1, RestConcat
    <2>2. CASE r = <<>>
      <3>1. Len(r) = 0
            BY <2>2, EmptySeq
      <3>2. n + 1 > Len(q)
            BY <1>1, <3>1
      <3> QED
          BY <1>1, <2>2, <3>2, SubSeqEmpty DEF Rest, Path
    <2> QED
        BY <2>1, <2>2
  <1> HIDE DEF q, d, n, m, v
  <1>6. 0 \in P
    <2>1. D(0) = b
          BY <1>1, <1>2
    <2> HIDE DEF D
    <2>2. Up(0)
          BY <1>4, <2>1 DEF v
    <2> QED
        BY <2>1, <2>2
  <1>7. ASSUME NEW i \in Nat, i \in P PROVE i + 1 \in P
    <2> SUFFICES ASSUME i + 1 =< n
                 PROVE  /\ D(i + 1) \in Path /\ NoDots(D(i + 1))
                        /\ Up(i + 1) \/ Down(i + 1)
        OBVIOUS
    <2> DEFINE e == D(i)
               g == D(i + 1)
               x == p[i + 1]
               y == Rest(q, i)
               z == Rest(q, i + 1)
    <2>1. e \in Path /\ NoDots(e) /\ (Up(i) \/ Down(i))
          BY <1>1, <1>7
    <2>2. /\ y \in Path /\ y # <<>> /\ Tail(y) = z /\ Head(y) = x
          /\ z \in Path
      <3>1. /\ i \in 0..(Len(q) - 1) /\ i \in 0..Len(q) /\ i + 1 \in 0..Len(q)
            /\ i + 1 \in 1..n
            BY <1>1
      <3>2. /\ Rest(q, i) # <<>> /\ Tail(Rest(q, i)) = Rest(q, i + 1)
            /\ Head(Rest(q, i)) = q[i + 1]
            BY <1>1, <3>1, RestFacts
      <3>3. Rest(q, i) \in Path /\ Rest(q, i + 1) \in Path
            BY <1>1, <3>1, RestTyped
      <3> QED
          BY <1>1, <3>1, <3>2, <3>3
    <2>3. g = IF x # ".." THEN Append(e, x)
              ELSE IF e = <<>> THEN <<>> ELSE Front(e)
      <3>1. /\ m + (i + 1) \in 0..(m + n) /\ m + (i + 1) # 0
            /\ (m + (i + 1)) - 1 = m + i /\ i + 1 \in 1..n
            BY <1>1
      <3>2. Kept(d)[m + (i + 1)] = CleanStep(d, Kept(d), m + (i + 1))
            BY <1>2, <3>1
      <3> QED
          BY <1>1, <3>1, <3>2 DEF CleanStep
    <2>4. x \in STRING /\ i + 1 \in 1..n
          BY <1>1, <1>3
    <2> HIDE DEF D
    <2>5. CASE x = ".."
      <3>1. \A k \in 1..(i + 1) : p[k] = ".."
            BY <2>4, <2>5 DEF DotsFirst, n
      <3>2. Up(i)
        <4>1. \A k \in 1..i : k \in 1..(i + 1)
              OBVIOUS
        <4> QED
            BY <2>1, <3>1, <4>1
      <3>3. g \in Path /\ NoDots(g) /\ DirAt(t, g)
        <4>1. <<>> \in Path /\ NoDots(<<>>) /\ DirAt(t, <<>>)
              BY EmptySeq DEF Path, NoDots, DirAt
        <4>2. e # <<>> => /\ Front(e) \in Path /\ NoDots(Front(e))
                          /\ DirAt(t, Front(e))
              BY <2>1, <3>2, FrontFacts
        <4> QED
            BY <2>3, <2>5, <4>1, <4>2
      <3>4. From(t, e, y, l) = From(t, g, z, l)
        <4>1. From(t, e, y, l) =
                From(t, IF e = <<>> THEN <<>> ELSE Front(e), Tail(y), l)
              BY <2>1, <2>2, <2>5, WalkSteps
        <4> HIDE DEF e, g, x, y, z
        <4> QED
            BY <2>2, <2>3, <2>5, <4>1
      <3>5. From(t, g, z, l) = v
            BY <3>2, <3>4
      <3> HIDE DEF e, g, x, y, z
      <3>6. Up(i + 1)
            BY <3>1, <3>3, <3>5 DEF g, z
      <3> QED
          BY <3>3, <3>6 DEF g
    <2>6. CASE x # ".."
      <3>1. g = Append(e, x) /\ g \in Path /\ NoDots(g)
            BY <2>1, <2>3, <2>4, <2>6, AppendNoDots
      <3>2. e \o y = g \o z
        <4> HIDE DEF e, g, x, y, z
        <4>1. e \o y = Append(e, Head(y)) \o Tail(y)
              BY <2>1, <2>2, Shift
        <4> QED
            BY <2>2, <3>1, <4>1
      <3>3. From(t, <<>>, e \o y, l) = v
            BY <2>1, <2>2, WalkDown
      <3>4. \E k \in 1..(i + 1) : p[k] # ".."
        <4>1. i + 1 \in 1..(i + 1)
              OBVIOUS
        <4> QED
            BY <2>6, <4>1
      <3> QED
          BY <3>1, <3>2, <3>3, <3>4
    <2> QED
        BY <2>5, <2>6
  <1>8. n \in P
    <2> HIDE DEF P
    <2> QED
        BY <1>1, <1>6, <1>7, Induction
  <1>9. D(n) = Clean(d)
        BY <1>2
  <1> HIDE DEF D
  <1>10. D(n) \in Path /\ NoDots(D(n)) /\ (Up(n) \/ Down(n))
         BY <1>1, <1>8
  <1>11. From(t, <<>>, D(n) \o r, l) = v
         BY <1>5, <1>10, WalkDown
  <1> QED
      BY <1>9, <1>10, <1>11 DEF d, v, q

LEMMA NoDotsParts ==
    ASSUME NEW p \in Path, NoDots(p), NEW q \in Path, NoDots(q)
    PROVE  /\ NoDots(p \o q)
           /\ q # <<>> => NoDots(Tail(q)) /\ Head(q) # ".."
  <1> DEFINE n == Len(p)
             m == Len(q)
             u == p \o q
  <1>1. /\ n \in Nat /\ m \in Nat
        /\ Len(u) = n + m
        /\ \A i \in 1..(n + m) : u[i] = IF i =< n THEN p[i] ELSE q[i - n]
        BY ConcatProperties, LenProperties DEF Path
  <1>2. (\A i \in 1..n : p[i] # "..") /\ (\A i \in 1..m : q[i] # "..")
        BY DEF NoDots
  <1> HIDE DEF n, m, u
  <1>3. NoDots(u)
    <2> SUFFICES ASSUME NEW i \in 1..Len(u) PROVE u[i] # ".."
        BY DEF NoDots
    <2>1. i \in 1..(n + m) /\ (i \in 1..n \/ (~(i =< n) /\ i - n \in 1..m))
          BY <1>1
    <2> QED
        BY <1>1, <1>2, <2>1
  <1>4. ASSUME q # <<>> PROVE NoDots(Tail(q)) /\ Head(q) # ".."
    <2> DEFINE z == Tail(q)
    <2>1. /\ Head(q) = q[1] /\ Len(z) = m - 1
          /\ \A i \in 1..(m - 1) : z[i] = q[i + 1]
          BY <1>4, HeadTailProperties DEF Path, m
    <2>2. m # 0
          BY <1>4, EmptySeq DEF Path, m
    <2> HIDE DEF z
    <2>3. \A i \in 1..(m - 1) : i + 1 \in 1..m
          BY <1>1
    <2>4. NoDots(z)
          BY <1>2, <2>1, <2>3 DEF NoDots
    <2>5. 1 \in 1..m
          BY <1>1, <2>2
    <2> QED
        BY <1>2, <2>1, <2>4, <2>5 DEF z
  <1> QED
      BY <1>3, <1>4 DEF u

\* A node is in a directory.
LEMMA NodeDir ==
    ASSUME NEW t, IsTree(t), NEW a \in Path, NEW x \in STRING,
           Append(a, x) \in DOMAIN t
    PROVE  DirAt(t, a)
  <1> DEFINE n == Append(a, x)
             k == Len(a)
  <1>1. /\ n \in Path /\ Len(n) = k + 1 /\ k \in Nat
        /\ \A i \in 1..k : n[i] = a[i]
    <2>1. n \in Path /\ Len(n) = Len(a) + 1 /\ Len(a) \in Nat
          BY AppendProperties, LenProperties DEF Path
    <2>2. \A i \in 1..Len(a) : n[i] = a[i]
          BY AppendProperties DEF Path
    <2> HIDE DEF n
    <2> QED
        BY <2>1, <2>2
  <1> HIDE DEF n, k
  <1>2. CASE k = 0
        BY <1>2, EmptySeq DEF DirAt, Path, k
  <1>3. CASE k # 0
    <2>1. k \in 0..Len(n) /\ k \in 1..(Len(n) - 1)
          BY <1>1, <1>3
    <2>2. /\ Pre(n, k) \in Path /\ Len(Pre(n, k)) = k
          /\ \A i \in 1..k : Pre(n, k)[i] = n[i]
          BY <1>1, <2>1, PreFacts
    <2>3. Pre(n, k) = a
      <3> DEFINE u == Pre(n, k)
      <3> HIDE DEF u
      <3>1. u \in Path /\ Len(u) = Len(a) /\ \A i \in 1..Len(a) : u[i] = a[i]
            BY <1>1, <2>2 DEF u, k
      <3>2. u = a
            BY <3>1, SeqEqual DEF Path
      <3> QED
          BY <3>2 DEF u
    <2>4. a \in Parents(n)
          BY <1>1, <2>1, <2>3, ParentsPre
    <2>5. n \in DOMAIN t
          BY DEF n
    <2> QED
        BY <2>4, <2>5 DEF IsTree, DirAt
  <1> QED
      BY <1>2, <1>3

\* No link of a tree has ".." behind a name.
PlainLinks(t) ==
    \A p \in DOMAIN t : t[p].kind = "link" => DotsFirst(t[p].to.path)

\* From a state of ResolveSymlinks the kernel comes to v.
Follows(t, c, v) ==
    /\ Sound(t, c) /\ NoDots(c.at) /\ NoDots(c.rest)
    /\ c.hops =< MaxHops
    /\ From(t, c.at, c.rest, MaxHops - c.hops) = v

\* Every step of ResolveSymlinks leaves the kernel where it comes to.
LEMMA FollowsStep ==
    ASSUME NEW t, IsTree(t), PlainLinks(t), NEW c, NEW v, Follows(t, c, v),
           Moves(t, c)
    PROVE  Follows(t, Moved(t, c), v)
  <1> DEFINE n == NextName(c)
             a == c.at
             r == c.rest
             h == c.hops
             l == MaxHops - h
             z == Moved(t, c)
  <1>1. /\ a \in Path /\ r \in Path /\ r # <<>> /\ h \in Nat /\ l \in Nat
        /\ MaxHops \in Nat /\ NoDots(a) /\ NoDots(r) /\ h =< MaxHops
        BY BoundsAssumption DEF Follows, Sound, IsState, Moves
  <1>2. Sound(t, z)
        BY MovedSound DEF Follows
  <1>3. /\ Head(r) \in STRING /\ Head(r) # ".." /\ Tail(r) \in Path
        /\ NoDots(Tail(r)) /\ n = Append(a, Head(r))
    <2>1. Head(r) \in STRING /\ Tail(r) \in Path
          BY <1>1, HeadTailProperties DEF Path
    <2>2. Head(r) # ".." /\ NoDots(Tail(r))
          BY <1>1, NoDotsParts
    <2> QED
        BY <2>1, <2>2 DEF NextName
  <1>4. n \in Path /\ n # <<>> /\ NoDots(n)
    <2>1. Append(a, Head(r)) # <<>>
          BY <1>1, <1>3, AppendProperties DEF Path
    <2> QED
        BY <1>1, <1>3, <2>1, AppendNoDots
  <1>5. From(t, a, r, l) = v
        BY DEF Follows
  <1> HIDE DEF n, a, r, h, l, z
  <1>6. CASE Lstat(t, n) = "absent"
    <2> DEFINE f == a \o r
    <2>1. z = [at |-> f, rest |-> <<>>, hops |-> h]
          BY <1>6 DEF Moved, n, a, r, h, z
    <2>2. f \in Path /\ NoDots(f)
      <3>1. f \in Path
            BY <1>1, ConcatProperties DEF Path
      <3> QED
          BY <1>1, <3>1, NoDotsParts
    <2>3. v = f
      <3>1. From(t, a, r, l) = f
            BY <1>1, <1>3, <1>6, WalkSteps
      <3> QED
          BY <1>5, <3>1
    <2> HIDE DEF f
    <2>4. From(t, f, <<>>, l) = f
          BY <1>1, <2>2, WalkAtEnd
    <2>5. NoDots(<<>>)
          BY EmptySeq DEF NoDots
    <2>6. z.at = f /\ z.rest = <<>> /\ z.hops = h
          BY <2>1
    <2> QED
        BY <1>1, <1>2, <2>2, <2>3, <2>4, <2>5, <2>6 DEF Follows, z, l
  <1>7. CASE Lstat(t, n) \in {"dir", "file", "special"}
    <2>1. z = [at |-> n, rest |-> Tail(r), hops |-> h]
          BY <1>7 DEF Moved, n, a, r, h, z
    <2>2. From(t, a, r, l) = From(t, n, Tail(r), l)
          BY <1>1, <1>3, <1>7, WalkSteps
    <2>3. z.at = n /\ z.rest = Tail(r) /\ z.hops = h
          BY <2>1
    <2> QED
        BY <1>1, <1>2, <1>3, <1>4, <1>5, <2>2, <2>3 DEF Follows, z, l
  <1>8. CASE Lstat(t, n) = "link"
    <2> DEFINE to == t[n].to
               b == IF to.abs THEN <<>> ELSE a
               g == Clean(b \o to.path)
               p == to.path
               y == Tail(r)
               k == l - 1
    <2>1. n \in DOMAIN t /\ t[n].kind = "link"
          BY <1>4, <1>8, LstatFacts
    <2>2. p \in Path /\ DotsFirst(p)
          BY <2>1 DEF IsTree, PlainLinks
    <2>3. b \in Path /\ NoDots(b) /\ DirAt(t, b)
      <3>1. <<>> \in Path /\ NoDots(<<>>) /\ DirAt(t, <<>>)
            BY EmptySeq DEF Path, NoDots, DirAt
      <3>2. DirAt(t, a)
            BY <1>1, <1>3, <2>1, NodeDir
      <3> QED
          BY <1>1, <3>1, <3>2
    <2>4. h < MaxHops
          BY <1>8 DEF Moves, n, h
    <2>5. k \in Nat /\ l # 0 /\ h + 1 =< MaxHops /\ MaxHops - (h + 1) = k
          BY <1>1, <2>4 DEF l
    <2>6. z = [at |-> <<>>, rest |-> g \o y, hops |-> h + 1]
          BY <1>8 DEF Moved, TargetPath, n, a, r, h, z
    <2>7. v = From(t, b, p \o y, k)
      <3>1. From(t, a, r, l) = From(t, b, p \o y, k)
            BY <1>1, <1>3, <1>8, <2>5, WalkSteps
      <3> QED
          BY <1>5, <3>1
    <2> HIDE DEF b, p, y, k
    <2>8. /\ From(t, b, p \o y, k) = From(t, <<>>, Clean(b \o p) \o y, k)
          /\ Clean(b \o p) \in Path /\ NoDots(Clean(b \o p))
          BY <1>3, <2>2, <2>3, <2>5, CleanWalk DEF y
    <2>9. g = Clean(b \o p)
          BY DEF p
    <2> HIDE DEF g
    <2>10. NoDots(g \o y) /\ NoDots(<<>>)
      <3>1. NoDots(<<>>)
            BY EmptySeq DEF NoDots
      <3> QED
          BY <1>3, <2>8, <2>9, <3>1, NoDotsParts DEF y
    <2> DEFINE w == g \o y
    <2> HIDE DEF w
    <2>11. z = [at |-> <<>>, rest |-> w, hops |-> h + 1]
           BY <2>6 DEF w
    <2>12. z.at = <<>> /\ z.rest = w /\ z.hops = h + 1
           BY <2>11
    <2>13. From(t, <<>>, w, k) = v /\ NoDots(w)
           BY <2>7, <2>8, <2>9, <2>10 DEF w
    <2> QED
        BY <1>2, <2>5, <2>10, <2>12, <2>13 DEF Follows, z
  <1> QED
      BY <1>6, <1>7, <1>8 DEF Moves, n

\* Where the kernel comes to from the root with the path of a job.
Opens(j, t) == From(t, <<>>, j.path, MaxHops)

\* ResolveSymlinks begins with what path.Clean makes of the path.
LEMMA FollowsBegin ==
    ASSUME Typed, DotsFirst(job.path), NEW t, IsTree(t)
    PROVE  Follows(t, Begin(job), Opens(job, t))
  <1> DEFINE p == job.path
             e == <<>>
             g == Clean(p)
             c == Begin(job)
  <1>1. p \in Path /\ e \in Path /\ MaxHops \in Nat
        BY JobFacts, BoundsAssumption, EmptySeq DEF Path
  <1>2. NoDots(e) /\ DirAt(t, e) /\ DotsFirst(p)
        BY EmptySeq DEF NoDots, DirAt
  <1>3. /\ From(t, e, p \o e, MaxHops) = From(t, <<>>, Clean(e \o p) \o e,
                                              MaxHops)
        /\ Clean(e \o p) \in Path /\ NoDots(Clean(e \o p))
    <2> HIDE DEF p, e
    <2> QED
        BY <1>1, <1>2, CleanWalk
  <1>4. e \o p = p /\ p \o e = p
        BY <1>1, ConcatEmptySeq DEF Path
  <1>5. g \in Path /\ NoDots(g)
        BY <1>3, <1>4
  <1>6. g \o e = g
        BY <1>5, ConcatEmptySeq DEF Path
  <1>7. From(t, <<>>, p, MaxHops) = From(t, <<>>, g, MaxHops)
        BY <1>3, <1>4, <1>6
  <1>8. c.at = <<>> /\ c.rest = g /\ c.hops = 0
        BY DEF Begin
  <1>9. Sound(t, c)
        BY BeginSound
  <1> HIDE DEF g, c
  <1>10. c.hops =< MaxHops /\ MaxHops - c.hops = MaxHops
        BY <1>1, <1>8
  <1> QED
      BY <1>2, <1>5, <1>7, <1>8, <1>9, <1>10 DEF Follows, Opens, c

\* So wherever ResolveSymlinks is led, the kernel goes the same way.
LEMMA FollowsLeads ==
    ASSUME NEW t, IsTree(t), PlainLinks(t), NEW c, NEW d, NEW v,
           Follows(t, c, v), Leads(t, c, d)
    PROVE  Follows(t, d, v)
  <1> DEFINE C == [at : Path, rest : Path, hops : Nat]
             S == {x \in C : Follows(t, x, v)}
  <1>1. \A x : Follows(t, x, v) => x \in S
        BY DEF Follows, Sound, IsState
  <1>2. Closed(t, S)
    <2> SUFFICES ASSUME NEW x \in S, Moves(t, x) PROVE Moved(t, x) \in S
        BY DEF Closed
    <2>1. Follows(t, Moved(t, x), v)
          BY FollowsStep
    <2> QED
        BY <1>1, <2>1
  <1>3. c \in S
        BY <1>1
  <1>4. d \in S
    <2> HIDE DEF S
    <2> QED
        BY <1>2, <1>3 DEF Leads
  <1> QED
      BY <1>4

\* Where ResolveSymlinks ends the kernel has come to, and where it fails the
\* kernel does.
LEMMA LeadsFound ==
    ASSUME Typed, DotsFirst(job.path), NEW t, IsTree(t), PlainLinks(t), NEW d,
           Leads(t, Begin(job), d)
    PROVE  /\ d.rest = <<>> => Opens(job, t) = d.at
           /\ d.rest # <<>> /\ ~Moves(t, d) => Opens(job, t) = Nowhere
  <1> DEFINE v == Opens(job, t)
             a == d.at
             r == d.rest
             l == MaxHops - d.hops
  <1>1. Follows(t, d, v)
        BY FollowsBegin, FollowsLeads
  <1>2. /\ a \in Path /\ r \in Path /\ d.hops \in Nat /\ d.hops =< MaxHops
        /\ l \in Nat /\ NoDots(r) /\ From(t, a, r, l) = v
        BY <1>1, BoundsAssumption DEF Follows, Sound, IsState
  <1> HIDE DEF v, a, r
  <1>3. r = <<>> => v = a
        BY <1>2, WalkAtEnd
  <1>4. ASSUME r # <<>>, ~Moves(t, d) PROVE v = Nowhere
    <2> DEFINE n == NextName(d)
    <2>1. Head(r) \in STRING /\ Head(r) # ".." /\ n = Append(a, Head(r))
      <3>1. Head(r) \in STRING
            BY <1>2, <1>4, HeadTailProperties DEF Path
      <3>2. Head(r) # ".."
            BY <1>2, <1>4, NoDotsParts
      <3> QED
          BY <3>1, <3>2 DEF NextName, a, r
    <2>2. n \in Path /\ n # <<>>
          BY <1>2, <2>1, AppendProperties DEF Path
    <2>3. Lstat(t, n) \in {"dir", "file", "link", "special", "absent",
                           "notdir"}
          BY <2>2, LstatFacts DEF IsTree
    <2>4. Lstat(t, n) = "notdir" \/ (Lstat(t, n) = "link" /\ l = 0)
      <3>1. ~(d.hops < MaxHops) => l = 0
            BY <1>2, BoundsAssumption
      <3> QED
          BY <1>4, <2>3, <3>1 DEF Moves, r
    <2> HIDE DEF n, l
    <2>5. From(t, a, r, l) = Nowhere
          BY <1>2, <1>4, <2>1, <2>4, WalkSteps
    <2> QED
        BY <1>2, <2>5
  <1> QED
      BY <1>3, <1>4 DEF v, a, r

\* The image's links, and the path that is asked for, have ".." in front of
\* all names if at all.  Behind a name path.Clean takes it for the directory
\* of the name, the kernel for the one above where a link of the name leads.
PlainPaths ==
    \A j \in Jobs : DotsFirst(j.path) /\ PlainLinks(j.tree)

\* There are no links but the image's.
OldLinks(j, t) ==
    \A p \in DOMAIN t :
        t[p].kind = "link" => p \in DOMAIN j.tree /\ t[p] = j.tree[p]

LinksInv == OldLinks(job, tree) /\ \A t \in earlier : OldLinks(job, t)

LEMMA LinksInvStep == Course /\ LinksInv /\ [Next]_vars => LinksInv'
  <1> SUFFICES ASSUME Course, LinksInv, [Next]_vars PROVE LinksInv'
      OBVIOUS
  <1>0. job' = job
        BY JobFixed DEF Course
  <1>1. CASE MkdirAll
    <2>1. OldLinks(job, tree')
          BY <1>1 DEF MkdirAll, LinksInv, OldLinks
    <2>2. earlier' \subseteq earlier \cup {tree}
          BY <1>1 DEF MkdirAll
    <2> QED
        BY <1>0, <2>1, <2>2 DEF LinksInv
  <1>2. CASE Rename
    <2>1. PICK f \in tmp : tree' = Put(resolved, f, tree)
          BY <1>2 DEF Rename
    <2>2. f.kind = "file"
          BY DEF Course, Durable, IsFile
    <2>3. OldLinks(job, tree')
          BY <2>1, <2>2 DEF Put, LinksInv, OldLinks
    <2>4. earlier' = earlier \cup {tree}
          BY <1>2 DEF Rename
    <2> QED
        BY <1>0, <2>3, <2>4 DEF LinksInv
  <1>3. CASE PowerLoss
    <2>1. PICK t \in earlier \cup {tree} : tree' = Surviving(t)
          BY <1>3 DEF PowerLoss
    <2>2. tree' = t
          BY <2>1, SurvivingSame DEF Course, TreesInv, Durable, Good
    <2>3. earlier' = {}
          BY <1>3 DEF PowerLoss
    <2> QED
        BY <1>0, <2>2, <2>3 DEF LinksInv
  <1>4. CASE tree' = tree /\ earlier' \subseteq earlier
        BY <1>0, <1>4 DEF LinksInv
  <1> QED
      BY <1>1, <1>2, <1>3, <1>4, TreeSteps

LEMMA OldLinksPlain ==
    ASSUME PlainPaths, Typed, NEW t, OldLinks(job, t)
    PROVE  PlainLinks(t) /\ DotsFirst(job.path)
  BY DEF PlainPaths, Typed, OldLinks, PlainLinks

\* A resolution that has failed stands where it could not go on.
Fails ==
    /\ pc \in {"dirsync", "cleanup"} => remaining = <<>>
    /\ pc = "error" /\ purpose = "read" /\ remaining # <<>> /\ faults = 0 =>
         Leads(tree, Begin(job), Here) /\ ~Moves(tree, Here)

LEMMA FailsStep == Course /\ Fails /\ [Next]_vars => Fails'
  <1> SUFFICES ASSUME Course, Fails, [Next]_vars PROVE Fails'
      OBVIOUS
  <1>0. Typed /\ IsTree(tree)
        BY DEF Course, TreesInv, Good
  <1>1. CASE ResolveFails
    <2>1. /\ Resolving /\ pc' = "error" /\ Here' = Here
          /\ UNCHANGED <<job, tree, purpose, remaining>>
          BY <1>1 DEF ResolveFails, Return, diskVars, resolveVars, Here
    <2>2. ASSUME purpose = "read", faults' = 0
          PROVE  Leads(tree, Begin(job), Here) /\ ~Moves(tree, Here)
      <3>1. Leads(tree, Begin(job), Here)
            BY <2>1, <2>2 DEF Course, Reads, Resolving
      <3>2. ~Fault
        <4>1. faults \in Nat
              BY <1>0, JobsAssumption DEF Typed, TypeOK
        <4> QED
            BY <2>2, <4>1 DEF Fault
      <3>3. NextName(Here) = Candidate /\ Here.rest # <<>> /\ Here.hops = hops
            BY <2>1 DEF Resolving, Here, NextName, Candidate
      <3>4. ~Moves(tree, Here)
            BY <1>1, <3>2, <3>3 DEF ResolveFails, Moves, HopsLeft
      <3> QED
          BY <3>1, <3>4
    <2> QED
        BY <2>1, <2>2 DEF Fails
  <1>2. CASE ReadFails \/ MergeFails
    <2>1. pc' = "error" /\ remaining' = <<>>
          BY <1>2 DEF ReadFails, MergeFails, Return, resolveVars, Course, Reads
    <2> QED
        BY <2>1 DEF Fails
  <1>3. CASE RefuseSymlink \/ PrepareFails \/ TempFails \/ Rename
    <2>1. pc \in Preparing /\ remaining' = remaining
          BY <1>3 DEF RefuseSymlink, PrepareFails, TempFails, Rename,
             resolveVars, Preparing
    <2>2. remaining' = <<>>
          BY <2>1 DEF Course, Writes
    <2> QED
        BY <2>2 DEF Fails
  <1>4. CASE SyncDir \/ Cleanup
    <2>1. remaining' = <<>>
          BY <1>4 DEF SyncDir, Cleanup, resolveVars, Fails
    <2> QED
        BY <2>1 DEF Fails
  <1>5. CASE \/ Start \/ MergeStore \/ ResolveEnds \/ ReadFile \/ MergeNothing
             \/ ResolveMissing \/ ResolvePlain \/ ResolveLink \/ MkdirAll
             \/ CreateTemp \/ WriteTemp \/ Chmod \/ StatFails \/ Chown \/ Sync
             \/ Kill \/ PowerLoss \/ Rerun
    <2>1. pc' \notin {"dirsync", "cleanup", "error"}
          BY <1>5 DEF Start, MergeStore, BeginResolve, ResolveEnds, ReadFile,
             MergeNothing, Return, ResolveMissing, ResolvePlain, ResolveLink,
             Resolving, MkdirAll, CreateTemp, WriteTemp, Chmod, StatFails,
             Chown, Sync, OnTemp, Kill, PowerLoss, Rerun
    <2> QED
        BY <2>1 DEF Fails
  <1>6. CASE UNCHANGED vars
        BY <1>6 DEF vars, diskVars, resolveVars, boundVars, Fails, Here
  <1> QED
      BY <1>1, <1>2, <1>3, <1>4, <1>5, <1>6
         DEF Next, Hook, Resolve, Replace, Over

\* Where the path of the store leads a process in the container.
LEMMA FoundOpens == \A t : Found(t) = Opens(job, t)
  BY DEF Found, Opens, From

\* ResolveSymlinks comes to the file that a process in the container opens by
\* the same path, or would create, and fails without a failed call only where
\* the kernel finds nothing.
THEOREM ResolvesRight ==
    ASSUME PlainPaths
    PROVE  Spec => []ResolvesLikeKernel
  <1> DEFINE Inv == Course /\ LinksInv /\ Fails
  <1>1. Init => Inv
    <2>1. Init => LinksInv /\ Fails
          BY DEF Init, LinksInv, OldLinks, Fails
    <2> QED
        BY <2>1, CourseInit
  <1>2. Inv /\ [Next]_vars => Inv'
        BY CourseStep, LinksInvStep, FailsStep
  <1>3. Inv => ResolvesLikeKernel
    <2> SUFFICES ASSUME Inv PROVE ResolvesLikeKernel
        OBVIOUS
    <2>1. Typed /\ IsTree(tree) /\ PlainLinks(tree) /\ DotsFirst(job.path)
          BY OldLinksPlain DEF Course, TreesInv, Good, LinksInv
    <2>2. Here.at = resolved /\ Here.rest = remaining
          BY DEF Here
    <2>3. ASSUME pc \in {"read", "mkdir"} PROVE resolved = Found(tree)
      <3>1. remaining = <<>> /\ Leads(tree, Begin(job), Here)
            BY <2>3 DEF Course, Reads, Writes, Preparing
      <3> QED
          BY <2>1, <2>2, <3>1, LeadsFound, FoundOpens
    <2>4. ASSUME pc = "error", purpose = "read", remaining # <<>>, faults = 0
          PROVE  Found(tree) = Nowhere
      <3>1. Leads(tree, Begin(job), Here) /\ ~Moves(tree, Here)
            BY <2>4 DEF Fails
      <3> QED
          BY <2>1, <2>2, <2>4, <3>1, LeadsFound, FoundOpens
    <2> QED
        BY <2>3, <2>4 DEF ResolvesLikeKernel
  <1> QED
      BY <1>1, <1>2, <1>3, PTL DEF Spec

-----------------------------------------------------------------------------
(* The path of the store keeps the promise of TrustFile                    *)

\* The update never changes where the path leads.
Steady ==
    \A t \in earlier \cup {tree} : Opens(job, t) = Opens(job, job.tree)

LEMMA SteadyStep ==
    ASSUME PlainPaths
    PROVE  Course /\ LinksInv /\ Steady /\ [Next]_vars => Steady'
  <1> SUFFICES ASSUME Course, LinksInv, Steady, [Next]_vars PROVE Steady'
      OBVIOUS
  <1>0. /\ job' = job
        /\ Typed /\ IsTree(tree) /\ PlainLinks(tree) /\ DotsFirst(job.path)
        BY JobFixed, OldLinksPlain DEF Course, TreesInv, Good, LinksInv
  <1>1. IsTree(tree') /\ PlainLinks(tree')
    <2>1. Course' /\ LinksInv'
          BY CourseStep, LinksInvStep
    <2>2. IsTree(tree') /\ OldLinks(job, tree')
          BY <1>0, <2>1 DEF Course, TreesInv, Good, LinksInv
    <2> QED
        BY <1>0, <2>2, OldLinksPlain
  <1>2. CASE MkdirAll \/ Rename
    <2>1. /\ pc \in {"mkdir", "rename"} /\ pc' \in {"lstat", "dirsync"}
          /\ Here' = Here /\ earlier' \subseteq earlier \cup {tree}
          BY <1>2 DEF MkdirAll, Rename, Here, resolveVars
    <2>2. Here.at = resolved /\ Here.rest = <<>>
          /\ Leads(tree, Begin(job), Here)
          BY <2>1 DEF Here, Course, Writes, Preparing
    <2>3. Leads(tree', Begin(job), Here)
      <3>1. Writes' /\ Settles'
            BY CourseStep DEF Course
      <3>2. CASE pc' = "lstat"
            BY <1>0, <2>1, <3>1, <3>2 DEF Writes, Preparing
      <3>3. CASE pc' = "dirsync"
            BY <1>0, <2>1, <3>1, <3>3 DEF Settles, Fixed
      <3> QED
          BY <2>1, <3>2, <3>3
    <2>4. Opens(job, tree) = resolved /\ Opens(job, tree') = resolved
          BY <1>0, <1>1, <2>2, <2>3, LeadsFound
    <2> QED
        BY <1>0, <2>1, <2>4 DEF Steady
  <1>3. CASE PowerLoss
    <2>1. PICK t \in earlier \cup {tree} : tree' = Surviving(t)
          BY <1>3 DEF PowerLoss
    <2>2. tree' = t
          BY <2>1, SurvivingSame DEF Course, TreesInv, Durable, Good
    <2>3. earlier' = {}
          BY <1>3 DEF PowerLoss
    <2> QED
        BY <1>0, <2>2, <2>3 DEF Steady
  <1>4. CASE tree' = tree /\ earlier' \subseteq earlier
        BY <1>0, <1>4 DEF Steady
  <1> QED
      BY <1>2, <1>3, <1>4, TreeSteps

\* What a process in the container finds by the path is what the file there
\* holds, which is whole.
LEMMA HeldInAt ==
    ASSUME NEW t, IsTree(t), Stable(t)
    PROVE  HeldIn(t) = HeldAt(t, Opens(job, t))
  <1> DEFINE p == Opens(job, t)
  <1>1. Found(t) = p
        BY FoundOpens
  <1> HIDE DEF p
  <1>2. CASE p \in DOMAIN t /\ t[p].kind = "file"
    <2>1. t[p].whole
          BY <1>2 DEF Stable
    <2>2. {q \in {Found(t)} \cap DOMAIN t : t[q].kind = "file" /\ t[q].whole}
          = {p}
          BY <1>1, <1>2, <2>1
    <2>3. HeldIn(t) = View(t[p].data)
          BY <2>2 DEF HeldIn
    <2> QED
        BY <1>2, <2>3 DEF HeldAt, ContentAt, p
  <1>3. CASE ~(p \in DOMAIN t /\ t[p].kind = "file")
    <2>1. {q \in {Found(t)} \cap DOMAIN t : t[q].kind = "file" /\ t[q].whole}
          = {}
          BY <1>1, <1>3
    <2>2. HeldIn(t) = {}
          BY <2>1 DEF HeldIn
    <2>3. View(Empty) = {}
          BY EmptySeq DEF View, Empty
    <2> QED
        BY <1>3, <2>2, <2>3 DEF HeldAt, ContentAt, p
  <1> QED
      BY <1>2, <1>3

\* The file at the end of the path, before and after any update.
Shows ==
    \A t \in {tree, job.tree} : HeldIn(t) = HeldAt(t, Opens(job, job.tree))

LEMMA ShowsHeld == Course /\ Steady => Shows
  <1> SUFFICES ASSUME Course, Steady PROVE Shows
      OBVIOUS
  <1>1. IsTree(tree) /\ Stable(tree) /\ Opens(job, tree) = Opens(job, job.tree)
        BY DEF Course, TreesInv, Good, Durable, Steady
  <1>2. IsTree(job.tree) /\ Stable(job.tree)
        BY JobsAssumption DEF Course, Typed, Stable
  <1> QED
      BY <1>1, <1>2, HeldInAt DEF Shows

\* An update is reported by these steps only.
LEMMA ReportSteps ==
    ASSUME Typed, [Next]_vars, pc # "done", pc' = "done"
    PROVE  MergeNothing \/ Cleanup
  <1>1. ~(Start \/ ReadFile \/ ReadFails \/ MergeFails \/ MergeStore)
        BY DEF Start, ReadFile, ReadFails, MergeFails, MergeStore,
           BeginResolve, Return
  <1>2. ~Resolve
        BY DEF Resolve, ResolveMissing, ResolvePlain, ResolveLink, Resolving,
           ResolveFails, ResolveEnds, Return
  <1>3. Replace => Cleanup
        BY DEF Replace, MkdirAll, RefuseSymlink, CreateTemp, WriteTemp, Chmod,
           StatFails, Chown, Sync, OnTemp, Rename, SyncDir, PrepareFails,
           TempFails, Return
  <1>4. ~(Kill \/ PowerLoss \/ Rerun \/ Over \/ UNCHANGED vars)
        BY DEF Kill, PowerLoss, Rerun, Over, vars
  <1> QED
      BY <1>1, <1>2, <1>3, <1>4 DEF Next, Hook

\* Once it is reported the hook has ended.
LEMMA ReportedSteps ==
    ASSUME [Next]_vars, pc = "done"
    PROVE  Rerun \/ PowerLoss \/ UNCHANGED vars
  <1>1. ~Hook
    <2>1. ~Resolve
          BY DEF Resolve, ResolveMissing, ResolvePlain, ResolveLink, Resolving,
             ResolveFails, ResolveEnds
    <2>2. ~Replace
          BY DEF Replace, MkdirAll, RefuseSymlink, CreateTemp, WriteTemp,
             Chmod, StatFails, Chown, Sync, OnTemp, Rename, SyncDir,
             PrepareFails, TempFails, Cleanup
    <2> QED
        BY <2>1, <2>2 DEF Hook, Start, ReadFile, ReadFails, MergeFails,
           MergeNothing, MergeStore
  <1>2. ~Kill
        BY DEF Kill, Running, Ended
  <1> QED
      BY <1>1, <1>2 DEF Next, Over

LEMMA PromiseStep ==
    ASSUME NothingHidden, PlainPaths
    PROVE  Course /\ LinksInv /\ Steady /\ Shows /\ Shows' /\ [Next]_vars
           => [Promise!Next]_(Promise!vars)
  <1> SUFFICES ASSUME Course, LinksInv, Steady, Shows, Shows', [Next]_vars
               PROVE  [Promise!Next]_(Promise!vars)
      OBVIOUS
  <1>0. PICK p : p = Opens(job, job.tree)
        OBVIOUS
  <1> DEFINE b == HeldAt(job.tree, p)
  <1>1. /\ job' = job
        /\ HeldIn(job.tree) = b /\ HeldIn(job.tree)' = b
        /\ HeldIn(tree) = HeldAt(tree, p) /\ HeldIn(tree)' = HeldAt(tree', p)
        BY <1>0, JobFixed DEF Shows, Course
  <1>2. Range(job.bundle)' = Range(job.bundle)
        BY <1>1
  <1> HIDE DEF b
  <1>3. ASSUME pc # "done", pc' = "done"
        PROVE  Promise!Report
    <2>1. MergeNothing \/ Cleanup
          BY <1>3, ReportSteps DEF Course
    <2>2. UNCHANGED tree
          BY <2>1 DEF MergeNothing, Cleanup, diskVars
    <2>3. /\ Leads(tree, Begin(job), Here) /\ Here.rest = <<>>
          /\ Here.at = resolved
          /\ Range(job.bundle) \subseteq HeldAt(tree, resolved)
      <3>1. CASE MergeNothing
        <4>1. /\ pc = "merge"
              /\ UpToDate(ContentAt(tree, resolved), job.bundle)
              BY <3>1 DEF MergeNothing, Course, Reads
        <4> QED
            BY <4>1, UpToDateShown DEF Course, Reads, Here
      <3>2. CASE Cleanup
        <4>1. pc = "cleanup" /\ outcome = "done"
              BY <1>3, <3>2 DEF Cleanup, Return
        <4> QED
            BY <4>1 DEF Course, Settles, Fixed, HeldAt, Here
      <3> QED
          BY <2>1, <3>1, <3>2
    <2>4. resolved = p
      <3>1. /\ Typed /\ IsTree(tree) /\ PlainLinks(tree)
            /\ DotsFirst(job.path)
            BY OldLinksPlain DEF Course, TreesInv, Good, LinksInv
      <3>2. Opens(job, tree) = resolved
            BY <2>3, <3>1, LeadsFound
      <3> QED
          BY <1>0, <3>2 DEF Steady
    <2> QED
        BY <1>1, <1>2, <1>3, <2>2, <2>3, <2>4 DEF Promise!Report
  <1>4. ASSUME pc # "done", pc' # "done"
        PROVE  [Promise!Next]_(Promise!vars)
    <2>1. [FileAt(p)!Next]_(FileAt(p)!vars)
          BY FileStep
    <2>2. \/ HeldAt(tree', p) = HeldAt(tree, p)
          \/ /\ HeldAt(tree', p) \in SUBSET STRING
             /\ HeldAt(tree, p) \cup Range(job.bundle) \subseteq HeldAt(tree', p)
          \/ HeldAt(tree', p) \in {HeldAt(tree, p), b}
          BY <1>4, <2>1 DEF FileAt!Next, FileAt!vars, FileAt!Patch,
             FileAt!Report, FileAt!Again, FileAt!PowerLoss, b
    <2> QED
        BY <1>1, <1>2, <1>4, <2>2
           DEF Promise!Next, Promise!vars, Promise!Patch, Promise!PowerLoss
  <1>5. ASSUME pc = "done"
        PROVE  [Promise!Next]_(Promise!vars)
    <2>1. CASE Rerun
      <3>1. tree' = tree /\ pc' # "done"
            BY <2>1 DEF Rerun
      <3> QED
          BY <1>1, <1>2, <3>1 DEF Promise!Next, Promise!Again
    <2>2. CASE PowerLoss
      <3>1. PICK t \in earlier \cup {tree} : tree' = Surviving(t)
            BY <2>2 DEF PowerLoss
      <3>2. Good(job, t) /\ Stable(t)
            BY DEF Course, TreesInv, Durable
      <3>3. tree' = t
            BY <3>1, <3>2, SurvivingSame DEF Good
      <3>4. \/ ContentAt(t, p) = BaseAt(job, p)
            \/ ContentAt(t, p) = ContentAt(tree, p)
        <4>1. CASE p \in DOMAIN t
              BY <4>1 DEF Course, TreesInv
        <4>2. CASE p \notin DOMAIN t
              BY <3>2, <4>2 DEF Good, BaseAt, ContentAt
        <4> QED
            BY <4>1, <4>2
      <3>5. pc' # "done"
            BY <2>2 DEF PowerLoss
      <3>6. HeldAt(tree', p) \in {HeldAt(tree, p), b}
            BY <3>3, <3>4 DEF HeldAt, BaseAt, b
      <3> QED
          BY <1>1, <1>2, <3>5, <3>6 DEF Promise!Next, Promise!PowerLoss
    <2>3. CASE UNCHANGED vars
      <3>1. tree' = tree /\ pc' = pc
            BY <2>3 DEF vars, diskVars
      <3> QED
          BY <1>1, <1>2, <3>1 DEF Promise!vars
    <2> QED
        BY <1>5, <2>1, <2>2, <2>3, ReportedSteps
  <1> QED
      BY <1>3, <1>4, <1>5 DEF Promise!Next

\* Whoever opens the store by its path, through whatever links, finds all
\* that it held in the image, with or without the organisation's certificates
\* and never some of them only, and all of them once the hook has reported
\* the update as done.
THEOREM PathPromise ==
    ASSUME NothingHidden, PlainPaths
    PROVE  Spec => ImplementsTrustFile
  <1> DEFINE Inv == Course /\ LinksInv /\ Steady
  <1>1. Init => Inv
    <2>1. Init => LinksInv /\ Steady
          BY DEF Init, LinksInv, OldLinks, Steady
    <2> QED
        BY <2>1, CourseInit
  <1>2. Inv /\ [Next]_vars => Inv'
        BY CourseStep, LinksInvStep, SteadyStep
  <1>3. Inv => Shows
        BY ShowsHeld
  <1>4. Init => Promise!Init
    <2> SUFFICES ASSUME Init PROVE Promise!Init
        OBVIOUS
    <2>1. /\ IsTree(job.tree) /\ job.bundle \in Seq(STRING)
          /\ tree = job.tree /\ pc # "done"
          BY JobsAssumption DEF Init
    <2>2. HeldIn(job.tree) = HeldAt(job.tree, Opens(job, job.tree))
          BY <1>1, <1>3 DEF Shows
    <2>3. /\ HeldIn(job.tree) \subseteq STRING
          /\ Range(job.bundle) \subseteq STRING
          BY <2>1, <2>2, HeldTyped, BundleTyped
    <2> QED
        BY <2>1, <2>3 DEF Promise!Init
  <1>5. Inv /\ Shows /\ Shows' /\ [Next]_vars => [Promise!Next]_(Promise!vars)
        BY PromiseStep
  <1> QED
    <2>1. Spec => []Inv /\ []Shows
          BY <1>1, <1>2, <1>3, PTL DEF Spec
    <2> QED
        BY <1>4, <1>5, <2>1, PTL DEF Spec, ImplementsTrustFile, Promise!Spec

=============================================================================
