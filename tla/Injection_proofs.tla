--------------------------- MODULE Injection_proofs ---------------------------
(***************************************************************************)
(* For any set of Java key stores and any number of failed file            *)
(* operations: the variables keep their types; whatever fails and whenever *)
(* the hook is killed, the image's stores keep their roots; and what the   *)
(* wrapper exports trusts the CA.                                          *)
(***************************************************************************)
EXTENDS Injection, TLAPS

USE DEF WriteFile, StageFile, DiscoverTrustStores

\* The OS processor at work is one of those selected, no longer to do, and it
\* is Alpine's, with its store merged, when the second path is due.
CurInv ==
    /\ todo \subseteq applicable
    /\ pc \in {"os", "stage", "write", "alpine", "anchor"} =>
         cur \in (OsStore \cap applicable) \ todo
    /\ pc = "alpine" => cur = "os-alpine" /\ Trusts("store")

IInv == TypeOK /\ CurInv /\ RootsKept

\* Every file that a fact names, or is about to, trusts the CA.
NamedTrusted ==
    /\ Trusts("staged")
    /\ pending # None => "org" \in pending
    /\ pc = "alpine" => Trusts("store")
    /\ pc = "anchor" => Trusts(Target(cur))
    /\ \A k \in Fact \ {"trust_store_path"} :
         facts[k] # None => Trusts(facts[k])

\* The stores an OS processor may be merging the CA into: the second one is
\* taken only while there is no first one, and is not overwritten till then.
DefaultKept ==
    \/ image["default"] = None
    \/ file["default"] # None /\ image["default"] \subseteq file["default"]
    \/ file["store"] # None

\* An OS processor at work on the store: it has set no fact yet.
Busy == pc \in {"os", "write", "alpine", "anchor"}

\* The facts of the OS processor that succeeded, which is the last one to
\* touch a store: they belong together, and the merged bundle has the roots
\* of the store.  Only two failures leave a bare CA where there is a store.
StoreFacts ==
    LET trust == facts["trust_store_path"]
        merged == facts["merged_ca_path"]
        individual == facts["individual_ca_path"]
    IN  /\ trust = None => merged = None /\ individual = None
        /\ trust # None =>
             /\ ~Busy
             /\ trust \in {"store", "default"}
             /\ trust = "default" => file["store"] = None
             /\ merged \in {None, trust, "staged-merged"}
             /\ merged = trust \/ individual = "staged"
             /\ merged # None =>
                  image[trust] = None \/ image[trust] \subseteq file[merged]
             /\ /\ merged = None /\ pc \notin {"stage", "killed"}
                /\ writable /\ ioErrors =< 1
                => image[trust] = None
        /\ pc = "stage" =>
             /\ trust = Target(cur) /\ merged = None
             /\ individual = "staged"
             /\ writable => ioErrors >= 1

\* As long as no OS processor has succeeded each one that is through has cost
\* a failed file operation, and the fallback is the last one.
Tried ==
    /\ pc \notin {"start", "failed", "killed"}
    /\ facts["trust_store_path"] = None
    =>
    /\ \A d \in Distro \cap applicable :
         d \notin todo /\ ~(Busy /\ cur = d) => ioErrors >= 1
    /\ "os-fallback" \in applicable \ todo /\ Distro \cap applicable # {} =>
         /\ ioErrors >= 1
         /\ ~(Busy /\ cur = "os-fallback") => ioErrors >= 2

\* On a writable root file system it takes a failure to name a file of the
\* node, and the fallback's turn comes after a failure of the distribution's
\* processor, which names the anchor otherwise.
Unharmed ==
    writable /\ ioErrors = 0 =>
    /\ pending = None
    /\ \A k \in Fact : facts[k] \notin Staged
    /\ facts["trust_store_path"] # None /\ Distro \cap applicable # {} =>
         facts["individual_ca_path"] = "anchor"

\* The wrapper gets the facts as they were when the hook ended.
HandedOver ==
    /\ pc = "done" => todo = {} /\ writable
    /\ context # None => pc = "done" /\ context = facts /\ writable
    /\ \/ env = [v \in Variable |-> None]
       \/ context # None /\ env = WrapperEnv(context)

ServedInv ==
    /\ NamedTrusted /\ DefaultKept /\ StoreFacts /\ Tried /\ Unharmed
    /\ HandedOver

-----------------------------------------------------------------------------
\* None is no content, and neither a name nor a key store.
LEMMA NoneApart == /\ \A c \in Content : c # None
                   /\ \A f \in Path : f # None
                   /\ \A f \in Named : f # None
BY NoneAssumption DEF Path

\* MergePEM and mergeStore give a file that has what was there, and the CA.
LEMMA MergedContent ==
    ASSUME TypeOK, NEW f \in Path
    PROVE  /\ Merged(f) \in Content
           /\ file[f] # None => file[f] \subseteq Merged(f)
<1>1. file[f] = None \/ file[f] \in Content
  BY DEF TypeOK
<1> QED
  BY <1>1 DEF Merged, Content

\* The store an OS processor works on.
LEMMA TargetType == \A p : Target(p) \in {"store", "default"}
BY DEF Target

\* The names of the root file system's stores and of the key stores are paths.
LEMMA Paths == Named \subseteq Path /\ Cacerts \subseteq Path
BY DEF Path

\* The initial state is well typed, and no file has been touched in it.
LEMMA InitInv == Init => IInv
<1> SUFFICES ASSUME Init PROVE IInv
  OBVIOUS
<1>1. PICK store \in {None, {"sys"}, {"sys", "org"}},
           default \in IF linked THEN {None} ELSE {None, {"sys"}, {"own"}},
           keyStores \in SUBSET Cacerts :
         image = [f \in Path |-> CASE f = "store" -> store
                                   [] f = "default" -> default
                                   [] f = "staged" -> {"org"}
                                   [] f \in keyStores -> {"sys"}
                                   [] OTHER -> None]
  BY DEF Init
<1>2. image \in [Path -> {None} \cup Content]
  BY <1>1 DEF Content
<1>3. applicable \subseteq Processor
  BY DEF Init, Applicable, FilterByNames
<1>4. TypeOK
  <2>1. /\ facts \in [Fact -> {None} \cup Path]
        /\ env \in [Variable -> {None} \cup Path]
    BY DEF Init, NoFacts
  <2>2. /\ writable \in BOOLEAN /\ linked \in BOOLEAN /\ command \in BOOLEAN
        /\ patched \in BOOLEAN
    BY DEF Init
  <2>3. /\ stores \subseteq Cacerts /\ todo \subseteq Processor
        /\ cur = None /\ pending = None /\ context = None
        /\ pc = "start" /\ wrapper = "waiting" /\ ioErrors \in 0..MaxIOErrors
        /\ file = image
    BY ErrorAssumption DEF Init
  <2> QED
    BY <1>2, <1>3, <2>1, <2>2, <2>3 DEF TypeOK
<1>5. CurInv
  BY DEF Init, CurInv
<1>6. RootsKept
  BY DEF Init, RootsKept
<1> QED
  BY <1>4, <1>5, <1>6 DEF IInv

\* Every step keeps the types.
LEMMA TypeStep == IInv /\ [Next]_vars => TypeOK'
<1> SUFFICES ASSUME TypeOK, CurInv, [Next]_vars PROVE TypeOK'
  BY DEF IInv
<1> USE ErrorAssumption DEF TypeOK
<1>1. CASE HookStart
  BY <1>1 DEF HookStart, IOError, fixedVars, javaVars, wrapperVars
<1>2. ASSUME NEW p \in Processor, ApplyNext(p) PROVE TypeOK'
  <2>1. /\ UNCHANGED <<fixedVars, file, facts, context, wrapperVars>>
        /\ todo' \subseteq Processor
        /\ ioErrors' \in 0..MaxIOErrors
    BY <1>2 DEF ApplyNext, IOError
  <2>2. /\ pc' \in {"os", "java", "next"}
        /\ cur' \in OsStore \cup {None}
    BY <1>2 DEF ApplyNext
  <2>3. /\ stores' \subseteq Cacerts
        /\ pending' \in {None} \cup Content
    BY <1>2 DEF ApplyNext, javaVars
  <2>4. patched' \in BOOLEAN
    BY <1>2 DEF ApplyNext, javaVars
  <2> QED
    BY <2>1, <2>2, <2>3, <2>4 DEF fixedVars, wrapperVars
<1>3. CASE OsProbe
  <2>1. Target(cur) \in Path /\ "staged" \in Path
    BY TargetType, Paths DEF Named, Staged
  <2> QED
    BY <1>3, <2>1 DEF OsProbe, WriteFails, IOError, Fact, fixedVars, javaVars,
                      wrapperVars
<1>4. CASE OsStageMerged
  <2>1. Target(cur) \in Path /\ "staged-merged" \in Path
    BY TargetType, Paths DEF Named, Staged
  <2>2. Merged(Target(cur)) \in Content
    BY <2>1, MergedContent
  <2> QED
    BY <1>4, <2>1, <2>2 DEF OsStageMerged, IOError, fixedVars, javaVars,
                            wrapperVars
<1>5. CASE OsWriteStore
  <2>1. Target(cur) \in Path
    BY TargetType, Paths DEF Named, Staged
  <2>2. Merged(Target(cur)) \in Content
    BY <2>1, MergedContent
  <2> QED
    BY <1>5, <2>1, <2>2 DEF OsWriteStore, fixedVars, javaVars, wrapperVars
<1>6. CASE OsWriteDefault
  BY <1>6, Paths DEF OsWriteDefault, Named, Staged, fixedVars, javaVars, wrapperVars
<1>7. CASE OsWriteAnchor
  <2>1. Target(cur) \in Path /\ "anchor" \in Path
    BY TargetType, Paths DEF Named, Staged
  <2> QED
    BY <1>7, <2>1 DEF OsWriteAnchor, Content, fixedVars, javaVars, wrapperVars
<1>8. CASE OsFails
  BY <1>8 DEF OsFails, IOError, fixedVars, javaVars, wrapperVars
<1>9. ASSUME NEW s \in Cacerts, JavaStore(s) PROVE TypeOK'
  <2>1. s \in Path /\ Merged(s) \in Content
    BY Paths, MergedContent
  <2> QED
    <3>1. /\ UNCHANGED <<fixedVars, pc, todo, cur, facts, context, wrapperVars>>
          /\ stores' \subseteq Cacerts
      BY <1>9 DEF JavaStore
    <3>2. /\ file' \in [Path -> {None} \cup Content]
          /\ pending' \in {None} \cup Content
      BY <1>9, <2>1 DEF JavaStore, Keep
    <3>3. ioErrors' \in 0..MaxIOErrors
      BY <1>9 DEF JavaStore, WriteFails, IOError
    <3>4. patched' \in BOOLEAN
      BY <1>9 DEF JavaStore
    <3> QED
      BY <3>1, <3>2, <3>3, <3>4 DEF fixedVars, wrapperVars
<1>10. CASE JavaEnd
  <2>1. "staged-java" \in Path
    BY Paths DEF Named, Staged
  <2> QED
    BY <1>10, <2>1 DEF JavaEnd, IOError, fixedVars, javaVars, wrapperVars
<1>11. CASE Persist
  BY <1>11 DEF Persist, WriteFails, IOError, fixedVars, javaVars, wrapperVars
<1>12. CASE HookKilled
  BY <1>12 DEF HookKilled, fixedVars, javaVars, wrapperVars
<1>13. CASE WrapperRun
  <2>1. ASSUME context # None
        PROVE  WrapperEnv(context) \in [Variable -> {None} \cup Path]
    BY <2>1 DEF WrapperEnv, PythonEnv, NodeEnv, JavaEnv,
                PreferredCABundlePath, Fact
  <2> QED
    BY <1>13, <2>1 DEF WrapperRun, Exec, IOError, fixedVars, javaVars
<1>14. CASE UNCHANGED vars
  BY <1>14 DEF vars, fixedVars, javaVars, wrapperVars
<1> QED
  BY <1>1, <1>2, <1>3, <1>4, <1>5, <1>6, <1>7, <1>8, <1>9, <1>10, <1>11,
     <1>12, <1>13, <1>14 DEF Next, Hook

\* Every step keeps the order of things in the OS processors.
LEMMA CurStep == IInv /\ [Next]_vars => CurInv'
<1> SUFFICES ASSUME TypeOK, CurInv, [Next]_vars PROVE CurInv'
  BY DEF IInv
<1> USE DEF CurInv
<1>1. CASE HookStart
  BY <1>1 DEF HookStart, fixedVars
<1>2. ASSUME NEW p \in Processor, ApplyNext(p) PROVE CurInv'
  BY <1>2 DEF ApplyNext, fixedVars
<1>3. CASE OsProbe
  BY <1>3 DEF OsProbe, fixedVars
<1>4. CASE OsStageMerged
  BY <1>4 DEF OsStageMerged, fixedVars
<1>5. CASE OsWriteStore
  <2>1. ASSUME cur = "os-alpine",
               file' = [file EXCEPT !["store"] = Merged("store")]
        PROVE  Trusts("store")'
    <3>1. "store" \in Path
      BY Paths DEF Named, Staged
    <3>2. /\ Merged("store") # None /\ "org" \in Merged("store")
      BY <3>1, MergedContent, NoneApart DEF Merged
    <3> QED
      BY <2>1, <3>1, <3>2 DEF TypeOK, Trusts
  <2>2. cur = "os-alpine" => Target(cur) = "store"
    BY DEF Target
  <2> QED
    BY <1>5, <2>1, <2>2 DEF OsWriteStore, fixedVars
<1>6. CASE OsWriteDefault
  BY <1>6 DEF OsWriteDefault, fixedVars
<1>7. CASE OsWriteAnchor
  BY <1>7 DEF OsWriteAnchor, fixedVars
<1>8. CASE OsFails
  BY <1>8 DEF OsFails, fixedVars
<1>9. ASSUME NEW s \in Cacerts, JavaStore(s) PROVE CurInv'
  BY <1>9 DEF JavaStore, fixedVars
<1>10. CASE JavaEnd
  BY <1>10 DEF JavaEnd, fixedVars
<1>11. CASE Persist
  BY <1>11 DEF Persist, fixedVars
<1>12. CASE HookKilled
  BY <1>12 DEF HookKilled, fixedVars
<1>13. CASE WrapperRun
  BY <1>13 DEF WrapperRun, fixedVars
<1>14. CASE UNCHANGED vars
  BY <1>14 DEF vars, fixedVars, Trusts
<1> QED
  BY <1>1, <1>2, <1>3, <1>4, <1>5, <1>6, <1>7, <1>8, <1>9, <1>10, <1>11,
     <1>12, <1>13, <1>14 DEF Next, Hook

\* A step that replaces no store leaves the roots alone.
LEMMA RootsUntouched ==
    ASSUME RootsKept, UNCHANGED <<image, applicable>>,
           \A f \in {"store", "default"} \cup Cacerts : file'[f] = file[f]
    PROVE  RootsKept'
BY DEF RootsKept, Trusts

\* A step that merges the CA into a file without it leaves the roots there,
\* and Alpine's copy and its store alone.
LEMMA RootsMerged ==
    ASSUME TypeOK, RootsKept, UNCHANGED <<image, applicable>>,
           NEW g \in Path, ~Trusts(g), file' = [file EXCEPT ![g] = Merged(g)]
    PROVE  RootsKept'
<1>1. /\ Merged(g) # None
      /\ file[g] # None => file[g] \subseteq Merged(g)
  BY MergedContent, NoneApart
<1>2. \A f \in Path : file'[f] = IF f = g THEN Merged(g) ELSE file[f]
  BY DEF TypeOK
<1>3. {"store", "default"} \cup Cacerts \subseteq Path
  BY Paths DEF Named, Staged
<1>4. ASSUME file["default"] = file["store"], Trusts("default")
      PROVE  /\ file'["default"] = file'["store"] /\ Trusts("default")'
  <2>1. g # "default" /\ g # "store"
    BY <1>4 DEF Trusts
  <2> QED
    BY <1>2, <1>3, <1>4, <2>1 DEF Trusts
<1> QED
  BY <1>1, <1>2, <1>3, <1>4 DEF RootsKept

\* Every step keeps the roots of the image.
LEMMA RootsStep == IInv /\ [Next]_vars => RootsKept'
<1> SUFFICES ASSUME TypeOK, CurInv, RootsKept, [Next]_vars
             PROVE  RootsKept'
  BY DEF IInv
<1>1. CASE OsStageMerged
  <2>1. \A f \in {"store", "default"} \cup Cacerts : file'[f] = file[f]
    BY <1>1, CacertsAssumption, Paths DEF OsStageMerged, TypeOK, Named, Staged
  <2> QED
    BY <1>1, <2>1, RootsUntouched DEF OsStageMerged, fixedVars
<1>2. CASE OsWriteStore
  <2>1. Target(cur) \in Path
    BY TargetType, Paths DEF Named, Staged
  <2>2. CASE file' = file
    BY <1>2, <2>2, RootsUntouched DEF OsWriteStore, fixedVars
  <2>3. CASE /\ ~Trusts(Target(cur))
             /\ file' = [file EXCEPT ![Target(cur)] = Merged(Target(cur))]
    BY <1>2, <2>1, <2>3, RootsMerged DEF OsWriteStore, fixedVars
  <2> QED
    BY <1>2, <2>2, <2>3 DEF OsWriteStore
<1>3. CASE OsWriteDefault
  <2>1. CASE linked
    BY <1>3, <2>1, RootsUntouched DEF OsWriteDefault, fixedVars
  <2>2. CASE ~linked
    <3>1. file' = [file EXCEPT !["default"] = file["store"]]
      BY <1>3, <2>2 DEF OsWriteDefault
    <3>2. /\ {"store", "default"} \cup Cacerts \subseteq Path
          /\ "default" \notin Cacerts
      BY Paths, CacertsAssumption DEF Named, Staged
    <3>3. /\ \A f \in {"store"} \cup Cacerts : file'[f] = file[f]
          /\ file'["default"] = file["store"]
      BY <3>1, <3>2 DEF TypeOK
    <3>4. Trusts("store") /\ "os-alpine" \in applicable
      BY <1>3 DEF OsWriteDefault, CurInv
    <3>5. file'["default"] = file'["store"] /\ Trusts("default")'
      BY <3>3, <3>4 DEF Trusts
    <3>6. UNCHANGED <<image, applicable>>
      BY <1>3 DEF OsWriteDefault, fixedVars
    <3> QED
      BY <3>3, <3>4, <3>5, <3>6 DEF RootsKept
  <2> QED
    BY <2>1, <2>2
<1>4. CASE OsWriteAnchor
  <2>1. \A f \in {"store", "default"} \cup Cacerts : file'[f] = file[f]
    BY <1>4, CacertsAssumption, Paths DEF OsWriteAnchor, TypeOK, Named, Staged
  <2> QED
    BY <1>4, <2>1, RootsUntouched DEF OsWriteAnchor, fixedVars
<1>5. ASSUME NEW s \in Cacerts, JavaStore(s) PROVE RootsKept'
  <2>1. s \in Path
    BY Paths
  <2>2. CASE file' = file
    BY <1>5, <2>2, RootsUntouched DEF JavaStore, fixedVars
  <2>3. CASE ~Trusts(s) /\ file' = [file EXCEPT ![s] = Merged(s)]
    BY <1>5, <2>1, <2>3, RootsMerged DEF JavaStore, fixedVars
  <2> QED
    BY <1>5, <2>2, <2>3 DEF JavaStore
<1>6. CASE JavaEnd
  <2>1. \A f \in {"store", "default"} \cup Cacerts : file'[f] = file[f]
    BY <1>6, CacertsAssumption, Paths DEF JavaEnd, TypeOK, Named, Staged
  <2> QED
    BY <1>6, <2>1, RootsUntouched DEF JavaEnd, fixedVars
<1>7. CASE \/ HookStart \/ Persist \/ (\E p \in Processor : ApplyNext(p))
           \/ OsProbe \/ OsFails \/ HookKilled \/ WrapperRun
           \/ UNCHANGED vars
  <2>1. UNCHANGED <<image, applicable, file>>
    BY <1>7 DEF HookStart, Persist, ApplyNext, OsProbe, OsFails, HookKilled,
                WrapperRun, vars, fixedVars
  <2> QED
    BY <2>1, RootsUntouched
<1> QED
  BY <1>1, <1>2, <1>3, <1>4, <1>5, <1>6, <1>7 DEF Next, Hook

-----------------------------------------------------------------------------
(* What the wrapper exports                                                *)

\* A file that is replaced by one with the CA in it trusts the CA, and so does
\* every file that did before.
LEMMA Written ==
    ASSUME TypeOK, NEW g \in Path, NEW c \in Content, "org" \in c,
           file' = [file EXCEPT ![g] = c]
    PROVE  /\ Trusts(g)'
           /\ \A f \in Path : Trusts(f) => Trusts(f)'
           /\ \A f \in Path : f # g => file'[f] = file[f]
           /\ file'[g] = c /\ c # None
BY NoneApart DEF TypeOK, Trusts

\* MergePEM and mergeStore put the CA into the file.
LEMMA MergedTrusts ==
    ASSUME TypeOK, NEW f \in Path
    PROVE  Merged(f) \in Content /\ "org" \in Merged(f)
BY MergedContent DEF Merged

\* Where detectTrustStorePath looks does not change when the store it found is
\* replaced.
LEMMA TargetKept ==
    ASSUME TypeOK, file' = [file EXCEPT ![Target(cur)] = Merged(Target(cur))],
           UNCHANGED cur
    PROVE  Target(cur)' = Target(cur)
<1>1. Target(cur) \in Path /\ "store" \in Path /\ "default" \in Path
  BY TargetType, Paths DEF Named, Staged
<1>2. Merged(Target(cur)) \in Content /\ "org" \in Merged(Target(cur))
  BY <1>1, MergedTrusts
<1>3. /\ \A f \in Path : f # Target(cur) => file'[f] = file[f]
      /\ file'[Target(cur)] # None
  BY <1>1, <1>2, Written
<1> QED
  BY <1>1, <1>3 DEF Target

\* No step takes the CA out of a file: Alpine's second path gets the content
\* of a store that has just been merged, all other files are merged ones.
LEMMA TrustsStep ==
    ASSUME TypeOK, NamedTrusted, [Next]_vars
    PROVE  \A f \in Path : Trusts(f) => Trusts(f)'
<1>0. /\ Target(cur) \in Path /\ Merged(Target(cur)) \in Content
      /\ "org" \in Merged(Target(cur))
  BY TargetType, Paths, MergedTrusts DEF Named, Staged
<1>1. CASE OsStageMerged
  <2>1. "staged-merged" \in Path
    BY Paths DEF Named, Staged
  <2> QED
    BY <1>0, <1>1, <2>1, Written DEF OsStageMerged, Trusts
<1>2. CASE OsWriteStore
  BY <1>0, <1>2, Written DEF OsWriteStore, Trusts
<1>3. CASE OsWriteDefault
  <2>1. "default" \in Path /\ "store" \in Path
    BY Paths DEF Named, Staged
  <2>2. file["store"] \in Content /\ "org" \in file["store"]
    BY <1>3, <2>1 DEF OsWriteDefault, NamedTrusted, Trusts, TypeOK
  <2> QED
    BY <1>3, <2>1, <2>2, Written DEF OsWriteDefault, Trusts
<1>4. CASE OsWriteAnchor
  <2>1. "anchor" \in Path /\ {"org"} \in Content
    BY Paths DEF Named, Staged, Content
  <2> QED
    BY <1>4, <2>1, Written DEF OsWriteAnchor, Trusts
<1>5. ASSUME NEW s \in Cacerts, JavaStore(s)
      PROVE  \A f \in Path : Trusts(f) => Trusts(f)'
  <2>1. s \in Path /\ Merged(s) \in Content /\ "org" \in Merged(s)
    BY Paths, MergedTrusts
  <2> QED
    BY <1>5, <2>1, Written DEF JavaStore, Trusts
<1>6. CASE JavaEnd
  <2>1. "staged-java" \in Path
    BY Paths DEF Named, Staged
  <2>2. pending # None => pending \in Content /\ "org" \in pending
    BY DEF TypeOK, NamedTrusted
  <2> QED
    BY <1>6, <2>1, <2>2, Written DEF JavaEnd, Trusts
<1>7. CASE UNCHANGED file
  BY <1>7 DEF Trusts
<1> QED
  BY <1>1, <1>2, <1>3, <1>4, <1>5, <1>6, <1>7
  DEF Next, Hook, HookStart, Persist, ApplyNext, OsProbe, OsFails, HookKilled,
      WrapperRun, vars

\* Every step sets facts to files that trust the CA only.
LEMMA NamedStep ==
    ASSUME IInv, NamedTrusted, [Next]_vars
    PROVE  NamedTrusted'
<1> USE DEF IInv
<1>1. \A f \in Path : Trusts(f) => Trusts(f)'
  BY TrustsStep
<1>2. /\ {"staged", "store", "default", "anchor", "staged-merged",
          "staged-java"} \subseteq Path
      /\ Target(cur) \in Path
  BY TargetType, Paths DEF Named, Staged
<1>3. Trusts("staged")'
  BY <1>1, <1>2 DEF NamedTrusted
<1>4. \A k \in Fact \ {"trust_store_path"} :
         facts[k] # None => Trusts(facts[k]) /\ facts[k] \in Path
  BY DEF NamedTrusted, TypeOK
<1>5. CASE UNCHANGED <<facts, pending>> /\ pc' \notin {"alpine", "anchor"}
  BY <1>1, <1>3, <1>4, <1>5 DEF NamedTrusted
<1>6. CASE OsProbe
  <2>1. /\ UNCHANGED pending /\ pc' \notin {"alpine", "anchor"}
        /\ \A k \in Fact \ {"trust_store_path"} :
             facts'[k] = facts[k] \/ facts'[k] = "staged"
    BY <1>6 DEF OsProbe, TypeOK, Fact, javaVars
  <2> QED
    BY <1>1, <1>3, <1>4, <2>1 DEF NamedTrusted
<1>7. CASE OsStageMerged
  <2>1. /\ UNCHANGED pending /\ pc' \notin {"alpine", "anchor"}
    BY <1>7 DEF OsStageMerged, javaVars
  <2>2. CASE facts' = facts
    BY <1>5, <2>1, <2>2
  <2>3. CASE /\ file' = [file EXCEPT !["staged-merged"] = Merged(Target(cur))]
             /\ facts' = [facts EXCEPT !["merged_ca_path"] = "staged-merged"]
    <3>1. Trusts("staged-merged")'
      BY <1>2, <2>3, MergedTrusts, Written
    <3>2. \A k \in Fact : facts'[k] = facts[k] \/ facts'[k] = "staged-merged"
      BY <2>3 DEF TypeOK
    <3> QED
      BY <1>1, <1>3, <1>4, <2>1, <3>1, <3>2 DEF NamedTrusted
  <2> QED
    BY <1>7, <2>2, <2>3 DEF OsStageMerged
<1>8. CASE OsWriteStore
  <2>1. UNCHANGED <<pending, facts, cur>> /\ pc' \in {"alpine", "anchor"}
    BY <1>8 DEF OsWriteStore, javaVars
  <2>2. Trusts(Target(cur))' /\ Target(cur)' = Target(cur)
    <3>1. CASE Trusts(Target(cur))
      BY <1>8, <2>1, <3>1 DEF OsWriteStore, Trusts, Target
    <3>2. CASE ~Trusts(Target(cur))
      <4>1. file' = [file EXCEPT ![Target(cur)] = Merged(Target(cur))]
        BY <1>8, <3>2 DEF OsWriteStore
      <4>2. Target(cur)' = Target(cur)
        BY <2>1, <4>1, TargetKept
      <4>3. file'[Target(cur)] # None /\ "org" \in file'[Target(cur)]
        BY <1>2, <4>1, MergedTrusts, Written
      <4> QED
        BY <4>2, <4>3 DEF Trusts
    <3> QED
      BY <3>1, <3>2
  <2>3. pc' = "alpine" => Target(cur) = "store"
    BY <1>8 DEF OsWriteStore, Target
  <2>4. pc' = "alpine" => Trusts("store")'
    BY <2>2, <2>3 DEF Trusts
  <2> QED
    BY <1>1, <1>3, <1>4, <2>1, <2>2, <2>4 DEF NamedTrusted
<1>9. CASE OsWriteDefault
  <2>1. /\ UNCHANGED <<pending, facts, cur>> /\ pc' = "anchor"
        /\ pc = "alpine" /\ cur = "os-alpine"
    BY <1>9 DEF OsWriteDefault, CurInv, javaVars
  <2>2. Target(cur)' = "store"
    BY <2>1 DEF Target
  <2>3. Trusts("store")'
    BY <1>1, <1>2, <2>1 DEF NamedTrusted
  <2>4. Trusts(Target(cur))'
    BY <2>2, <2>3 DEF Trusts
  <2> QED
    BY <1>1, <1>3, <1>4, <2>1, <2>4 DEF NamedTrusted
<1>10. CASE OsWriteAnchor
  <2>1. UNCHANGED <<pending, cur>> /\ pc' = "next" /\ Trusts(Target(cur))
    BY <1>10 DEF OsWriteAnchor, NamedTrusted, javaVars
  <2>2. cur # "os-fallback" => Trusts("anchor")'
    <3>1. {"org"} \in Content
      BY DEF Content
    <3> QED
      BY <1>2, <1>10, <3>1, Written DEF OsWriteAnchor
  <2>3. \A k \in Fact \ {"trust_store_path"} :
          \/ facts'[k] \in {facts[k], Target(cur)}
          \/ facts'[k] = "anchor" /\ cur # "os-fallback"
    BY <1>10 DEF OsWriteAnchor, TypeOK, Fact
  <2>4. \A k \in Fact \ {"trust_store_path"} :
          facts'[k] # None => Trusts(facts[k])'
    BY <1>1, <1>2, <1>4, <2>1, <2>2, <2>3 DEF Trusts
  <2> QED
    BY <1>3, <2>1, <2>4 DEF NamedTrusted
<1>11. ASSUME NEW s \in Cacerts, JavaStore(s) PROVE NamedTrusted'
  <2>1. UNCHANGED facts /\ pc' = "java"
    BY <1>11 DEF JavaStore
  <2>2. "org" \in Merged(s)
    BY DEF Merged
  <2>3. pending' # None => "org" \in pending'
    BY <1>11, <2>2 DEF JavaStore, Keep, NamedTrusted
  <2> QED
    BY <1>1, <1>3, <1>4, <2>1, <2>3 DEF NamedTrusted
<1>12. CASE JavaEnd
  <2>1. UNCHANGED pending /\ pc' = "next"
    BY <1>12 DEF JavaEnd, javaVars
  <2>2. CASE facts' = facts
    BY <1>5, <2>1, <2>2
  <2>3. CASE /\ pending # None
             /\ file' = [file EXCEPT !["staged-java"] = pending]
             /\ facts' = [facts EXCEPT
                            !["java_trust_store_path"] = "staged-java"]
    <3>1. pending \in Content /\ "org" \in pending
      BY <2>3 DEF TypeOK, NamedTrusted
    <3>2. Trusts("staged-java")'
      BY <1>2, <2>3, <3>1, Written
    <3>3. \A k \in Fact : facts'[k] = facts[k] \/ facts'[k] = "staged-java"
      BY <2>3 DEF TypeOK
    <3> QED
      BY <1>1, <1>3, <1>4, <2>1, <3>2, <3>3 DEF NamedTrusted
  <2> QED
    BY <1>12, <2>2, <2>3 DEF JavaEnd
<1>13. ASSUME NEW p \in Processor, ApplyNext(p) PROVE NamedTrusted'
  <2>1. /\ UNCHANGED facts /\ pc' \notin {"alpine", "anchor"}
        /\ pending' \in {pending, None}
    BY <1>13 DEF ApplyNext, javaVars
  <2> QED
    BY <1>1, <1>3, <1>4, <2>1 DEF NamedTrusted
<1>14. CASE UNCHANGED vars
  BY <1>14 DEF vars, javaVars, NamedTrusted, Trusts, Target
<1> QED
  BY <1>5, <1>6, <1>7, <1>8, <1>9, <1>10, <1>11, <1>12, <1>13, <1>14
  DEF Next, Hook, HookStart, Persist, OsFails, HookKilled, WrapperRun, javaVars

\* What a step of an OS processor may do to the two stores: neither goes away,
\* and only Alpine's second path is overwritten, when there is a store.
LEMMA StoresStep ==
    ASSUME IInv, [Next]_vars
    PROVE  /\ file["store"] # None => file'["store"] # None
           /\ \/ file'["default"] = file["default"]
              \/ file["store"] # None
              \/ /\ file'["default"] # None
                 /\ file["default"] # None =>
                      file["default"] \subseteq file'["default"]
<1> USE DEF IInv
<1>1. /\ Named \subseteq Path /\ Cacerts \subseteq Path
      /\ "store" \notin Cacerts /\ "default" \notin Cacerts
  BY Paths, CacertsAssumption DEF Named, Staged
<1>2. {"store", "default", "anchor", "staged-merged", "staged-java"}
        \subseteq Path
  BY <1>1 DEF Named, Staged
<1>3. CASE OsWriteStore
  <2>1. CASE file' = file
    BY <2>1
  <2>2. CASE file' = [file EXCEPT ![Target(cur)] = Merged(Target(cur))]
    <3>1. Target(cur) \in {"store", "default"} /\ Target(cur) \in Path
      BY TargetType, <1>2
    <3>2. /\ Merged(Target(cur)) # None
          /\ file[Target(cur)] # None =>
               file[Target(cur)] \subseteq Merged(Target(cur))
      BY <3>1, MergedContent, NoneApart
    <3> QED
      BY <1>2, <2>2, <3>1, <3>2 DEF TypeOK
  <2> QED
    BY <1>3, <2>1, <2>2 DEF OsWriteStore
<1>4. CASE OsWriteDefault
  BY <1>2, <1>4 DEF OsWriteDefault, CurInv, Trusts, TypeOK
<1>5. CASE /\ file'["store"] = file["store"]
           /\ file'["default"] = file["default"]
  BY <1>5
<1>6. ASSUME NEW s \in Cacerts, JavaStore(s)
      PROVE  /\ file'["store"] = file["store"]
             /\ file'["default"] = file["default"]
  BY <1>1, <1>2, <1>6 DEF JavaStore, TypeOK
<1>7. CASE OsStageMerged \/ OsWriteAnchor \/ JavaEnd
  <2>1. /\ file'["store"] = file["store"]
        /\ file'["default"] = file["default"]
    BY <1>2, <1>7 DEF OsStageMerged, OsWriteAnchor, JavaEnd, TypeOK
  <2> QED
    BY <1>5, <2>1
<1>8. CASE UNCHANGED file
  BY <1>8
<1> QED
  BY <1>3, <1>4, <1>5, <1>6, <1>7, <1>8
  DEF Next, Hook, HookStart, Persist, ApplyNext, OsProbe, OsFails, HookKilled,
      WrapperRun, vars

\* The second path keeps its roots while there is no store.
LEMMA DefaultStep ==
    ASSUME IInv, DefaultKept, [Next]_vars
    PROVE  DefaultKept'
<1>1. UNCHANGED image
  BY DEF Next, Hook, HookStart, Persist, ApplyNext, OsProbe, OsStageMerged,
         OsWriteStore, OsWriteDefault, OsWriteAnchor, OsFails, JavaEnd,
         JavaStore, HookKilled, WrapperRun, vars, fixedVars
<1> QED
  BY <1>1, StoresStep DEF DefaultKept

\* A store there is has the roots the image had there, unless it is the second
\* one and there is a first.
LEMMA TargetRoots ==
    ASSUME IInv, DefaultKept, NEW t \in {"store", "default"},
           t = "default" => file["store"] = None
    PROVE  \/ image[t] = None
           \/ file[t] # None /\ image[t] \subseteq file[t]
BY DEF IInv, RootsKept, DefaultKept

\* The default path is Target only when there is no store.
LEMMA TargetDefault == Target(cur) = "default" => file["store"] = None
BY DEF Target

\* Once the trust store is known no store is touched, and the merged bundle
\* keeps its content; the facts are those of one OS processor.
LEMMA StoreFactsStep ==
    ASSUME IInv, NamedTrusted, DefaultKept, StoreFacts, [Next]_vars
    PROVE  StoreFacts'
<1> USE ErrorAssumption
<1> DEFINE trust == facts["trust_store_path"]
           merged == facts["merged_ca_path"]
           individual == facts["individual_ca_path"]
<1>1. /\ TypeOK /\ CurInv
      /\ Target(cur) \in {"store", "default"}
      /\ Target(cur) = "default" => file["store"] = None
  BY TargetType, TargetDefault DEF IInv
<1>2. /\ {"store", "default", "anchor", "staged", "staged-merged",
          "staged-java"} \subseteq Path
      /\ Cacerts \subseteq Path
      /\ Cacerts \cap {"store", "default", "staged-merged"} = {}
      /\ \A f \in Path : f # None
  BY Paths, CacertsAssumption, NoneApart DEF Named, Staged
<1>3. ASSUME trust' = trust, merged' = merged, individual' = individual,
             UNCHANGED <<image, writable>>, ioErrors' =< 1 => ioErrors =< 1,
             \A f \in {"store", "default", "staged-merged"} :
               file'[f] = file[f],
             trust # None => pc' \notin {"os", "write", "alpine", "anchor"},
             pc' # "stage", pc' = "killed" \/ pc \notin {"stage", "killed"}
      PROVE  StoreFacts'
  <2>1. CASE trust = None
    BY <1>3, <2>1 DEF StoreFacts
  <2>2. CASE trust # None
    <3>1. /\ trust \in {"store", "default"}
          /\ merged \in {None, "store", "default", "staged-merged"}
          /\ image'[trust] = image[trust]
          /\ merged # None => file'[merged] = file[merged]
          /\ trust = "default" => file'["store"] = None
          /\ ~Busy'
      BY <1>3, <2>2 DEF StoreFacts, Busy
    <3> QED
      BY <1>3, <2>2, <3>1 DEF StoreFacts
  <2> QED
    BY <2>1, <2>2
<1>4. CASE OsProbe
  <2>1. /\ trust = None /\ merged = None
        /\ UNCHANGED <<file, image, writable, cur>>
    BY <1>4 DEF OsProbe, StoreFacts, Busy, fixedVars
  <2>2. CASE facts' = facts /\ pc' = "write"
    BY <2>1, <2>2 DEF StoreFacts
  <2>3. CASE /\ facts' = [facts EXCEPT !["trust_store_path"] = Target(cur),
                                       !["individual_ca_path"] = "staged"]
             /\ pc' = "stage" /\ WriteFails
    <3>1. /\ facts'["trust_store_path"] = Target(cur)
          /\ facts'["individual_ca_path"] = "staged"
          /\ facts'["merged_ca_path"] = None
      BY <1>1, <2>1, <2>3 DEF TypeOK, Fact
    <3>2. writable' => ioErrors' >= 1
      BY <1>1, <2>1, <2>3 DEF WriteFails, IOError, TypeOK
    <3>3. Target(cur)' = Target(cur)
      BY <2>1 DEF Target
    <3>4. ~Busy'
      BY <2>3 DEF Busy
    <3> QED
      BY <1>1, <1>2, <2>1, <2>3, <3>1, <3>2, <3>3, <3>4 DEF StoreFacts
  <2> QED
    BY <1>4, <2>2, <2>3 DEF OsProbe
<1>5. CASE OsStageMerged
  <2>1. /\ trust = Target(cur) /\ merged = None /\ individual = "staged"
        /\ writable => ioErrors >= 1
        /\ UNCHANGED <<image, writable, cur>>
        /\ pc' = "next" /\ ~Busy'
    BY <1>5 DEF OsStageMerged, StoreFacts, Busy, fixedVars
  <2>2. \/ image[trust] = None
        \/ file[trust] # None /\ image[trust] \subseteq file[trust]
    BY <1>1, <2>1, TargetRoots
  <2>3. CASE file[Target(cur)] = None /\ UNCHANGED <<file, facts, ioErrors>>
    BY <1>1, <1>2, <2>1, <2>2, <2>3 DEF StoreFacts
  <2>4. CASE IOError /\ UNCHANGED <<file, facts>>
    <3>1. writable => ioErrors' > 1
      BY <1>1, <2>1, <2>4 DEF IOError, TypeOK
    <3> QED
      BY <1>1, <1>2, <2>1, <2>4, <3>1 DEF StoreFacts, IOError, TypeOK
  <2>5. CASE /\ file[Target(cur)] # None
             /\ file' = [file EXCEPT !["staged-merged"] = Merged(Target(cur))]
             /\ facts' = [facts EXCEPT !["merged_ca_path"] = "staged-merged"]
    <3>1. /\ facts'["trust_store_path"] = trust
          /\ facts'["individual_ca_path"] = individual
          /\ facts'["merged_ca_path"] = "staged-merged"
      BY <1>1, <2>5 DEF TypeOK, Fact
    <3>2. /\ file'["staged-merged"] = Merged(Target(cur))
          /\ file'["store"] = file["store"]
      BY <1>1, <1>2, <2>5 DEF TypeOK
    <3>3. file[Target(cur)] \subseteq Merged(Target(cur))
      BY <2>5 DEF Merged
    <3> QED
      BY <1>1, <1>2, <2>1, <2>2, <2>5, <3>1, <3>2, <3>3 DEF StoreFacts
  <2> QED
    BY <1>5, <2>3, <2>4, <2>5 DEF OsStageMerged
<1>6. CASE OsWriteStore \/ OsWriteDefault
  <2>1. trust = None
    BY <1>6 DEF OsWriteStore, OsWriteDefault, StoreFacts, Busy
  <2>2. UNCHANGED facts /\ pc' # "stage"
    BY <1>6 DEF OsWriteStore, OsWriteDefault
  <2> QED
    BY <2>1, <2>2 DEF StoreFacts
<1>7. CASE OsWriteAnchor
  <2>1. /\ trust = None /\ UNCHANGED <<image, writable, cur>>
        /\ pc' = "next" /\ ~Busy'
    BY <1>7 DEF OsWriteAnchor, StoreFacts, Busy, fixedVars
  <2>2. /\ facts'["trust_store_path"] = Target(cur)
        /\ facts'["merged_ca_path"] = Target(cur)
    BY <1>1, <1>7 DEF OsWriteAnchor, TypeOK, Fact
  <2>3. /\ file'["store"] = file["store"]
        /\ file'["default"] = file["default"]
    BY <1>1, <1>2, <1>7 DEF OsWriteAnchor, TypeOK
  <2>4. \/ image[Target(cur)] = None
        \/ image[Target(cur)] \subseteq file[Target(cur)]
    BY <1>1, TargetRoots
  <2> QED
    BY <1>1, <1>2, <2>1, <2>2, <2>3, <2>4 DEF StoreFacts
<1>8. CASE JavaEnd
  <2>1. /\ UNCHANGED <<image, writable>> /\ pc = "java" /\ pc' = "next"
        /\ ioErrors' =< 1 => ioErrors =< 1
    BY <1>1, <1>8 DEF JavaEnd, IOError, TypeOK, fixedVars
  <2>2. \A f \in {"store", "default", "staged-merged"} : file'[f] = file[f]
    BY <1>1, <1>2, <1>8 DEF JavaEnd, TypeOK
  <2>3. /\ facts'["trust_store_path"] = trust
        /\ facts'["merged_ca_path"] = merged
        /\ facts'["individual_ca_path"] = individual
    BY <1>1, <1>8 DEF JavaEnd, TypeOK, Fact
  <2> QED
    BY <1>3, <2>1, <2>2, <2>3
<1>9. ASSUME NEW s \in Cacerts, JavaStore(s) PROVE StoreFacts'
  <2>1. /\ UNCHANGED <<image, writable, facts, pc>> /\ pc = "java"
        /\ ioErrors' =< 1 => ioErrors =< 1
    BY <1>1, <1>9 DEF JavaStore, WriteFails, IOError, TypeOK, fixedVars
  <2>2. \A f \in {"store", "default", "staged-merged"} : file'[f] = file[f]
    BY <1>1, <1>2, <1>9 DEF JavaStore, TypeOK
  <2> QED
    BY <1>3, <2>1, <2>2
<1>10. ASSUME NEW p \in Processor, ApplyNext(p) PROVE StoreFacts'
  <2>1. /\ UNCHANGED <<image, writable, facts, file>> /\ pc = "next"
        /\ pc' \in {"os", "java", "next"} /\ (trust # None => pc' # "os")
    BY <1>10 DEF ApplyNext, fixedVars
  <2>2. ioErrors' =< 1 => ioErrors =< 1
    BY <1>1, <1>10 DEF ApplyNext, IOError, TypeOK
  <2> QED
    BY <1>3, <2>1, <2>2
<1>11. CASE HookStart \/ Persist \/ OsFails \/ HookKilled \/ WrapperRun
  <2>1. /\ UNCHANGED <<image, writable, facts, file>>
        /\ pc' \notin {"os", "write", "alpine", "anchor", "stage"}
        /\ pc' = "killed" \/ pc \notin {"stage", "killed"}
    BY <1>11 DEF HookStart, Persist, OsFails, HookKilled, WrapperRun, fixedVars
  <2>2. ioErrors' =< 1 => ioErrors =< 1
    BY <1>1, <1>11 DEF HookStart, Persist, OsFails, HookKilled, WrapperRun,
       WriteFails, IOError, TypeOK
  <2> QED
    BY <1>3, <2>1, <2>2
<1>12. CASE UNCHANGED vars
  BY <1>12 DEF vars, fixedVars, StoreFacts, Busy, Target
<1> QED
  BY <1>4, <1>5, <1>6, <1>7, <1>8, <1>9, <1>10, <1>11, <1>12 DEF Next, Hook

\* DetectSorted puts the fallback behind every distribution.
LEMMA FallbackLast ==
    /\ "os-fallback" \in Processor /\ Distro \subseteq Processor
    /\ \A d \in Distro : ~(Order["os-fallback"] =< Order[d])
BY DEF Order, Processor, OsStore, Distro, Language

\* Without a trust store every OS processor that is through has failed.
LEMMA TriedStep ==
    ASSUME IInv, StoreFacts, Tried, [Next]_vars
    PROVE  Tried'
<1> USE ErrorAssumption
<1> DEFINE trust == facts["trust_store_path"]
           Live == pc \notin {"start", "failed", "killed"}
<1>1. TypeOK /\ CurInv /\ ioErrors \in Nat
  BY DEF IInv, TypeOK
<1>2. ASSUME UNCHANGED <<applicable, todo>>, trust' = trust \/ trust' # None,
             Live' => Live, Live' => (Busy' <=> Busy), UNCHANGED cur,
             ioErrors' \in Nat, ioErrors' >= ioErrors
      PROVE  Tried'
  BY <1>1, <1>2 DEF Tried
<1>3. CASE HookStart
  <2>1. CASE pc' = "next" /\ todo' = applicable /\ UNCHANGED applicable
    BY <2>1 DEF Tried
  <2>2. CASE pc' = "failed"
    BY <2>2 DEF Tried
  <2> QED
    BY <1>3, <2>1, <2>2 DEF HookStart, fixedVars
<1>4. ASSUME NEW p \in Processor, ApplyNext(p) PROVE Tried'
  <2>1. /\ pc = "next" /\ p \in todo /\ \A q \in todo : Order[p] =< Order[q]
        /\ todo' = todo \ {p} /\ UNCHANGED <<applicable, facts>>
    BY <1>4 DEF ApplyNext, fixedVars
  <2>2. ioErrors' \in Nat /\ ioErrors' >= ioErrors
    BY <1>1, <1>4 DEF ApplyNext, IOError
  <2>3. /\ p \in OsStore /\ trust = None => Busy' /\ cur' = p
        /\ p \notin OsStore => ~Busy'
    BY <1>4 DEF ApplyNext, Busy, OsStore, Distro
  <2>4. ~Busy
    BY <2>1 DEF Busy
  <2>5. p = "os-fallback" => todo \cap Distro = {}
    BY <2>1, FallbackLast
  <2> SUFFICES ASSUME trust = None PROVE Tried'
    BY <2>1 DEF Tried
  <2>6. /\ \A d \in Distro \cap applicable : d \notin todo => ioErrors >= 1
        /\ "os-fallback" \in applicable \ todo /\ Distro \cap applicable # {} =>
             ioErrors >= 2
    BY <2>1, <2>4 DEF Tried
  <2>7. ASSUME NEW d \in Distro \cap applicable, d \notin todo',
               ~(Busy' /\ cur' = d)
        PROVE  ioErrors' >= 1
    <3>1. d # p
      BY <2>3, <2>7 DEF OsStore
    <3> QED
      BY <1>1, <2>1, <2>2, <2>6, <2>7, <3>1
  <2>8. ASSUME "os-fallback" \in applicable' \ todo',
               Distro \cap applicable # {}
        PROVE  /\ ioErrors' >= 1
               /\ ~(Busy' /\ cur' = "os-fallback") => ioErrors' >= 2
    <3>1. CASE p = "os-fallback"
      <4>1. ioErrors >= 1
        BY <2>5, <2>6, <2>8, <3>1
      <4>2. Busy' /\ cur' = "os-fallback"
        BY <2>3, <3>1 DEF OsStore
      <4> QED
        BY <1>1, <2>2, <4>1, <4>2
    <3>2. CASE p # "os-fallback"
      <4>1. ioErrors >= 2
        BY <2>1, <2>6, <2>8, <3>2
      <4> QED
        BY <1>1, <2>2, <4>1
    <3> QED
      BY <3>1, <3>2
  <2> QED
    BY <2>1, <2>7, <2>8 DEF Tried
<1>5. CASE OsFails
  <2>1. /\ Busy /\ ~Busy' /\ UNCHANGED <<applicable, todo, facts>>
        /\ Live /\ cur \in OsStore \cap applicable
    BY <1>1, <1>5 DEF OsFails, Busy, CurInv, fixedVars
  <2>2. ioErrors' = ioErrors + 1
    BY <1>5 DEF OsFails, IOError
  <2>3. CASE cur = "os-fallback"
    BY <1>1, <2>1, <2>2, <2>3 DEF Tried
  <2>4. CASE cur # "os-fallback"
    BY <1>1, <2>1, <2>2, <2>4 DEF Tried, OsStore
  <2> QED
    BY <2>3, <2>4
<1>6. CASE OsProbe
  <2>1. CASE pc' = "write" /\ UNCHANGED <<facts, ioErrors>>
    BY <1>1, <1>2, <1>6, <2>1 DEF OsProbe, Busy, fixedVars
  <2>2. CASE facts' = [facts EXCEPT !["trust_store_path"] = Target(cur),
                                    !["individual_ca_path"] = "staged"]
    <3>1. facts'["trust_store_path"] # None
      BY <1>1, <2>2, TargetType, Paths, NoneApart DEF TypeOK, Fact, Named, Staged
    <3> QED
      BY <3>1 DEF Tried
  <2> QED
    BY <1>6, <2>1, <2>2 DEF OsProbe
<1>7. CASE OsStageMerged
  <2>1. /\ trust = Target(cur) /\ trust # None
    BY <1>7, TargetType, NoneApart DEF OsStageMerged, StoreFacts, Named, Staged
  <2>2. trust' = trust
    BY <1>1, <1>7 DEF OsStageMerged, TypeOK, Fact
  <2> QED
    BY <2>1, <2>2 DEF Tried
<1>8. CASE OsWriteStore \/ OsWriteDefault
  <2>1. UNCHANGED <<applicable, todo, facts, cur, ioErrors>>
    BY <1>8 DEF OsWriteStore, OsWriteDefault, fixedVars
  <2>2. Live /\ Busy /\ Busy'
    BY <1>8 DEF OsWriteStore, OsWriteDefault, Busy
  <2> QED
    BY <1>1, <1>2, <2>1, <2>2
<1>9. CASE OsWriteAnchor
  <2>1. facts'["trust_store_path"] # None
    BY <1>1, <1>9, TargetType, Paths, NoneApart
    DEF OsWriteAnchor, TypeOK, Fact, Named, Staged
  <2> QED
    BY <2>1 DEF Tried
<1>10. CASE JavaEnd
  <2>1. /\ UNCHANGED <<applicable, todo, cur>> /\ trust' = trust
        /\ Live /\ ~Busy /\ ~Busy'
    BY <1>1, <1>10 DEF JavaEnd, TypeOK, Fact, Busy, fixedVars
  <2>2. ioErrors' \in Nat /\ ioErrors' >= ioErrors
    BY <1>1, <1>10 DEF JavaEnd, IOError
  <2> QED
    BY <1>2, <2>1, <2>2
<1>11. ASSUME NEW s \in Cacerts, JavaStore(s) PROVE Tried'
  <2>1. UNCHANGED <<applicable, todo, cur, facts, pc>>
    BY <1>11 DEF JavaStore, fixedVars
  <2>2. ioErrors' \in Nat /\ ioErrors' >= ioErrors
    BY <1>1, <1>11 DEF JavaStore, WriteFails, IOError
  <2> QED
    BY <1>2, <2>1, <2>2 DEF Busy
<1>12. CASE Persist \/ WrapperRun
  <2>1. /\ UNCHANGED <<applicable, todo, cur, facts>>
        /\ ~Busy /\ ~Busy' /\ (Live' => Live)
    BY <1>12 DEF Persist, WrapperRun, Busy, fixedVars
  <2>2. ioErrors' \in Nat /\ ioErrors' >= ioErrors
    BY <1>1, <1>12 DEF Persist, WrapperRun, WriteFails, IOError
  <2> QED
    BY <1>2, <2>1, <2>2
<1>13. CASE HookKilled
  BY <1>13 DEF HookKilled, Tried
<1>14. CASE UNCHANGED vars
  BY <1>14 DEF vars, fixedVars, Tried, Busy
<1> QED
  BY <1>3, <1>4, <1>5, <1>6, <1>7, <1>8, <1>9, <1>10, <1>11, <1>12, <1>13,
     <1>14 DEF Next, Hook

\* No step names a file of the node on a writable root file system, unless a
\* file operation fails.
LEMMA UnharmedStep ==
    ASSUME IInv, StoreFacts, Tried, Unharmed, [Next]_vars
    PROVE  Unharmed'
<1> USE ErrorAssumption
<1> SUFFICES ASSUME writable', ioErrors' = 0
             PROVE  Unharmed'
  BY DEF Unharmed
<1>1. UNCHANGED <<writable, applicable>>
  BY DEF Next, Hook, HookStart, Persist, ApplyNext, OsProbe, OsStageMerged,
         OsWriteStore, OsWriteDefault, OsWriteAnchor, OsFails, JavaEnd,
         JavaStore, HookKilled, WrapperRun, vars, fixedVars
<1>2. TypeOK /\ CurInv /\ ioErrors \in Nat
  BY DEF IInv, TypeOK
<1>3. ~IOError
  BY <1>2 DEF IOError
<1>4. writable /\ ~WriteFails
  BY <1>1, <1>3 DEF WriteFails
<1>5. UNCHANGED ioErrors
  BY <1>3, <1>4 DEF Next, Hook, HookStart, Persist, ApplyNext, OsProbe,
         OsStageMerged, OsWriteStore, OsWriteDefault, OsWriteAnchor, OsFails,
         JavaEnd, JavaStore, HookKilled, WrapperRun, vars
<1>6. /\ pending = None
      /\ \A k \in Fact : facts[k] \notin Staged
      /\ facts["trust_store_path"] # None /\ Distro \cap applicable # {} =>
           facts["individual_ca_path"] = "anchor"
  BY <1>4, <1>5 DEF Unharmed
<1>7. CASE UNCHANGED facts /\ pending' = None
  BY <1>1, <1>6, <1>7 DEF Unharmed
<1>8. CASE OsProbe
  BY <1>4, <1>6, <1>7, <1>8 DEF OsProbe, javaVars
<1>9. CASE OsStageMerged
  BY <1>2, <1>4, <1>5, <1>9 DEF OsStageMerged, StoreFacts
<1>10. CASE OsWriteAnchor
  <2>1. /\ pc = "anchor" /\ Busy /\ facts["trust_store_path"] = None
        /\ cur \in applicable \ todo /\ UNCHANGED pending
    BY <1>2, <1>10 DEF OsWriteAnchor, CurInv, StoreFacts, Busy, javaVars
  <2>2. cur = "os-fallback" => Distro \cap applicable = {}
    BY <1>2, <1>5, <2>1 DEF Tried
  <2>3. Target(cur) \notin Staged
    BY TargetType DEF Staged
  <2>4. \A k \in Fact : facts'[k] \in {facts[k], Target(cur), "anchor"}
    BY <1>2, <1>10 DEF OsWriteAnchor, TypeOK, Fact
  <2>5. cur # "os-fallback" => facts'["individual_ca_path"] = "anchor"
    BY <1>2, <1>10 DEF OsWriteAnchor, TypeOK, Fact
  <2>6. "anchor" \notin Staged
    BY DEF Staged
  <2>7. \A k \in Fact : facts'[k] \notin Staged
    BY <1>6, <2>3, <2>4, <2>6
  <2> QED
    BY <1>1, <1>6, <2>1, <2>2, <2>5, <2>7 DEF Unharmed
<1>11. ASSUME NEW s \in Cacerts, JavaStore(s) PROVE Unharmed'
  BY <1>4, <1>6, <1>7, <1>11 DEF JavaStore
<1>12. CASE JavaEnd
  BY <1>6, <1>7, <1>12 DEF JavaEnd, javaVars
<1>13. ASSUME NEW p \in Processor, ApplyNext(p) PROVE Unharmed'
  BY <1>6, <1>7, <1>13 DEF ApplyNext, javaVars
<1>14. CASE \/ HookStart \/ Persist \/ OsWriteStore \/ OsWriteDefault
            \/ OsFails \/ HookKilled \/ WrapperRun \/ UNCHANGED vars
  BY <1>6, <1>7, <1>14 DEF HookStart, Persist, OsWriteStore, OsWriteDefault,
     OsFails, HookKilled, WrapperRun, vars, javaVars
<1> QED
  BY <1>8, <1>9, <1>10, <1>11, <1>12, <1>13, <1>14 DEF Next, Hook

\* The wrapper runs after the hook, on what the hook persisted.
LEMMA HandedStep ==
    ASSUME IInv, HandedOver, [Next]_vars
    PROVE  HandedOver'
<1>1. UNCHANGED <<applicable, writable>>
  BY DEF Next, Hook, HookStart, Persist, ApplyNext, OsProbe, OsStageMerged,
         OsWriteStore, OsWriteDefault, OsWriteAnchor, OsFails, JavaEnd,
         JavaStore, HookKilled, WrapperRun, vars, fixedVars
<1>2. \A f : WrapperEnv(f)' = WrapperEnv(f)
  BY <1>1 DEF WrapperEnv, PythonEnv, NodeEnv, JavaEnv, PreferredCABundlePath
<1>3. CASE Persist
  <2>1. context = None /\ UNCHANGED <<env, facts>> /\ todo' = {}
    BY <1>3 DEF Persist, HandedOver, wrapperVars
  <2>2. CASE writable /\ context' = facts /\ pc' = "done"
    BY <1>1, <2>1, <2>2 DEF HandedOver
  <2>3. CASE UNCHANGED context /\ pc' = "failed"
    BY <2>1, <2>3 DEF HandedOver
  <2> QED
    BY <1>3, <2>2, <2>3 DEF Persist
<1>4. CASE WrapperRun
  <2>1. UNCHANGED <<facts, context, pc, todo>>
    BY <1>4 DEF WrapperRun
  <2>2. env' = env \/ (context # None /\ env' = WrapperEnv(context))
    BY <1>4 DEF WrapperRun
  <2> QED
    BY <1>1, <1>2, <2>1, <2>2 DEF HandedOver
<1>5. CASE UNCHANGED vars
  BY <1>1, <1>2, <1>5 DEF vars, wrapperVars, HandedOver
<1>6. CASE /\ Next /\ ~Persist /\ ~WrapperRun
  <2>1. UNCHANGED <<context, env>> /\ pc # "done" /\ pc' # "done"
    BY <1>6 DEF Next, Hook, HookStart, ApplyNext, OsProbe, OsStageMerged,
         OsWriteStore, OsWriteDefault, OsWriteAnchor, OsFails, JavaEnd,
         JavaStore, HookKilled, wrapperVars
  <2> QED
    BY <2>1 DEF HandedOver
<1> QED
  BY <1>3, <1>4, <1>5, <1>6

\* Before the hook starts no fact is set and nothing is handed over.
LEMMA ServedInit == Init => ServedInv
<1> SUFFICES ASSUME Init PROVE ServedInv
  OBVIOUS
<1>1. /\ TypeOK /\ file = image /\ pc = "start" /\ pending = None
      /\ facts = NoFacts /\ context = None
      /\ env = [v \in Variable |-> None]
  BY InitInv DEF Init, IInv
<1>2. file["staged"] = {"org"}
  BY Paths, CacertsAssumption DEF Init, Named, Staged
<1>3. Trusts("staged")
  BY <1>2, NoneApart DEF Trusts, Content
<1>4. \A k \in Fact : facts[k] = None
  BY <1>1 DEF NoFacts
<1>5. NamedTrusted
  BY <1>1, <1>3, <1>4 DEF NamedTrusted
<1>6. DefaultKept
  BY <1>1 DEF DefaultKept
<1>7. StoreFacts
  BY <1>1, <1>4 DEF StoreFacts, Fact
<1>8. Tried
  BY <1>1 DEF Tried
<1>9. HandedOver
  BY <1>1 DEF HandedOver
<1>10. Unharmed
  BY <1>1, <1>4, NoneApart DEF Unharmed, Named, Fact
<1> QED
  BY <1>5, <1>6, <1>7, <1>8, <1>9, <1>10 DEF ServedInv

-----------------------------------------------------------------------------
\* The inductive invariant holds in every reachable state.
THEOREM Invariance == Spec => []IInv
<1>1. IInv /\ [Next]_vars => IInv'
  BY TypeStep, CurStep, RootsStep DEF IInv
<1> QED
  BY InitInv, <1>1, PTL DEF Spec

\* The variables of the hook, the context and the wrapper keep their types.
THEOREM TypeCorrect == Spec => []TypeOK
BY Invariance, PTL DEF IInv

\* For any set of key stores and any number of failures: MergePEM, mergeStore
\* and the order of the writes never lose a root certificate of the image,
\* except those of a separate /etc/ssl/cert.pem that the Alpine processor has
\* overwritten with its store.
THEOREM RootsNeverLost == Spec => []RootsKept
BY Invariance, PTL DEF IInv

\* What the facts name, and what is handed over to the wrapper, holds in every
\* reachable state.
THEOREM Served == Spec => []ServedInv
<1>1. IInv /\ ServedInv /\ [Next]_vars => ServedInv'
  BY NamedStep, DefaultStep, StoreFactsStep, TriedStep, UnharmedStep,
     HandedStep
  DEF ServedInv
<1> QED
  BY ServedInit, <1>1, Invariance, PTL DEF Spec

\* For any set of key stores and any number of failures, every file that the
\* wrapper exports trusts the CA, and it is one of the container unless a file
\* operation failed; after at most one failure the bundle that replaces the
\* default trust has the roots of the store.
THEOREM ExportsTrusted == Spec => []ExportedTrusted
<1>1. IInv /\ ServedInv => ExportedTrusted
  <2> SUFFICES ASSUME IInv, ServedInv PROVE ExportedTrusted
    OBVIOUS
  <2>1. CASE env = [v \in Variable |-> None]
    BY <2>1 DEF ExportedTrusted, Variable
  <2>2. CASE context # None /\ env = WrapperEnv(context)
    <3>1. context = facts /\ writable /\ pc = "done"
      BY <2>2 DEF ServedInv, HandedOver
    <3>2. \A v \in Variable :
            env[v] \in {None, PreferredCABundlePath(facts),
                        facts["individual_ca_path"],
                        facts["java_trust_store_path"]}
      BY <2>2, <3>1 DEF WrapperEnv, PythonEnv, NodeEnv, JavaEnv
    <3>3. \A v \in Variable : env[v] # None => Trusts(env[v])
      BY <3>2 DEF ServedInv, NamedTrusted, PreferredCABundlePath, Fact
    <3>4. env["SSL_CERT_FILE"] \in {None, PreferredCABundlePath(facts)}
      BY <2>2, <3>1 DEF WrapperEnv, PythonEnv, Variable
    <3>5. ASSUME env["SSL_CERT_FILE"] # None, ioErrors =< 1
          PROVE  \/ image[facts["trust_store_path"]] = None
                 \/ image[facts["trust_store_path"]]
                      \subseteq file[env["SSL_CERT_FILE"]]
      BY <3>1, <3>4, <3>5 DEF ServedInv, StoreFacts, PreferredCABundlePath
    <3>6. ASSUME ioErrors = 0, NEW v \in Variable, env[v] # None
          PROVE  Opens(env[v])
      <4>1. \A k \in Fact : facts[k] \notin Staged
        BY <3>1, <3>6 DEF ServedInv, Unharmed
      <4>2. env[v] \notin Staged
        BY <3>2, <3>6, <4>1 DEF PreferredCABundlePath, Fact
      <4> QED
        BY <3>3, <3>6, <4>2 DEF Opens
    <3> QED
      BY <3>1, <3>3, <3>5, <3>6 DEF ExportedTrusted
  <2> QED
    BY <2>1, <2>2 DEF ServedInv, HandedOver
<1> QED
  BY <1>1, Invariance, Served, PTL

\* If a distribution and the fallback are selected, a hook that ends after at
\* most one failure leaves a bundle that the command can open, with the CA and
\* the roots of the store, unless it was the probe that failed; and one that
\* ends after none leaves a file for Node.js too.
THEOREM FallbackServes == Spec => []FallbackCovers
<1>1. IInv /\ ServedInv => FallbackCovers
  <2> SUFFICES ASSUME IInv, ServedInv, pc = "done", ioErrors =< 1,
                      applicable \cap Distro # {}, "os-fallback" \in applicable
               PROVE  /\ \/ /\ Opens(PreferredCABundlePath(facts))
                            /\ \/ image[facts["trust_store_path"]] = None
                               \/ image[facts["trust_store_path"]] \subseteq
                                    file[PreferredCABundlePath(facts)]
                         \/ /\ ioErrors = 1
                            /\ facts["individual_ca_path"] = "staged"
                      /\ ioErrors = 0 => Opens(NodeEnv(facts))
    BY DEF FallbackCovers
  <2>1. todo = {} /\ writable
    BY DEF ServedInv, HandedOver
  <2>2. ~Busy /\ ioErrors \in Nat
    BY DEF Busy, IInv, TypeOK
  <2>3. facts["trust_store_path"] # None
    BY <2>1, <2>2 DEF ServedInv, Tried
  <2>4. \A k \in Fact \ {"trust_store_path"} :
          facts[k] # None => Trusts(facts[k])
    BY DEF ServedInv, NamedTrusted
  <2>5. ASSUME ioErrors = 0
        PROVE  Opens(NodeEnv(facts)) /\ facts["individual_ca_path"] # "staged"
    <3>1. facts["individual_ca_path"] = "anchor"
      BY <2>1, <2>3, <2>5 DEF ServedInv, Unharmed
    <3>2. "anchor" # None /\ "anchor" \notin Staged /\ "anchor" # "staged"
      BY NoneApart DEF Named, Staged
    <3>3. Trusts("anchor")
      BY <2>4, <3>1, <3>2 DEF Fact
    <3> QED
      BY <3>1, <3>2, <3>3 DEF Opens, NodeEnv
  <2>6. ASSUME facts["individual_ca_path"] # "staged"
        PROVE  LET bundle == PreferredCABundlePath(facts)
                   store == facts["trust_store_path"]
               IN  /\ Opens(bundle)
                   /\ image[store] = None \/ image[store] \subseteq file[bundle]
    <3>1. /\ facts["merged_ca_path"] = facts["trust_store_path"]
          /\ facts["trust_store_path"] \in {"store", "default"}
      BY <2>3, <2>6 DEF ServedInv, StoreFacts
    <3>2. PreferredCABundlePath(facts) = facts["merged_ca_path"]
      BY <2>3, <3>1 DEF PreferredCABundlePath
    <3>3. /\ facts["merged_ca_path"] # None
          /\ facts["merged_ca_path"] \notin Staged
          /\ Trusts(facts["merged_ca_path"])
      BY <2>3, <2>4, <3>1 DEF Fact, Staged
    <3> QED
      BY <2>3, <3>1, <3>2, <3>3 DEF Opens, ServedInv, StoreFacts
  <2> QED
    BY <2>2, <2>5, <2>6
<1> QED
  BY <1>1, Invariance, Served, PTL

=============================================================================
