------------------------- MODULE ProjectRuns_proofs -------------------------
(* What holds of the runs of a project for all versions, specifiers and bounds. *)
EXTENDS ProjectRuns, TLAPS

\* Nothing is left of a run that has ended, and a run starts without a choice.
Forgotten ==
    /\ at = "idle" => todo = {} /\ seen = {}
    /\ at \in {"idle", "scan", "assemble"} => suggest = None /\ force = None

\* A version of the local store is taken from there, and a copy is appended when it has a
\* package.json.
Placed ==
    /\ at = "localOrigin" /\ real.version \in seen => real.path = "local"
    /\ at = "append" => HasPackageJson(real.version)

\* The remembered version is the one suggested, then chosen, then generated.
Kept ==
    pinned => /\ AtHand
              /\ at = "solve" => suggest = cache.version /\ force = None
              /\ at \in {"localOrigin", "copy", "append", "output"} =>
                    real.version = cache.version
              /\ at \notin {"idle", "save"}

IInv == TypeOK /\ Forgotten /\ Placed /\ LocalOriginIsLocal /\ Kept

-----------------------------------------------------------------------------
\* TypeOK without what Observe changes.
Typed ==
    /\ ref \in Refs
    /\ store \subseteq Versions /\ index \subseteq Versions
    /\ local \in [Versions -> Directories]
    /\ libCache = Torn \/ libCache \subseteq Versions
    /\ cache \in Entries \cup {None, Torn}
    /\ include \in Versions \cup {None, Torn, Empty}
    /\ at \in Places
    /\ todo \subseteq Versions
    /\ seen \subseteq {v \in Versions : HasPackageJson(v)}
    /\ suggest \in Versions \cup {None}
    /\ force \in Versions \cup {None}
    /\ real \in Packages \cup {None}
    /\ at \in {"localOrigin", "copy", "append", "output", "save"} => real # None
    /\ at \notin {"idle", "scan"} => todo = {}
    /\ at # "idle" => libCache # Torn
    /\ edits \in 0 .. MaxEdits /\ kills \in 0 .. MaxKills

\* What a step of the program or its surroundings has to show.
Steady == Typed' /\ Forgotten' /\ Placed' /\ LocalOriginIsLocal'

USE DEF Places

LEMMA InitIInv == Init => IInv
<1> SUFFICES ASSUME Init PROVE IInv
  OBVIOUS
<1>1. Typed
  BY BoundsType DEF Init, Typed, Directories
<1>2. Forgotten /\ Placed /\ LocalOriginIsLocal
  BY DEF Init, Forgotten, Placed, LocalOriginIsLocal
<1>3. pinned = FALSE /\ calm = FALSE /\ touched = TRUE
  BY DEF Init
<1>4. TypeOK /\ Kept
  BY <1>1, <1>3, Zenon DEF Typed, TypeOK, Kept
<1> QED BY <1>1, <1>2, <1>4 DEF IInv

-----------------------------------------------------------------------------
(* Types and places, action by action *)

LEMMA StartSteady == IInv /\ (Start \/ Scanned) => Steady
<1>1. IInv /\ Start => Steady
  BY DEF IInv, TypeOK, Forgotten, Placed, LocalOriginIsLocal, Start, Steady, Typed,
         Unwritten, files, bounds, HasPackageJson
<1>2. IInv /\ Scanned => Steady
  BY DEF IInv, TypeOK, Forgotten, Placed, LocalOriginIsLocal, Scanned, Steady,
         Typed, GoOn, Unwritten, files, bounds, HasPackageJson
<1> QED BY <1>1, <1>2

LEMMA ScanSteady ==
    ASSUME IInv, NEW v \in Versions, ScanDirectory(v) \/ ScanGarbled(v)
    PROVE  Steady
<1>1. CASE ScanDirectory(v)
  <2>1. Listed(v) => libCache \cup {v} # Torn
    BY <1>1, TornFile DEF IInv, TypeOK, ScanDirectory
  <2> QED
    BY <1>1, <2>1
    DEF IInv, TypeOK, Forgotten, Placed, LocalOriginIsLocal, ScanDirectory, Steady, Typed,
        bounds, HasPackageJson, Listed
<1>2. CASE ScanGarbled(v)
  BY <1>2 DEF IInv, TypeOK, Forgotten, Placed, LocalOriginIsLocal, ScanGarbled, Steady,
              Typed, Ended, Unwritten, files, bounds, HasPackageJson
<1> QED BY <1>1, <1>2

LEMMA AssembleSteady == IInv /\ (Override \/ Suggest \/ Unreadable \/ Unresolved) => Steady
<1> SUFFICES ASSUME IInv, Override \/ Suggest \/ Unreadable \/ Unresolved PROVE Steady
  OBVIOUS
<1>1. CASE Override
  BY <1>1 DEF IInv, TypeOK, Forgotten, Placed, LocalOriginIsLocal, Override, Steady, Typed,
              Unwritten, files, bounds, HasPackageJson, Refs
<1>2. CASE Suggest
  <2>1. suggest' \in Versions \cup {None}
    BY <1>2 DEF Suggest, Cached, Remembered, Entries
  <2> QED
    BY <1>2, <2>1
    DEF IInv, TypeOK, Forgotten, Placed, LocalOriginIsLocal, Suggest, Steady, Typed,
        Unwritten, files, bounds, HasPackageJson
<1>3. CASE Unreadable \/ Unresolved
  BY <1>3 DEF IInv, TypeOK, Forgotten, Placed, LocalOriginIsLocal, Unreadable, Unresolved,
              Steady, Typed, Ended, Unwritten, files, bounds, HasPackageJson
<1> QED BY <1>1, <1>2, <1>3

LEMMA SolveSteady == ASSUME IInv, NEW v \in Versions, Solve(v) PROVE Steady
<1>1. real' \in Packages /\ real' # None
  BY NoPackage DEF Solve, PathOf, Packages
<1>2. real'.version = v /\ (v \in seen => real'.path = "local")
  BY DEF Solve, PathOf
<1> QED
  BY <1>1, <1>2
  DEF IInv, TypeOK, Forgotten, Placed, LocalOriginIsLocal, Solve, Steady, Typed,
      Unwritten, files, bounds, HasPackageJson

LEMMA PlaceSteady == IInv /\ (StaysInPlace \/ NotCopied \/ CopyFails \/ StartCopy) => Steady
<1> SUFFICES ASSUME IInv, StaysInPlace \/ NotCopied \/ CopyFails \/ StartCopy PROVE Steady
  OBVIOUS
<1>1. CASE StaysInPlace
  BY <1>1 DEF IInv, TypeOK, Forgotten, Placed, LocalOriginIsLocal, StaysInPlace,
              AlreadyLocal, Steady, Typed, GoOn, Unwritten, files, bounds, HasPackageJson
<1>2. CASE NotCopied \/ CopyFails
  BY <1>2 DEF IInv, TypeOK, Forgotten, Placed, LocalOriginIsLocal, NotCopied, CopyFails,
              ToBeCopied, Steady, Typed, Ended, Unwritten, files, bounds, HasPackageJson
<1>3. CASE StartCopy
  <2>1. real \in Packages /\ real.version \in Versions /\ real.version \notin seen
    BY <1>3 DEF IInv, TypeOK, StartCopy, ToBeCopied, AlreadyLocal, Packages
  <2>2. local' \in [Versions -> Directories]
    BY <1>3 DEF IInv, TypeOK, StartCopy, Directories
  <2>3. seen' \subseteq {v \in Versions : HasPackageJson(v)'}
    BY <1>3, <2>1 DEF IInv, TypeOK, StartCopy, GoOn, HasPackageJson
  <2> QED
    BY <1>3, <2>2, <2>3
    DEF IInv, TypeOK, Forgotten, Placed, LocalOriginIsLocal, StartCopy, ToBeCopied, Steady,
        Typed, GoOn, bounds
<1> QED BY <1>1, <1>2, <1>3

LEMMA CopySteady == IInv /\ (CopyEntry \/ Append) => Steady
<1> SUFFICES ASSUME IInv, CopyEntry \/ Append PROVE Steady
  OBVIOUS
<1>1. CASE CopyEntry
  <2>1. real \in Packages /\ real.version \in Versions
    BY <1>1 DEF IInv, TypeOK, CopyEntry, Packages
  <2>2. PICK dir \in After(local[real.version]) :
           /\ local' = [local EXCEPT ![real.version] = dir]
           /\ GoOn(IF dir = "whole" THEN "append" ELSE "copy")
    BY <1>1 DEF CopyEntry
  <2>3. dir \in {"garbled", "partial", "whole"}
    BY <2>2, ZenonT(30) DEF After
  <2>4. local' \in [Versions -> Directories]
    BY <2>2, <2>3 DEF IInv, TypeOK, Directories
  <2>5. \A v \in Versions : HasPackageJson(v) => HasPackageJson(v)'
    BY <2>1, <2>2, <2>3 DEF IInv, TypeOK, HasPackageJson
  <2>6. HasPackageJson(real.version)'
    BY <2>1, <2>2, <2>3 DEF IInv, TypeOK, HasPackageJson, GoOn
  <2> QED
    BY <1>1, <2>2, <2>4, <2>5, <2>6
    DEF IInv, TypeOK, Forgotten, Placed, LocalOriginIsLocal, CopyEntry, Steady, Typed,
        GoOn, bounds
<1>2. CASE Append
  <2>1. real \in Packages /\ real.version \in Versions
    BY <1>2 DEF IInv, TypeOK, Append, Packages
  <2>2. /\ real' \in Packages /\ real' # None
        /\ real'.version = real.version /\ real'.path = "local"
    BY <1>2, <2>1, NoPackage DEF Append, Packages
  <2>3. libCache' \in SUBSET Versions /\ libCache' # Torn
    BY <1>2, <2>1, TornFile DEF IInv, TypeOK, Append
  <2> QED
    BY <1>2, <2>1, <2>2, <2>3
    DEF IInv, TypeOK, Forgotten, Placed, LocalOriginIsLocal, Append, Steady, Typed, bounds,
        HasPackageJson
<1> QED BY <1>1, <1>2

LEMMA OutputSteady == IInv /\ (OutputUnchanged \/ Output \/ SaveCache) => Steady
<1> SUFFICES ASSUME IInv, OutputUnchanged \/ Output \/ SaveCache PROVE Steady
  OBVIOUS
<1>1. CASE OutputUnchanged
  BY <1>1 DEF IInv, TypeOK, Forgotten, Placed, LocalOriginIsLocal, OutputUnchanged, Steady,
              Typed, Ended, Unwritten, files, bounds, HasPackageJson
<1>2. CASE Output
  <2>1. include' \in Versions \cup {None, Torn, Empty}
    BY <1>2 DEF IInv, TypeOK, Output, Generated, Packages
  <2> QED
    BY <1>2, <2>1
    DEF IInv, TypeOK, Forgotten, Placed, LocalOriginIsLocal, Output, Steady, Typed, GoOn,
        bounds, HasPackageJson
<1>3. CASE SaveCache
  <2>1. cache' \in Entries
    BY <1>3 DEF IInv, TypeOK, SaveCache, Entries, Packages, Refs
  <2> QED
    BY <1>3, <2>1
    DEF IInv, TypeOK, Forgotten, Placed, LocalOriginIsLocal, SaveCache, Steady, Typed,
        Ended, bounds, HasPackageJson
<1> QED BY <1>1, <1>2, <1>3

LEMMA KillSteady == IInv /\ Kill => Steady
<1> SUFFICES ASSUME IInv, Kill PROVE Steady
  OBVIOUS
<1>1. /\ libCache' \in {libCache, Torn} /\ cache' \in {cache, Torn}
      /\ include' \in {include, Torn}
  BY DEF Kill, TornCache, TornInclude, TornChoice
<1>2. kills' \in 0 .. MaxKills
  BY BoundsType DEF IInv, TypeOK, Kill
<1> QED
  BY <1>1, <1>2
  DEF IInv, TypeOK, Forgotten, Placed, LocalOriginIsLocal, Kill, Steady, Typed, Ended,
      HasPackageJson

LEMMA AroundSteady == IInv /\ Around => Steady
<1> SUFFICES ASSUME IInv, Around PROVE Steady
  OBVIOUS
<1>1. Edited => edits' \in 0 .. MaxEdits
  BY BoundsType DEF IInv, TypeOK, Edited
<1>2. ASSUME NEW r \in Refs, EditProject(r) PROVE Steady
  BY <1>1, <1>2
  DEF IInv, TypeOK, Forgotten, Placed, LocalOriginIsLocal, EditProject, Edited, Steady,
      Typed, files, process, HasPackageJson
<1>3. ASSUME NEW v \in Versions, NEW dir \in {"absent", "whole"}, EditLocal(v, dir)
      PROVE  Steady
  <2>1. local' \in [Versions -> Directories]
    BY <1>3 DEF IInv, TypeOK, EditLocal, Directories
  <2> QED
    BY <1>1, <1>3, <2>1
    DEF IInv, TypeOK, Forgotten, Placed, LocalOriginIsLocal, EditLocal, Edited, Steady,
        Typed, process
<1>4. ASSUME NEW v \in Versions, EditStore(store \cup {v}) \/ EditStore(store \ {v})
      PROVE  Steady
  BY <1>1, <1>4
  DEF IInv, TypeOK, Forgotten, Placed, LocalOriginIsLocal, EditStore, Edited, Steady,
      Typed, process, HasPackageJson
<1>5. ASSUME NEW vs \in {{}, store}, UpdateDb(vs) PROVE Steady
  BY <1>1, <1>5
  DEF IInv, TypeOK, Forgotten, Placed, LocalOriginIsLocal, UpdateDb, Edited, Steady,
      Typed, process, HasPackageJson
<1> QED BY <1>2, <1>3, <1>4, <1>5 DEF Around

LEMMA StepSteady == IInv /\ (Run \/ Kill \/ Around) => Steady
<1> SUFFICES ASSUME IInv, Run \/ Kill \/ Around PROVE Steady
  OBVIOUS
<1>1. CASE Run
  BY <1>1, StartSteady, ScanSteady, AssembleSteady, SolveSteady, PlaceSteady, CopySteady,
     OutputSteady DEF Run
<1> QED BY <1>1, KillSteady, AroundSteady

-----------------------------------------------------------------------------
(* The remembered version *)

\* What Kept has to show of a step, given that the version is still at hand after it.
KeptOn ==
    pinned /\ AtHand' /\ at' # "idle" =>
        /\ at' = "solve" => suggest' = cache'.version /\ force' = None
        /\ at' \in {"localOrigin", "copy", "append", "output"} => real'.version = cache'.version
        /\ at' # "save"

\* The run and its surroundings leave alone what is remembered.
LEMMA RunKeepsOn == IInv /\ Run => KeptOn /\ (pinned => include' = include)
<1> SUFFICES ASSUME IInv, Run, pinned
             PROVE  KeptOn /\ include' = include
  BY DEF Run, Start, Scanned, ScanDirectory, ScanGarbled, Override, Suggest, Unreadable,
         Solve, Unresolved, StaysInPlace, StartCopy, NotCopied, CopyEntry, CopyFails, Append,
         OutputUnchanged, Output, SaveCache, Unwritten, files, KeptOn
<1>1. /\ AtHand /\ at \notin {"idle", "save"}
      /\ at = "solve" => suggest = cache.version /\ force = None
      /\ at \in {"localOrigin", "copy", "append", "output"} => real.version = cache.version
  BY DEF IInv, Kept
<1>2. cache.version \in Versions /\ cache.version \in index /\ include = cache.version
  BY <1>1 DEF AtHand, Remembered, Entries
<1>3. CASE Suggest
  BY <1>1, <1>3 DEF IInv, Forgotten, Suggest, Cached, AtHand, Unwritten, files, KeptOn
<1>4. CASE Override
  BY <1>1, <1>4 DEF Override, AtHand
<1>5. ASSUME NEW v \in Versions, Solve(v) PROVE KeptOn /\ include' = include
  <2>1. cache.version \in Candidates /\ suggest = cache.version
    BY <1>1, <1>5 DEF Solve, Candidates, Available, AtHand
  <2>2. v = cache.version
    BY <1>5, <2>1 DEF Solve, Chosen
  <2> QED
    BY <1>5, <2>2 DEF Solve, Unwritten, files, KeptOn
<1>6. CASE Output \/ OutputUnchanged
  BY <1>1, <1>2, <1>6 DEF Output, OutputUnchanged, Generated, Ended, Unwritten, files, KeptOn
<1>7. CASE SaveCache \/ Start
  BY <1>1, <1>7 DEF SaveCache, Start
<1>8. CASE StaysInPlace \/ StartCopy \/ CopyEntry \/ Append
  <2>1. real'.version = real.version /\ cache' = cache /\ include' = include
    <3>1. CASE Append
      <4>1. real \in Packages
        BY <3>1 DEF IInv, TypeOK, Append
      <4> QED BY <3>1, <4>1 DEF Append, Packages
    <3> QED
      BY <1>8, <3>1 DEF StaysInPlace, StartCopy, CopyEntry, GoOn, Unwritten, files
  <2>2. at \in {"localOrigin", "copy", "append"} /\ at' \in {"copy", "append", "output"}
    BY <1>8 DEF StaysInPlace, StartCopy, ToBeCopied, CopyEntry, Append, GoOn
  <2> QED BY <1>1, <2>1, <2>2 DEF KeptOn
<1>9. ASSUME NEW v \in Versions, ScanDirectory(v) \/ ScanGarbled(v)
      PROVE  KeptOn /\ include' = include
  BY <1>9 DEF ScanDirectory, ScanGarbled, Ended, Unwritten, files, KeptOn
<1>10. CASE Scanned \/ Unreadable \/ Unresolved \/ NotCopied \/ CopyFails
  BY <1>10 DEF Scanned, GoOn, Unreadable, Unresolved, NotCopied, CopyFails, Ended, Unwritten,
               files, KeptOn
<1> QED BY <1>3, <1>4, <1>5, <1>6, <1>7, <1>8, <1>9, <1>10 DEF Run

LEMMA KillKeepsOn == IInv /\ Kill => KeptOn /\ (pinned => include' = include)
<1> SUFFICES ASSUME IInv, Kill PROVE KeptOn /\ (pinned => include' = include)
  OBVIOUS
<1>1. KeptOn
  BY DEF Kill, Ended, KeptOn
<1>2. pinned => include = Generated \/ at # "output"
  BY DEF IInv, Kept, AtHand, Generated
<1> QED BY <1>1, <1>2 DEF Kill, TornCache, TornInclude, TornChoice

LEMMA AroundKeepsOn == IInv /\ Around => KeptOn /\ include' = include
  BY DEF IInv, Kept, Around, EditProject, EditLocal, EditStore, UpdateDb, Edited, process,
         files, KeptOn

\* A run starts by scanning.
LEMMA StartingScans == (Run \/ Kill \/ Around) /\ Starting => at' = "scan"
  BY DEF Starting, Run, Start, Scanned, ScanDirectory, ScanGarbled, Override, Suggest,
         Unreadable, Solve, Unresolved, StaysInPlace, StartCopy, NotCopied, CopyEntry,
         CopyFails, Append, OutputUnchanged, Output, SaveCache, ToBeCopied, Kill, Around,
         EditProject, EditLocal, EditStore, UpdateDb, Edited, process

LEMMA NextIInv == IInv /\ [Next]_vars => IInv'
<1> SUFFICES ASSUME IInv, [Next]_vars PROVE IInv'
  OBVIOUS
<1>1. CASE Next
  <2>1. Steady
    BY <1>1, StepSteady DEF Next
  <2>2. TypeOK'
    BY <1>1, <2>1 DEF Next, Observe, Steady, Typed, TypeOK, IInv
  <2>3. KeptOn
    BY <1>1, RunKeepsOn, KillKeepsOn, AroundKeepsOn DEF Next
  <2>4. Kept'
    <3> SUFFICES ASSUME pinned' PROVE Kept'
      BY DEF Kept
    <3>1. /\ at' # "idle" /\ AtHand'
          /\ pinned \/ at' = "scan"
      BY <1>1, StartingScans DEF Next, Observe
    <3> QED BY <2>3, <3>1 DEF KeptOn, Kept
  <2> QED BY <2>1, <2>2, <2>4 DEF IInv, Steady
<1>2. CASE UNCHANGED vars
  BY <1>2 DEF vars, files, process, bounds, observed, IInv, TypeOK, HasPackageJson, Forgotten,
              Placed, LocalOriginIsLocal, Kept, AtHand, Remembered, PathExists, Readable
<1> QED BY <1>1, <1>2

LEMMA Invariance == Spec => []IInv
  BY InitIInv, NextIInv, PTL DEF Spec

-----------------------------------------------------------------------------
(* The theorems *)

\* Files and attributes keep their kinds, whatever is changed or killed when.
THEOREM TypeCorrect == Spec => []TypeOK
<1>1. IInv => TypeOK
  BY DEF IInv
<1> QED BY <1>1, Invariance, PTL

\* The include file is never written for a package of origin "local" that is not in .lib.
THEOREM LocalOrigin == Spec => []LocalOriginIsLocal
<1>1. IInv => LocalOriginIsLocal
  BY DEF IInv
<1> QED BY <1>1, Invariance, PTL

\* A project keeps its version: whatever is published, indexed, copied or killed during a
\* run, if the remembered version was at hand all the time the include file stays as it is.
THEOREM VersionKept == Spec => KeepsVersion
<1>1. IInv /\ [Next]_vars => [pinned => include' = include]_vars
  BY RunKeepsOn, KillKeepsOn, AroundKeepsOn DEF Next
<1> QED BY <1>1, Invariance, PTL DEF Spec, KeepsVersion

-----------------------------------------------------------------------------
(* A run that finds everything as the run before it leaves the include file  *)
(* as it is.                                                                 *)
(*                                                                           *)
(* The operators of this part foresee, from the files alone, what a run will *)
(* choose and where it will stop.  The invariant says that a run does what   *)
(* was foreseen when it started, and that what it leaves makes the next one  *)
(* stop or generate the same.                                                *)


\* What _scan finds, and findPackages then lists.
Found == {v \in Versions : HasPackageJson(v)}
WillList == Found \cup index

WillForce == ref.override # None /\ ref.override \in WillList
WillConsider == IF WillForce THEN {ref.override} ELSE WillList \cap ref.spec
WillSuggest == IF ref.override = None /\ Cached THEN cache.version ELSE None

Newest(v) == \A w \in WillConsider : w <= v
WillChoose(v) == /\ v \in WillConsider
                 /\ v = WillSuggest \/ (WillSuggest \notin WillConsider /\ Newest(v))

WillGenerate(v) == IF v \in index THEN v ELSE Empty

\* Where a run stops before its output.
ScanStops == \E v \in Versions : local[v] = "garbled" /\ v \notin libCache
LoadStops == cache = Torn \/ (ref.override = None /\ Cached /\ ~Readable)
CopyStops(v) == /\ ref.origin = "local" /\ v \notin Found
                /\ v \notin store \/ local[v] # "absent"

\* A run that comes to a choice stops after it or generates what is there.
Foreseen == \A v \in Versions : WillChoose(v) => CopyStops(v) \/ include = WillGenerate(v)
Agreed == ScanStops \/ LoadStops \/ Foreseen

\* The run has chosen what the next one will choose, even when this one copies it or
\* remembers it: it is the newest, or its directory will still be there.
Decided ==
    /\ real.version \in WillConsider
    /\ \A v \in Versions : WillChoose(v) => v = real.version
    /\ \/ ref.override # None
       \/ Newest(real.version)
       \/ IF real.path = "local" THEN local[real.version] # "absent"
                                 ELSE real.version \in store

\* As long as nothing has changed since the run started.
Undisturbed ==
    /\ at = "idle" => Agreed
    /\ at = "scan" => Found \subseteq seen \cup todo
    /\ at \in {"assemble", "solve", "localOrigin"} => seen = Found
    /\ at = "solve" => /\ suggest = WillSuggest
                       /\ force = IF WillForce THEN ref.override ELSE None
                       /\ ref.override = None /\ Cached => Readable
    /\ at = "localOrigin" => WillChoose(real.version)
    /\ at \in {"localOrigin", "copy", "append", "output", "save"} => Decided
    /\ at = "copy" => /\ real.version \in index /\ real.version \in store
                      /\ local[real.version] # "absent"
    /\ at = "save" => include = WillGenerate(real.version)

\* As long as moreover the run started with what the run before it left.
Agreeing ==
    /\ at = "scan" => Agreed
    /\ at = "assemble" => LoadStops \/ Foreseen
    /\ at \in {"solve", "localOrigin"} => Foreseen
    /\ at \in {"copy", "append", "output"} => include = WillGenerate(real.version)
    /\ at \notin {"idle", "save"}

RInv ==
    /\ at # "idle" => seen \subseteq libCache
    /\ ~touched => Undisturbed
    /\ calm => ~touched /\ Agreeing

-----------------------------------------------------------------------------
LEMMA ChoiceType == IInv => WillConsider \subseteq Versions
  BY NoVersion DEF IInv, TypeOK, WillConsider, WillForce, WillList, Found, Refs, SpecsType

\* What is foreseen depends on a few files only.
LEMMA ForeseenFrame ==
    ASSUME UNCHANGED <<ref, store, index, local, cache>>
    PROVE  /\ Found' = Found /\ WillForce' = WillForce
           /\ WillConsider' = WillConsider /\ WillSuggest' = WillSuggest
           /\ \A v : /\ WillChoose(v)' <=> WillChoose(v)
                     /\ Newest(v)' <=> Newest(v)
                     /\ CopyStops(v)' <=> CopyStops(v)
                     /\ WillGenerate(v)' = WillGenerate(v)
           /\ LoadStops' <=> LoadStops
           /\ Cached' <=> Cached
           /\ Readable' <=> Readable
<1>1. Found' = Found
  BY DEF Found, HasPackageJson
<1>2. (Cached' <=> Cached) /\ (Readable' <=> Readable)
  BY DEF Cached, Remembered, PathExists, Readable
<1>3. WillForce' = WillForce /\ WillConsider' = WillConsider
  BY <1>1 DEF WillForce, WillConsider, WillList
<1>4. WillSuggest' = WillSuggest
  BY <1>2 DEF WillSuggest
<1> QED
  BY <1>1, <1>2, <1>3, <1>4 DEF WillChoose, Newest, CopyStops, WillGenerate, LoadStops

LEMMA InitRInv == Init => RInv
<1> SUFFICES ASSUME Init PROVE RInv
  OBVIOUS
<1>1. at = "idle" /\ touched = TRUE /\ calm = FALSE
  BY DEF Init
<1> QED BY <1>1, Zenon DEF RInv

-----------------------------------------------------------------------------
(* The steps of a run *)

\* What a step of a run has to show; Observe then gives RInv.
Onward ==
    /\ at' # "idle" => seen' \subseteq libCache'
    /\ ~touched => Undisturbed'
    /\ calm /\ at' # "idle" => Agreeing'

\* A run starts by listing what it will find.
LEMMA StartOnward ==
    ASSUME IInv, RInv, Start
    PROVE  /\ seen' \subseteq libCache'
           /\ Undisturbed'
           /\ ~touched => Agreeing'
<1>1. UNCHANGED <<ref, files>> /\ at = "idle" /\ at' = "scan" /\ seen' = {}
  BY DEF Start, Unwritten, IInv, Forgotten
<1>2. todo' = {v \in Versions : local[v] # "absent"}
  BY DEF Start
<1>3. Found' \subseteq todo'
  BY <1>1, <1>2 DEF Found, HasPackageJson, files
<1>4. Agreed => Agreed'
  BY <1>1, ForeseenFrame DEF files, Agreed, ScanStops, Foreseen
<1>5. ~touched => Agreed
  BY <1>1 DEF RInv, Undisturbed
<1> QED
  BY <1>1, <1>3, <1>4, <1>5 DEF Undisturbed, Agreeing

LEMMA ScanOnward ==
    ASSUME IInv, RInv, NEW v \in Versions, ScanDirectory(v) \/ ScanGarbled(v)
    PROVE  Onward
<1>1. CASE ScanDirectory(v)
  <2>1. UNCHANGED <<ref, store, index, local, cache, include, at>> /\ at = "scan"
    BY <1>1 DEF ScanDirectory
  <2>2. seen' \subseteq libCache'
    BY <1>1 DEF ScanDirectory, RInv
  <2>3. ~touched => Found' \subseteq seen' \cup todo'
    BY <1>1, <2>1, ForeseenFrame DEF ScanDirectory, RInv, Undisturbed, Listed, Found
  <2>4. ScanStops => ScanStops'
    BY <1>1, <2>1 DEF ScanDirectory, ScanStops
  <2>5. Agreed => Agreed'
    BY <2>1, <2>4, ForeseenFrame DEF Agreed, Foreseen
  <2> QED
    BY <2>1, <2>2, <2>3, <2>5 DEF Onward, Undisturbed, RInv, Agreeing
<1>2. CASE ScanGarbled(v)
  <2>1. ScanStops' /\ at' = "idle"
    BY <1>2 DEF ScanGarbled, Ended, Unwritten, files, ScanStops
  <2> QED BY <2>1 DEF Onward, Undisturbed, Agreed
<1> QED BY <1>1, <1>2

LEMMA ScannedOnward == ASSUME IInv, RInv, Scanned PROVE Onward
<1>1. /\ UNCHANGED <<ref, files, seen>>
      /\ at = "scan" /\ todo = {} /\ at' = "assemble"
  BY DEF Scanned, GoOn, Unwritten
<1>2. ~touched => seen = Found
  BY <1>1 DEF IInv, TypeOK, RInv, Undisturbed, Found
<1>3. ~touched => ~ScanStops
  BY <1>1, <1>2 DEF RInv, ScanStops, Found, HasPackageJson
<1>4. (LoadStops \/ Foreseen) => (LoadStops \/ Foreseen)'
  BY <1>1, ForeseenFrame DEF files, Foreseen
<1>5. Found' = Found
  BY <1>1, ForeseenFrame DEF files
<1> QED
  BY <1>1, <1>2, <1>3, <1>4, <1>5 DEF Onward, Undisturbed, RInv, Agreeing, Agreed, files

LEMMA AssembleOnward == ASSUME IInv, RInv, Override \/ Suggest PROVE Onward
<1>1. /\ UNCHANGED <<ref, files, seen>>
      /\ at = "assemble" /\ at' = "solve" /\ cache # Torn
  BY DEF Override, Suggest, Unwritten
<1>2. ~touched => seen = Found
  BY <1>1 DEF RInv, Undisturbed
<1>3. ref.override = None /\ Cached => Readable
  BY DEF Override, Suggest
<1>4. suggest = None /\ force = None
  BY <1>1 DEF IInv, Forgotten
<1>5. suggest' = WillSuggest
  BY <1>4 DEF Override, Suggest, WillSuggest
<1>6. ~touched => force' = IF WillForce THEN ref.override ELSE None
  BY <1>2, <1>4 DEF Override, Suggest, WillForce, WillList, Available
<1>7. /\ Found' = Found /\ WillSuggest' = WillSuggest /\ WillForce' = WillForce
      /\ (Cached' <=> Cached) /\ (Readable' <=> Readable)
      /\ Foreseen => Foreseen'
  BY <1>1, ForeseenFrame DEF files, Foreseen
<1>8. calm => Foreseen
  BY <1>1, <1>3 DEF RInv, Agreeing, LoadStops
<1> QED
  BY <1>1, <1>2, <1>3, <1>5, <1>6, <1>7, <1>8 DEF Onward, Undisturbed, RInv, Agreeing, files

LEMMA StoppedOnward == ASSUME IInv, RInv, Unreadable \/ Unresolved PROVE Onward
<1>1. UNCHANGED <<ref, files>> /\ at' = "idle"
  BY DEF Unreadable, Unresolved, Ended, Unwritten
<1>2. CASE Unreadable
  <2>1. LoadStops'
    BY <1>1, <1>2, ForeseenFrame DEF Unreadable, LoadStops, files
  <2> QED BY <1>1, <2>1 DEF Onward, Undisturbed, Agreed
<1>3. CASE Unresolved
  <2>1. ~touched => WillConsider = {}
    BY <1>3
    DEF Unresolved, RInv, Undisturbed, Candidates, Available, WillConsider, WillForce, WillList
  <2>2. WillConsider' = WillConsider
    BY <1>1, ForeseenFrame DEF files
  <2>3. ~touched => Foreseen'
    BY <2>1, <2>2 DEF Foreseen, WillChoose
  <2> QED BY <1>1, <2>3 DEF Onward, Undisturbed, Agreed
<1> QED BY <1>2, <1>3

\* Two newest versions are one, so the choice is made once.
LEMMA OneChoice ==
    ASSUME IInv, NEW v \in Versions, NEW w \in Versions, WillChoose(v), WillChoose(w)
    PROVE  v = w
<1>1. WillConsider \subseteq Nat
  BY ChoiceType, VersionsType
<1>2. v \in WillConsider /\ w \in WillConsider
  BY DEF WillChoose
<1>3. (v = WillSuggest /\ w = WillSuggest) \/ (Newest(v) /\ Newest(w))
  BY <1>2 DEF WillChoose
<1>4. ASSUME Newest(v), Newest(w) PROVE v = w
  <2>1. v <= w /\ w <= v
    BY <1>2, <1>4 DEF Newest
  <2> QED BY <1>1, <1>2, <2>1
<1> QED BY <1>3, <1>4

LEMMA SolveOnward == ASSUME IInv, RInv, NEW v \in Versions, Solve(v) PROVE Onward
<1>1. /\ UNCHANGED <<ref, files, seen>>
      /\ at = "solve" /\ at' = "localOrigin"
      /\ real' = [version |-> v, path |-> PathOf(v)]
  BY DEF Solve, Unwritten
<1>2. Chosen(v)
  BY DEF Solve
<1>3. /\ Found' = Found /\ WillConsider' = WillConsider
      /\ \A w : (WillChoose(w)' <=> WillChoose(w)) /\ (Newest(w)' <=> Newest(w))
      /\ Foreseen => Foreseen'
  BY <1>1, ForeseenFrame DEF files, Foreseen
<1>4. ASSUME ~touched PROVE Undisturbed'
  <2>1. /\ seen = Found /\ suggest = WillSuggest
        /\ force = IF WillForce THEN ref.override ELSE None
        /\ ref.override = None /\ Cached => Readable
    BY <1>1, <1>4 DEF RInv, Undisturbed
  <2>2. Candidates = WillConsider
    BY <2>1 DEF Candidates, Available, WillConsider, WillForce, WillList
  <2>3. WillChoose(v)
    BY <1>2, <2>1, <2>2 DEF Chosen, WillChoose, Newest
  <2>4. real'.version = v /\ real'.path = PathOf(v)
    BY <1>1
  <2>5. \A w \in Versions : WillChoose(w)' => w = v
    BY <1>3, <2>3, OneChoice
  <2>6. CASE v = WillSuggest
    <3>1. ref.override = None /\ Cached /\ Readable /\ cache.version = v
      BY <2>1, <2>6, NoVersion DEF WillSuggest
    <3>2. CASE v \in seen
      <4>1. PathOf(v) = "local" /\ local[v] # "absent"
        BY <2>1, <3>2 DEF PathOf, Found, HasPackageJson
      <4> QED
        BY <1>1, <1>3, <2>1, <2>3, <2>4, <2>5, <4>1
        DEF Undisturbed, Decided, WillChoose, files
    <3>3. CASE v \notin seen
      <4>1. cache.path # "local"
        BY <2>1, <3>1, <3>3 DEF Readable, Found, HasPackageJson
      <4>2. PathOf(v) = "system" /\ v \in store
        BY <3>1, <3>3, <4>1 DEF PathOf, Cached, PathExists
      <4> QED
        BY <1>1, <1>3, <2>1, <2>3, <2>4, <2>5, <4>2
        DEF Undisturbed, Decided, WillChoose, files
    <3> QED BY <3>2, <3>3
  <2>7. CASE v # WillSuggest
    <3>1. Newest(v)
      BY <2>3, <2>7 DEF WillChoose
    <3> QED
      BY <1>1, <1>3, <2>1, <2>3, <2>4, <2>5, <3>1 DEF Undisturbed, Decided, WillChoose
  <2> QED BY <2>6, <2>7
<1>5. calm => Foreseen
  BY <1>1 DEF RInv, Agreeing
<1> QED
  BY <1>1, <1>3, <1>4, <1>5 DEF Onward, RInv, Agreeing, files

LEMMA StaysOnward == ASSUME IInv, RInv, StaysInPlace PROVE Onward
<1>1. /\ UNCHANGED <<ref, files, seen, real>>
      /\ at = "localOrigin" /\ at' = "output"
      /\ ref.origin # "local" \/ real.version \in seen
  BY DEF StaysInPlace, AlreadyLocal, GoOn, Unwritten
<1>2. /\ Found' = Found /\ WillConsider' = WillConsider
      /\ \A w : /\ (WillChoose(w)' <=> WillChoose(w)) /\ (Newest(w)' <=> Newest(w))
               /\ WillGenerate(w)' = WillGenerate(w)
  BY <1>1, ForeseenFrame DEF files
<1>3. ~touched => Decided /\ WillChoose(real.version) /\ seen = Found
  BY <1>1 DEF RInv, Undisturbed
<1>4. Decided => Decided'
  BY <1>1, <1>2 DEF Decided, files
<1>5. ~touched => ~CopyStops(real.version)
  BY <1>1, <1>3 DEF CopyStops
<1>6. calm => Foreseen
  BY <1>1 DEF RInv, Agreeing
<1>7. calm => include = WillGenerate(real.version)
  BY <1>3, <1>5, <1>6, ChoiceType DEF Foreseen, WillChoose, RInv
<1>8. include' = include /\ real' = real
  BY <1>1 DEF files
<1> QED
  BY <1>1, <1>2, <1>3, <1>4, <1>7, <1>8 DEF Onward, RInv, Undisturbed, Agreeing, files

\* While a package is copied the next choice stays the same: the copy is of a version that
\* the database lists as well, and can at most become the suggested one.
LEMMA CopyDecided ==
    ASSUME IInv, Decided, real \in Packages, real.version \in index,
           NEW dir, dir # "absent", local' = [local EXCEPT ![real.version] = dir],
           UNCHANGED <<ref, store, index, cache, real>>
    PROVE  Decided'
<1> DEFINE rv == real.version
<1>1. local \in [Versions -> Directories] /\ rv \in Versions
  BY DEF IInv, TypeOK, Packages
<1>2. local'[rv] = dir /\ \A v \in Versions \ {rv} : local'[v] = local[v]
  BY <1>1
<1>3. WillList' = WillList
  BY <1>2 DEF WillList, Found, HasPackageJson
<1>4. WillForce' = WillForce /\ WillConsider' = WillConsider
  BY <1>3 DEF WillForce, WillConsider
<1>5. WillSuggest' \in {WillSuggest, rv}
  <2>1. Remembered' <=> Remembered
    BY DEF Remembered
  <2>2. Remembered => cache.version \in Versions
    BY DEF Remembered, Entries
  <2>3. Cached => Cached'
    BY <1>2, <2>1, <2>2 DEF Cached, PathExists
  <2>4. Cached' => Cached \/ cache.version = rv
    BY <1>2, <2>1, <2>2 DEF Cached, PathExists
  <2> QED BY <2>3, <2>4 DEF WillSuggest
<1>6. \A v : Newest(v)' <=> Newest(v)
  BY <1>4 DEF Newest
<1>7. rv \in WillConsider
  BY DEF Decided
<1>8. ASSUME NEW v \in Versions, WillChoose(v)' PROVE v = rv
  <2>1. CASE WillSuggest' = WillSuggest
    BY <1>4, <1>6, <1>8, <2>1 DEF Decided, WillChoose
  <2>2. CASE WillSuggest' = rv
    BY <1>4, <1>7, <1>8, <2>2 DEF WillChoose
  <2> QED BY <1>5, <2>1, <2>2
<1> QED
  BY <1>2, <1>4, <1>6, <1>7, <1>8 DEF Decided

LEMMA CopyOnward == ASSUME IInv, RInv, StartCopy \/ CopyEntry PROVE Onward
<1> DEFINE rv == real.version
<1>1. real \in Packages /\ rv \in Versions
  BY DEF IInv, TypeOK, StartCopy, CopyEntry, ToBeCopied, Packages
<1>2. /\ UNCHANGED <<ref, store, index, libCache, cache, include, seen, real>>
      /\ at' \in {"copy", "append"} /\ rv \in store
  BY DEF StartCopy, CopyEntry, GoOn
<1>3. PICK dir : dir # "absent" /\ local' = [local EXCEPT ![rv] = dir]
  BY DEF StartCopy, CopyEntry, After
<1>4. ~touched => rv \in index
  <2>1. CASE StartCopy
    BY <2>1 DEF StartCopy, ToBeCopied, AlreadyLocal, RInv, Undisturbed, WillChoose,
                WillConsider, WillForce, WillList
  <2>2. CASE CopyEntry
    BY <2>2 DEF CopyEntry, RInv, Undisturbed
  <2> QED BY <2>1, <2>2
<1>5. ~touched => Decided
  BY DEF StartCopy, ToBeCopied, CopyEntry, RInv, Undisturbed
<1>6. ~touched => Decided'
  BY <1>1, <1>2, <1>3, <1>4, <1>5, CopyDecided
<1>7. local'[rv] # "absent"
  BY <1>1, <1>3 DEF IInv, TypeOK
<1>8. ~touched => Undisturbed'
  BY <1>2, <1>4, <1>6, <1>7 DEF Undisturbed
<1>9. calm => include = WillGenerate(rv)
  <2>1. CASE StartCopy
    <3>1. ~CopyStops(rv)
      BY <2>1 DEF StartCopy, CopyStops
    <3>2. calm => Foreseen /\ WillChoose(rv)
      BY <2>1 DEF StartCopy, ToBeCopied, RInv, Undisturbed, Agreeing
    <3> QED BY <1>1, <3>1, <3>2 DEF Foreseen
  <2>2. CASE CopyEntry
    BY <2>2 DEF CopyEntry, RInv, Agreeing
  <2> QED BY <2>1, <2>2
<1>10. WillGenerate(rv)' = WillGenerate(rv)
  BY <1>2 DEF WillGenerate
<1>11. seen \subseteq libCache
  BY DEF RInv, StartCopy, ToBeCopied, CopyEntry
<1> QED
  BY <1>2, <1>8, <1>9, <1>10, <1>11 DEF Onward, RInv, Agreeing

LEMMA AppendOnward == ASSUME IInv, RInv, Append PROVE Onward
<1> DEFINE rv == real.version
<1>1. real \in Packages /\ rv \in Versions
  BY DEF IInv, TypeOK, Append, Packages
<1>2. /\ UNCHANGED <<ref, store, index, local, cache, include>>
      /\ at = "append" /\ at' = "output"
      /\ seen' = seen \cup {rv} /\ libCache' = libCache \cup {rv}
  BY DEF Append
<1>3. real' = [real EXCEPT !.path = "local"]
  BY DEF Append
<1>4. real'.version = rv /\ real'.path = "local"
  BY <1>1, <1>3 DEF Packages
<1>5. local[rv] # "absent"
  BY <1>2 DEF IInv, Placed, HasPackageJson
<1>6. WillConsider' = WillConsider /\ \A w : /\ WillChoose(w)' <=> WillChoose(w)
                                            /\ WillGenerate(w)' = WillGenerate(w)
  BY <1>2, ForeseenFrame
<1>7. Decided => Decided'
  BY <1>2, <1>4, <1>5, <1>6 DEF Decided
<1> QED
  BY <1>2, <1>4, <1>6, <1>7 DEF Onward, RInv, Undisturbed, Agreeing

LEMMA CopyStopped == ASSUME IInv, RInv, NotCopied \/ CopyFails PROVE Onward
<1>1. UNCHANGED <<ref, files>> /\ at' = "idle"
  BY DEF NotCopied, CopyFails, Ended, Unwritten
<1>2. \A w : (WillChoose(w)' <=> WillChoose(w)) /\ (CopyStops(w)' <=> CopyStops(w))
  BY <1>1, ForeseenFrame DEF files
<1>3. CASE NotCopied
  <2>1. ~touched => Decided /\ seen = Found
    BY <1>3 DEF NotCopied, ToBeCopied, RInv, Undisturbed
  <2>2. ~touched => CopyStops(real.version)
    BY <1>3, <2>1 DEF NotCopied, ToBeCopied, AlreadyLocal, CopyStops
  <2>3. ~touched => Foreseen'
    BY <1>2, <2>1, <2>2 DEF Decided, Foreseen
  <2> QED BY <1>1, <2>3 DEF Onward, Undisturbed, Agreed
<1>4. CASE CopyFails
  <2>1. touched \in BOOLEAN /\ at = "copy" /\ real.version \notin store
    BY <1>4 DEF CopyFails, IInv, TypeOK
  <2>2. touched
    BY <2>1 DEF RInv, Undisturbed
  <2> QED BY <1>1, <2>2 DEF Onward
<1> QED BY <1>3, <1>4

LEMMA OutputOnward == ASSUME IInv, RInv, OutputUnchanged \/ Output PROVE Onward
<1>1. UNCHANGED <<ref, store, index, local, libCache, cache>> /\ at = "output"
  BY DEF OutputUnchanged, Output, Ended, Unwritten, files
<1>2. /\ WillConsider' = WillConsider
      /\ \A w : /\ (WillChoose(w)' <=> WillChoose(w)) /\ (Newest(w)' <=> Newest(w))
               /\ WillGenerate(w)' = WillGenerate(w)
  BY <1>1, ForeseenFrame
<1>3. ~touched => Decided
  BY <1>1 DEF RInv, Undisturbed
<1>4. Generated = WillGenerate(real.version)
  BY DEF Generated, WillGenerate
<1>5. CASE OutputUnchanged
  <2>1. include' = include /\ include = Generated /\ at' = "idle"
    BY <1>5 DEF OutputUnchanged, Ended, Unwritten, files
  <2>2. ~touched => Foreseen'
    BY <1>2, <1>3, <1>4, <2>1 DEF Decided, Foreseen
  <2> QED BY <2>1, <2>2 DEF Onward, Undisturbed, Agreed
<1>6. CASE Output
  <2>1. /\ include' = Generated /\ include # Generated
        /\ at' = "save" /\ UNCHANGED <<real, seen>>
    BY <1>6 DEF Output, GoOn
  <2>2. Decided => Decided'
    BY <1>1, <1>2, <2>1 DEF Decided
  <2>3. WillGenerate(real.version)' = WillGenerate(real.version)
    BY <1>1, <2>1 DEF WillGenerate
  <2>4. ~calm
    BY <1>1, <1>4, <2>1 DEF RInv, Agreeing
  <2>5. seen' \subseteq libCache'
    BY <1>1, <2>1 DEF RInv
  <2> QED BY <1>3, <1>4, <2>1, <2>2, <2>3, <2>4, <2>5 DEF Onward, Undisturbed
<1> QED BY <1>5, <1>6

\* The remembered version is what the next run chooses: it is suggested when its directory
\* exists, and is the newest otherwise.
LEMMA SaveOnward == ASSUME IInv, RInv, SaveCache PROVE Onward
<1> DEFINE rv == real.version
<1>1. real \in Packages /\ rv \in Versions /\ ref \in Refs
  BY DEF IInv, TypeOK, SaveCache, Packages
<1>2. /\ UNCHANGED <<ref, store, index, local, libCache, include>>
      /\ at = "save" /\ at' = "idle"
      /\ cache' = [spec |-> ref.spec, origin |-> ref.origin,
                   version |-> rv, path |-> real.path]
  BY DEF SaveCache, Ended
<1>3. Found' = Found
  BY <1>2 DEF Found, HasPackageJson
<1>4. WillForce' = WillForce /\ WillConsider' = WillConsider
  BY <1>2, <1>3 DEF WillForce, WillConsider, WillList
<1>5. (\A w : Newest(w)' <=> Newest(w)) /\ (\A w : WillGenerate(w)' = WillGenerate(w))
  BY <1>2, <1>4 DEF Newest, WillGenerate
<1>6. ASSUME ~touched PROVE Foreseen'
  <2>1. Decided /\ include = WillGenerate(rv)
    BY <1>2, <1>6 DEF RInv, Undisturbed
  <2>2. SUFFICES ASSUME NEW v \in Versions, WillChoose(v)' PROVE v = rv
    BY <1>2, <1>5, <2>1, <2>2 DEF Foreseen
  <2>3. CASE ref.override # None
    <3>1. WillSuggest = None /\ WillSuggest' = None
      BY <1>2, <2>3 DEF WillSuggest
    <3>2. WillChoose(v)
      BY <1>4, <1>5, <2>2, <3>1 DEF WillChoose
    <3> QED BY <2>1, <3>2 DEF Decided
  <2>4. CASE ref.override = None
    <3>1. Remembered'
      BY <1>1, <1>2 DEF Remembered, Entries, Refs, Packages
    <3>2. CASE Cached'
      <4>1. WillSuggest' = rv
        BY <1>2, <2>4, <3>2 DEF WillSuggest
      <4> QED BY <1>4, <2>1, <2>2, <4>1 DEF Decided, WillChoose
    <3>3. CASE ~Cached'
      <4>1. Newest(rv)
        BY <1>2, <2>1, <2>4, <3>1, <3>3 DEF Decided, Cached, PathExists
      <4>2. WillSuggest' = None
        BY <3>3 DEF WillSuggest
      <4>3. v \in WillConsider /\ Newest(v)
        BY <1>1, <1>4, <1>5, <2>2, <4>2, NoVersion DEF WillChoose
      <4>4. v <= rv /\ rv <= v
        BY <2>1, <4>1, <4>3 DEF Decided, Newest
      <4>5. v \in Nat /\ rv \in Nat
        BY <1>1, VersionsType
      <4> HIDE DEF rv
      <4> QED BY <4>4, <4>5
    <3> QED BY <3>2, <3>3
  <2> QED BY <2>3, <2>4
<1> QED
  BY <1>2, <1>6 DEF Onward, Undisturbed, Agreed

-----------------------------------------------------------------------------
(* All steps *)

LEMMA RunOnward == ASSUME IInv, RInv, Run, ~Start PROVE Onward
  BY ScanOnward, ScannedOnward, AssembleOnward, StoppedOnward, SolveOnward, StaysOnward,
     CopyOnward, AppendOnward, CopyStopped, OutputOnward, SaveOnward DEF Run

\* A run changes nothing of what is counted around it, and only Start starts one.
LEMMA RunObserved == ASSUME Run PROVE ~Changing /\ (Start <=> at = "idle")
<1>1. UNCHANGED bounds
  BY DEF Run, Start, Scanned, ScanDirectory, ScanGarbled, Override, Suggest, Unreadable,
         Solve, Unresolved, StaysInPlace, StartCopy, NotCopied, CopyEntry, CopyFails, Append,
         OutputUnchanged, Output, SaveCache, Unwritten
<1>2. at = "idle" => Start
  BY DEF Run, Scanned, ScanDirectory, ScanGarbled, Override, Suggest, Unreadable, Solve,
         Unresolved, StaysInPlace, StartCopy, ToBeCopied, NotCopied, CopyEntry, CopyFails,
         Append, OutputUnchanged, Output, SaveCache
<1> QED BY <1>1, <1>2 DEF Start, bounds, Changing

\* Everything else counts as a change.
LEMMA DisturbanceObserved == ASSUME IInv, Kill \/ Around PROVE Changing
<1>1. edits \in Int /\ kills \in Int
  BY BoundsType DEF IInv, TypeOK
<1> QED
  BY <1>1 DEF Kill, Around, EditProject, EditLocal, EditStore, UpdateDb, Edited, Changing

LEMMA DisturbanceKeeps ==
    ASSUME RInv, Kill \/ Around
    PROVE  at' # "idle" => seen' \subseteq libCache'
  BY DEF RInv, Kill, Ended, Around, EditProject, EditLocal, EditStore, UpdateDb, Edited,
         process, files

LEMMA NextRInv == IInv /\ RInv /\ [Next]_vars => RInv'
<1> SUFFICES ASSUME IInv, RInv, [Next]_vars PROVE RInv'
  OBVIOUS
<1>1. CASE Run /\ Observe
  <2>1. ~Changing /\ touched \in BOOLEAN /\ calm \in BOOLEAN
    BY <1>1, RunObserved DEF IInv, TypeOK
  <2>2. CASE Start
    <3>1. Starting /\ at' # "idle"
      BY <2>2 DEF Start, Starting
    <3>2. ~calm
      BY <2>2 DEF Start, RInv, Agreeing
    <3>3. touched' = FALSE /\ (calm' => ~touched)
      BY <1>1, <2>1, <3>1, <3>2 DEF Observe
    <3> QED BY <2>2, <3>3, StartOnward, Zenon DEF RInv
  <2>3. CASE ~Start
    <3>1. ~Starting
      BY <1>1, <2>3, RunObserved DEF Starting
    <3>2. (touched' <=> touched) /\ (calm' <=> (at' # "idle" /\ calm))
      BY <1>1, <2>1, <3>1 DEF Observe
    <3>3. Onward
      BY <1>1, <2>3, RunOnward
    <3>4. calm => ~touched
      BY DEF RInv
    <3> QED BY <3>2, <3>3, <3>4, Zenon DEF RInv, Onward
  <2> QED BY <2>2, <2>3
<1>2. CASE (Kill \/ Around) /\ Observe
  <2>1. touched' = TRUE /\ calm' = FALSE
    BY <1>2, DisturbanceObserved DEF Observe
  <2>2. at' # "idle" => seen' \subseteq libCache'
    BY <1>2, DisturbanceKeeps
  <2> QED BY <2>1, <2>2, Zenon DEF RInv
<1>3. CASE UNCHANGED vars
  <2>1. UNCHANGED <<ref, store, index, local, libCache, cache, include>>
    BY <1>3 DEF vars, files
  <2>2. UNCHANGED <<at, todo, seen, suggest, force, real, touched, calm>>
    BY <1>3 DEF vars, process, observed
  <2>3. Decided' <=> Decided
    BY <2>1, <2>2, ForeseenFrame DEF Decided
  <2>4. (Agreed' <=> Agreed) /\ (Foreseen' <=> Foreseen)
    BY <2>1, ForeseenFrame DEF Agreed, Foreseen, ScanStops
  <2>5. WillGenerate(real.version)' = WillGenerate(real.version)
    BY <2>1, <2>2 DEF WillGenerate
  <2>6. WillChoose(real.version)' <=> WillChoose(real.version)
    BY <2>1, <2>2, ForeseenFrame DEF WillChoose, Newest
  <2>7. Undisturbed => Undisturbed'
    BY <2>1, <2>2, <2>3, <2>4, <2>5, <2>6, ForeseenFrame DEF Undisturbed
  <2>8. Agreeing => Agreeing'
    BY <2>1, <2>2, <2>4, <2>5, ForeseenFrame DEF Agreeing
  <2>9. seen' = seen /\ libCache' = libCache /\ at' = at
    BY <2>1, <2>2
  <2>10. touched' = touched /\ calm' = calm
    BY <2>2
  <2> QED BY <2>7, <2>8, <2>9, <2>10, Zenon DEF RInv
<1> QED BY <1>1, <1>2, <1>3 DEF Next

\* What would be generated is what is there already.
LEMMA CalmKeeps == IInv /\ RInv /\ [Next]_vars => [calm => include' = include]_vars
<1> SUFFICES ASSUME RInv, Next, calm PROVE include' = include
  OBVIOUS
<1>1. at = "output" => include = Generated
  BY DEF RInv, Agreeing, Generated, WillGenerate
<1>2. at # "save"
  BY DEF RInv, Agreeing
<1>3. CASE Run
  BY <1>1, <1>3
  DEF Run, Start, Scanned, ScanDirectory, ScanGarbled, Override, Suggest, Unreadable, Solve,
      Unresolved, StaysInPlace, StartCopy, NotCopied, CopyEntry, CopyFails, Append,
      OutputUnchanged, Output, SaveCache, Unwritten, files
<1>4. CASE Kill
  BY <1>1, <1>2, <1>4 DEF Kill, TornCache, TornInclude, TornChoice
<1>5. CASE Around
  BY <1>5 DEF Around, EditProject, EditLocal, EditStore, UpdateDb, files
<1> QED BY <1>3, <1>4, <1>5 DEF Next

\* A run that finds everything as the run before it leaves the include file alone, however
\* that run ended.
THEOREM RunsAgree == Spec => RepeatedRunAgrees
<1>1. Spec => []RInv
  BY InitRInv, NextRInv, Invariance, PTL DEF Spec
<1> QED BY <1>1, Invariance, CalmKeeps, PTL DEF Spec, RepeatedRunAgrees
=============================================================================
