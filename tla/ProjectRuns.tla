---------------------------- MODULE ProjectRuns ----------------------------
(***************************************************************************)
(* The runs of IMakeCore.py for one project, one after the other, and what *)
(* they leave for each other: the resolve cache, the cache of the local    *)
(* store, the packages copied to .lib and the include file.  Between and   *)
(* during the runs packages are installed and withdrawn, updateDb.py       *)
(* indexes them, and a run may be killed; between the runs the user edits  *)
(* packages.json and .lib.                                                 *)
(*                                                                         *)
(* The project refers to one library without dependencies (Resolution has  *)
(* the choice among many).  A directory of a store is the version it       *)
(* holds, a newer version being larger; a version specifier is the set of  *)
(* the versions it contains.  Nobody but the run reads a file while it is  *)
(* being written, so a write is one step, and Kill may leave half of it.   *)
(***************************************************************************)
EXTENDS Integers

CONSTANTS
    Versions,   \* the versions the library may have
    Specs,      \* the version specifiers the user writes
    MaxEdits,   \* how often anything changes around the runs
    MaxKills,   \* how many runs are killed
    None,       \* Python's None; a file that does not exist
    Torn,       \* a file of which only a part was written
    Empty       \* an include file that includes no package

ASSUME VersionsType == Versions \subseteq Nat
ASSUME SpecsType == Specs \subseteq SUBSET Versions
ASSUME BoundsType == MaxEdits \in Nat /\ MaxKills \in Nat
ASSUME NoVersion == Versions \cap {None, Torn, Empty} = {}

VARIABLES
    ref,        \* the entry of packages.json
    store,      \* the directories of the system lib store
    index,      \* the versions of which package.db has a package and a detail record
    local,      \* the directories of the project's .lib
    libCache,   \* .data/localLibCache.json: the directories it describes
    cache,      \* .data/resolve-cache.json: its entry
    include,    \* .package.pri: the version it includes
    at,         \* where the run is
    todo,       \* the directories _scan has still to look at
    seen,       \* LocalLibProvider._packages
    suggest,    \* ref.suggestCandidate
    force,      \* ref.forceCandidate
    real,       \* ref.real_package
    edits,
    kills,
    touched,    \* something was changed, or a run killed, since the last run started
    calm,       \* this run finds, and has so far had, everything as the run before
    pinned      \* this run has so far had its remembered version at hand

files == <<store, index, local, libCache, cache, include>>
process == <<at, todo, seen, suggest, force, real>>
bounds == <<edits, kills>>
observed == <<touched, calm, pinned>>
vars == <<ref, files, process, bounds, observed>>

Origins == {"local", "default"}
Refs == [spec : Specs, origin : Origins, override : Versions \cup {None}]

\* _compute_ref_hash: neither "override" nor "mode" is in it.
Entries == [spec : Specs, origin : Origins, version : Versions, path : {"local", "system"}]
Packages == [version : Versions, path : {"local", "system"}]

ASSUME TornFile == Torn \notin Entries /\ \A vs \in SUBSET Versions : vs # Torn
ASSUME NoPackage == None \notin Packages

\* A directory of .lib: without package.json, with a package.json of which only a part was
\* copied, with a sound one but without some other files, complete.
Directories == {"absent", "bare", "garbled", "partial", "whole"}

\* Where the run goes on: LocalLibProvider._scan, AppData._loadCache and _loadPackage, the
\* resolver, _handleLocalOrigin, its copytree, appendLibs, createIncludeFile, save_cache.
Places == {"idle", "scan", "assemble", "solve", "localOrigin", "copy", "append", "output", "save"}

HasPackageJson(v) == local[v] \notin {"absent", "bare"}

-----------------------------------------------------------------------------
(* How a run ends, and what its next part starts from *)

\* The process is gone, by exit(0), exit(1), an exception or a signal.
Ended == /\ at' = "idle"
         /\ todo' = {} /\ seen' = {}
         /\ suggest' = None /\ force' = None /\ real' = None

GoOn(place) == at' = place /\ UNCHANGED <<todo, seen, suggest, force, real>>

Unwritten == UNCHANGED <<ref, files, bounds>>

-----------------------------------------------------------------------------
(* LocalLibProvider *)

\* EnvConfig, LibProviderManager.init, _load_cache and the listing of .lib.  With a torn
\* localLibCache.json Utils.loadJson exits, now and whenever it is tried again.
Start ==
    /\ at = "idle" /\ libCache # Torn
    /\ at' = "scan"
    /\ todo' = {v \in Versions : local[v] # "absent"}
    /\ UNCHANGED <<seen, suggest, force, real>>
    /\ Unwritten

\* Mutant of Listed: a directory counts as a package.
ListedAny(v) == local[v] # "absent"

Listed(v) == HasPackageJson(v)

\* A directory that localLibCache.json describes is not read again.
ScanDirectory(v) ==
    /\ at = "scan" /\ v \in todo
    /\ local[v] = "garbled" => v \in libCache
    /\ todo' = todo \ {v}
    /\ seen' = IF Listed(v) THEN seen \cup {v} ELSE seen
    /\ libCache' = IF Listed(v) THEN libCache \cup {v} ELSE libCache
    /\ UNCHANGED <<at, suggest, force, real, ref, store, index, local, cache, include, bounds>>

\* loadJson exits on a package.json it cannot parse; that is no Exception.
ScanGarbled(v) ==
    /\ at = "scan" /\ v \in todo \ libCache
    /\ local[v] = "garbled"
    /\ Ended /\ Unwritten

Scanned == at = "scan" /\ todo = {} /\ GoOn("assemble") /\ Unwritten

\* LibProviderManager.findPackages: the local store first, then the database.
Available == seen \cup index
PathOf(v) == IF v \in seen THEN "local" ELSE "system"

-----------------------------------------------------------------------------
(* AppData *)

\* The entry of the cache has the ref_hash of the ref.
Remembered == /\ cache \in Entries
              /\ cache.spec = ref.spec
              /\ cache.origin = ref.origin

PathExists == IF cache.path = "local" THEN local[cache.version] # "absent"
                                      ELSE cache.version \in store

\* LibPackage.fromFolder succeeds.
Readable == cache.path = "local" => local[cache.version] \in {"partial", "whole"}

Cached == Remembered /\ PathExists

\* _parseOverride and _assembleRefPackages.  An override to a version that is nowhere is
\* passed over in silence, and the cache is not asked either.
Override ==
    /\ at = "assemble" /\ cache # Torn
    /\ ref.override # None
    /\ at' = "solve"
    /\ force' = IF ref.override \in Available THEN ref.override ELSE None
    /\ UNCHANGED <<todo, seen, suggest, real>>
    /\ Unwritten

Suggest ==
    /\ at = "assemble" /\ cache # Torn
    /\ ref.override = None
    /\ Cached => Readable
    /\ at' = "solve"
    /\ suggest' = IF Cached THEN cache.version ELSE None
    /\ UNCHANGED <<todo, seen, force, real>>
    /\ Unwritten

\* loadJson exits on a torn resolve-cache.json; fromFolder raises FileNotFoundError without
\* package.json and exits when it is garbled.
Unreadable ==
    /\ at = "assemble"
    /\ cache = Torn \/ (ref.override = None /\ Cached /\ ~Readable)
    /\ Ended /\ Unwritten

-----------------------------------------------------------------------------
(* PackageResolver *)

Candidates == IF force # None THEN {force} ELSE Available \cap ref.spec

\* Mutants of Chosen: the newest version whatever was suggested; the suggested version last.
ChosenNewest(v) == v \in Candidates /\ \A w \in Candidates : w <= v
ChosenOther(v) == /\ v \in Candidates
                  /\ v = suggest => Candidates = {v}
                  /\ \A w \in Candidates \ {suggest} : w <= v

\* The first of find_matches: the suggested version, then the newest.
Chosen(v) == /\ v \in Candidates
             /\ \/ v = suggest
                \/ suggest \notin Candidates /\ \A w \in Candidates : w <= v

\* resolve_all without dependencies: _solve and _wire_results.
Solve(v) ==
    /\ at = "solve" /\ Chosen(v)
    /\ at' = "localOrigin"
    /\ real' = [version |-> v, path |-> PathOf(v)]
    /\ UNCHANGED <<todo, seen, suggest, force>>
    /\ Unwritten

Unresolved == at = "solve" /\ Candidates = {} /\ Ended /\ Unwritten

\* Mutant of AlreadyLocal: any version in the local store will do.
AlreadyLocalAny == seen # {}

AlreadyLocal == real.version \in seen

StaysInPlace ==
    /\ at = "localOrigin"
    /\ ref.origin # "local" \/ AlreadyLocal
    /\ GoOn("output") /\ Unwritten

ToBeCopied == at = "localOrigin" /\ ref.origin = "local" /\ ~AlreadyLocal

\* copytree creates the directory, then copies one entry after the other.
StartCopy ==
    /\ ToBeCopied
    /\ real.version \in store /\ local[real.version] = "absent"
    /\ local' = [local EXCEPT ![real.version] = "bare"]
    /\ GoOn("copy")
    /\ UNCHANGED <<ref, store, index, libCache, cache, include, bounds>>

\* The source is missing, or a directory without package.json is in the way.
NotCopied ==
    /\ ToBeCopied
    /\ real.version \notin store \/ local[real.version] # "absent"
    /\ Ended /\ Unwritten

After(dir) == CASE dir = "bare" -> {"garbled"}
                [] dir = "garbled" -> {"partial", "whole"}
                [] dir = "partial" -> {"whole"}
                [] OTHER -> {}

CopyEntry ==
    /\ at = "copy" /\ real.version \in store
    /\ \E dir \in After(local[real.version]) :
          /\ local' = [local EXCEPT ![real.version] = dir]
          /\ GoOn(IF dir = "whole" THEN "append" ELSE "copy")
    /\ UNCHANGED <<ref, store, index, libCache, cache, include, bounds>>

\* The package is withdrawn while it is copied: copytree raises an Error.
CopyFails == at = "copy" /\ real.version \notin store /\ Ended /\ Unwritten

\* fromFolder of the copy, appendLibs with _update_cache.
Append ==
    /\ at = "append"
    /\ at' = "output"
    /\ seen' = seen \cup {real.version}
    /\ libCache' = libCache \cup {real.version}
    /\ real' = [real EXCEPT !.path = "local"]
    /\ UNCHANGED <<todo, suggest, force, ref, store, index, local, cache, include, bounds>>

-----------------------------------------------------------------------------
(* Outputs *)

\* post_process: a package of which the database has no detail record is left out.
Generated == IF real.version \in index THEN real.version ELSE Empty

\* createIncludeFile exits the whole process: save_cache is not reached.
OutputUnchanged ==
    /\ at = "output"
    /\ include = Generated
    /\ Ended /\ Unwritten

Output ==
    /\ at = "output"
    /\ include # Generated
    /\ include' = Generated
    /\ GoOn("save")
    /\ UNCHANGED <<ref, store, index, local, libCache, cache, bounds>>

SaveCache ==
    /\ at = "save"
    /\ cache' = [spec |-> ref.spec, origin |-> ref.origin,
                 version |-> real.version, path |-> real.path]
    /\ Ended
    /\ UNCHANGED <<ref, store, index, local, libCache, include, bounds>>

Run == \/ Start \/ Scanned \/ Override \/ Suggest \/ Unreadable \/ Unresolved
       \/ StaysInPlace \/ StartCopy \/ NotCopied \/ CopyEntry \/ CopyFails \/ Append
       \/ OutputUnchanged \/ Output \/ SaveCache
       \/ \E v \in Versions : ScanDirectory(v) \/ ScanGarbled(v) \/ Solve(v)

-----------------------------------------------------------------------------
(* What happens around the runs *)

\* A file that is being written when the process is killed.
TornCache == /\ \/ at = "append"
                \/ at = "scan" /\ \E v \in todo \ libCache : local[v] \in {"partial", "whole"}
             /\ libCache' = Torn
             /\ UNCHANGED <<cache, include>>
TornInclude == /\ at = "output" /\ include # Generated
               /\ include' = Torn
               /\ UNCHANGED <<libCache, cache>>
TornChoice == /\ at = "save"
              /\ cache' = Torn
              /\ UNCHANGED <<libCache, include>>

Kill ==
    /\ at # "idle" /\ kills < MaxKills
    /\ kills' = kills + 1
    /\ Ended
    /\ UNCHANGED <<libCache, cache, include>> \/ TornCache \/ TornInclude \/ TornChoice
    /\ UNCHANGED <<ref, store, index, local, edits>>

Edited == edits < MaxEdits /\ edits' = edits + 1 /\ UNCHANGED <<process, kills>>

\* The user writes packages.json, and puts packages into .lib or deletes them.
EditProject(r) ==
    /\ at = "idle" /\ Edited
    /\ r # ref /\ ref' = r
    /\ UNCHANGED files

EditLocal(v, dir) ==
    /\ at = "idle" /\ Edited
    /\ local[v] # dir /\ local' = [local EXCEPT ![v] = dir]
    /\ UNCHANGED <<ref, store, index, libCache, cache, include>>

\* A package comes into the system lib store, or is removed, at any time.
EditStore(vs) ==
    /\ Edited
    /\ vs # store /\ store' = vs
    /\ UNCHANGED <<ref, index, local, libCache, cache, include>>

\* updateDb.py: the tables are empty until the scan of the stores is committed (PackageDb).
UpdateDb(vs) ==
    /\ Edited
    /\ vs # index /\ index' = vs
    /\ UNCHANGED <<ref, store, local, libCache, cache, include>>

Around == \/ \E r \in Refs : EditProject(r)
          \/ \E v \in Versions, dir \in {"absent", "whole"} : EditLocal(v, dir)
          \/ \E v \in Versions : EditStore(store \cup {v}) \/ EditStore(store \ {v})
          \/ \E vs \in {{}, store} : UpdateDb(vs)

-----------------------------------------------------------------------------
(* What is observed, without any influence on the program *)

\* The last choice is remembered and can be made again.
AtHand == /\ Remembered
          /\ ref.override = None
          /\ cache.version = include
          /\ cache.version \in ref.spec \cap index
          /\ PathExists /\ Readable

Starting == at = "idle" /\ at' # "idle"
Changing == edits' # edits \/ kills' # kills

Observe ==
    /\ touched' = (Changing \/ (touched /\ ~Starting))
    /\ calm' = (at' # "idle" /\ ~Changing /\ (calm \/ (Starting /\ ~touched)))
    /\ pinned' = (at' # "idle" /\ (pinned \/ Starting) /\ AtHand')

Init ==
    /\ ref \in Refs
    /\ store \in SUBSET Versions /\ index \in {{}, store}
    /\ local = [v \in Versions |-> "absent"]
    /\ libCache = {} /\ cache = None /\ include = None
    /\ at = "idle" /\ todo = {} /\ seen = {}
    /\ suggest = None /\ force = None /\ real = None
    /\ edits = 0 /\ kills = 0
    /\ touched = TRUE /\ calm = FALSE /\ pinned = FALSE

Next == (Run \/ Kill \/ Around) /\ Observe

Spec == Init /\ [][Next]_vars

-----------------------------------------------------------------------------
(* Properties *)

\* Every file and attribute is of its kind; only directories with a package.json are
\* packages of the local store, and nothing is left of a run that has ended.
TypeOK ==
    /\ ref \in Refs
    /\ store \subseteq Versions /\ index \subseteq Versions
    /\ local \in [Versions -> Directories]
    /\ libCache = Torn \/ libCache \subseteq Versions
    /\ cache \in Entries \cup {None, Torn}
    /\ include \in Versions \cup {None, Torn, Empty}
    /\ at \in Places
    /\ todo \subseteq Versions
    /\ seen \subseteq {v \in Versions : HasPackageJson(v)}
    /\ suggest \in Versions \cup {None}
    /\ force \in Versions \cup {None}
    /\ real \in Packages \cup {None}
    /\ at \in {"localOrigin", "copy", "append", "output", "save"} => real # None
    /\ at \notin {"idle", "scan"} => todo = {}
    /\ at # "idle" => libCache # Torn
    /\ edits \in 0 .. MaxEdits /\ kills \in 0 .. MaxKills
    /\ touched \in BOOLEAN /\ calm \in BOOLEAN /\ pinned \in BOOLEAN

\* A project keeps its version: a run that has the remembered version at hand from its
\* start leaves the include file alone, whatever newer versions are published meanwhile.
KeepsVersion == [][pinned => include' = include]_vars

\* A run that finds everything as the run before it writes the same include file, even when
\* that run did not remember its choice, failed, or was the first.
RepeatedRunAgrees == [][calm => include' = include]_vars

\* What is written for a package of origin "local" is in the project's .lib.
LocalOriginIsLocal ==
    at = "output" /\ ref.origin = "local" =>
        real.path = "local" /\ HasPackageJson(real.version)

\* A run that ends with exit(0) has left its choice in the cache, for the next one to find.
ChoiceRemembered == [][OutputUnchanged \/ SaveCache => Remembered']_vars
=============================================================================
