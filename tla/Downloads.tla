------------------------------ MODULE Downloads ------------------------------
(***************************************************************************)
(* Packages that packages.json takes from a url or a git repository:       *)
(* RefPackage._assemble_download and what it calls, over any sequence of   *)
(* runs of some projects, with what it leaves for later runs: the rows of  *)
(* lib_package_download and of lib_package, and the directories of the     *)
(* library store.                                                          *)
(*                                                                         *)
(* All projects want the same library.  A directory is named by the        *)
(* version in its package.json, or by the text of the version specifier    *)
(* in packages.json ("1.0", ">=2", "default", a missing publisher): both   *)
(* are Texts, and a version is the text that names it exactly.             *)
(***************************************************************************)
EXTENDS Integers, Sequences, FiniteSets

CONSTANTS
    Projects,    \* the projects that are built
    Text,        \* the specifier of each
    SourcesOf,   \* and the sources it names, in this order
    Sources,     \* a path_info: a url or a git repository, a tag included
    Git,         \* those that are git repositories
    Marked,      \* the path_info under which a download is marked as done
    Offers,      \* what a source may hold: versions, or no package at all
    Versions, Texts,
    Wanted,      \* the versions a text contains
    Parsable,    \* the texts that packaging.version.Version accepts
    Concurrent,  \* several projects may be built at once
    MaxKills, MaxChanges    \* bounds

NoPackage == "noPackage"
NoText == "noText"
Entries == {"package.json", "sources"}

ASSUME SourceAssumption ==
    /\ Text \in [Projects -> Texts]
    /\ SourcesOf \in [Projects -> Seq(Sources) \ {<<>>}]
    /\ \A p \in Projects :
        (\E i \in DOMAIN SourcesOf[p] : SourcesOf[p][i] \in Git)
            => Len(SourcesOf[p]) = 1
    /\ Marked \in [Sources -> Sources]
    /\ \A s \in Sources \ Git : Marked[s] = s
    /\ \A s \in Git : Marked[s] \in Git
    /\ Offers \in [Sources -> SUBSET (Versions \cup {NoPackage})]
ASSUME TextAssumption ==
    /\ Versions \subseteq Parsable /\ Parsable \subseteq Texts
    /\ NoPackage \notin Versions /\ NoText \notin Texts
    /\ Wanted \in [Texts -> SUBSET Versions]
    /\ \A v \in Versions : Wanted[v] = {v}
    /\ \A t \in Parsable : Cardinality(Wanted[t]) = 1
    /\ Concurrent \in BOOLEAN /\ MaxKills \in Nat /\ MaxChanges \in Nat

VARIABLES
    offer,       \* what a source holds now
    row,         \* its first row in lib_package_download
    registered,  \* the directory of each version in lib_package
    exists,      \* the directories of the library store
    files,       \* what lies in each
    holds,       \* the version in its package.json
    run,         \* the run of each project:
                 \*   at    the step it is at
                 \*   nth   the number of its source
                 \*   hand  the version it has unpacked
                 \*   todo  the entries it has still to remove or to write
    torn,        \* history: directories left by a run that broke off
    got,         \* history: the last text each source was downloaded for
    kills, changes

server == <<offer, kills, changes>>
store  == <<exists, files, holds, torn>>
tables == <<row, registered, got>>
vars   == <<server, store, tables, run>>

Ended == {"out", "done"}    \* out: not begun, killed, or ended by an error
Steps == {"check", "insert", "fetch", "replace", "removing", "create",
          "copying", "cloning", "checkout", "register", "add", "mark", "load"}

NoRow == [state |-> "none", target |-> NoText, text |-> NoText]

Row == [state : {"none", "open", "done"},
        target : Texts \cup {NoText}, text : Texts \cup {NoText}]
Run == [at : Ended \cup Steps, nth : Nat \ {0},
        hand : Versions \cup {NoPackage}, todo : SUBSET Entries]

TypeOK ==
    /\ offer \in [Sources -> Versions \cup {NoPackage}]
    /\ row \in [Sources -> Row]
    /\ \A s \in Sources : row[s].state = "done" => row[s].target \in Texts
    /\ got \in [Sources -> Texts \cup {NoText}]
    /\ registered \in [Versions -> Texts \cup {NoText}]
    /\ exists \subseteq Texts
    /\ files \in [Texts -> SUBSET Entries]
    /\ \A d \in Texts : files[d] # {} => d \in exists
    /\ holds \in [Texts -> Versions \cup {NoPackage}]
    /\ run \in [Projects -> Run]
    /\ \A p \in Projects : run[p].nth \in DOMAIN SourcesOf[p]
    /\ torn \subseteq Texts
    /\ kills \in 0 .. MaxKills /\ changes \in 0 .. MaxChanges

\* A run at one of its first steps, or ended.
At(step) == [at |-> step, nth |-> 1, hand |-> NoPackage, todo |-> {}]

Init ==
    /\ offer \in {f \in [Sources -> Versions \cup {NoPackage}] :
                    \A s \in Sources : f[s] \in Offers[s]}
    /\ row = [s \in Sources |-> NoRow]
    /\ registered = [v \in Versions |-> NoText]
    /\ exists = {} /\ torn = {}
    /\ files = [d \in Texts |-> {}]
    /\ holds = [d \in Texts |-> NoPackage]
    /\ got = [s \in Sources |-> NoText]
    /\ run = [p \in Projects |-> At("out")]
    /\ kills = 0 /\ changes = 0

Source(p) == SourcesOf[p][run[p].nth]
Goto(p, step) == run' = [run EXCEPT ![p].at = step]
Leave(p, how) == run' = [run EXCEPT ![p] = At(how)]
IsPackage(d) == "package.json" \in files[d]

\* The directory a run writes: a clone is made where it is looked for, an
\* archive is unpacked under the name in its package.json.
Dest(p) == IF Source(p) \in Git THEN Text[p] ELSE run[p].hand

\* The run leaves the directory it works on unfinished.
Tears(p) == run[p].at \in {"removing", "create", "copying", "cloning"}

\* Mutant of NextSource: one source too many.
NextSourceTooFar(p) ==
    /\ torn' = IF Tears(p) THEN torn \cup {Dest(p)} ELSE torn
    /\ IF run[p].nth <= Len(SourcesOf[p])
       THEN run' = [run EXCEPT ![p] = [At("fetch") EXCEPT !.nth = run[p].nth + 1]]
       ELSE Leave(p, "out")

\* _download_single returns False.
NextSource(p) ==
    /\ torn' = IF Tears(p) THEN torn \cup {Dest(p)} ELSE torn
    /\ IF run[p].nth < Len(SourcesOf[p])
       THEN run' = [run EXCEPT ![p] = [At("fetch") EXCEPT !.nth = run[p].nth + 1]]
       ELSE Leave(p, "out")

\* The project takes its package from directory d, if it is one.
Load(p, d) == Leave(p, IF IsPackage(d) THEN "done" ELSE "out")

-----------------------------------------------------------------------------
(* _assemble_download *)

Start(p) ==
    /\ run[p].at \in Ended
    /\ Concurrent \/ \A q \in Projects : run[q].at \in Ended
    /\ Leave(p, "check")
    /\ UNCHANGED <<server, store, tables>>

\* The row records a download whose version the project wants.
Fits(r, p) == r.text \in Parsable /\ Wanted[r.text] \subseteq Wanted[Text[p]]

\* PkgVersion raises InvalidVersion, which nothing catches.
CheckInvalid(p) ==
    /\ run[p].at = "check"
    /\ row[Source(p)].state = "done" /\ row[Source(p)].text \notin Parsable
    /\ Leave(p, "out")
    /\ UNCHANGED <<server, store, tables>>

CheckFits(p) ==
    /\ run[p].at = "check"
    /\ row[Source(p)].state = "done" /\ Fits(row[Source(p)], p)
    /\ Load(p, row[Source(p)].target)
    /\ UNCHANGED <<server, store, tables>>

CheckNext(p) ==
    /\ run[p].at = "check"
    /\ row[Source(p)].state = "done" =>
        /\ row[Source(p)].text \in Parsable
        /\ ~Fits(row[Source(p)], p)
    /\ IF run[p].nth < Len(SourcesOf[p])
       THEN run' = [run EXCEPT ![p].nth = @ + 1]
       ELSE Leave(p, "insert")
    /\ UNCHANGED <<server, store, tables>>

\* Every source gets another row; only the first row of each is ever read.
InsertRows(p) ==
    /\ run[p].at = "insert"
    /\ row' = [s \in Sources |->
        IF row[s].state = "none" /\ \E i \in DOMAIN SourcesOf[p] : SourcesOf[p][i] = s
        THEN [NoRow EXCEPT !.state = "open"] ELSE row[s]]
    /\ Goto(p, "fetch")
    /\ UNCHANGED <<server, store, registered, got>>

-----------------------------------------------------------------------------
(* _download_single and _move_and_register: a url *)

\* The request, the archive or its unpacking fails.
FetchFails(p) ==
    /\ run[p].at = "fetch"
    /\ Source(p) \notin Git
    /\ NextSource(p)
    /\ UNCHANGED <<server, exists, files, holds, tables>>

\* An archive without package.json ends the run: exit is no Exception.
FetchNoPackage(p) ==
    /\ run[p].at = "fetch"
    /\ Source(p) \notin Git /\ offer[Source(p)] = NoPackage
    /\ Leave(p, "out")
    /\ UNCHANGED <<server, store, tables>>

\* Mutant of Fetch: the download is marked as soon as it has arrived.
FetchMarking(p) ==
    /\ run[p].at = "fetch"
    /\ Source(p) \notin Git /\ offer[Source(p)] # NoPackage
    /\ row' = [row EXCEPT ![Source(p)] =
        [state |-> "done", target |-> offer[Source(p)], text |-> Text[p]]]
    /\ run' = [run EXCEPT ![p].at = "replace", ![p].hand = offer[Source(p)]]
    /\ UNCHANGED <<server, store, registered, got>>

Fetch(p) ==
    /\ run[p].at = "fetch"
    /\ Source(p) \notin Git /\ offer[Source(p)] # NoPackage
    /\ run' = [run EXCEPT ![p].at = "replace", ![p].hand = offer[Source(p)]]
    /\ UNCHANGED <<server, store, tables>>


Replace(p) ==
    /\ run[p].at = "replace"
    /\ IF Dest(p) \in exists
       THEN run' = [run EXCEPT ![p].at = "removing", ![p].todo = files[Dest(p)]]
       ELSE Goto(p, "create")
    /\ UNCHANGED <<server, store, tables>>

\* rmtree lists the directory first, and fails at an entry that has gone.
RemoveEntry(p) ==
    /\ run[p].at = "removing"
    /\ \E e \in run[p].todo :
        IF e \in files[Dest(p)]
        THEN /\ files' = [files EXCEPT ![Dest(p)] = @ \ {e}]
             /\ holds' = IF e = "package.json"
                         THEN [holds EXCEPT ![Dest(p)] = NoPackage] ELSE holds
             /\ run' = [run EXCEPT ![p].todo = @ \ {e}]
             /\ UNCHANGED torn
        ELSE NextSource(p) /\ UNCHANGED <<files, holds>>
    /\ UNCHANGED <<server, exists, tables>>

\* rmdir fails when somebody has written to the directory or removed it.
RemoveDir(p) ==
    /\ run[p].at = "removing" /\ run[p].todo = {}
    /\ IF Dest(p) \in exists /\ files[Dest(p)] = {}
       THEN exists' = exists \ {Dest(p)} /\ Goto(p, "create") /\ UNCHANGED torn
       ELSE NextSource(p) /\ UNCHANGED exists
    /\ UNCHANGED <<server, files, holds, tables>>

\* copytree makes the directory, which must not be there.
CreateDir(p) ==
    /\ run[p].at = "create"
    /\ IF Dest(p) \in exists
       THEN NextSource(p) /\ UNCHANGED exists
       ELSE /\ exists' = exists \cup {Dest(p)}
            /\ run' = [run EXCEPT ![p].at = "copying", ![p].todo = Entries]
            /\ UNCHANGED torn
    /\ UNCHANGED <<server, files, holds, tables>>

\* Entry e of version v is written to the directory of p, and next is what
\* follows the last entry.
WriteEntry(p, e, v, next) ==
    /\ files' = [files EXCEPT ![Dest(p)] = @ \cup {e}]
    /\ holds' = IF e = "package.json" THEN [holds EXCEPT ![Dest(p)] = v] ELSE holds
    /\ LET left == run[p].todo \ {e}
       IN /\ run' = [run EXCEPT ![p].todo = left,
                                ![p].at = IF left = {} THEN next ELSE @]
          /\ torn' = IF left = {} THEN torn \ {Dest(p)} ELSE torn

CopyEntry(p) ==
    /\ run[p].at = "copying"
    /\ IF Dest(p) \in exists
       THEN \E e \in run[p].todo : WriteEntry(p, e, run[p].hand, "register")
       ELSE NextSource(p) /\ UNCHANGED <<files, holds>>
    /\ UNCHANGED <<server, exists, tables>>

\* Mutant of FindRegistered: what is in the store is taken for registered.
FindInStore(p) ==
    /\ run[p].at = "register"
    /\ Goto(p, "mark")
    /\ UNCHANGED <<server, store, tables>>

\* _register_in_db looks for the package and then inserts it.
FindRegistered(p) ==
    /\ run[p].at = "register"
    /\ Goto(p, IF registered[run[p].hand] = NoText THEN "add" ELSE "mark")
    /\ UNCHANGED <<server, store, tables>>

\* A row that was inserted meanwhile violates the unique constraint.
AddPackage(p) ==
    /\ run[p].at = "add"
    /\ IF registered[run[p].hand] # NoText
       THEN NextSource(p) /\ UNCHANGED registered
       ELSE /\ registered' = [registered EXCEPT ![run[p].hand] = Dest(p)]
            /\ Goto(p, "mark")
            /\ UNCHANGED torn
    /\ UNCHANGED <<server, exists, files, holds, row, got>>

\* Mutant of MarkDone: the row keeps success = False.
MarkTarget(p) ==
    /\ run[p].at = "mark"
    /\ row' = [row EXCEPT ![Marked[Source(p)]].target = Dest(p)]
    /\ got' = [got EXCEPT ![Source(p)] = Text[p]]
    /\ Goto(p, "load")
    /\ UNCHANGED <<server, store, registered>>

\* _update_dl_record: nothing is recorded when there is no row.
MarkDone(p) ==
    /\ run[p].at = "mark"
    /\ LET s == Marked[Source(p)]
       IN row' = IF row[s].state = "none" THEN row
                 ELSE [row EXCEPT ![s] = [state |-> "done", target |-> Dest(p),
                                          text |-> Text[p]]]
    /\ got' = IF row[Source(p)].state = "none" THEN got
              ELSE [got EXCEPT ![Source(p)] = Text[p]]
    /\ Goto(p, "load")
    /\ UNCHANGED <<server, store, registered>>

\* The package is looked for where the specifier says, not where it was put.
LoadTarget(p) ==
    /\ run[p].at = "load"
    /\ Load(p, Text[p])
    /\ UNCHANGED <<server, store, tables>>

-----------------------------------------------------------------------------
(* _download_git_src *)

\* git clone refuses a directory that is not empty; it writes .git first.
Clone(p) ==
    /\ run[p].at = "fetch" /\ Source(p) \in Git
    /\ exists' = exists \cup {Text[p]}
    /\ IF files[Text[p]] # {}
       THEN NextSource(p) /\ UNCHANGED files
       ELSE /\ files' = [files EXCEPT ![Text[p]] = {"sources"}]
            /\ run' = [run EXCEPT ![p].at = "cloning", ![p].hand = offer[Source(p)],
                                  ![p].todo = {"package.json"}]
            /\ UNCHANGED torn
    /\ UNCHANGED <<server, holds, tables>>

\* git removes what it has written when it fails.
CloneFails(p) ==
    /\ run[p].at = "cloning"
    /\ files' = [files EXCEPT ![Text[p]] = {}]
    /\ NextSource(p)
    /\ UNCHANGED <<server, exists, holds, tables>>

CloneEntry(p) ==
    /\ run[p].at = "cloning" /\ run[p].hand # NoPackage
    /\ WriteEntry(p, "package.json", run[p].hand, "checkout")
    /\ UNCHANGED <<server, exists, tables>>

CloneNoPackage(p) ==
    /\ run[p].at = "cloning" /\ run[p].hand = NoPackage
    /\ Goto(p, "checkout")
    /\ UNCHANGED <<server, store, tables>>

\* A shallow clone has the tag only if it is at its tip.
Checkout(p) ==
    /\ run[p].at = "checkout"
    /\ \/ Goto(p, "mark") /\ UNCHANGED torn
       \/ NextSource(p)
    /\ UNCHANGED <<server, exists, files, holds, tables>>

-----------------------------------------------------------------------------
(* The world around it *)

Kill(p) ==
    /\ run[p].at \in Steps
    /\ kills < MaxKills
    /\ kills' = kills + 1
    /\ torn' = IF Tears(p) THEN torn \cup {Dest(p)} ELSE torn
    /\ Leave(p, "out")
    /\ UNCHANGED <<offer, changes, exists, files, holds, tables>>

Publish(s) ==
    /\ changes < MaxChanges
    /\ changes' = changes + 1
    /\ \E v \in Offers[s] \ {offer[s]} : offer' = [offer EXCEPT ![s] = v]
    /\ UNCHANGED <<kills, store, tables, run>>

\* No two directories hold the same version.
Scannable ==
    \A d, e \in exists :
        IsPackage(d) /\ IsPackage(e) /\ holds[d] = holds[e] => d = e

\* updateDb.py drops all tables and registers what lies in the store; two
\* directories with the same version make it fail (PackageDb has its steps).
UpdateDb ==
    /\ changes < MaxChanges
    /\ changes' = changes + 1
    /\ row' = [s \in Sources |-> NoRow]
    /\ got' = [s \in Sources |-> NoText]
    /\ registered' = [v \in Versions |->
        IF Scannable /\ \E d \in exists : IsPackage(d) /\ holds[d] = v
        THEN CHOOSE d \in exists : IsPackage(d) /\ holds[d] = v
        ELSE NoText]
    /\ UNCHANGED <<offer, kills, store, run>>

Assemble(p) ==
    \/ CheckInvalid(p) \/ CheckFits(p) \/ CheckNext(p) \/ InsertRows(p)
    \/ FetchFails(p) \/ FetchNoPackage(p) \/ Fetch(p)
    \/ Replace(p) \/ RemoveEntry(p) \/ RemoveDir(p) \/ CreateDir(p) \/ CopyEntry(p)
    \/ FindRegistered(p) \/ AddPackage(p) \/ MarkDone(p) \/ LoadTarget(p)
    \/ Clone(p) \/ CloneFails(p) \/ CloneEntry(p) \/ CloneNoPackage(p)
    \/ Checkout(p)

Next ==
    \/ \E p \in Projects : Start(p) \/ Assemble(p) \/ Kill(p)
    \/ \E s \in Sources : Publish(s)
    \/ UpdateDb

Spec == Init /\ [][Next]_vars

\* The projects are built again and again, a run goes on, and a server that is
\* asked for ever answers at times.
Fairness ==
    \A p \in Projects :
        SF_vars(Start(p)) /\ WF_vars(Assemble(p)) /\ SF_vars(Fetch(p))

FairSpec == Spec /\ Fairness

-----------------------------------------------------------------------------
(* Properties *)

BeingWritten(d) == \E p \in Projects : Tears(p) /\ Dest(p) = d

Recorded(d) ==
    \/ \E v \in Versions : registered[v] = d
    \/ \E s \in Sources \ Git : row[s].state = "done" /\ row[s].target = d

\* What lib_package says is there, or lib_package_download of a url, is there
\* as a whole unless a run was broken off while it replaced it: a download is
\* recorded after its files, and nothing but a replacement removes them.  (A
\* clone is recorded as done without looking for its package.json.)
RecordsAreWhole ==
    \A d \in Texts \ torn : ~BeingWritten(d) /\ Recorded(d) => files[d] = Entries

\* A source is not fetched again for the specifier it was last downloaded for,
\* as long as nobody rebuilds the database.
DownloadedOnce ==
    \A p \in Projects :
        run[p].at = "fetch" =>
            \A i \in DOMAIN SourcesOf[p] : got[SourcesOf[p][i]] # Text[p]

FromUrl == {p \in Projects : SourcesOf[p][1] \notin Git}

Assembles(p) == run[p].at # "done" /\ run'[p].at = "done"

\* The directory it takes the package from.
Loaded(p) == IF run[p].at = "check" THEN row[Source(p)].target ELSE Text[p]

\* The versions directory d may come to hold: of an archive, which is unpacked
\* under its own version, or of the clone of a project that names d.
MayHold(d) ==
    {v \in Versions :
        \/ v = d /\ \E s \in Sources \ Git : v \in Offers[s]
        \/ \E p \in Projects \ FromUrl : Text[p] = d /\ v \in Offers[SourcesOf[p][1]]}

\* No two directories come to hold the same version, the directory of a version
\* from a url holds no other, and a project that names a url finds in the
\* directory of its specifier nothing but what it downloads.
Separate ==
    /\ \A d, e \in Texts : MayHold(d) \cap MayHold(e) # {} => d = e
    /\ \A s \in Sources \ Git : \A v \in Offers[s] \cap Versions : MayHold(v) = {v}
    /\ \A p \in FromUrl : \A i \in DOMAIN SourcesOf[p] :
        \A v \in Offers[SourcesOf[p][i]] \cap Versions : MayHold(Text[p]) \subseteq {v}

\* When a ref with a url has been assembled its package is registered, so that
\* its publisher can be found: as long as the directories are Separate.
UrlIsRegistered ==
    [][\A p \in FromUrl :
        Assembles(p) => registered[holds[Loaded(p)]] # NoText]_vars

\* "Execute download/path resolution so the package is registered"
\* (RefPackage.py:183).  Refuted for git repositories.
AssembledIsRegistered ==
    [][\A p \in Projects :
        Assembles(p) => registered[holds[Loaded(p)]] # NoText]_vars

=============================================================================
