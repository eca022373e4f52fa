----------------------------- MODULE PackageDb -----------------------------
(***************************************************************************)
(* The package database $IMAKECORE_ROOT/.db/package.db and the processes   *)
(* that build it: runs of IMakeCore.py, which call _ensure_db first and    *)
(* query the database afterwards, and runs of updateDb.py by hand.         *)
(*                                                                         *)
(* The file system and SQLite are what the processes share.  SQLite        *)
(* commits every DDL statement on its own, so dropping and creating the    *)
(* tables is visible table by table; the rows of an index become visible   *)
(* together, when the scan commits.                                        *)
(***************************************************************************)
EXTENDS Integers

CONSTANTS
    Runs,           \* runs of IMakeCore.py (an IDE loading many projects)
    Updates,        \* runs of updateDb.py started by hand, without the lock
    NoRun,          \* the lock file does not exist
    MaxWait,        \* the seconds a run waits for the lock holder (30)
    MaxKills,       \* bound: processes killed in one behaviour
    Libstores,      \* what the library stores may hold: see stores
    UpdatePyExists  \* updateDb.py is installed

ASSUME ProcessAssumption ==
    /\ Runs \cap Updates = {}
    /\ NoRun \notin Runs
ASSUME BoundAssumption ==
    /\ MaxWait \in Nat \ {0}
    /\ MaxKills \in Nat
ASSUME StoreAssumption ==
    /\ Libstores \subseteq {"none", "unique", "duplicate"}
    /\ UpdatePyExists \in BOOLEAN

VARIABLES
    size,     \* size of package.db, or what is missing: the file, or .db itself
    tables,   \* the tables it holds
    rows,     \* the tables that hold the rows of a committed scan
    lock,     \* the run that created .db/.lock, or NoRun
    pc,       \* where each run is in the main program
    waited,   \* seconds a waiting run has slept
    job,      \* where each updateDb.py process is
    todo,     \* the tables it still has to drop, then to create
    seen,     \* what the last query of a run found
    stores,   \* whether no store exists, or one package@version twice
    kills

vars == <<size, tables, rows, lock, pc, waited, job, todo, seen, stores, kills>>
dbVars == <<size, tables, rows>>
runVars == <<lock, pc, waited, seen>>

\* The tables of Base.metadata in the order of create_all; drop_all reverses it.
PackageTable  == 1
DetailTable   == 2
DownloadTable == 3
Tables == {PackageTable, DetailTable, DownloadTable}
\* What a scan fills, one row of each per package.
Scanned == {PackageTable, DetailTable}

Updaters == Runs \cup Updates
RunStep  == {"idle", "check", "lock", "wait", "child", "resolve"}
JobStep  == {"none", "begin", "drop", "create", "ok", "fail"}
Working  == {"begin", "drop", "create"}

TypeOK ==
    /\ size \in {"noDir", "absent", "zero", "some"}
    /\ tables \subseteq Tables
    /\ rows \subseteq Scanned
    /\ lock \in Runs \cup {NoRun}
    /\ pc \in [Runs -> RunStep]
    /\ waited \in [Runs -> 0 .. MaxWait]
    /\ job \in [Updaters -> JobStep]
    /\ todo \in [Updaters -> SUBSET Tables]
    /\ seen \in [Runs -> {"nothing", "noTable", "noRows", "rows"}]
    /\ stores \in {"none", "unique", "duplicate"}
    /\ kills \in 0 .. MaxKills

Init ==
    /\ size \in {"noDir", "absent", "zero"}
    /\ tables = {}
    /\ rows = {}
    /\ lock = NoRun
    /\ pc = [p \in Runs |-> "idle"]
    /\ waited = [p \in Runs |-> 0]
    /\ job = [u \in Updaters |-> "none"]
    /\ todo = [u \in Updaters |-> {}]
    /\ seen = [p \in Runs |-> "nothing"]
    /\ stores \in Libstores
    /\ kills = 0

\* The scan has been committed and nothing of it was dropped since.
Indexed == Scanned \subseteq rows

\* get_engine creates the directory; SQLite creates the file when it is opened.
DirMade == IF size = "noDir" THEN "absent" ELSE size
Opened  == IF size = "some" THEN "some" ELSE "zero"

-----------------------------------------------------------------------------
(* A run of IMakeCore.py *)

Goto(p, step) == pc' = [pc EXCEPT ![p] = step]

Start(p) ==
    /\ pc[p] = "idle"
    /\ Goto(p, "check")
    /\ waited' = [waited EXCEPT ![p] = 0]
    /\ seen' = [seen EXCEPT ![p] = "nothing"]
    /\ UNCHANGED <<dbVars, lock, job, todo, stores, kills>>

\* Mutant of Check: the file is not looked at.
CheckNothing(p) ==
    /\ pc[p] = "check"
    /\ Goto(p, IF UpdatePyExists THEN "lock" ELSE "resolve")
    /\ UNCHANGED <<dbVars, lock, waited, seen, job, todo, stores, kills>>

\* The fast path of _ensure_db: the file exists and is not empty.
Check(p) ==
    /\ pc[p] = "check"
    /\ Goto(p, IF size = "some" \/ ~UpdatePyExists THEN "resolve" ELSE "lock")
    /\ UNCHANGED <<dbVars, lock, waited, seen, job, todo, stores, kills>>

\* Mutant of TryLock: os.open without O_EXCL.
TryLockShared(p) ==
    /\ pc[p] = "lock"
    /\ size # "noDir"
    /\ lock' = p
    /\ job' = [job EXCEPT ![p] = "begin"]
    /\ Goto(p, "child")
    /\ UNCHANGED <<dbVars, waited, seen, todo, stores, kills>>

\* os.open with O_CREAT | O_EXCL; the run that creates the file starts updateDb.py.
\* Without the directory it raises FileNotFoundError, which nobody catches.
TryLock(p) ==
    /\ pc[p] = "lock"
    /\ \/ /\ size # "noDir"
          /\ lock = NoRun
          /\ lock' = p
          /\ job' = [job EXCEPT ![p] = "begin"]
          /\ Goto(p, "child")
       \/ /\ size # "noDir"
          /\ lock # NoRun
          /\ Goto(p, "wait")
          /\ UNCHANGED <<lock, job>>
       \/ /\ size = "noDir"
          /\ Goto(p, "idle")
          /\ UNCHANGED <<lock, job>>
    /\ UNCHANGED <<dbVars, waited, seen, todo, stores, kills>>

\* Mutants of WaitSecond: one turn too many; and a loop that never gives up.
WaitTooLong(p) ==
    /\ pc[p] = "wait"
    /\ waited' = [waited EXCEPT ![p] = @ + 1]
    /\ Goto(p, IF size = "some" \/ waited[p] = MaxWait THEN "resolve" ELSE "wait")
    /\ UNCHANGED <<dbVars, lock, seen, job, todo, stores, kills>>
WaitForever(p) ==
    /\ pc[p] = "wait"
    /\ Goto(p, IF size = "some" THEN "resolve" ELSE "wait")
    /\ UNCHANGED <<dbVars, lock, waited, seen, job, todo, stores, kills>>

\* One turn of the waiting loop: sleep, look at the file, give up at MaxWait.
WaitSecond(p) ==
    /\ pc[p] = "wait"
    /\ waited' = [waited EXCEPT ![p] = @ + 1]
    /\ Goto(p, IF size = "some" \/ waited[p] + 1 = MaxWait THEN "resolve" ELSE "wait")
    /\ UNCHANGED <<dbVars, lock, seen, job, todo, stores, kills>>

\* subprocess.run returns; finally removes the lock; a non-zero code exits.
Release(p) ==
    /\ pc[p] = "child"
    /\ job[p] \in {"ok", "fail"}
    /\ Goto(p, IF job[p] = "ok" THEN "resolve" ELSE "idle")
    /\ lock' = NoRun
    /\ job' = [job EXCEPT ![p] = "none"]
    /\ UNCHANGED <<dbVars, waited, seen, todo, stores, kills>>

\* A query of the resolution.  Opening the database creates what is missing; a
\* missing table is an OperationalError nobody catches.
Query(p) ==
    /\ pc[p] = "resolve"
    /\ seen' = [seen EXCEPT ![p] = IF PackageTable \notin tables THEN "noTable"
                                   ELSE IF PackageTable \in rows THEN "rows" ELSE "noRows"]
    /\ size' = Opened
    /\ Goto(p, IF PackageTable \notin tables THEN "idle" ELSE "resolve")
    /\ UNCHANGED <<tables, rows, lock, waited, job, todo, stores, kills>>

Finish(p) ==
    /\ pc[p] = "resolve"
    /\ Goto(p, "idle")
    /\ UNCHANGED <<dbVars, lock, waited, seen, job, todo, stores, kills>>

\* A run dies without unwinding: the lock file and a child it started stay.
KillRun(p) ==
    /\ kills < MaxKills
    /\ pc[p] # "idle"
    /\ Goto(p, "idle")
    /\ kills' = kills + 1
    /\ UNCHANGED <<dbVars, lock, waited, seen, job, todo, stores>>

-----------------------------------------------------------------------------
(* A run of updateDb.py, as the child of a run or by hand *)

StartUpdate(u) ==
    /\ u \in Updates
    /\ job[u] = "none"
    /\ job' = [job EXCEPT ![u] = "begin"]
    /\ UNCHANGED <<dbVars, runVars, todo, stores, kills>>

\* __init__ makes the engine; run(): without a store, exit(1); then drop_all looks
\* which tables exist.
PlanDrop(u) ==
    /\ job[u] = "begin"
    /\ \/ /\ stores = "none"
          /\ job' = [job EXCEPT ![u] = "fail"]
          /\ size' = DirMade
          /\ UNCHANGED todo
       \/ /\ stores # "none"
          /\ job' = [job EXCEPT ![u] = "drop"]
          /\ todo' = [todo EXCEPT ![u] = tables]
          /\ size' = Opened
    /\ UNCHANGED <<tables, rows, runVars, stores, kills>>

\* DROP TABLE fails when another process has dropped the table meanwhile.
DropTable(u) ==
    /\ job[u] = "drop"
    /\ \E t \in todo[u] :
          /\ \A s \in todo[u] : s <= t
          /\ \/ /\ t \in tables
                /\ tables' = tables \ {t}
                /\ rows' = rows \ {t}
                /\ todo' = [todo EXCEPT ![u] = @ \ {t}]
                /\ UNCHANGED job
             \/ /\ t \notin tables
                /\ job' = [job EXCEPT ![u] = "fail"]
                /\ UNCHANGED <<tables, rows, todo>>
    /\ UNCHANGED <<size, runVars, stores, kills>>

\* create_all looks which tables are missing.
PlanCreate(u) ==
    /\ job[u] = "drop"
    /\ todo[u] = {}
    /\ job' = [job EXCEPT ![u] = "create"]
    /\ todo' = [todo EXCEPT ![u] = Tables \ tables]
    /\ UNCHANGED <<dbVars, runVars, stores, kills>>

\* CREATE TABLE fails when another process has created the table meanwhile.
CreateTable(u) ==
    /\ job[u] = "create"
    /\ \E t \in todo[u] :
          /\ \A s \in todo[u] : t <= s
          /\ \/ /\ t \notin tables
                /\ tables' = tables \cup {t}
                /\ size' = "some"
                /\ todo' = [todo EXCEPT ![u] = @ \ {t}]
                /\ UNCHANGED job
             \/ /\ t \in tables
                /\ job' = [job EXCEPT ![u] = "fail"]
                /\ UNCHANGED <<tables, size, todo>>
    /\ UNCHANGED <<rows, runVars, stores, kills>>

\* A scan can commit: the tables are there, and no package@version is inserted
\* twice, neither by two stores nor on top of another process's rows.
Committable == /\ stores = "unique"
               /\ Scanned \subseteq tables
               /\ Scanned \cap rows = {}

\* Mutants of CommitScan: the exception of a failed commit is swallowed; and the session
\* is closed without commit.
CommitSwallowing(u) ==
    /\ job[u] = "create"
    /\ todo[u] = {}
    /\ rows' = IF Committable THEN rows \cup Scanned ELSE rows
    /\ job' = [job EXCEPT ![u] = "ok"]
    /\ UNCHANGED <<size, tables, runVars, todo, stores, kills>>
CommitNothing(u) ==
    /\ job[u] = "create"
    /\ todo[u] = {}
    /\ job' = [job EXCEPT ![u] = "ok"]
    /\ UNCHANGED <<dbVars, runVars, todo, stores, kills>>

\* _scan_libstores adds every package to one session and commits it, or rolls back
\* and raises.
CommitScan(u) ==
    /\ job[u] = "create"
    /\ todo[u] = {}
    /\ \/ /\ Committable
          /\ rows' = rows \cup Scanned
          /\ job' = [job EXCEPT ![u] = "ok"]
       \/ /\ ~Committable
          /\ job' = [job EXCEPT ![u] = "fail"]
          /\ UNCHANGED rows
    /\ UNCHANGED <<size, tables, runVars, todo, stores, kills>>

\* The process is killed; what it had not committed is lost.
KillUpdate(u) ==
    /\ kills < MaxKills
    /\ job[u] \in Working
    /\ job' = [job EXCEPT ![u] = "fail"]
    /\ kills' = kills + 1
    /\ UNCHANGED <<dbVars, runVars, todo, stores>>

\* An updateDb.py that no run waits for ends: started by hand, or orphaned.
EndUpdate(u) ==
    /\ job[u] \in {"ok", "fail"}
    /\ u \in Runs => pc[u] # "child"
    /\ job' = [job EXCEPT ![u] = "none"]
    /\ UNCHANGED <<dbVars, runVars, todo, stores, kills>>

-----------------------------------------------------------------------------
RunNext(p) == \/ Start(p) \/ Check(p) \/ TryLock(p) \/ WaitSecond(p)
              \/ Release(p) \/ Query(p) \/ Finish(p) \/ KillRun(p)

UpdateNext(u) == \/ StartUpdate(u) \/ PlanDrop(u) \/ DropTable(u) \/ PlanCreate(u)
                 \/ CreateTable(u) \/ CommitScan(u) \/ KillUpdate(u) \/ EndUpdate(u)

Next == \/ \E p \in Runs : RunNext(p)
        \/ \E u \in Updaters : UpdateNext(u)

Spec == Init /\ [][Next]_vars

\* The operating system keeps scheduling a process that is not killed.  Nobody has to
\* start one, and nothing has to be killed.
Fairness ==
    /\ \A p \in Runs : WF_vars(Check(p) \/ TryLock(p) \/ WaitSecond(p) \/ Release(p))
    /\ \A p \in Runs : WF_vars(Finish(p))
    /\ \A u \in Updaters : WF_vars(PlanDrop(u) \/ DropTable(u) \/ PlanCreate(u)
                                   \/ CreateTable(u) \/ CommitScan(u) \/ EndUpdate(u))

FairSpec == Spec /\ Fairness

-----------------------------------------------------------------------------
(* Safety *)

\* At most one updateDb.py started by _ensure_db works at any time, even when the run
\* that started it has been killed and its child goes on as an orphan.
RebuildExclusion ==
    \A p, q \in Runs : job[p] \in Working /\ job[q] \in Working => p = q

\* While the lock is still held, the rows the holder's updateDb.py reported as
\* committed are all there (no updateDb.py is started by hand).
OwnIndexCommitted ==
    \A p \in Runs : job[p] = "ok" => Indexed

\* The index is committed and no run is between its check of the file and the removal
\* of the lock it took.
Settled ==
    /\ Indexed
    /\ \A p \in Runs : pc[p] \notin {"lock", "child"} /\ job[p] = "none"

\* A settled index is never dropped or rebuilt again: every later run takes the fast
\* path of _ensure_db (no updateDb.py is started by hand).
SettledForever == [][Settled => Settled']_vars

-----------------------------------------------------------------------------
(* Liveness *)

\* A run that enters _ensure_db leaves it, into the resolution or by exiting, even when
\* a killed lock holder left the lock file behind: the waiting loop gives up.
LeavesEnsureDb ==
    \A p \in Runs : pc[p] \in {"check", "lock", "wait", "child"} ~> pc[p] \in {"resolve", "idle"}

\* Where the directory exists, the first run makes the index settle, unless a process is
\* killed or no scan can commit.
FirstRunSettles ==
    (\E p \in Runs : pc[p] = "check" /\ size # "noDir")
        ~> (Settled \/ kills > 0 \/ stores # "unique")

-----------------------------------------------------------------------------
(* What the words of _ensure_db say, and the code does not do *)

\* "Create the package database if it does not exist": where .db does not exist either
\* no run gets beyond the lock file, so that the first one does not make an index.
CreatesMissing ==
    (\E p \in Runs : pc[p] = "check") ~> (Settled \/ kills > 0 \/ stores # "unique")

\* "DB exists and has content": a run that takes the fast path finds an index.
FastPathHasContent ==
    [][\A p \in Runs : pc[p] = "check" /\ pc'[p] = "resolve" => Indexed]_vars
=============================================================================
