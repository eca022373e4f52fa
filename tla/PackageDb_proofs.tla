-------------------------- MODULE PackageDb_proofs --------------------------
(***************************************************************************)
(* Proofs about PackageDb, for any set of runs, any set of updates and any *)
(* bounds.                                                                 *)
(***************************************************************************)
EXTENDS PackageDb, TLAPS

\* Every variable keeps the type the code gives it: the tables of a database are those of
\* the schema, only a run holds the lock, and no waiting run sleeps longer than MaxWait.
\* The last conjunct is what makes the bound on the waiting loop inductive.
TypeInv ==
    /\ TypeOK
    /\ \A p \in Runs : pc[p] = "wait" => waited[p] < MaxWait
    /\ \A p \in Runs : pc[p] \in {"check", "lock"} => waited[p] = 0

LEMMA TypeStep == TypeInv /\ [Next]_vars => TypeInv'
<1> SUFFICES ASSUME TypeInv, [Next]_vars PROVE TypeInv'
  OBVIOUS
<1> USE ProcessAssumption, BoundAssumption, StoreAssumption
    DEF TypeInv, TypeOK, Updaters, Goto, dbVars, runVars, RunStep, JobStep, Working
<1>1. ASSUME NEW p \in Runs, RunNext(p) PROVE TypeInv'
  <2>1. CASE Start(p)
    BY <2>1 DEF Start
  <2>2. CASE Check(p)
    BY <2>2 DEF Check
  <2>3. CASE TryLock(p)
    BY <2>3 DEF TryLock
  <2>4. CASE WaitSecond(p)
    BY <2>4 DEF WaitSecond
  <2>5. CASE Release(p)
    BY <2>5 DEF Release
  <2>6. CASE Query(p)
    BY <2>6 DEF Query, Opened
  <2>7. CASE Finish(p)
    BY <2>7 DEF Finish
  <2>8. CASE KillRun(p)
    BY <2>8 DEF KillRun
  <2>9. QED
    BY <1>1, <2>1, <2>2, <2>3, <2>4, <2>5, <2>6, <2>7, <2>8 DEF RunNext
<1>2. ASSUME NEW u \in Updaters, UpdateNext(u) PROVE TypeInv'
  <2>1. CASE StartUpdate(u)
    BY <2>1 DEF StartUpdate
  <2>2. CASE PlanDrop(u)
    BY <2>2 DEF PlanDrop, DirMade, Opened
  <2>3. CASE DropTable(u)
    BY <2>3 DEF DropTable
  <2>4. CASE PlanCreate(u)
    BY <2>4 DEF PlanCreate
  <2>5. CASE CreateTable(u)
    BY <2>5 DEF CreateTable
  <2>6. CASE CommitScan(u)
    BY <2>6 DEF CommitScan
  <2>7. CASE KillUpdate(u)
    BY <2>7 DEF KillUpdate
  <2>8. CASE EndUpdate(u)
    BY <2>8 DEF EndUpdate
  <2>9. QED
    BY <1>2, <2>1, <2>2, <2>3, <2>4, <2>5, <2>6, <2>7, <2>8 DEF UpdateNext
<1>3. CASE UNCHANGED vars
  BY <1>3 DEF vars
<1>4. QED
  BY <1>1, <1>2, <1>3 DEF Next

\* The database, the lock and every process keep their types (TypeOK of PackageDb).
THEOREM TypeCorrect == Spec => []TypeOK
<1>1. Init => TypeInv
  BY ProcessAssumption, BoundAssumption, StoreAssumption
  DEF Init, TypeInv, TypeOK, Updaters, RunStep, JobStep, Tables, Scanned
<1>2. TypeInv => TypeOK
  BY DEF TypeInv
<1>3. QED
  BY <1>1, <1>2, TypeStep, PTL DEF Spec

-----------------------------------------------------------------------------
(***************************************************************************)
(* Only the run that created the lock file removes it, and it does so when *)
(* its updateDb.py has ended.  Hence the inductive invariant: a run that   *)
(* waits for its child, and a run whose child exists, dead or alive, is    *)
(* the creator of the lock file.                                           *)
(***************************************************************************)
LockInv == \A p \in Runs : pc[p] = "child" \/ job[p] # "none" => lock = p

LEMMA LockStep == TypeOK /\ LockInv /\ [Next]_vars => LockInv'
<1> SUFFICES ASSUME TypeOK, LockInv, [Next]_vars PROVE LockInv'
  OBVIOUS
<1> USE ProcessAssumption
    DEF LockInv, TypeOK, Updaters, Goto, dbVars, runVars, RunStep, JobStep
<1>1. ASSUME NEW p \in Runs, RunNext(p) PROVE LockInv'
  <2>1. CASE TryLock(p)
    BY <2>1 DEF TryLock
  <2>2. CASE Release(p)
    BY <2>2 DEF Release
  <2>3. CASE Start(p) \/ Check(p) \/ WaitSecond(p) \/ Query(p) \/ Finish(p) \/ KillRun(p)
    BY <2>3 DEF Start, Check, WaitSecond, Query, Finish, KillRun
  <2>4. QED
    BY <1>1, <2>1, <2>2, <2>3 DEF RunNext
<1>2. ASSUME NEW u \in Updaters, UpdateNext(u) PROVE LockInv'
  \* No step of updateDb.py starts one for a run, nor touches the lock.
  <2>1. /\ \A p \in Runs : job'[p] # "none" => job[p] # "none"
        /\ UNCHANGED <<pc, lock>>
    BY <1>2 DEF UpdateNext, StartUpdate, PlanDrop, DropTable, PlanCreate, CreateTable,
                CommitScan, KillUpdate, EndUpdate, Working
  <2>2. QED
    BY <2>1
<1>3. CASE UNCHANGED vars
  BY <1>3 DEF vars
<1>4. QED
  BY <1>1, <1>2, <1>3 DEF Next

\* At most one updateDb.py started by _ensure_db works at any time, whatever is killed
\* and whatever is run by hand.
THEOREM Exclusion == Spec => []RebuildExclusion
<1>1. Init => LockInv
  BY DEF Init, LockInv, Updaters
<1>2. LockInv => RebuildExclusion
  BY DEF LockInv, RebuildExclusion, Working
<1>3. QED
  BY <1>1, <1>2, LockStep, TypeCorrect, PTL DEF Spec

-----------------------------------------------------------------------------
(***************************************************************************)
(* Without updates by hand, exclusion makes the tables private to the lock *)
(* holder's updateDb.py.  What it committed is there until the lock is     *)
(* removed, and a database with a table in it is never taken for a missing *)
(* one.                                                                    *)
(***************************************************************************)
IndexInv ==
    /\ OwnIndexCommitted
    /\ rows \subseteq tables
    /\ tables # {} => size = "some"

LEMMA IndexStep ==
  ASSUME Updates = {}
  PROVE  TypeOK /\ LockInv /\ IndexInv /\ [Next]_vars => IndexInv'
<1> SUFFICES ASSUME TypeOK, LockInv, IndexInv, [Next]_vars PROVE IndexInv'
  OBVIOUS
<1> USE ProcessAssumption
    DEF IndexInv, OwnIndexCommitted, Indexed, LockInv, TypeOK, Updaters, Goto, dbVars,
        runVars, RunStep, JobStep
<1>1. ASSUME NEW p \in Runs, RunNext(p) PROVE IndexInv'
  BY <1>1 DEF RunNext, Start, Check, TryLock, WaitSecond, Release, Query, Opened, Finish,
              KillRun
<1>2. ASSUME NEW u \in Runs, UpdateNext(u) PROVE IndexInv'
  \* While the child of u exists, no other run has one.
  <2> job[u] # "none" => \A q \in Runs : q # u => job[q] = "none"
    OBVIOUS
  <2>1. CASE StartUpdate(u)
    BY <2>1 DEF StartUpdate
  <2>2. CASE PlanDrop(u)
    BY <2>2 DEF PlanDrop, DirMade, Opened
  <2>3. CASE DropTable(u)
    BY <2>3 DEF DropTable
  <2>4. CASE PlanCreate(u)
    BY <2>4 DEF PlanCreate
  <2>5. CASE CreateTable(u)
    BY <2>5 DEF CreateTable
  <2>6. CASE CommitScan(u)
    BY <2>6 DEF CommitScan, Committable
  <2>7. CASE KillUpdate(u)
    BY <2>7 DEF KillUpdate
  <2>8. CASE EndUpdate(u)
    BY <2>8 DEF EndUpdate
  <2>9. QED
    BY <1>2, <2>1, <2>2, <2>3, <2>4, <2>5, <2>6, <2>7, <2>8 DEF UpdateNext
<1>3. CASE UNCHANGED vars
  BY <1>3 DEF vars
<1>4. QED
  BY <1>1, <1>2, <1>3 DEF Next

LEMMA IndexInvariant ==
  ASSUME Updates = {}
  PROVE  Spec => [](TypeOK /\ LockInv /\ IndexInv)
<1>1. Init => LockInv /\ IndexInv
  BY DEF Init, LockInv, IndexInv, OwnIndexCommitted, Updaters
<1>2. QED
  BY <1>1, LockStep, IndexStep, TypeCorrect, PTL DEF Spec

\* An updateDb.py that ended with code 0 has its index committed as long as the run that
\* started it holds the lock.
THEOREM OwnIndex ==
  ASSUME Updates = {}
  PROVE  Spec => []OwnIndexCommitted
<1>1. IndexInv => OwnIndexCommitted
  BY DEF IndexInv
<1>2. QED
  BY <1>1, IndexInvariant, PTL

\* A settled index stays settled: _ensure_db never rebuilds it.
THEOREM SettledIndex ==
  ASSUME Updates = {}
  PROVE  Spec => SettledForever
<1>1. TypeOK /\ LockInv /\ IndexInv /\ [Next]_vars => [Settled => Settled']_vars
  <2> SUFFICES ASSUME TypeOK, IndexInv, Settled, [Next]_vars PROVE Settled'
    OBVIOUS
  <2> USE DEF Settled, Indexed, Updaters, TypeOK
  \* A table holds rows, so the file is not empty and a check takes the fast path.
  <2>1. size = "some"
    BY DEF IndexInv, Scanned
  <2>2. ASSUME NEW p \in Runs, RunNext(p) PROVE Settled'
    BY <2>1, <2>2 DEF RunNext, Start, Check, TryLock, WaitSecond, Release, Query, Finish,
                      KillRun, Goto, dbVars
  <2>3. ASSUME NEW u \in Runs, UpdateNext(u) PROVE Settled'
    BY <2>3, ProcessAssumption
    DEF UpdateNext, StartUpdate, PlanDrop, DropTable, PlanCreate, CreateTable, CommitScan,
        KillUpdate, EndUpdate, Working
  <2>4. CASE UNCHANGED vars
    BY <2>4 DEF vars
  <2>5. QED
    BY <2>2, <2>3, <2>4 DEF Next
<1>2. QED
  BY <1>1, IndexInvariant, PTL DEF Spec, SettledForever
=============================================================================
