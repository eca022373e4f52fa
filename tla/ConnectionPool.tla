--------------------------- MODULE ConnectionPool ---------------------------
(***************************************************************************)
(* The pool of database connections of an IRdbDatabaseWare: the threads of *)
(* the server lock a connection for a query or for a listing of tables,    *)
(* wait on a condition variable when all are taken, and give it back; a    *)
(* watch timer deletes the connections that have been idle too long.       *)
(*                                                                         *)
(* Every critical section of m_connectionMutex is one step, except the     *)
(* loop of timerTask: it is taken index by index, and the mutex it keeps   *)
(* is what ~Watching stands for.                                           *)
(***************************************************************************)
EXTENDS Integers, Sequences, FiniteSets

CONSTANTS
    Threads,        \* the threads that use the pool
    Connections,    \* the IRdbConnection objects
    NoConnection,   \* a null IRdbConnection pointer
    MaxConnection,  \* m_connectionTrait.maxConnection
    MinConnection   \* m_connectionTrait.minConnection

ASSUME PoolAssumption ==
    /\ IsFiniteSet(Threads)
    /\ IsFiniteSet(Connections)
    /\ NoConnection \notin Connections
ASSUME TraitAssumption ==
    /\ MinConnection \in Nat
    /\ MaxConnection \in Nat
    /\ MinConnection <= MaxConnection
    /\ MaxConnection <= Cardinality(Connections)

VARIABLES
    idle,    \* m_connections: the connections nobody owns, oldest first
    count,   \* m_connectionCount
    live,    \* the connections that were created and not deleted
    stale,   \* those whose m_lastUseTime is idleTimeout ago
    pc,      \* where each thread is
    call,    \* what it locks the connection for
    conn,    \* the connection it holds, or has given back and still closes a result on
    scan,    \* 1 + index of the loop of timerTask, 0 outside of it
    closed,  \* the ware was destroyed
    warned   \* its destructor found connections missing

vars == <<idle, count, live, stale, pc, call, conn, scan, closed, warned>>

Calls == {"query", "tables"}
PoolStep == {"out", "waiting", "notified", "timedOut", "holding", "closing"}

Elements(s) == {s[i] : i \in DOMAIN s}
Distinct(s) == \A i, j \in DOMAIN s : s[i] = s[j] => i = j

TypeOK ==
    /\ idle \in Seq(Connections)
    /\ count \in 0 .. MaxConnection
    /\ live \subseteq Connections
    /\ stale \subseteq Connections
    /\ pc \in [Threads -> PoolStep]
    /\ call \in [Threads -> Calls]
    /\ conn \in [Threads -> Connections \cup {NoConnection}]
    /\ scan \in 0 .. Len(idle)
    /\ closed \in BOOLEAN
    /\ warned \in BOOLEAN

\* The ware starts with minConnection connections.
Init ==
    /\ idle \in {s \in [1 .. MinConnection -> Connections] : Distinct(s)}
    /\ count = MinConnection
    /\ live = Elements(idle)
    /\ stale = {}
    /\ pc = [t \in Threads |-> "out"]
    /\ call = [t \in Threads |-> "query"]
    /\ conn = [t \in Threads |-> NoConnection]
    /\ scan = 0
    /\ closed = FALSE
    /\ warned = FALSE

\* timerTask holds m_connectionMutex.
Watching == scan # 0

Waiting == {t \in Threads : pc[t] = "waiting"}
Woken   == {t \in Threads : pc[t] \in {"notified", "timedOut"}}
Holders == {t \in Threads : pc[t] = "holding"}
Held    == {conn[t] : t \in Holders}

-----------------------------------------------------------------------------
(* lockConnection *)

Hold(t, c) ==
    /\ pc' = [pc EXCEPT ![t] = "holding"]
    /\ conn' = [conn EXCEPT ![t] = c]

TakeFront(t) ==
    /\ idle # <<>>
    /\ Hold(t, Head(idle))
    /\ idle' = Tail(idle)
    /\ UNCHANGED <<count, live, stale>>

\* createConnection; when openDatabase throws, nothing has changed.
Create(t) ==
    /\ idle = <<>>
    /\ count < MaxConnection
    /\ count' = count + 1
    /\ \E c \in Connections \ live :
        /\ Hold(t, c)
        /\ live' = live \cup {c}
        /\ stale' = stale \ {c}
    /\ UNCHANGED idle

WaitForOne(t) ==
    /\ idle = <<>>
    /\ count >= MaxConnection
    /\ pc' = [pc EXCEPT ![t] = "waiting"]
    /\ UNCHANGED <<idle, count, live, stale, conn>>

\* Mutant of LockConnection: the limit is tested with <=.
LockOneTooMany(t, k) ==
    /\ ~closed /\ ~Watching
    /\ pc[t] = "out"
    /\ call' = [call EXCEPT ![t] = k]
    /\ \/ TakeFront(t)
       \/ /\ idle = <<>>
          /\ count <= MaxConnection
          /\ count' = count + 1
          /\ \E c \in Connections \ live :
              /\ Hold(t, c)
              /\ live' = live \cup {c}
          /\ UNCHANGED <<idle, stale>>
    /\ UNCHANGED <<scan, closed, warned>>

LockConnection(t, k) ==
    /\ ~closed /\ ~Watching
    /\ pc[t] = "out"
    /\ call' = [call EXCEPT ![t] = k]
    /\ TakeFront(t) \/ Create(t) \/ WaitForOne(t)
    /\ UNCHANGED <<scan, closed, warned>>

\* connectionTimeout has passed since the thread began to wait; it may have
\* been notified and still be without the mutex.
TimeOut(t) ==
    /\ pc[t] \in {"waiting", "notified"}
    /\ pc' = [pc EXCEPT ![t] = "timedOut"]
    /\ UNCHANGED <<idle, count, live, stale, call, conn, scan, closed, warned>>

\* Mutant of Wake: the wait starts again whatever woke the thread.
WakeAndWait(t) ==
    /\ ~Watching
    /\ t \in Woken
    /\ \/ TakeFront(t)
       \/ /\ idle = <<>>
          /\ pc' = [pc EXCEPT ![t] = "waiting"]
          /\ UNCHANGED <<idle, count, live, stale, conn>>
    /\ UNCHANGED <<call, scan, closed, warned>>

\* The thread has the mutex again and evaluates the predicate of wait_for.
\* Another thread may have taken the connection it was notified of.
Wake(t) ==
    /\ ~Watching
    /\ t \in Woken
    /\ \/ TakeFront(t)
       \/ /\ idle = <<>>
          /\ pc' = [pc EXCEPT
                ![t] = IF @ = "notified" THEN "waiting" ELSE "out"]
          /\ UNCHANGED <<idle, count, live, stale, conn>>
    /\ UNCHANGED <<call, scan, closed, warned>>

-----------------------------------------------------------------------------
(* unlockConnection and the ISqlQuery that calls it *)

\* A listing of tables is over; ~ISqlQuery has still to destroy its base.
Released(t) == IF call[t] = "query" THEN "closing" ELSE "out"

NotifyOne(t) ==
    \/ /\ Waiting = {}
       /\ pc' = [pc EXCEPT ![t] = Released(t)]
    \/ \E w \in Waiting :
        pc' = [pc EXCEPT ![t] = Released(t), ![w] = "notified"]

\* Into the list; a query stamps m_lastUseTime, getRdbTables and getRdbViews do not.
GiveBack(t) ==
    /\ ~Watching
    /\ pc[t] = "holding"
    /\ idle' = Append(idle, conn[t])
    /\ stale' = IF call[t] = "query" THEN stale \ {conn[t]} ELSE stale
    /\ conn' = IF call[t] = "query" THEN conn ELSE [conn EXCEPT ![t] = NoConnection]
    /\ call' = [call EXCEPT ![t] = "query"]
    /\ UNCHANGED <<count, live, scan, closed, warned>>

\* Mutant of ReleaseConnection: notify_one is forgotten.
ReleaseSilently(t) ==
    /\ GiveBack(t)
    /\ pc' = [pc EXCEPT ![t] = Released(t)]

ReleaseConnection(t) ==
    /\ GiveBack(t)
    /\ NotifyOne(t)

\* The base of ISqlQuery, which the body of ~ISqlQuery precedes: ~QSqlQuery destroys
\* its result on the database of the connection that is in the list by then.
EndQuery(t) ==
    /\ pc[t] = "closing"
    /\ pc' = [pc EXCEPT ![t] = "out"]
    /\ conn' = [conn EXCEPT ![t] = NoConnection]
    /\ UNCHANGED <<idle, count, live, stale, call, scan, closed, warned>>

\* Mutant of MoveQuery: the moved query keeps its m_connection.
CopyQuery(t, u) ==
    /\ pc[t] = "holding" /\ call[t] = "query"
    /\ pc[u] = "out" /\ ~closed
    /\ pc' = [pc EXCEPT ![u] = "holding"]
    /\ call' = [call EXCEPT ![u] = "query"]
    /\ conn' = [conn EXCEPT ![u] = conn[t]]
    /\ UNCHANGED <<idle, count, live, stale, scan, closed, warned>>

\* An ISqlQuery is moved into the hands of another thread.
MoveQuery(t, u) ==
    /\ pc[t] = "holding" /\ call[t] = "query"
    /\ pc[u] = "out" /\ ~closed
    /\ pc' = [pc EXCEPT ![t] = "out", ![u] = "holding"]
    /\ call' = [call EXCEPT ![u] = "query"]
    /\ conn' = [conn EXCEPT ![t] = NoConnection, ![u] = conn[t]]
    /\ UNCHANGED <<idle, count, live, stale, scan, closed, warned>>

-----------------------------------------------------------------------------
(* The watch timer, time and the destructor *)

\* The ware never has fewer than minConnection: see NeverBelowMinimum.
TimerTask ==
    /\ ~closed /\ ~Watching
    /\ count > MinConnection
    /\ Len(idle) > MinConnection + 1
    /\ scan' = Len(idle)
    /\ UNCHANGED <<idle, count, live, stale, pc, call, conn, closed, warned>>

Without(s, i) == SubSeq(s, 1, i - 1) \o SubSeq(s, i + 1, Len(s))

\* Mutant of WatchIndex: the loop goes down to the first connection.
WatchAll ==
    /\ Watching
    /\ scan' = scan - 1
    /\ IF idle[scan] \in stale
       THEN /\ idle' = Without(idle, scan)
            /\ live' = live \ {idle[scan]}
       ELSE UNCHANGED <<idle, live>>
    /\ UNCHANGED <<count, stale, pc, call, conn, closed, warned>>

\* One turn of the loop.  The connection is deleted without destroyConnection:
\* m_connectionCount still counts it.
WatchIndex ==
    /\ Watching
    /\ scan' = IF scan - 1 > MinConnection + 1 THEN scan - 1 ELSE 0
    /\ IF idle[scan] \in stale
       THEN /\ idle' = Without(idle, scan)
            /\ live' = live \ {idle[scan]}
       ELSE UNCHANGED <<idle, live>>
    /\ UNCHANGED <<count, stale, pc, call, conn, closed, warned>>

Age(c) ==
    /\ c \in live
    /\ stale' = stale \cup {c}
    /\ UNCHANGED <<idle, count, live, pc, call, conn, scan, closed, warned>>

\* The ware is a static object: it is destroyed after the threads were joined.
Shutdown ==
    /\ ~closed /\ ~Watching
    /\ \A t \in Threads : pc[t] = "out"
    /\ closed' = TRUE
    /\ warned' = (Len(idle) # count)
    /\ count' = count - Len(idle)
    /\ live' = live \ Elements(idle)
    /\ idle' = <<>>
    /\ UNCHANGED <<stale, pc, call, conn, scan>>

-----------------------------------------------------------------------------
Next ==
    \/ \E t \in Threads, k \in Calls : LockConnection(t, k)
    \/ \E t \in Threads : TimeOut(t)
    \/ \E t \in Threads : Wake(t)
    \/ \E t \in Threads : ReleaseConnection(t)
    \/ \E t \in Threads : EndQuery(t)
    \/ \E t, u \in Threads : MoveQuery(t, u)
    \/ TimerTask
    \/ WatchIndex
    \/ \E c \in Connections : Age(c)
    \/ Shutdown

Spec == Init /\ [][Next]_vars

\* The clock runs, the loop of timerTask ends, and a thread that was woken
\* gets the mutex at last although others keep locking it.
Fairness ==
    /\ WF_vars(WatchIndex)
    /\ \A t \in Threads : WF_vars(TimeOut(t)) /\ SF_vars(Wake(t))

FairSpec == Spec /\ Fairness

-----------------------------------------------------------------------------
(* Properties *)

\* From lockConnection to releaseConnection a connection is in the hands of one thread,
\* not in the list, not twice in the list, and not deleted.
Exclusive ==
    /\ Distinct(idle)
    /\ Held \cap Elements(idle) = {}
    /\ \A t, u \in Holders : conn[t] = conn[u] => t = u
    /\ Elements(idle) \cup Held \subseteq live

\* No connection is forgotten: one that was opened is in the list, is held, or
\* was deleted, so that the destructor closes every one that is left.
NothingLost == live \subseteq Elements(idle) \cup Held

\* Every connection there is lies in the list once or belongs to one thread, which
\* lockConnection, unlockConnection, the moves of ISqlQuery and timerTask promise
\* together.  It is about who owns a connection, not about who touches it: UsedAlone.
OneOwner == Exclusive /\ NothingLost

\* The database never sees more connections than maxConnection, whatever the
\* order of lockConnection, releases and the timer.
WithinLimit == Cardinality(live) <= count /\ count <= MaxConnection

\* The timer may shrink the pool while threads take and return connections, but never
\* below minConnection; and one more is left for ever once there was one more.
NeverBelowMinimum ==
    ~closed => /\ count >= MinConnection
               /\ Cardinality(live) >= MinConnection
               /\ count > MinConnection => Cardinality(live) > MinConnection

\* Both ends of the connection trait are kept, although the timer deletes
\* connections without counting them down.
Limits == WithinLimit /\ NeverBelowMinimum

\* When connections lie in the list although threads wait for one, as many
\* threads have been woken to take them: notify_one of unlockConnection is
\* never lost, not even when another thread takes the connection first.
NoLostWakeup ==
    Waiting # {} => Len(idle) <= Cardinality(Woken)

\* lockConnection returns or throws after connectionTimeout at the latest.
RequestsReturn ==
    \A t \in Threads :
        pc[t] \in {"waiting", "notified", "timedOut"}
            ~> pc[t] \in {"out", "holding"}

\* Who touches the database of a connection: the thread that holds it, and one that has
\* given it back and still destroys its query.
Touching == {t \in Threads : pc[t] \in {"holding", "closing"}}

\* No two threads touch one connection, and none a deleted one.  Refuted: ~ISqlQuery
\* gives the connection back in its body and destroys its result, in the base, after it
\* (ISqlQuery.cpp:15), when another thread may have locked or the timer deleted it.
UsedAlone ==
    /\ \A t, u \in Touching : conn[t] = conn[u] => t = u
    /\ \A t \in Touching : conn[t] \in live

\* The destructor warns "NOT ALL Database released" (IRdbDatabaseWare.cpp:25)
\* only when a connection was not given back.  Refuted: timerTask deletes
\* idle connections without counting them down.
WarningMeansUnreleased == warned => live # {}
=============================================================================
