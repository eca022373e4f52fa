---------------------------- MODULE TcpConnection ----------------------------
(***************************************************************************)
(* An ITcpConnection with its resolvers: the requests of one client are    *)
(* read one after the other, the next one while the response to the last   *)
(* is prepared and written; the responses must leave in the order of the   *)
(* requests, and the connection deletes itself when nothing is left to do. *)
(*                                                                         *)
(* The handlers run in the threads of the io_context.  A handler is split  *)
(* where it leaves or takes m_mutex and where it reads what another thread *)
(* may change.  What a resolver reads and answers is left out: a read of   *)
(* a whole request is one completion, after its headers were seen.         *)
(***************************************************************************)
EXTENDS Integers, FiniteSets

CONSTANTS
    Threads,      \* the threads that call io_context::run
    MaxRequests,  \* the requests the client sends at most (a bound)
    Pipelining    \* the client sends a request before it has the response

ASSUME ConnectionAssumption ==
    /\ MaxRequests \in Nat
    /\ Pipelining \in BOOLEAN

VARIABLES
    first, last,  \* m_resolvers holds the resolvers first .. last
    reading,      \* a read for the last resolver is outstanding
    headers,      \* its headers have been read
    keepAlive,    \* m_keepAlive
    added,        \* m_addResolverCount
    deleted,      \* m_deleteResolverCount
    unWritten,    \* m_unWrittenCount
    writing,      \* the resolvers whose m_writeState is Writing
    inFlight,     \* the async_writes that have not completed
    written,      \* how often the response of a resolver was handed to one
    at, of,       \* where a thread is in its handler, and for which resolver
    posted, gone  \* how often "delete this" is queued, and was executed

list     == <<first, last>>
reads    == <<reading, headers, keepAlive>>
counts   == <<added, deleted>>
writes   == <<unWritten, inFlight, written>>
ends     == <<posted, gone>>
vars     == <<list, reads, counts, writes, writing, at, of, ends>>

Resolvers == 1 .. MaxRequests + 1
Places == {"none", "action", "compare", "count", "write",
           "pop", "popFailed", "check", "popBack", "checkRead"}

TypeOK ==
    /\ first \in 1 .. MaxRequests + 2
    /\ last \in 0 .. MaxRequests + 1
    /\ reading \in BOOLEAN /\ headers \in BOOLEAN /\ keepAlive \in BOOLEAN
    /\ added \in Resolvers /\ deleted \in 0 .. added
    /\ unWritten \in 0 .. MaxRequests
    /\ writing \subseteq Resolvers
    /\ inFlight \in 0 .. 1
    /\ written \in [Resolvers -> 0 .. 1]
    /\ at \in [Threads -> Places]
    /\ of \in [Threads -> Resolvers]
    /\ posted \in 0 .. 1 /\ gone \in 0 .. 1

\* The constructor starts to read for a first resolver.
Init ==
    /\ first = 1 /\ last = 1
    /\ reading = TRUE /\ headers = FALSE /\ keepAlive = FALSE
    /\ added = 1 /\ deleted = 0
    /\ unWritten = 0
    /\ writing = {}
    /\ inFlight = 0
    /\ written = [r \in Resolvers |-> 0]
    /\ at = [t \in Threads |-> "none"]
    /\ of = [t \in Threads |-> 1]
    /\ posted = 0 /\ gone = 0

Idle(t) == at[t] = "none" /\ gone = 0
Goto(t, place) == at' = [at EXCEPT ![t] = place]

-----------------------------------------------------------------------------
(* Reading requests *)

\* The client sends what it does not wait for an answer to.
Sent ==
    /\ last <= MaxRequests
    /\ Pipelining \/ \A r \in 1 .. last - 1 : written[r] > 0

\* resolveHeaderKeepAlive; the body of the request may follow.
ReadHeaders(t, keep) ==
    /\ Idle(t) /\ reading /\ ~headers /\ Sent
    /\ headers' = TRUE
    /\ keepAlive' = keep
    /\ UNCHANGED <<list, reading, counts, writes, writing, at, of, ends>>

\* endState: doReadFinished starts the next read before the action runs.
\* An invalid request is not complete.
ReadFinished(t, complete) ==
    /\ Idle(t) /\ reading /\ Sent
    /\ headers' = FALSE
    /\ keepAlive' = (keepAlive /\ complete)
    /\ Goto(t, "action")
    /\ of' = [of EXCEPT ![t] = last]
    /\ IF keepAlive'
       THEN /\ last' = last + 1
            /\ added' = added + 1
            /\ UNCHANGED reading
       ELSE /\ reading' = FALSE
            /\ UNCHANGED <<last, added>>
    /\ UNCHANGED <<first, deleted, writes, writing, ends>>

\* doReadError: the client closed the connection, or a read failed.
ReadFailed(t) ==
    /\ Idle(t) /\ reading
    /\ reading' = FALSE
    /\ keepAlive' = FALSE
    /\ Goto(t, "popBack")
    /\ UNCHANGED <<list, headers, counts, writes, writing, of, ends>>

PopBack(t) ==
    /\ at[t] = "popBack"
    /\ last' = last - 1
    /\ deleted' = deleted + 1
    /\ Goto(t, "checkRead")
    /\ UNCHANGED <<first, reads, added, writes, writing, of, ends>>

\* Mutant of CheckRead: what is still to be written is not looked at.
CheckReadAlways(t) ==
    /\ at[t] = "checkRead"
    /\ Goto(t, "none")
    /\ posted' = posted + 1
    /\ UNCHANGED <<list, reads, counts, writes, writing, of, gone>>

CheckRead(t) ==
    /\ at[t] = "checkRead"
    /\ Goto(t, "none")
    /\ posted' = IF added = deleted THEN posted + 1 ELSE posted
    /\ UNCHANGED <<list, reads, counts, writes, writing, of, gone>>

-----------------------------------------------------------------------------
(* Answering them *)

\* The action ends with startWrite.
Action(t) ==
    /\ at[t] = "action"
    /\ writing' = writing \cup {of[t]}
    /\ Goto(t, "compare")
    /\ UNCHANGED <<list, reads, counts, writes, of, ends>>

\* Mutant of Compare: a response is written at once.
CompareNothing(t) ==
    /\ at[t] = "compare"
    /\ Goto(t, "write")
    /\ UNCHANGED <<list, reads, counts, writes, writing, of, ends>>

\* doWrite looks at the front of the list, which it does not lock.
Compare(t) ==
    /\ at[t] = "compare"
    /\ Goto(t, IF of[t] = first THEN "write" ELSE "count")
    /\ UNCHANGED <<list, reads, counts, writes, writing, of, ends>>

Count(t) ==
    /\ at[t] = "count"
    /\ unWritten' = unWritten + 1
    /\ Goto(t, "none")
    /\ UNCHANGED <<list, reads, counts, inFlight, written, writing, of, ends>>

\* doWriteImpl for resolver r, the front of the list.
HandOver(r) ==
    /\ written' = [written EXCEPT ![r] = @ + 1]
    /\ inFlight' = inFlight + 1

Write(t) ==
    /\ at[t] = "write"
    /\ HandOver(first)
    /\ Goto(t, "none")
    /\ UNCHANGED <<list, reads, counts, unWritten, writing, of, ends>>

\* A write completes, and doWriteFinished destroys the resolver at the front.
\* One that was written twice would parse its request again, see WrittenInOrder.
WriteFinished(t) ==
    /\ Idle(t) /\ inFlight > 0 /\ written[first] = 1
    /\ inFlight' = inFlight - 1
    /\ writing' = writing \ {first}
    /\ Goto(t, "pop")
    /\ UNCHANGED <<list, reads, counts, unWritten, written, of, ends>>

\* doWriteError.
WriteFailed(t) ==
    /\ Idle(t) /\ inFlight > 0 /\ written[first] = 1
    /\ inFlight' = inFlight - 1
    /\ Goto(t, "popFailed")
    /\ UNCHANGED <<list, reads, counts, unWritten, written, writing, of, ends>>

\* The response that waits behind the one that leaves the list is written.
WriteNext ==
    IF unWritten # 0 /\ first + 1 \in writing
    THEN /\ unWritten' = unWritten - 1
         /\ HandOver(first + 1)
    ELSE UNCHANGED writes

\* Mutant of Pop: the count of waiting responses is not reduced.
PopUnreduced(t) ==
    /\ at[t] = "pop"
    /\ first' = first + 1
    /\ deleted' = deleted + 1
    /\ IF unWritten # 0 /\ first + 1 \in writing
       THEN HandOver(first + 1) /\ UNCHANGED unWritten
       ELSE UNCHANGED writes
    /\ Goto(t, "check")
    /\ UNCHANGED <<last, reads, added, writing, of, ends>>

Pop(t) ==
    /\ at[t] = "pop"
    /\ first' = first + 1
    /\ deleted' = deleted + 1
    /\ WriteNext
    /\ Goto(t, "check")
    /\ UNCHANGED <<last, reads, added, writing, of, ends>>

\* Mutant of PopFailed: the responses behind the failed one are given up.
PopFailedOnly(t) ==
    /\ at[t] = "popFailed"
    /\ first' = first + 1
    /\ Goto(t, "check")
    /\ UNCHANGED <<last, reads, counts, writes, writing, of, ends>>

\* The resolver is not counted as deleted.
PopFailed(t) ==
    /\ at[t] = "popFailed"
    /\ first' = first + 1
    /\ WriteNext
    /\ Goto(t, "check")
    /\ UNCHANGED <<last, reads, counts, writing, of, ends>>

\* Mutant of Check: only a read error deletes the connection.
CheckNothing(t) ==
    /\ at[t] = "check"
    /\ Goto(t, "none")
    /\ UNCHANGED <<list, reads, counts, writes, writing, of, ends>>

Check(t) ==
    /\ at[t] = "check"
    /\ Goto(t, "none")
    /\ posted' = IF ~keepAlive /\ added = deleted THEN posted + 1 ELSE posted
    /\ UNCHANGED <<list, reads, counts, writes, writing, of, gone>>

\* The posted "delete this".
Destroy(t) ==
    /\ at[t] = "none" /\ posted > 0
    /\ posted' = posted - 1
    /\ gone' = gone + 1
    /\ UNCHANGED <<list, reads, counts, writes, writing, at, of>>

-----------------------------------------------------------------------------
\* The rest of the handler that thread t has begun.
Continue(t) ==
    \/ Action(t) \/ Compare(t) \/ Count(t) \/ Write(t)
    \/ Pop(t) \/ PopFailed(t) \/ Check(t)
    \/ PopBack(t) \/ CheckRead(t)

WriteEnds == \E t \in Threads : WriteFinished(t) \/ WriteFailed(t)
Destroyed == \E t \in Threads : Destroy(t)

Next ==
    \/ \E t \in Threads, b \in BOOLEAN : ReadHeaders(t, b) \/ ReadFinished(t, b)
    \/ \E t \in Threads : ReadFailed(t)
    \/ \E t \in Threads : Continue(t)
    \/ WriteEnds
    \/ Destroyed

Spec == Init /\ [][Next]_vars

\* Threads go on, a write ends at last because the client reads or the
\* connection breaks, and io_context runs what was posted.  Nothing makes the
\* client send.
Fairness ==
    /\ \A t \in Threads : WF_vars(Continue(t))
    /\ WF_vars(WriteEnds)
    /\ WF_vars(Destroyed)

FairSpec == Spec /\ Fairness

-----------------------------------------------------------------------------
(* Properties *)

Pending == {r \in first + 1 .. last : r \in writing}

\* Resolvers that were created and neither lie in the list nor were counted
\* when they were deleted: one for each failed write.
Forgotten == added - deleted - (last - first + 1)

\* However the client pipelines, its responses are handed to the socket one
\* at a time, in the order of the requests, and each at most once: doWrite and
\* doWriteFinished share this between them.
WrittenInOrder ==
    /\ inFlight <= 1
    /\ \A r \in Resolvers :
        /\ written[r] <= 1
        /\ written[r] = 1 => \A q \in 1 .. r : written[q] = 1

\* Between two handlers m_unWrittenCount is the number of responses that wait
\* behind the front, and the front is being written if it is ready: no
\* response is left without a write that will come to it.
Accounted ==
    (\A t \in Threads : at[t] = "none")
        => /\ unWritten = Cardinality(Pending)
           /\ inFlight = IF first <= last /\ first \in writing THEN 1 ELSE 0

\* The connection deletes itself once, and only when no read and no write is
\* outstanding and no resolver is left whose handler would use it.
DeletedSafely ==
    /\ posted + gone <= 1
    /\ posted + gone = 1 => /\ ~reading /\ inFlight = 0
                            /\ first > last
                            /\ \A t \in Threads : at[t] = "none"

\* Every request whose action has run is answered, although its response may
\* have to wait for earlier ones, some of which may fail.
EveryRequestAnswered ==
    \A r \in Resolvers : r \in writing ~> written[r] > 0

\* A connection that will read no more deletes itself, unless a write failed:
\* doWriteError forgets to count the resolver it deletes.
ConnectionEnds == ~reading ~> gone = 1 \/ Forgotten > 0
=============================================================================
