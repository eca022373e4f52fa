------------------------ MODULE TcpConnection_proofs ------------------------
(* What holds of a connection whose handlers all run in one thread,        *)
(* however many requests the client sends.                                 *)
EXTENDS TcpConnection, FiniteSetTheorems, TLAPS

\* The last resolver still waits for its request.
Unread(t) == reading \/ at[t] = "popBack"

\* The last resolver whose request was read.
Done(t) == IF Unread(t) THEN last - 1 ELSE last

\* The responses of the resolvers up to d were given to doWrite: the front is
\* being written and the others are counted.
Given(d) ==
    /\ first <= d + 1
    /\ inFlight = IF first <= d THEN 1 ELSE 0
    /\ unWritten = IF first <= d THEN d - first ELSE 0
    /\ \A r \in Resolvers :
        written[r] = IF r <= d /\ r <= first THEN 1 ELSE 0

\* Of the resolvers from f on, those up to d are ready to be written.
Ready(f, d) == \A r \in Resolvers : r >= f => (r \in writing <=> r <= d)

\* The write of the front has ended.
Popping(t) ==
    /\ first <= Done(t)
    /\ inFlight = 0
    /\ unWritten = Done(t) - first
    /\ \A r \in Resolvers : written[r] = IF r <= first THEN 1 ELSE 0
    /\ Ready(first + 1, Done(t))

Basic ==
    /\ first \in Int /\ last \in Int /\ first >= 1
    /\ last <= MaxRequests + 1
    /\ reading \in BOOLEAN /\ headers \in BOOLEAN /\ keepAlive \in BOOLEAN
    /\ added \in Int /\ deleted \in Int
    /\ unWritten \in Int /\ inFlight \in Int
    /\ writing \subseteq Resolvers
    /\ written \in [Resolvers -> Int]
    /\ at \in [Threads -> Places]
    /\ of \in [Threads -> Resolvers]
    /\ posted \in Int /\ gone \in Int /\ posted >= 0 /\ gone >= 0

Counted(t) ==
    /\ Unread(t) => last >= 1
    /\ last >= 0
    /\ reading => added = last
    /\ added >= 1 /\ added <= MaxRequests + 1
    /\ deleted >= 0
    /\ Forgotten >= 0

InHandler(t) ==
    /\ at[t] \in {"none", "check", "popBack", "checkRead"} =>
        Given(Done(t)) /\ Ready(first, Done(t))
    /\ at[t] \in {"action", "compare", "count", "write"} =>
        of[t] = Done(t) /\ Given(Done(t) - 1)
    /\ at[t] = "action" => Ready(first, Done(t) - 1)
    /\ at[t] \in {"compare", "count", "write"} => Ready(first, Done(t))
    /\ at[t] = "count" => first < Done(t)
    /\ at[t] = "write" => first = Done(t)
    /\ at[t] \in {"pop", "popFailed"} => Popping(t)
    /\ at[t] \in {"popBack", "checkRead"} => ~reading

Deleting(t) ==
    /\ posted + gone <= 1
    /\ posted + gone = 1 => /\ ~reading /\ inFlight = 0
                            /\ first > last
                            /\ at[t] = "none"

IInv(t) == Basic /\ Counted(t) /\ InHandler(t) /\ Deleting(t)

-----------------------------------------------------------------------------
LEMMA InitInv ==
    ASSUME NEW t, Threads = {t}, Init
    PROVE  IInv(t)
<1>1. Basic
  <2>1. 1 \in Resolvers BY ConnectionAssumption DEF Resolvers
  <2>2. /\ at \in [Threads -> Places] /\ of \in [Threads -> Resolvers]
        /\ written \in [Resolvers -> Int]
    BY <2>1 DEF Init, Places
  <2>3. first = 1 /\ last = 1 /\ added = 1 /\ 1 <= MaxRequests + 1
    BY ConnectionAssumption DEF Init
  <2>4. reading \in BOOLEAN /\ headers \in BOOLEAN /\ keepAlive \in BOOLEAN
    BY DEF Init
  <2>5. /\ deleted = 0 /\ unWritten = 0 /\ inFlight = 0 /\ posted = 0
        /\ gone = 0 /\ writing \subseteq Resolvers
    BY DEF Init
  <2> QED BY <2>2, <2>3, <2>4, <2>5 DEF Basic
<1>2. Counted(t) /\ Deleting(t)
  BY ConnectionAssumption DEF Init, Counted, Unread, Forgotten, Deleting
<1>3. InHandler(t)
  BY ConnectionAssumption
  DEF Init, InHandler, Done, Unread, Given, Ready, Resolvers
<1> QED BY <1>1, <1>2, <1>3 DEF IInv

\* The steps of reading.
LEMMA ReadingInv ==
    ASSUME NEW t, Threads = {t}, IInv(t), NEW b \in BOOLEAN,
           ReadHeaders(t, b) \/ ReadFinished(t, b) \/ ReadFailed(t)
    PROVE  IInv(t)'
<1> USE ConnectionAssumption
<1>1. CASE ReadHeaders(t, b)
  <2>1. Basic'
    BY <1>1 DEF IInv, Basic, ReadHeaders, list, reads, counts, writes, ends
  <2>2. Counted(t)' /\ Deleting(t)' /\ InHandler(t)'
    BY <1>1 DEF IInv, ReadHeaders, list, counts, writes, ends,
       Counted, Unread, Forgotten, Deleting, InHandler, Done, Given, Ready,
       Popping
  <2> QED BY <2>1, <2>2 DEF IInv
<1>2. CASE ReadFinished(t, b)
  <2>1. /\ at' = [at EXCEPT ![t] = "action"]
        /\ of' = [of EXCEPT ![t] = last]
        /\ first' = first /\ deleted' = deleted /\ writing' = writing
        /\ unWritten' = unWritten /\ inFlight' = inFlight
        /\ written' = written /\ posted' = posted /\ gone' = gone
        /\ keepAlive' \in BOOLEAN
        /\ at[t] = "none" /\ reading /\ last <= MaxRequests
        /\ \/ last' = last + 1 /\ added' = added + 1 /\ reading'
           \/ last' = last /\ added' = added /\ ~reading'
        /\ reading' \in BOOLEAN /\ headers' \in BOOLEAN
    BY <1>2 DEF ReadFinished, Idle, Goto, Sent, writes, ends, IInv, Basic
  <2>2. /\ t \in Threads /\ at \in [Threads -> Places]
        /\ of \in [Threads -> Resolvers] /\ last \in Int
        /\ last >= 1
    BY <2>1 DEF IInv, Basic, Counted, Unread
  <2>3. at'[t] = "action" /\ of'[t] = last
    BY <2>1, <2>2
  <2>4. Basic'
    <3>1. last \in Resolvers BY <2>1, <2>2 DEF Resolvers
    <3>2. at' \in [Threads -> Places] BY <2>1, <2>2 DEF Places
    <3>3. of' \in [Threads -> Resolvers] BY <2>1, <2>2, <3>1
    <3> QED BY <2>1, <3>2, <3>3 DEF IInv, Basic
  <2>5. Counted(t)'
    BY <2>1, <2>3 DEF IInv, Basic, Counted, Unread, Forgotten
  <2>6. Done(t) = last - 1 /\ Done(t)' = last
    BY <2>1, <2>2, <2>3 DEF Done, Unread, IInv, Basic
  <2>7. Given(last - 1) /\ Ready(first, last - 1)
    BY <2>1, <2>6 DEF IInv, InHandler
  <2>8. InHandler(t)'
    BY <2>1, <2>2, <2>3, <2>6, <2>7 DEF InHandler, Given, Ready
  <2>9. Deleting(t)'
    BY <2>1 DEF Deleting, IInv, Basic
  <2> QED BY <2>4, <2>5, <2>8, <2>9 DEF IInv
<1>3. CASE ReadFailed(t)
  <2>1. /\ at' = [at EXCEPT ![t] = "popBack"] /\ at[t] = "none" /\ reading
        /\ reading' = FALSE /\ keepAlive' = FALSE /\ headers' = headers
        /\ first' = first /\ last' = last /\ of' = of
        /\ added' = added /\ deleted' = deleted /\ writing' = writing
        /\ unWritten' = unWritten /\ inFlight' = inFlight
        /\ written' = written /\ posted' = posted /\ gone' = gone
    BY <1>3 DEF ReadFailed, Idle, Goto, list, counts, writes, ends
  <2>2. at'[t] = "popBack" /\ at' \in [Threads -> Places]
    BY <2>1 DEF IInv, Basic, Places
  <2>3. Basic'
    BY <2>1, <2>2 DEF IInv, Basic
  <2>4. Counted(t)' /\ Deleting(t)' /\ Done(t)' = Done(t)
    BY <2>1, <2>2 DEF IInv, Basic, Counted, Unread, Forgotten, Deleting, Done
  <2>5. Given(Done(t)) /\ Ready(first, Done(t))
    BY <2>1 DEF IInv, InHandler
  <2>6. InHandler(t)'
    BY <2>1, <2>2, <2>4, <2>5 DEF InHandler, Given, Ready
  <2> QED BY <2>3, <2>4, <2>6 DEF IInv
<1> QED BY <1>1, <1>2, <1>3

\* The end of reading: the resolver that got no request leaves the list.
LEMMA LeavingInv ==
    ASSUME NEW t, Threads = {t}, IInv(t), PopBack(t) \/ CheckRead(t)
    PROVE  IInv(t)'
<1> USE ConnectionAssumption
<1>1. CASE PopBack(t)
  <2>1. /\ at' = [at EXCEPT ![t] = "checkRead"] /\ at[t] = "popBack"
        /\ last' = last - 1 /\ deleted' = deleted + 1
        /\ reading' = reading /\ keepAlive' = keepAlive /\ headers' = headers
        /\ first' = first /\ of' = of /\ added' = added
        /\ writing' = writing /\ unWritten' = unWritten
        /\ inFlight' = inFlight /\ written' = written
        /\ posted' = posted /\ gone' = gone
    BY <1>1 DEF PopBack, Goto, reads, writes, ends
  <2>2. at'[t] = "checkRead" /\ at' \in [Threads -> Places]
    BY <2>1 DEF IInv, Basic, Places
  <2>3. ~reading /\ last >= 1
    BY <2>1 DEF IInv, InHandler, Counted, Unread
  <2>4. Basic'
    BY <2>1, <2>2 DEF IInv, Basic
  <2>5. Counted(t)' /\ Deleting(t)' /\ Done(t)' = Done(t)
    BY <2>1, <2>2, <2>3
    DEF IInv, Basic, Counted, Unread, Forgotten, Deleting, Done
  <2>6. Given(Done(t)) /\ Ready(first, Done(t))
    BY <2>1 DEF IInv, InHandler
  <2>7. InHandler(t)'
    BY <2>1, <2>2, <2>3, <2>5, <2>6 DEF InHandler, Given, Ready
  <2> QED BY <2>4, <2>5, <2>7 DEF IInv
<1>2. CASE CheckRead(t)
  <2>1. /\ at' = [at EXCEPT ![t] = "none"] /\ at[t] = "checkRead"
        /\ last' = last /\ deleted' = deleted
        /\ reading' = reading /\ keepAlive' = keepAlive /\ headers' = headers
        /\ first' = first /\ of' = of /\ added' = added
        /\ writing' = writing /\ unWritten' = unWritten
        /\ inFlight' = inFlight /\ written' = written /\ gone' = gone
        /\ posted' = IF added = deleted THEN posted + 1 ELSE posted
    BY <1>2 DEF CheckRead, Goto, list, counts, reads, writes
  <2>2. at'[t] = "none" /\ at' \in [Threads -> Places]
    BY <2>1 DEF IInv, Basic, Places
  <2>3. ~reading /\ posted + gone = 0
    BY <2>1 DEF IInv, InHandler, Deleting, Basic
  <2>4. Basic'
    BY <2>1, <2>2 DEF IInv, Basic
  <2>5. Counted(t)' /\ Done(t) = last /\ Done(t)' = last
    BY <2>1, <2>2, <2>3 DEF IInv, Basic, Counted, Unread, Forgotten, Done
  <2>6. Given(last) /\ Ready(first, last)
    BY <2>1, <2>5 DEF IInv, InHandler
  <2>7. InHandler(t)'
    BY <2>1, <2>2, <2>5, <2>6 DEF InHandler, Given, Ready
  <2>8. added = deleted => first > last
    BY DEF IInv, Counted, Forgotten, Basic
  <2>9. Deleting(t)'
    BY <2>1, <2>2, <2>3, <2>6, <2>8 DEF Deleting, IInv, Basic, Given
  <2> QED BY <2>4, <2>5, <2>7, <2>9 DEF IInv
<1> QED BY <1>1, <1>2

\* The steps of answering a request.
LEMMA AnsweringInv ==
    ASSUME NEW t, Threads = {t}, IInv(t),
           Action(t) \/ Compare(t) \/ Count(t) \/ Write(t)
    PROVE  IInv(t)'
<1> USE ConnectionAssumption
<1> DEFINE Same == /\ last' = last /\ deleted' = deleted /\ added' = added
                   /\ reading' = reading /\ keepAlive' = keepAlive
                   /\ headers' = headers /\ first' = first /\ of' = of
                   /\ posted' = posted /\ gone' = gone
<1>0. t \in Threads /\ at \in [Threads -> Places] /\ of[t] \in Resolvers
  BY DEF IInv, Basic
<1>1. CASE Action(t)
  <2>1. /\ at' = [at EXCEPT ![t] = "compare"] /\ at[t] = "action" /\ Same
        /\ writing' = writing \cup {of[t]} /\ unWritten' = unWritten
        /\ inFlight' = inFlight /\ written' = written
    BY <1>1 DEF Action, Goto, list, counts, reads, writes, ends
  <2>2. at'[t] = "compare" /\ at' \in [Threads -> Places]
    BY <2>1, <1>0 DEF Places
  <2>3. Basic'
    BY <2>1, <2>2, <1>0 DEF IInv, Basic
  <2>4. Counted(t)' /\ Deleting(t)' /\ Done(t)' = Done(t)
    BY <2>1, <2>2 DEF IInv, Basic, Counted, Unread, Forgotten, Deleting, Done
  <2>5. of[t] = Done(t) /\ Given(Done(t) - 1) /\ Ready(first, Done(t) - 1)
    BY <2>1 DEF IInv, InHandler
  <2>6. Done(t) \in Int
    BY DEF Done, IInv, Basic
  <2>7. Ready(first, Done(t))'
    BY <2>1, <2>4, <2>5, <2>6 DEF Ready, Resolvers
  <2>8. Given(Done(t) - 1)'
    BY <2>1, <2>4, <2>5 DEF Given
  <2>9. InHandler(t)'
    BY <2>1, <2>2, <2>4, <2>5, <2>7, <2>8 DEF InHandler
  <2> QED BY <2>3, <2>4, <2>9 DEF IInv
<1>2. CASE Compare(t)
  <2>1. /\ at' = [at EXCEPT ![t] = IF of[t] = first THEN "write" ELSE "count"]
        /\ at[t] = "compare" /\ Same
        /\ writing' = writing /\ unWritten' = unWritten
        /\ inFlight' = inFlight /\ written' = written
    BY <1>2 DEF Compare, Goto, list, counts, reads, writes, ends
  <2>2. /\ at'[t] = IF of[t] = first THEN "write" ELSE "count"
        /\ at' \in [Threads -> Places]
    BY <2>1, <1>0 DEF Places
  <2>3. Basic'
    BY <2>1, <2>2 DEF IInv, Basic
  <2>4. Counted(t)' /\ Deleting(t)' /\ Done(t)' = Done(t)
    BY <2>1, <2>2 DEF IInv, Basic, Counted, Unread, Forgotten, Deleting, Done
  <2>5. of[t] = Done(t) /\ Given(Done(t) - 1) /\ Ready(first, Done(t))
    BY <2>1 DEF IInv, InHandler
  <2>6. Done(t) \in Int /\ first \in Int /\ first <= Done(t)
    BY <2>5 DEF Done, IInv, Basic, Given
  <2>7. Ready(first, Done(t))' /\ Given(Done(t) - 1)'
    BY <2>1, <2>4, <2>5 DEF Ready, Given
  <2>8. InHandler(t)'
    BY <2>1, <2>2, <2>4, <2>5, <2>6, <2>7 DEF InHandler
  <2> QED BY <2>3, <2>4, <2>8 DEF IInv
<1>3. CASE Count(t)
  <2>1. /\ at' = [at EXCEPT ![t] = "none"] /\ at[t] = "count" /\ Same
        /\ writing' = writing /\ unWritten' = unWritten + 1
        /\ inFlight' = inFlight /\ written' = written
    BY <1>3 DEF Count, Goto, list, counts, reads, ends
  <2>2. at'[t] = "none" /\ at' \in [Threads -> Places]
    BY <2>1, <1>0 DEF Places
  <2>3. Basic'
    BY <2>1, <2>2 DEF IInv, Basic
  <2>4. Counted(t)' /\ Deleting(t)' /\ Done(t)' = Done(t)
    BY <2>1, <2>2 DEF IInv, Basic, Counted, Unread, Forgotten, Deleting, Done
  <2>5. first < Done(t) /\ Given(Done(t) - 1) /\ Ready(first, Done(t))
    BY <2>1 DEF IInv, InHandler
  <2>6. Done(t) \in Int /\ first \in Int
    BY DEF Done, IInv, Basic
  <2>7. Ready(first, Done(t))' /\ Given(Done(t))'
    BY <2>1, <2>4, <2>5, <2>6 DEF Ready, Given, Resolvers
  <2>8. InHandler(t)'
    BY <2>2, <2>7 DEF InHandler
  <2> QED BY <2>3, <2>4, <2>8 DEF IInv
<1>4. CASE Write(t)
  <2>1. /\ at' = [at EXCEPT ![t] = "none"] /\ at[t] = "write" /\ Same
        /\ writing' = writing /\ unWritten' = unWritten
        /\ inFlight' = inFlight + 1
        /\ written' = [written EXCEPT ![first] = @ + 1]
    BY <1>4 DEF Write, HandOver, Goto, list, counts, reads, ends
  <2>2. at'[t] = "none" /\ at' \in [Threads -> Places]
    BY <2>1, <1>0 DEF Places
  <2>3. /\ of[t] = Done(t) /\ first = Done(t)
        /\ Given(Done(t) - 1) /\ Ready(first, Done(t))
    BY <2>1 DEF IInv, InHandler
  <2>4. Basic'
    <3>1. first \in Resolvers /\ written[first] + 1 \in Int
      BY <2>3, <1>0 DEF IInv, Basic
    <3>2. written' \in [Resolvers -> Int]
      BY <2>1, <3>1 DEF IInv, Basic
    <3> QED BY <2>1, <2>2, <3>2 DEF IInv, Basic
  <2>5. Counted(t)' /\ Deleting(t)' /\ Done(t)' = Done(t)
    BY <2>1, <2>2 DEF IInv, Basic, Counted, Unread, Forgotten, Deleting, Done
  <2>6. first \in Resolvers /\ written \in [Resolvers -> Int]
    BY <2>3, <1>0 DEF IInv, Basic
  <2>7. Ready(first, Done(t))' /\ Given(Done(t))'
    BY <2>1, <2>3, <2>5, <2>6 DEF Ready, Given, Resolvers
  <2>8. InHandler(t)'
    BY <2>2, <2>7 DEF InHandler
  <2> QED BY <2>4, <2>5, <2>8 DEF IInv
<1> QED BY <1>1, <1>2, <1>3, <1>4

\* A write begins to be finished.
LEMMA WriteEndsInv ==
    ASSUME NEW t, Threads = {t}, IInv(t), WriteFinished(t) \/ WriteFailed(t)
    PROVE  IInv(t)'
<1> USE ConnectionAssumption
<1>1. /\ at[t] = "none" /\ inFlight > 0 /\ gone = 0
      /\ last' = last /\ deleted' = deleted /\ added' = added
      /\ reading' = reading /\ keepAlive' = keepAlive
      /\ headers' = headers /\ first' = first /\ of' = of
      /\ posted' = posted /\ gone' = gone
      /\ unWritten' = unWritten /\ written' = written
      /\ inFlight' = inFlight - 1
      /\ writing' = writing \/ writing' = writing \ {first}
  BY DEF WriteFinished, WriteFailed, Idle, list, counts, reads, ends
<1>2. \E place \in {"pop", "popFailed"} : at' = [at EXCEPT ![t] = place]
  BY DEF WriteFinished, WriteFailed, Goto
<1>3. at'[t] \in {"pop", "popFailed"} /\ at' \in [Threads -> Places]
  BY <1>2 DEF IInv, Basic, Places
<1>4. Basic'
  BY <1>1, <1>3 DEF IInv, Basic
<1>5. Counted(t)' /\ Deleting(t)' /\ Done(t)' = Done(t)
  BY <1>1, <1>3 DEF IInv, Basic, Counted, Unread, Forgotten, Deleting, Done
<1>6. Given(Done(t)) /\ Ready(first, Done(t))
  BY <1>1 DEF IInv, InHandler
<1>7. Done(t) \in Int /\ first \in Int /\ inFlight \in Int
  BY DEF Done, IInv, Basic
<1>8. Popping(t)'
  <2>1. first <= Done(t) /\ inFlight = 1 /\ unWritten = Done(t) - first
    BY <1>1, <1>6, <1>7 DEF Given
  <2>2. \A r \in Resolvers : written[r] = IF r <= first THEN 1 ELSE 0
    BY <1>6, <1>7, <2>1 DEF Given, Resolvers
  <2>3. Ready(first + 1, Done(t))'
    BY <1>1, <1>5, <1>6, <1>7 DEF Ready, Resolvers
  <2> QED BY <1>1, <1>5, <2>1, <2>2, <2>3 DEF Popping, Ready
<1>9. InHandler(t)'
  BY <1>3, <1>8 DEF InHandler
<1> QED BY <1>4, <1>5, <1>9 DEF IInv

\* The front leaves the list and the next response is written.
LEMMA PoppingInv ==
    ASSUME NEW t, Threads = {t}, IInv(t), Pop(t) \/ PopFailed(t)
    PROVE  IInv(t)'
<1> USE ConnectionAssumption
<1>1. /\ at[t] \in {"pop", "popFailed"} /\ at' = [at EXCEPT ![t] = "check"]
      /\ last' = last /\ added' = added /\ reading' = reading
      /\ keepAlive' = keepAlive /\ headers' = headers /\ of' = of
      /\ posted' = posted /\ gone' = gone /\ writing' = writing
      /\ first' = first + 1
      /\ deleted' = deleted + 1 \/ deleted' = deleted
      /\ WriteNext
  BY DEF Pop, PopFailed, Goto, list, counts, reads, ends
<1>2. at'[t] = "check" /\ at' \in [Threads -> Places]
  BY <1>1 DEF IInv, Basic, Places
<1>3. Popping(t)
  BY <1>1 DEF IInv, InHandler
<1>4. /\ Done(t) \in Int /\ first \in Int /\ last \in Int /\ first >= 1
      /\ Done(t) <= last /\ last <= MaxRequests + 1
      /\ written \in [Resolvers -> Int] /\ writing \subseteq Resolvers
      /\ unWritten \in Int /\ inFlight \in Int
  BY DEF Done, IInv, Basic
<1>5. Done(t)' = Done(t)
  BY <1>1, <1>2 DEF Done, Unread
<1>6. Given(Done(t))' /\ written' \in [Resolvers -> Int]
      /\ unWritten' \in Int /\ inFlight' \in Int
  <2>1. CASE unWritten # 0
    <3>1. first + 1 \in Resolvers /\ first + 1 <= Done(t)
      BY <1>3, <1>4, <2>1 DEF Popping, Resolvers
    <3>2. first + 1 \in writing
      BY <1>3, <1>4, <3>1 DEF Popping, Ready
    <3>3. /\ unWritten' = unWritten - 1 /\ inFlight' = inFlight + 1
          /\ written' = [written EXCEPT ![first + 1] = @ + 1]
      BY <1>1, <2>1, <3>2 DEF WriteNext, HandOver
    <3>4. written' \in [Resolvers -> Int]
      <4>1. written[first + 1] + 1 \in Int BY <1>4, <3>1
      <4> QED BY <1>4, <3>1, <3>3, <4>1
    <3>5. Given(Done(t))'
      <4>1. /\ first' <= Done(t)' /\ inFlight' = 1
            /\ unWritten' = Done(t)' - first'
        BY <1>1, <1>3, <1>4, <1>5, <3>1, <3>3 DEF Popping
      <4>2. \A r \in Resolvers : written'[r] = IF r <= first + 1 THEN 1 ELSE 0
        BY <1>3, <1>4, <3>1, <3>3 DEF Popping, Resolvers
      <4> QED
        BY <1>1, <1>4, <1>5, <3>1, <4>1, <4>2 DEF Given, Resolvers
    <3> QED BY <1>4, <3>3, <3>4, <3>5
  <2>2. CASE unWritten = 0
    <3>1. unWritten' = unWritten /\ inFlight' = inFlight /\ written' = written
      BY <1>1, <2>2 DEF WriteNext, writes
    <3>2. first = Done(t)
      BY <1>3, <1>4, <2>2 DEF Popping
    <3>3. Given(Done(t))'
      BY <1>1, <1>3, <1>4, <1>5, <2>2, <3>1, <3>2 DEF Given, Popping, Resolvers
    <3> QED BY <1>4, <3>1, <3>3
  <2> QED BY <1>4, <2>1, <2>2
<1>7. Ready(first, Done(t))'
  BY <1>1, <1>3, <1>4, <1>5 DEF Popping, Ready, Resolvers
<1>8. InHandler(t)'
  BY <1>2, <1>6, <1>7 DEF InHandler
<1>9. Basic'
  BY <1>1, <1>2, <1>6 DEF IInv, Basic
<1>10. Counted(t)'
  BY <1>1, <1>2 DEF IInv, Basic, Counted, Unread, Forgotten
<1>11. Deleting(t)'
  BY <1>1, <1>2 DEF IInv, Deleting, Basic
<1> QED BY <1>8, <1>9, <1>10, <1>11 DEF IInv

\* After a write, and the end of the connection.
LEMMA EndingInv ==
    ASSUME NEW t, Threads = {t}, IInv(t), Check(t) \/ Destroy(t)
    PROVE  IInv(t)'
<1> USE ConnectionAssumption
<1>1. CASE Check(t)
  <2>1. /\ at' = [at EXCEPT ![t] = "none"] /\ at[t] = "check"
        /\ last' = last /\ deleted' = deleted
        /\ reading' = reading /\ keepAlive' = keepAlive /\ headers' = headers
        /\ first' = first /\ of' = of /\ added' = added
        /\ writing' = writing /\ unWritten' = unWritten
        /\ inFlight' = inFlight /\ written' = written /\ gone' = gone
        /\ \/ posted' = posted
           \/ added = deleted /\ posted' = posted + 1
    BY <1>1 DEF Check, Goto, list, counts, reads, writes
  <2>2. at'[t] = "none" /\ at' \in [Threads -> Places]
    BY <2>1 DEF IInv, Basic, Places
  <2>3. posted + gone = 0
    BY <2>1 DEF IInv, Deleting, Basic
  <2>4. Basic'
    BY <2>1, <2>2 DEF IInv, Basic
  <2>5. Counted(t)' /\ Done(t)' = Done(t)
    BY <2>1, <2>2 DEF IInv, Basic, Counted, Unread, Forgotten, Done
  <2>6. Given(Done(t)) /\ Ready(first, Done(t))
    BY <2>1 DEF IInv, InHandler
  <2>7. InHandler(t)'
    BY <2>1, <2>2, <2>5, <2>6 DEF InHandler, Given, Ready
  <2>8. added = deleted => first > last
    BY DEF IInv, Counted, Forgotten, Basic
  <2>9. first > last => ~reading /\ inFlight = 0
    BY <2>6 DEF Given, Done, Unread, IInv, Basic
  <2>10. Deleting(t)'
    BY <2>1, <2>2, <2>3, <2>8, <2>9 DEF Deleting, IInv, Basic
  <2> QED BY <2>4, <2>5, <2>7, <2>10 DEF IInv
<1>2. CASE Destroy(t)
  <2>1. /\ at' = at /\ posted > 0
        /\ last' = last /\ deleted' = deleted
        /\ reading' = reading /\ keepAlive' = keepAlive /\ headers' = headers
        /\ first' = first /\ of' = of /\ added' = added
        /\ writing' = writing /\ unWritten' = unWritten
        /\ inFlight' = inFlight /\ written' = written
        /\ posted' = posted - 1 /\ gone' = gone + 1
    BY <1>2 DEF Destroy, list, counts, reads, writes
  <2>2. Basic' /\ Counted(t)' /\ Deleting(t)'
    BY <2>1 DEF IInv, Basic, Counted, Unread, Forgotten, Deleting
  <2>3. InHandler(t)'
    BY <2>1 DEF IInv, InHandler, Done, Unread, Given, Ready, Popping
  <2> QED BY <2>2, <2>3 DEF IInv
<1> QED BY <1>1, <1>2

LEMMA StepInv ==
    ASSUME NEW t, Threads = {t}, IInv(t), [Next]_vars
    PROVE  IInv(t)'
<1>1. CASE \E b \in BOOLEAN : ReadHeaders(t, b) \/ ReadFinished(t, b)
  BY <1>1, ReadingInv
<1>2. CASE ReadFailed(t)
  BY <1>2, ReadingInv
<1>3. CASE Continue(t)
  BY <1>3, LeavingInv, AnsweringInv, PoppingInv, EndingInv DEF Continue
<1>4. CASE WriteEnds
  BY <1>4, WriteEndsInv DEF WriteEnds
<1>5. CASE Destroyed
  BY <1>5, EndingInv DEF Destroyed
<1>6. CASE UNCHANGED vars
  BY <1>6 DEF vars, list, reads, counts, writes, ends, IInv, Basic, Counted,
     Unread, Forgotten, Deleting, InHandler, Done, Given, Ready, Popping
<1> QED BY <1>1, <1>2, <1>3, <1>4, <1>5, <1>6 DEF Next

THEOREM Invariance ==
    ASSUME NEW t, Threads = {t}
    PROVE  Spec => []IInv(t)
<1>1. Init => IInv(t) BY InitInv
<1>2. IInv(t) /\ [Next]_vars => IInv(t)' BY StepInv
<1> QED BY <1>1, <1>2, PTL DEF Spec

-----------------------------------------------------------------------------
\* The counters stay within their bounds: at most one write is outstanding,
\* and no more resolvers are deleted than were created.
THEOREM TypeCorrect ==
    ASSUME NEW t, Threads = {t}
    PROVE  Spec => []TypeOK
<1>1. ASSUME IInv(t) PROVE TypeOK
  <2> USE ConnectionAssumption
  <2>1. /\ first \in Int /\ last \in Int /\ first >= 1 /\ last >= 0
        /\ last <= MaxRequests + 1 /\ inFlight \in Int /\ unWritten \in Int
        /\ Done(t) \in Int /\ Done(t) <= last
    BY <1>1 DEF IInv, Basic, Counted, Done
  <2>2. /\ first <= Done(t) + 1 /\ inFlight \in 0 .. 1
        /\ unWritten \in 0 .. MaxRequests
        /\ \A r \in Resolvers : written[r] \in 0 .. 1
    <3>1. CASE at[t] \in {"none", "check", "popBack", "checkRead"}
      BY <1>1, <2>1, <3>1 DEF IInv, InHandler, Given
    <3>2. CASE at[t] \in {"action", "compare", "count", "write"}
      BY <1>1, <2>1, <3>2 DEF IInv, InHandler, Given
    <3>3. CASE at[t] \in {"pop", "popFailed"}
      BY <1>1, <2>1, <3>3 DEF IInv, InHandler, Popping
    <3>4. at[t] \in Places
      BY <1>1 DEF IInv, Basic
    <3> QED BY <3>1, <3>2, <3>3, <3>4 DEF Places
  <2>3. /\ first \in 1 .. MaxRequests + 2 /\ last \in 0 .. MaxRequests + 1
        /\ added \in Resolvers /\ deleted \in 0 .. added
        /\ posted \in 0 .. 1 /\ gone \in 0 .. 1
    <3>1. added \in Resolvers
      BY <1>1 DEF IInv, Basic, Counted, Resolvers
    <3>2. deleted \in 0 .. added
      BY <1>1, <2>1, <2>2 DEF IInv, Basic, Counted, Forgotten
    <3>3. posted \in 0 .. 1 /\ gone \in 0 .. 1
      BY <1>1 DEF IInv, Basic, Deleting
    <3> QED BY <2>1, <2>2, <3>1, <3>2, <3>3
  <2>4. written \in [Resolvers -> 0 .. 1]
    BY <1>1, <2>2 DEF IInv, Basic
  <2> QED BY <1>1, <2>2, <2>3, <2>4 DEF TypeOK, IInv, Basic
<1> QED BY <1>1, Invariance, PTL

\* Responses are handed to the socket in the order of the requests, one at a
\* time and once each, when one thread runs the handlers.
THEOREM InOrder ==
    ASSUME NEW t, Threads = {t}
    PROVE  Spec => []WrittenInOrder
<1>1. ASSUME IInv(t) PROVE WrittenInOrder
  <2> USE ConnectionAssumption
  <2>1. first \in Int /\ Done(t) \in Int
    BY <1>1 DEF IInv, Basic, Done
  <2>2. CASE at[t] \in {"none", "check", "popBack", "checkRead"}
    BY <1>1, <2>1, <2>2 DEF IInv, InHandler, Given, WrittenInOrder, Resolvers
  <2>3. CASE at[t] \in {"action", "compare", "count", "write"}
    BY <1>1, <2>1, <2>3 DEF IInv, InHandler, Given, WrittenInOrder, Resolvers
  <2>4. CASE at[t] \in {"pop", "popFailed"}
    BY <1>1, <2>1, <2>4 DEF IInv, InHandler, Popping, WrittenInOrder, Resolvers
  <2>5. at[t] \in Places
    BY <1>1 DEF IInv, Basic
  <2> QED BY <2>2, <2>3, <2>4, <2>5 DEF Places
<1> QED BY <1>1, Invariance, PTL

\* m_unWrittenCount counts exactly the responses that wait for the front.
THEOREM WaitingCounted ==
    ASSUME NEW t, Threads = {t}
    PROVE  Spec => []Accounted
<1>1. ASSUME IInv(t) PROVE Accounted
  <2> USE ConnectionAssumption
  <2> SUFFICES ASSUME at[t] = "none"
               PROVE  /\ unWritten = Cardinality(Pending)
                      /\ inFlight = IF first <= last /\ first \in writing
                                    THEN 1 ELSE 0
    BY DEF Accounted
  <2>1. Given(Done(t)) /\ Ready(first, Done(t))
    BY <1>1 DEF IInv, InHandler
  <2>2. /\ first \in Int /\ last \in Int /\ Done(t) \in Int /\ first >= 1
        /\ Done(t) <= last /\ last <= Done(t) + 1 /\ last <= MaxRequests + 1
        /\ unWritten \in Int
    BY <1>1 DEF IInv, Basic, Done
  <2>3. Pending = first + 1 .. Done(t)
    BY <2>1, <2>2 DEF Pending, Ready, Resolvers
  <2>4. Cardinality(Pending) =
            IF first + 1 > Done(t) THEN 0 ELSE Done(t) - (first + 1) + 1
    <3>1. first + 1 \in Int BY <2>2
    <3> QED BY <2>2, <2>3, <3>1, FS_Interval
  <2>5. unWritten = Cardinality(Pending)
    BY <2>1, <2>2, <2>4 DEF Given
  <2>6. first <= last => (first \in writing <=> first <= Done(t))
    BY <2>1, <2>2 DEF Ready, Resolvers
  <2> QED BY <2>1, <2>2, <2>5, <2>6 DEF Given
<1> QED BY <1>1, Invariance, PTL

\* A connection is deleted once, and nothing is outstanding then.
THEOREM SafeDeletion ==
    ASSUME NEW t, Threads = {t}
    PROVE  Spec => []DeletedSafely
<1>1. ASSUME IInv(t) PROVE DeletedSafely
  BY <1>1 DEF IInv, Deleting, DeletedSafely
<1> QED BY <1>1, Invariance, PTL
=============================================================================
