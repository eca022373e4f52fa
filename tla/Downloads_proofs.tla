-------------------------- MODULE Downloads_proofs --------------------------
(* What is recorded of a download lies in the store as a whole, for any      *)
(* projects, sources and versions, as long as one project is built at a time *)
(* (Concurrent = FALSE): see RecordsAreWhole.                                *)
EXTENDS Downloads, TLAPS

\* No two runs are on their way.
Alone ==
    \A p, q \in Projects : run[p].at \notin Ended /\ run[q].at \notin Ended => p = q

\* What a run has in hand and has done at each of its steps.
Unpacking(p) ==
    run[p].at \in {"replace", "removing", "create", "copying", "register", "add"}
        => Source(p) \notin Git /\ run[p].hand \in Versions
Marking(p) ==
    run[p].at = "mark" /\ Source(p) \notin Git => run[p].hand \in Versions
Copying(p) ==
    run[p].at = "copying"
        => Dest(p) \in exists /\ files[Dest(p)] \cup run[p].todo = Entries
Cloning(p) ==
    run[p].at = "cloning"
        => /\ Source(p) \in Git
           /\ Text[p] \in exists /\ files[Text[p]] = {"sources"}
           /\ run[p].todo = {"package.json"}
           /\ Text[p] \in torn \/ ~Recorded(Text[p])
Unpacked(p) ==
    (run[p].at \in {"register", "add"} \/ (run[p].at = "mark" /\ Source(p) \notin Git))
        => files[Dest(p)] = Entries
CheckingOut(p) == run[p].at = "checkout" => Source(p) \in Git
Control(p) ==
    /\ Unpacking(p) /\ Marking(p) /\ Copying(p)
    /\ Cloning(p) /\ CheckingOut(p) /\ Unpacked(p)

\* A directory nobody is writing and no run has left is whole when it is
\* recorded, and when it has a package.json that updateDb.py would record.
Whole ==
    \A d \in Texts \ torn :
        ~BeingWritten(d) /\ (Recorded(d) \/ IsPackage(d)) => files[d] = Entries

IInv == TypeOK /\ Alone /\ (\A p \in Projects : Control(p)) /\ Whole

-----------------------------------------------------------------------------
(* How a run moves *)

\* Only the run of p moves.
Moved(p) ==
    /\ run' \in [Projects -> Run]
    /\ run'[p].nth \in DOMAIN SourcesOf[p]
    /\ \A q \in Projects \ {p} : run'[q] = run[q]

\* The first source exists.
LEMMA FirstSource ==
    ASSUME NEW p \in Projects
    PROVE  1 \in DOMAIN SourcesOf[p] /\ Text[p] \in Texts /\ Len(SourcesOf[p]) \in Nat
  <1>1. SourcesOf[p] \in Seq(Sources) /\ SourcesOf[p] # <<>>
    BY SourceAssumption
  <1>2. Len(SourcesOf[p]) \in Nat /\ Len(SourcesOf[p]) # 0
        /\ DOMAIN SourcesOf[p] = 1 .. Len(SourcesOf[p])
    BY <1>1
  <1> QED
    BY <1>2, SourceAssumption

\* A run that begins, or that is over.
LEMMA LeaveMoves ==
    ASSUME TypeOK, NEW p \in Projects, NEW how \in Ended \cup {"check", "insert"},
           Leave(p, how)
    PROVE  Moved(p) /\ run'[p] = At(how)
  <1>1. At(how) \in Run
    BY DEF At, Run, Ended, Steps, NoPackage
  <1>2. At(how).nth \in DOMAIN SourcesOf[p]
    BY FirstSource DEF At
  <1>3. run \in [Projects -> Run]
    BY DEF TypeOK
  <1> QED
    BY <1>1, <1>2, <1>3 DEF Leave, Moved

\* A run that takes one step and keeps the rest.
LEMMA GotoMoves ==
    ASSUME TypeOK, NEW p \in Projects, NEW step \in Ended \cup Steps, Goto(p, step)
    PROVE  /\ Moved(p)
           /\ run'[p].at = step /\ run'[p].nth = run[p].nth
           /\ run'[p].hand = run[p].hand /\ run'[p].todo = run[p].todo
  <1>1. run \in [Projects -> Run] /\ run[p] \in Run
    BY DEF TypeOK
  <1>2. run[p].nth \in DOMAIN SourcesOf[p]
    BY DEF TypeOK
  <1>3. [run[p] EXCEPT !.at = step] \in Run
    BY <1>1 DEF Run
  <1>4. run' = [run EXCEPT ![p] = [run[p] EXCEPT !.at = step]]
    BY DEF Goto
  <1> HIDE DEF Goto
  <1> QED
    BY <1>1, <1>2, <1>3, <1>4 DEF Moved, Run

\* A source that has failed, and the directory it may leave behind.
LEMMA NextSourceMoves ==
    ASSUME TypeOK, NEW p \in Projects, NextSource(p)
    PROVE  /\ Moved(p)
           /\ run'[p].at \in {"fetch", "out"}
           /\ torn' = IF Tears(p) THEN torn \cup {Dest(p)} ELSE torn
  <1>1. run \in [Projects -> Run] /\ run[p] \in Run /\ run[p].nth \in Nat
    BY DEF TypeOK, Run
  <1>2. CASE run[p].nth < Len(SourcesOf[p])
    <2> DEFINE next == [At("fetch") EXCEPT !.nth = run[p].nth + 1]
    <2>1. next \in Run /\ next.at = "fetch" /\ next.nth = run[p].nth + 1
      BY <1>1 DEF At, Run, Ended, Steps, NoPackage
    <2>2. run' = [run EXCEPT ![p] = next]
      BY <1>2 DEF NextSource
    <2>3. SourcesOf[p] \in Seq(Sources)
      BY SourceAssumption
    <2>4. run[p].nth + 1 \in DOMAIN SourcesOf[p]
      BY <1>1, <1>2, <2>3
    <2> HIDE DEF next
    <2> QED
      BY <1>1, <2>1, <2>2, <2>4 DEF Moved, NextSource
  <1>3. CASE ~(run[p].nth < Len(SourcesOf[p]))
    <2>1. Leave(p, "out")
      BY <1>3 DEF NextSource
    <2>2. Moved(p) /\ run'[p] = At("out")
      BY <2>1, LeaveMoves DEF Ended
    <2> QED
      BY <2>2 DEF NextSource, At
  <1> QED
    BY <1>2, <1>3

\* When a run on its way moves, all others rest.
LEMMA OthersRest ==
    ASSUME IInv, NEW p \in Projects, run[p].at \notin Ended, Moved(p)
    PROVE  /\ Alone'
           /\ \A q \in Projects \ {p} : Control(q)'
           /\ \A q \in Projects : run'[q].nth \in DOMAIN SourcesOf[q]
           /\ \A d \in Texts : BeingWritten(d) <=> Tears(p) /\ Dest(p) = d
           /\ \A d \in Texts : BeingWritten(d)' <=> Tears(p)' /\ Dest(p)' = d
  <1>1. \A q \in Projects \ {p} : run[q].at \in Ended /\ run'[q].at \in Ended
    BY DEF IInv, Alone, Moved
  <1>2. Alone'
    BY <1>1 DEF Alone
  <1>3. \A q \in Projects \ {p} : Control(q)'
    BY <1>1 DEF Control, Unpacking, Marking, Copying, Cloning, Unpacked, CheckingOut, Ended
  <1>4. \A q \in Projects : run'[q].nth \in DOMAIN SourcesOf[q]
    BY DEF Moved, IInv, TypeOK
  <1>5. \A q \in Projects \ {p} : ~Tears(q) /\ ~Tears(q)'
    BY <1>1 DEF Tears, Ended
  <1>6. \A d \in Texts : BeingWritten(d) <=> Tears(p) /\ Dest(p) = d
    BY <1>5 DEF BeingWritten
  <1>7. \A d \in Texts : BeingWritten(d)' <=> Tears(p)' /\ Dest(p)' = d
    BY <1>5 DEF BeingWritten
  <1> QED
    BY <1>2, <1>3, <1>4, <1>6, <1>7

\* A run that moves and writes nothing, and leaves no directory unfinished
\* that it does not own up to.
LEMMA Quiet ==
    ASSUME IInv, NEW p \in Projects, run[p].at \notin Ended, Moved(p),
           UNCHANGED <<exists, files, row, registered>>,
           torn \subseteq torn',
           Tears(p) => Dest(p) \in torn' \/ (Tears(p)' /\ Dest(p)' = Dest(p))
    PROVE  Whole'
  <1> SUFFICES ASSUME NEW d \in Texts, d \notin torn', ~BeingWritten(d)',
                      Recorded(d)' \/ IsPackage(d)'
               PROVE  files'[d] = Entries
    BY DEF Whole
  <1>1. ~BeingWritten(d)
    BY OthersRest
  <1>2. Recorded(d) \/ IsPackage(d)
    BY DEF Recorded, IsPackage
  <1>3. d \notin torn
    OBVIOUS
  <1> QED
    BY <1>1, <1>2, <1>3 DEF IInv, Whole

\* A step that moves one run and writes nothing keeps the invariant, if what
\* the run claims at its next step is so.
LEMMA QuietStep ==
    ASSUME IInv, NEW p \in Projects, run[p].at \notin Ended, Moved(p),
           UNCHANGED <<offer, changes, exists, files, holds, row, registered, got>>,
           kills' \in 0 .. MaxKills,
           torn \subseteq torn', torn' \subseteq Texts,
           Tears(p) => Dest(p) \in torn' \/ (Tears(p)' /\ Dest(p)' = Dest(p)),
           Control(p)'
    PROVE  IInv'
  <1>1. TypeOK'
    <2>1. TypeOK /\ run' \in [Projects -> Run]
          /\ \A q \in Projects : run'[q].nth \in DOMAIN SourcesOf[q]
      BY OthersRest DEF IInv, Moved
    <2> QED
      BY <2>1 DEF TypeOK
  <1>2. Alone' /\ \A q \in Projects : Control(q)'
    BY OthersRest
  <1>3. Whole'
    BY Quiet
  <1> QED
    BY <1>1, <1>2, <1>3 DEF IInv

\* The directory a run works on has a name.
LEMMA DestIsText ==
    ASSUME IInv, NEW p \in Projects, Tears(p)
    PROVE  Dest(p) \in Texts
  <1>1. Source(p) \in Git \/ run[p].hand \in Versions
    BY DEF IInv, Control, Unpacking, Cloning, Tears
  <1>2. Text[p] \in Texts /\ Versions \subseteq Texts
    BY SourceAssumption, TextAssumption
  <1> QED
    BY <1>1, <1>2 DEF Dest

\* A source fails.
LEMMA GiveUp ==
    ASSUME IInv, NEW p \in Projects, run[p].at \notin Ended, NextSource(p),
           UNCHANGED <<server, exists, files, holds, tables>>
    PROVE  IInv'
  <1>1. Moved(p) /\ run'[p].at \in {"fetch", "out"}
        /\ torn' = IF Tears(p) THEN torn \cup {Dest(p)} ELSE torn
    BY NextSourceMoves DEF IInv
  <1>2. Control(p)'
    BY <1>1 DEF Control, Unpacking, Marking, Copying, Cloning, Unpacked, CheckingOut
  <1>3. torn \subseteq torn' /\ torn' \subseteq Texts /\ (Tears(p) => Dest(p) \in torn')
    BY <1>1, DestIsText DEF IInv, TypeOK
  <1>4. kills' \in 0 .. MaxKills
    BY DEF IInv, TypeOK, server
  <1>5. UNCHANGED <<offer, changes, exists, files, holds, row, registered, got>>
    BY DEF server, tables
  <1> QED
    BY <1>1, <1>2, <1>3, <1>4, <1>5, QuietStep

\* A run that is not writing ends, or begins its download.
LEMMA Leaves ==
    ASSUME IInv, NEW p \in Projects, run[p].at \notin Ended, ~Tears(p),
           NEW how \in Ended \cup {"check", "insert"}, Leave(p, how),
           UNCHANGED <<server, store, tables>>
    PROVE  IInv'
  <1>1. Moved(p) /\ run'[p] = At(how)
    BY LeaveMoves DEF IInv
  <1>2. Control(p)'
    BY <1>1 DEF Control, Unpacking, Marking, Copying, Cloning, Unpacked, CheckingOut, At, Ended
  <1>3. torn \subseteq torn' /\ torn' \subseteq Texts /\ kills' \in 0 .. MaxKills
    BY DEF IInv, TypeOK, server, store
  <1>4. UNCHANGED <<offer, changes, exists, files, holds, row, registered, got>>
    BY DEF server, store, tables
  <1> HIDE DEF Leave
  <1> QED
    BY <1>1, <1>2, <1>3, <1>4, QuietStep

-----------------------------------------------------------------------------
(* The steps that write nothing *)

LEMMA StartStep ==
    ASSUME ~Concurrent, IInv, NEW p \in Projects, Start(p)
    PROVE  IInv'
  <1>1. Moved(p) /\ run'[p].at = "check"
    <2>1. TypeOK /\ Leave(p, "check")
      BY DEF Start, IInv
    <2>2. Moved(p) /\ run'[p] = At("check")
      BY <2>1, LeaveMoves
    <2> QED
      BY <2>2 DEF At
  <1>2. \A q \in Projects : run[q].at \in Ended
    BY DEF Start
  <1>3. \A q \in Projects \ {p} : run'[q].at \in Ended
    BY <1>1, <1>2 DEF Moved
  <1>4. TypeOK'
    <2>1. TypeOK /\ run' \in [Projects -> Run] /\ UNCHANGED <<server, store, tables>>
      BY <1>1 DEF IInv, Moved, Start
    <2>2. \A q \in Projects : run'[q].nth \in DOMAIN SourcesOf[q]
      BY <1>1 DEF IInv, TypeOK, Moved
    <2> QED
      BY <2>1, <2>2 DEF TypeOK, server, store, tables
  <1>5. Alone'
    BY <1>3 DEF Alone
  <1>6. ASSUME NEW q \in Projects PROVE Control(q)'
    BY <1>1, <1>3 DEF Control, Unpacking, Marking, Copying, Cloning, Unpacked, CheckingOut, Ended
  <1>7. Whole'
    <2>1. \A d \in Texts : ~BeingWritten(d)
      BY <1>2 DEF BeingWritten, Tears, Ended
    <2>2. Whole /\ UNCHANGED <<store, tables>>
      BY DEF IInv, Start
    <2> QED
      BY <2>1, <2>2 DEF Whole, Recorded, IsPackage, store, tables
  <1> QED
    BY <1>4, <1>5, <1>6, <1>7 DEF IInv

LEMMA CheckInvalidStep ==
    ASSUME IInv, NEW p \in Projects, CheckInvalid(p) PROVE IInv'
  BY Leaves DEF CheckInvalid, Tears, Ended

LEMMA CheckFitsStep ==
    ASSUME IInv, NEW p \in Projects, CheckFits(p) PROVE IInv'
  BY Leaves DEF CheckFits, Load, Tears, Ended

LEMMA LoadTargetStep ==
    ASSUME IInv, NEW p \in Projects, LoadTarget(p) PROVE IInv'
  BY Leaves DEF LoadTarget, Load, Tears, Ended

LEMMA FetchNoPackageStep ==
    ASSUME IInv, NEW p \in Projects, FetchNoPackage(p) PROVE IInv'
  BY Leaves DEF FetchNoPackage, Tears, Ended

LEMMA FetchFailsStep ==
    ASSUME IInv, NEW p \in Projects, FetchFails(p) PROVE IInv'
  BY GiveUp DEF FetchFails, Ended

LEMMA CheckNextStep ==
    ASSUME IInv, NEW p \in Projects, CheckNext(p) PROVE IInv'
  <1>1. run[p].at \notin Ended /\ ~Tears(p)
    BY DEF CheckNext, Ended, Tears
  <1>2. CASE run[p].nth < Len(SourcesOf[p])
    <2>1. run' = [run EXCEPT ![p].nth = run[p].nth + 1]
      BY <1>2 DEF CheckNext
    <2>2. run \in [Projects -> Run] /\ run[p] \in Run /\ run[p].nth \in Nat
      BY DEF IInv, TypeOK, Run
    <2>3. SourcesOf[p] \in Seq(Sources)
      BY SourceAssumption
    <2>4. run[p].nth + 1 \in DOMAIN SourcesOf[p]
      BY <1>2, <2>2, <2>3
    <2>5. Moved(p) /\ run'[p].at = "check"
      BY <2>1, <2>2, <2>4 DEF Moved, Run, CheckNext
    <2>6. Control(p)'
      BY <2>5 DEF Control, Unpacking, Marking, Copying, Cloning, Unpacked, CheckingOut
    <2>7. UNCHANGED <<server, store, tables>>
      BY DEF CheckNext
    <2>8. torn \subseteq torn' /\ torn' \subseteq Texts /\ kills' \in 0 .. MaxKills
      BY <2>7 DEF IInv, TypeOK, server, store
    <2> QED
      BY <1>1, <2>5, <2>6, <2>7, <2>8, QuietStep DEF server, store, tables
  <1>3. CASE ~(run[p].nth < Len(SourcesOf[p]))
    BY <1>1, <1>3, Leaves DEF CheckNext
  <1> QED
    BY <1>2, <1>3

\* The rows that InsertRows adds record nothing yet.
LEMMA InsertRowsStep ==
    ASSUME IInv, NEW p \in Projects, InsertRows(p) PROVE IInv'
  <1>1. run[p].at = "insert" /\ run[p].at \notin Ended /\ ~Tears(p)
    BY DEF InsertRows, Ended, Tears
  <1>2. Moved(p) /\ run'[p].at = "fetch"
    BY GotoMoves DEF InsertRows, IInv, Steps
  <1>3. UNCHANGED <<server, store, registered, got>>
    BY DEF InsertRows
  <1>4. row' \in [Sources -> Row]
        /\ \A s \in Sources : row'[s].state = "done" => row'[s] = row[s]
    <2>1. row \in [Sources -> Row]
      BY DEF IInv, TypeOK
    <2>2. [NoRow EXCEPT !.state = "open"] \in Row
          /\ [NoRow EXCEPT !.state = "open"].state = "open"
      BY DEF NoRow, Row, NoText
    <2> DEFINE opened == [NoRow EXCEPT !.state = "open"]
    <2>3. row' = [s \in Sources |->
            IF row[s].state = "none" /\ \E i \in DOMAIN SourcesOf[p] : SourcesOf[p][i] = s
            THEN opened ELSE row[s]]
      BY DEF InsertRows
    <2> HIDE DEF opened
    <2> QED
      BY <2>1, <2>2, <2>3 DEF opened
  <1>5. TypeOK'
    <2>1. TypeOK /\ run' \in [Projects -> Run]
          /\ \A q \in Projects : run'[q].nth \in DOMAIN SourcesOf[q]
      BY <1>1, <1>2, OthersRest DEF IInv, Moved
    <2> QED
      BY <1>3, <1>4, <2>1 DEF TypeOK, server, store
  <1>6. Control(p)'
    BY <1>2 DEF Control, Unpacking, Marking, Copying, Cloning, Unpacked, CheckingOut
  <1>7. Whole'
    <2>1. \A d \in Texts : Recorded(d)' => Recorded(d)
      BY <1>3, <1>4 DEF Recorded
    <2>2. \A d \in Texts : ~BeingWritten(d)
      BY <1>1, <1>2, OthersRest
    <2> QED
      BY <1>3, <2>1, <2>2 DEF IInv, Whole, IsPackage, store
  <1> QED
    BY <1>1, <1>2, <1>5, <1>6, <1>7, OthersRest DEF IInv

LEMMA FetchStep ==
    ASSUME IInv, NEW p \in Projects, Fetch(p) PROVE IInv'
  <1>1. run[p].at = "fetch" /\ run[p].at \notin Ended /\ ~Tears(p) /\ Source(p) \notin Git
    BY DEF Fetch, Ended, Tears
  <1>2. SourcesOf[p] \in Seq(Sources) /\ run[p].nth \in DOMAIN SourcesOf[p]
    BY SourceAssumption DEF IInv, TypeOK
  <1>3. offer[Source(p)] \in Versions
    BY <1>2 DEF Fetch, IInv, TypeOK, Source
  <1> DEFINE next == [run[p] EXCEPT !.at = "replace", !.hand = offer[Source(p)]]
  <1>4. run' = [run EXCEPT ![p] = next]
    BY DEF Fetch
  <1>5. run \in [Projects -> Run] /\ run[p] \in Run
    BY DEF IInv, TypeOK
  <1>6. next \in Run /\ next.at = "replace" /\ next.hand = offer[Source(p)]
        /\ next.nth = run[p].nth
    BY <1>3, <1>5 DEF Run, Steps
  <1> HIDE DEF next
  <1>7. Moved(p) /\ run'[p].at = "replace" /\ run'[p].hand \in Versions
        /\ run'[p].nth = run[p].nth
    BY <1>2, <1>3, <1>4, <1>5, <1>6 DEF Moved
  <1>8. Control(p)'
    BY <1>1, <1>7 DEF Control, Unpacking, Marking, Copying, Cloning, Unpacked, CheckingOut, Source
  <1>9. UNCHANGED <<server, store, tables>>
    BY DEF Fetch
  <1>10. torn \subseteq torn' /\ torn' \subseteq Texts /\ kills' \in 0 .. MaxKills
    BY <1>9 DEF IInv, TypeOK, server, store
  <1> QED
    BY <1>1, <1>7, <1>8, <1>9, <1>10, QuietStep DEF server, store, tables

LEMMA ReplaceStep ==
    ASSUME IInv, NEW p \in Projects, Replace(p) PROVE IInv'
  <1>1. run[p].at = "replace" /\ run[p].at \notin Ended /\ ~Tears(p)
    BY DEF Replace, Ended, Tears
  <1>2. run \in [Projects -> Run] /\ run[p] \in Run /\ run[p].nth \in DOMAIN SourcesOf[p]
        /\ files \in [Texts -> SUBSET Entries]
    BY DEF IInv, TypeOK
  <1>3. Source(p) \notin Git /\ run[p].hand \in Versions /\ Dest(p) \in Texts
    BY <1>1, TextAssumption DEF IInv, Control, Unpacking, Dest
  <1>4. /\ Moved(p) /\ run'[p].at \in {"removing", "create"}
        /\ run'[p].nth = run[p].nth /\ run'[p].hand = run[p].hand
    <2>1. CASE Dest(p) \in exists
      <3> DEFINE next == [run[p] EXCEPT !.at = "removing", !.todo = files[Dest(p)]]
      <3>1. run' = [run EXCEPT ![p] = next]
        BY <2>1 DEF Replace
      <3>2. next \in Run /\ next.at = "removing" /\ next.nth = run[p].nth
            /\ next.hand = run[p].hand
        BY <1>2, <1>3 DEF Run, Steps
      <3> HIDE DEF next
      <3> QED
        BY <1>2, <3>1, <3>2 DEF Moved
    <2>2. CASE Dest(p) \notin exists
      <3>1. Goto(p, "create") /\ TypeOK
        BY <2>2 DEF Replace, IInv
      <3> QED
        BY <3>1, GotoMoves DEF Steps
    <2> QED
      BY <2>1, <2>2
  <1>5. Control(p)'
    BY <1>3, <1>4 DEF Control, Unpacking, Marking, Copying, Cloning, Unpacked, CheckingOut, Source
  <1>6. UNCHANGED <<server, store, tables>>
    BY DEF Replace
  <1>7. torn \subseteq torn' /\ torn' \subseteq Texts /\ kills' \in 0 .. MaxKills
    BY <1>6 DEF IInv, TypeOK, server, store
  <1> QED
    BY <1>1, <1>4, <1>5, <1>6, <1>7, QuietStep DEF server, store, tables

LEMMA FindRegisteredStep ==
    ASSUME IInv, NEW p \in Projects, FindRegistered(p) PROVE IInv'
  <1>1. run[p].at = "register" /\ run[p].at \notin Ended /\ ~Tears(p)
    BY DEF FindRegistered, Ended, Tears
  <1>2. /\ Moved(p) /\ run'[p].at \in {"add", "mark"}
        /\ run'[p].nth = run[p].nth /\ run'[p].hand = run[p].hand
    <2>1. TypeOK /\ (Goto(p, "add") \/ Goto(p, "mark"))
      BY DEF FindRegistered, IInv
    <2>2. CASE Goto(p, "add")
      BY <2>1, <2>2, GotoMoves DEF Steps
    <2>3. CASE Goto(p, "mark")
      BY <2>1, <2>3, GotoMoves DEF Steps
    <2> QED
      BY <2>1, <2>2, <2>3
  <1>3. UNCHANGED <<server, store, tables>>
    BY DEF FindRegistered
  <1>4. Dest(p)' = Dest(p) /\ Source(p)' = Source(p)
    BY <1>2 DEF Dest, Source
  <1>5. Control(p)'
    <2>1. Source(p) \notin Git /\ run[p].hand \in Versions /\ files[Dest(p)] = Entries
      BY <1>1 DEF IInv, Control, Unpacking, Unpacked
    <2>2. files'[Dest(p)'] = Entries
      BY <1>3, <1>4, <2>1 DEF store
    <2> QED
      BY <1>2, <1>4, <2>1, <2>2
      DEF Control, Unpacking, Marking, Copying, Cloning, Unpacked, CheckingOut
  <1>6. torn \subseteq torn' /\ torn' \subseteq Texts /\ kills' \in 0 .. MaxKills
    BY <1>3 DEF IInv, TypeOK, server, store
  <1> QED
    BY <1>1, <1>2, <1>3, <1>5, <1>6, QuietStep DEF server, store, tables

LEMMA CheckoutStep ==
    ASSUME IInv, NEW p \in Projects, Checkout(p) PROVE IInv'
  <1>1. run[p].at = "checkout" /\ run[p].at \notin Ended /\ ~Tears(p)
    BY DEF Checkout, Ended, Tears
  <1>2. UNCHANGED <<server, exists, files, holds, tables>>
    BY DEF Checkout
  <1>3. CASE NextSource(p)
    BY <1>1, <1>2, <1>3, GiveUp
  <1>4. CASE Goto(p, "mark") /\ UNCHANGED torn
    <2>1. /\ Moved(p) /\ run'[p].at = "mark" /\ run'[p].nth = run[p].nth
      BY <1>4, GotoMoves DEF Steps, IInv
    <2>2. Source(p)' = Source(p) /\ Source(p) \in Git
      BY <1>1, <2>1 DEF Source, IInv, Control, CheckingOut
    <2>3. Control(p)'
      BY <2>1, <2>2
      DEF Control, Unpacking, Marking, Copying, Cloning, Unpacked, CheckingOut
    <2>4. torn \subseteq torn' /\ torn' \subseteq Texts /\ kills' \in 0 .. MaxKills
      BY <1>2, <1>4 DEF IInv, TypeOK, server
    <2>5. UNCHANGED <<offer, changes, exists, files, holds, row, registered, got>>
      BY <1>2 DEF server, tables
    <2> QED
      BY <1>1, <2>1, <2>3, <2>4, <2>5, QuietStep
  <1> QED
    BY <1>3, <1>4 DEF Checkout

LEMMA KillStep ==
    ASSUME IInv, NEW p \in Projects, Kill(p) PROVE IInv'
  <1>1. run[p].at \notin Ended
    BY DEF Kill, Ended, Steps
  <1>2. Moved(p) /\ run'[p] = At("out")
    BY LeaveMoves DEF Kill, IInv, Ended
  <1>3. Control(p)'
    BY <1>2
    DEF Control, Unpacking, Marking, Copying, Cloning, Unpacked, CheckingOut, At
  <1>4. torn \subseteq torn' /\ torn' \subseteq Texts /\ (Tears(p) => Dest(p) \in torn')
    BY DestIsText DEF Kill, IInv, TypeOK
  <1>5. kills' \in 0 .. MaxKills
    BY TextAssumption DEF Kill, IInv, TypeOK
  <1>6. UNCHANGED <<offer, changes, exists, files, holds, row, registered, got>>
    BY DEF Kill, tables
  <1> QED
    BY <1>1, <1>2, <1>3, <1>4, <1>5, <1>6, QuietStep

LEMMA PublishStep ==
    ASSUME IInv, NEW s \in Sources, Publish(s) PROVE IInv'
  <1>1. UNCHANGED <<kills, store, tables, run>>
    BY DEF Publish
  <1>2. offer' \in [Sources -> Versions \cup {NoPackage}] /\ changes' \in 0 .. MaxChanges
    <2>1. PICK v \in Offers[s] \ {offer[s]} : offer' = [offer EXCEPT ![s] = v]
      BY DEF Publish
    <2>2. v \in Versions \cup {NoPackage}
      BY SourceAssumption
    <2>3. offer \in [Sources -> Versions \cup {NoPackage}] /\ changes \in 0 .. MaxChanges
      BY DEF IInv, TypeOK
    <2>4. changes' = changes + 1 /\ changes < MaxChanges
      BY DEF Publish
    <2> QED
      BY <2>1, <2>2, <2>3, <2>4, TextAssumption
  <1>3. TypeOK'
    BY <1>1, <1>2 DEF IInv, TypeOK, store, tables
  <1>4. Alone'
    BY <1>1 DEF IInv, Alone
  <1>5. \A q \in Projects : Control(q)'
    BY <1>1 DEF IInv, Control, Unpacking, Marking, Copying, Cloning, Unpacked, CheckingOut,
                Source, Dest, Recorded, store, tables
  <1>6. Whole'
    BY <1>1 DEF IInv, Whole, BeingWritten, Tears, Dest, Source, Recorded, IsPackage,
                store, tables
  <1> QED
    BY <1>3, <1>4, <1>5, <1>6 DEF IInv

-----------------------------------------------------------------------------
(* The steps that write to the store *)

\* A step of the run of p that touches no directory but w, which is its own,
\* leaves the others whole.
LEMMA OthersWhole ==
    ASSUME IInv, NEW p \in Projects, run[p].at \notin Ended, Moved(p),
           NEW w \in Texts,
           UNCHANGED <<row, registered>>,
           \A d \in Texts \ {w} : files'[d] = files[d] /\ (d \in torn <=> d \in torn'),
           Tears(p) => Dest(p) = w,
           \/ w \in torn'
           \/ Tears(p)' /\ Dest(p)' = w
           \/ ((Recorded(w)' \/ IsPackage(w)') => files'[w] = Entries)
    PROVE  Whole'
  <1> SUFFICES ASSUME NEW d \in Texts, d \notin torn', ~BeingWritten(d)',
                      Recorded(d)' \/ IsPackage(d)'
               PROVE  files'[d] = Entries
    BY DEF Whole
  <1>1. CASE d = w
    BY <1>1, OthersRest
  <1>2. CASE d # w
    <2>1. d \notin torn /\ files'[d] = files[d]
      BY <1>2
    <2>2. ~BeingWritten(d)
      BY <1>2, OthersRest
    <2>3. Recorded(d) \/ IsPackage(d)
      BY <2>1 DEF Recorded, IsPackage
    <2> QED
      BY <2>1, <2>2, <2>3 DEF IInv, Whole
  <1> QED
    BY <1>1, <1>2

\* What is left to show of such a step.
LEMMA WriteStep ==
    ASSUME IInv, NEW p \in Projects, run[p].at \notin Ended, Moved(p),
           UNCHANGED <<server, tables>>,
           NEW w \in Texts,
           exists' \subseteq Texts, torn' \subseteq Texts,
           files' \in [Texts -> SUBSET Entries],
           holds' \in [Texts -> Versions \cup {NoPackage}],
           \A d \in Texts \ {w} :
               /\ files'[d] = files[d]
               /\ d \in torn <=> d \in torn'
               /\ d \in exists <=> d \in exists',
           files'[w] # {} => w \in exists',
           Tears(p) => Dest(p) = w,
           \/ w \in torn'
           \/ Tears(p)' /\ Dest(p)' = w
           \/ ((Recorded(w)' \/ IsPackage(w)') => files'[w] = Entries),
           Control(p)'
    PROVE  IInv'
  <1>1. \A d \in Texts : files'[d] # {} => d \in exists'
    BY DEF IInv, TypeOK
  <1>2. run' \in [Projects -> Run] /\ \A q \in Projects : run'[q].nth \in DOMAIN SourcesOf[q]
    BY OthersRest DEF Moved
  <1>3. TypeOK'
    BY <1>1, <1>2 DEF IInv, TypeOK, server, tables
  <1>4. Whole'
    BY OthersWhole DEF tables
  <1>5. Alone' /\ \A q \in Projects : Control(q)'
    BY OthersRest
  <1> QED
    BY <1>3, <1>4, <1>5 DEF IInv

\* What is known of a run that replaces a directory.
LEMMA Replacing ==
    ASSUME IInv, NEW p \in Projects, run[p].at \in {"removing", "create", "copying"}
    PROVE  /\ run[p].at \notin Ended /\ Tears(p)
           /\ Source(p) \notin Git /\ run[p].hand \in Versions
           /\ Dest(p) = run[p].hand /\ Dest(p) \in Texts
  <1>1. run[p].at \notin Ended /\ Tears(p)
    BY DEF Ended, Tears
  <1>2. Source(p) \notin Git /\ run[p].hand \in Versions
    BY DEF IInv, Control, Unpacking
  <1> QED
    BY <1>1, <1>2, TextAssumption DEF Dest

LEMMA RemoveEntryStep ==
    ASSUME IInv, NEW p \in Projects, RemoveEntry(p) PROVE IInv'
  <1>1. run[p].at = "removing" /\ UNCHANGED <<server, exists, tables>>
    BY DEF RemoveEntry
  <1> DEFINE w == Dest(p)
  <1>2. /\ run[p].at \notin Ended /\ Tears(p) /\ w \in Texts
        /\ Source(p) \notin Git /\ run[p].hand \in Versions
    BY <1>1, Replacing
  <1>3. /\ files \in [Texts -> SUBSET Entries] /\ run \in [Projects -> Run] /\ run[p] \in Run
        /\ holds \in [Texts -> Versions \cup {NoPackage}]
        /\ exists \subseteq Texts /\ torn \subseteq Texts
        /\ run[p].nth \in DOMAIN SourcesOf[p]
        /\ \A d \in Texts : files[d] # {} => d \in exists
    BY DEF IInv, TypeOK
  <1>4. PICK e \in run[p].todo :
        IF e \in files[w]
        THEN /\ files' = [files EXCEPT ![w] = files[w] \ {e}]
             /\ holds' = IF e = "package.json"
                         THEN [holds EXCEPT ![w] = NoPackage] ELSE holds
             /\ run' = [run EXCEPT ![p].todo = run[p].todo \ {e}]
             /\ UNCHANGED torn
        ELSE NextSource(p) /\ UNCHANGED <<files, holds>>
    BY DEF RemoveEntry
  <1>5. CASE e \notin files[w]
    BY <1>1, <1>2, <1>4, <1>5, GiveUp
  <1>6. CASE e \in files[w]
    <2> DEFINE next == [run[p] EXCEPT !.todo = run[p].todo \ {e}]
    <2>1. run' = [run EXCEPT ![p] = next]
      BY <1>4, <1>6
    <2>2. next \in Run /\ next.at = "removing" /\ next.nth = run[p].nth
          /\ next.hand = run[p].hand
      BY <1>1, <1>3 DEF Run
    <2> HIDE DEF next
    <2>3. Moved(p) /\ run'[p].at = "removing" /\ run'[p].nth = run[p].nth
          /\ run'[p].hand = run[p].hand
      BY <1>3, <2>1, <2>2 DEF Moved
    <2>4. Source(p)' = Source(p) /\ Dest(p)' = w /\ Tears(p)'
      BY <2>3 DEF Source, Dest, Tears
    <2>5. Control(p)'
      BY <1>2, <2>3, <2>4
      DEF Control, Unpacking, Marking, Copying, Cloning, Unpacked, CheckingOut
    <2>6. /\ files' \in [Texts -> SUBSET Entries]
          /\ \A d \in Texts \ {w} : files'[d] = files[d]
          /\ files'[w] # {} => w \in exists
      BY <1>2, <1>3, <1>4, <1>6
    <2>7. holds' \in [Texts -> Versions \cup {NoPackage}]
      BY <1>2, <1>3, <1>4, <1>6
    <2>8. torn' = torn /\ exists' = exists
      BY <1>1, <1>4, <1>6
    <2> HIDE DEF w
    <2>9. Dest(p) = w
      BY DEF w
    <2> QED
      BY <1>1, <1>2, <1>3, <2>3, <2>4, <2>5, <2>6, <2>7, <2>8, <2>9, WriteStep
  <1> QED
    BY <1>5, <1>6

LEMMA RemoveDirStep ==
    ASSUME IInv, NEW p \in Projects, RemoveDir(p) PROVE IInv'
  <1>1. run[p].at = "removing" /\ UNCHANGED <<server, files, holds, tables>>
    BY DEF RemoveDir
  <1> DEFINE w == Dest(p)
  <1>2. /\ run[p].at \notin Ended /\ Tears(p) /\ w \in Texts
        /\ Source(p) \notin Git /\ run[p].hand \in Versions
    BY <1>1, Replacing
  <1>3. /\ files \in [Texts -> SUBSET Entries]
        /\ holds \in [Texts -> Versions \cup {NoPackage}]
        /\ exists \subseteq Texts /\ torn \subseteq Texts
    BY DEF IInv, TypeOK
  <1>4. CASE ~(w \in exists /\ files[w] = {})
    <2>1. NextSource(p) /\ UNCHANGED exists
      BY <1>4 DEF RemoveDir
    <2> QED
      BY <1>1, <1>2, <2>1, GiveUp
  <1>5. CASE w \in exists /\ files[w] = {}
    <2>1. exists' = exists \ {w} /\ Goto(p, "create") /\ torn' = torn
      BY <1>5 DEF RemoveDir
    <2>2. Moved(p) /\ run'[p].at = "create" /\ run'[p].nth = run[p].nth
          /\ run'[p].hand = run[p].hand
      BY <2>1, GotoMoves DEF IInv, Steps
    <2>3. Source(p)' = Source(p) /\ Dest(p)' = w /\ Tears(p)'
      BY <2>2 DEF Source, Dest, Tears
    <2>4. Control(p)'
      BY <1>2, <2>2, <2>3
      DEF Control, Unpacking, Marking, Copying, Cloning, Unpacked, CheckingOut
    <2> HIDE DEF w
    <2>5. Dest(p) = w
      BY DEF w
    <2>6. files' = files /\ holds' = holds /\ UNCHANGED <<server, tables>>
      BY <1>1
    <2>7. files'[w] # {} => w \in exists'
      BY <1>5, <2>6
    <2> QED
      BY <1>2, <1>3, <2>1, <2>2, <2>3, <2>4, <2>5, <2>6, <2>7, WriteStep
  <1> QED
    BY <1>4, <1>5

LEMMA CreateDirStep ==
    ASSUME IInv, NEW p \in Projects, CreateDir(p) PROVE IInv'
  <1>1. run[p].at = "create" /\ UNCHANGED <<server, files, holds, tables>>
    BY DEF CreateDir
  <1> DEFINE w == Dest(p)
  <1>2. /\ run[p].at \notin Ended /\ Tears(p) /\ w \in Texts
        /\ Source(p) \notin Git /\ run[p].hand \in Versions
    BY <1>1, Replacing
  <1>3. /\ files \in [Texts -> SUBSET Entries] /\ run \in [Projects -> Run] /\ run[p] \in Run
        /\ holds \in [Texts -> Versions \cup {NoPackage}]
        /\ exists \subseteq Texts /\ torn \subseteq Texts
        /\ run[p].nth \in DOMAIN SourcesOf[p]
    BY DEF IInv, TypeOK
  <1>4. CASE w \in exists
    <2>1. NextSource(p) /\ UNCHANGED exists
      BY <1>4 DEF CreateDir
    <2> QED
      BY <1>1, <1>2, <2>1, GiveUp
  <1>5. CASE w \notin exists
    <2> DEFINE next == [run[p] EXCEPT !.at = "copying", !.todo = Entries]
    <2>1. exists' = exists \cup {w} /\ run' = [run EXCEPT ![p] = next] /\ torn' = torn
      BY <1>5 DEF CreateDir
    <2>2. next \in Run /\ next.at = "copying" /\ next.nth = run[p].nth
          /\ next.hand = run[p].hand /\ next.todo = Entries
      BY <1>3 DEF Run, Steps
    <2> HIDE DEF next
    <2>3. Moved(p) /\ run'[p].at = "copying" /\ run'[p].nth = run[p].nth
          /\ run'[p].hand = run[p].hand /\ run'[p].todo = Entries
      BY <1>3, <2>1, <2>2 DEF Moved
    <2>4. Source(p)' = Source(p) /\ Dest(p)' = w /\ Tears(p)'
      BY <2>3 DEF Source, Dest, Tears
    <2>5. Copying(p)'
      <3>1. w \in exists' /\ files'[w] = files[w] /\ files[w] \subseteq Entries
        BY <1>1, <1>2, <1>3, <2>1
      <3> QED
        BY <2>3, <2>4, <3>1 DEF Copying
    <2>6. Control(p)'
      BY <1>2, <2>3, <2>4, <2>5
      DEF Control, Unpacking, Marking, Cloning, Unpacked, CheckingOut
    <2> HIDE DEF w
    <2>7. Dest(p) = w
      BY DEF w
    <2>8. files' = files /\ holds' = holds /\ UNCHANGED <<server, tables>>
      BY <1>1
    <2> QED
      BY <1>2, <1>3, <2>1, <2>3, <2>4, <2>6, <2>7, <2>8, WriteStep
  <1> QED
    BY <1>4, <1>5

LEMMA CopyEntryStep ==
    ASSUME IInv, NEW p \in Projects, CopyEntry(p) PROVE IInv'
  <1>1. run[p].at = "copying" /\ UNCHANGED <<server, exists, tables>>
    BY DEF CopyEntry
  <1>0. PICK w \in Texts : w = Dest(p)
    BY <1>1, Replacing
  <1>2. /\ run[p].at \notin Ended /\ Tears(p) /\ w \in Texts
        /\ Source(p) \notin Git /\ run[p].hand \in Versions
    BY <1>1, Replacing
  <1>3. /\ files \in [Texts -> SUBSET Entries] /\ run \in [Projects -> Run] /\ run[p] \in Run
        /\ holds \in [Texts -> Versions \cup {NoPackage}]
        /\ exists \subseteq Texts /\ torn \subseteq Texts
        /\ run[p].nth \in DOMAIN SourcesOf[p]
    BY DEF IInv, TypeOK
  <1>4. w \in exists /\ files[w] \cup run[p].todo = Entries
    BY <1>0, <1>1 DEF IInv, Control, Copying
  <1>5. PICK e \in run[p].todo : WriteEntry(p, e, run[p].hand, "register")
    BY <1>0, <1>4 DEF CopyEntry
  <1> DEFINE left == run[p].todo \ {e}
  <1>6. /\ e \in Entries /\ left \in SUBSET Entries
        /\ (files[w] \cup {e}) \cup left = Entries
    BY <1>3, <1>4, <1>5 DEF Run
  <1>7. /\ files' = [files EXCEPT ![w] = files[w] \cup {e}]
        /\ holds' = IF e = "package.json" THEN [holds EXCEPT ![w] = run[p].hand] ELSE holds
        /\ torn' = IF left = {} THEN torn \ {w} ELSE torn
    BY <1>0, <1>5 DEF WriteEntry
  <1>8. /\ Moved(p) /\ run'[p].at = (IF left = {} THEN "register" ELSE "copying")
        /\ run'[p].nth = run[p].nth /\ run'[p].hand = run[p].hand /\ run'[p].todo = left
    <2> DEFINE next == [run[p] EXCEPT !.todo = left,
                                      !.at = IF left = {} THEN "register" ELSE run[p].at]
    <2>1. run' = [run EXCEPT ![p] = next]
      BY <1>5 DEF WriteEntry
    <2>2. next \in Run /\ next.at = (IF left = {} THEN "register" ELSE "copying")
          /\ next.nth = run[p].nth /\ next.hand = run[p].hand /\ next.todo = left
      BY <1>1, <1>3, <1>6 DEF Run, Steps
    <2> HIDE DEF next, left
    <2> QED
      BY <1>3, <2>1, <2>2 DEF Moved
  <1>9. Source(p)' = Source(p) /\ Dest(p)' = w /\ (left # {} => Tears(p)')
    BY <1>0, <1>8 DEF Source, Dest, Tears
  <1>10. /\ files' \in [Texts -> SUBSET Entries]
         /\ holds' \in [Texts -> Versions \cup {NoPackage}]
         /\ torn' \subseteq Texts /\ exists' = exists
         /\ files'[w] = files[w] \cup {e}
         /\ \A d \in Texts \ {w} : files'[d] = files[d] /\ (d \in torn <=> d \in torn')
    BY <1>1, <1>2, <1>3, <1>6, <1>7
  <1>11. left = {} => files'[w] = Entries
    BY <1>6, <1>10
  <1> HIDE DEF left
  <1>12. Control(p)'
    <2>1. Copying(p)'
      BY <1>4, <1>6, <1>8, <1>9, <1>10 DEF Copying
    <2>2. Unpacked(p)'
      BY <1>8, <1>9, <1>11 DEF Unpacked
    <2> QED
      BY <1>2, <1>8, <1>9, <2>1, <2>2
      DEF Control, Unpacking, Marking, Cloning, CheckingOut
  <1>13. \/ w \in torn'
         \/ Tears(p)' /\ Dest(p)' = w
         \/ ((Recorded(w)' \/ IsPackage(w)') => files'[w] = Entries)
    BY <1>9, <1>11
  <1>14. Dest(p) = w /\ UNCHANGED <<server, tables>>
    BY <1>0, <1>1
  <1>15. files'[w] # {} => w \in exists'
    BY <1>4, <1>10
  <1>16. /\ exists' \subseteq Texts /\ torn' \subseteq Texts
         /\ files' \in [Texts -> SUBSET Entries]
         /\ holds' \in [Texts -> Versions \cup {NoPackage}]
         /\ \A d \in Texts \ {w} :
               /\ files'[d] = files[d]
               /\ d \in torn <=> d \in torn'
               /\ d \in exists <=> d \in exists'
    BY <1>3, <1>10
  <1>17. run[p].at \notin Ended /\ w \in Texts /\ Moved(p)
    BY <1>2, <1>8
  <1> QED
    BY <1>12, <1>13, <1>14, <1>15, <1>16, <1>17, WriteStep

\* What a run that has unpacked an archive records is whole.
LEMMA RecordsWhole ==
    ASSUME IInv, NEW p \in Projects, run[p].at \notin Ended, ~Tears(p), Moved(p),
           run'[p].at \in {"mark", "load"},
           UNCHANGED <<files, torn>>,
           \A d \in Texts : Recorded(d)' => Recorded(d) \/ files[d] = Entries
    PROVE  Whole'
  <1> SUFFICES ASSUME NEW d \in Texts, d \notin torn', ~BeingWritten(d)',
                      Recorded(d)' \/ IsPackage(d)'
               PROVE  files'[d] = Entries
    BY DEF Whole
  <1>1. ~BeingWritten(d) /\ d \notin torn
    BY OthersRest
  <1>2. Recorded(d) \/ IsPackage(d) \/ files[d] = Entries
    BY DEF IsPackage
  <1> QED
    BY <1>1, <1>2 DEF IInv, Whole

LEMMA AddPackageStep ==
    ASSUME IInv, NEW p \in Projects, AddPackage(p) PROVE IInv'
  <1>1. /\ run[p].at = "add" /\ run[p].at \notin Ended /\ ~Tears(p)
        /\ UNCHANGED <<server, exists, files, holds, row, got>>
    BY DEF AddPackage, Ended, Tears
  <1>2. /\ Source(p) \notin Git /\ run[p].hand \in Versions /\ files[Dest(p)] = Entries
        /\ Dest(p) = run[p].hand /\ Dest(p) \in Texts
    BY <1>1, TextAssumption DEF IInv, Control, Unpacking, Unpacked, Dest
  <1>3. CASE registered[run[p].hand] # NoText
    <2>1. NextSource(p) /\ UNCHANGED <<server, exists, files, holds, tables>>
      BY <1>1, <1>3 DEF AddPackage, tables
    <2> QED
      BY <1>1, <2>1, GiveUp
  <1>4. CASE registered[run[p].hand] = NoText
    <2>1. /\ registered' = [registered EXCEPT ![run[p].hand] = Dest(p)]
          /\ Goto(p, "mark") /\ torn' = torn
      BY <1>4 DEF AddPackage
    <2>2. Moved(p) /\ run'[p].at = "mark" /\ run'[p].nth = run[p].nth
          /\ run'[p].hand = run[p].hand
      BY <2>1, GotoMoves DEF IInv, Steps
    <2>3. Source(p)' = Source(p) /\ Dest(p)' = Dest(p)
      BY <2>2 DEF Source, Dest
    <2>4. Control(p)'
      <3>1. files'[Dest(p)'] = Entries
        BY <1>1, <1>2, <2>3
      <3> QED
        BY <1>2, <2>2, <2>3, <3>1
        DEF Control, Unpacking, Marking, Copying, Cloning, Unpacked, CheckingOut
    <2>5. registered' \in [Versions -> Texts \cup {NoText}]
      BY <1>2, <2>1 DEF IInv, TypeOK
    <2>6. TypeOK'
      <3>1. run' \in [Projects -> Run]
            /\ \A q \in Projects : run'[q].nth \in DOMAIN SourcesOf[q]
        BY <1>1, <2>2, OthersRest DEF Moved
      <3> QED
        BY <1>1, <2>1, <2>5, <3>1 DEF IInv, TypeOK, server
    <2>7. \A d \in Texts : Recorded(d)' => Recorded(d) \/ files[d] = Entries
      <3>1. registered \in [Versions -> Texts \cup {NoText}]
        BY DEF IInv, TypeOK
      <3>2. \A v \in Versions : registered'[v] = registered[v] \/ registered'[v] = Dest(p)
        BY <2>1, <3>1
      <3> QED
        BY <1>1, <1>2, <3>2 DEF Recorded
    <2>8. Whole'
      BY <1>1, <2>1, <2>2, <2>7, RecordsWhole
    <2> QED
      BY <1>1, <2>2, <2>4, <2>6, <2>8, OthersRest DEF IInv
  <1> QED
    BY <1>3, <1>4

\* A mark names what has been unpacked; that of a clone is not a record of a
\* url.
LEMMA MarkDoneStep ==
    ASSUME IInv, NEW p \in Projects, MarkDone(p) PROVE IInv'
  <1>1. /\ run[p].at = "mark" /\ run[p].at \notin Ended /\ ~Tears(p)
        /\ UNCHANGED <<server, store, registered>>
    BY DEF MarkDone, Ended, Tears
  <1>2. PICK s : s = Marked[Source(p)]
    OBVIOUS
  <1>3. /\ row \in [Sources -> Row] /\ got \in [Sources -> Texts \cup {NoText}]
        /\ run[p].nth \in DOMAIN SourcesOf[p]
    BY DEF IInv, TypeOK
  <1>4. Source(p) \in Sources /\ s \in Sources
        /\ (Source(p) \in Git => s \in Git) /\ (Source(p) \notin Git => s = Source(p))
    BY <1>2, <1>3, SourceAssumption DEF Source
  <1>5. Dest(p) \in Texts /\ Text[p] \in Texts /\ Text[p] # NoText
    BY <1>1, SourceAssumption, TextAssumption DEF IInv, Control, Marking, Dest
  <1>6. Source(p) \notin Git => files[Dest(p)] = Entries
    BY <1>1 DEF IInv, Control, Unpacked
  <1> DEFINE marked == [state |-> "done", target |-> Dest(p), text |-> Text[p]]
  <1>7. marked \in Row /\ marked.target = Dest(p)
    BY <1>5 DEF Row
  <1>8. row' = IF row[s].state = "none" THEN row ELSE [row EXCEPT ![s] = marked]
    BY <1>2 DEF MarkDone
  <1> HIDE DEF marked
  <1>9. /\ row' \in [Sources -> Row]
        /\ \A t \in Sources : row'[t] = row[t] \/ (t = s /\ row'[t] = marked)
    BY <1>3, <1>4, <1>7, <1>8
  <1>10. got' \in [Sources -> Texts \cup {NoText}]
    BY <1>3, <1>4, <1>5 DEF MarkDone
  <1>11. Moved(p) /\ run'[p].at = "load"
    BY GotoMoves DEF MarkDone, IInv, Steps
  <1>12. TypeOK'
    <2>1. \A t \in Sources : row'[t].state = "done" => row'[t].target \in Texts
      BY <1>5, <1>7, <1>9 DEF IInv, TypeOK
    <2>2. run' \in [Projects -> Run]
          /\ \A q \in Projects : run'[q].nth \in DOMAIN SourcesOf[q]
      BY <1>1, <1>11, OthersRest DEF Moved
    <2> QED
      BY <1>1, <1>9, <1>10, <2>1, <2>2 DEF IInv, TypeOK, server, store
  <1>13. \A d \in Texts : Recorded(d)' => Recorded(d) \/ files[d] = Entries
    BY <1>1, <1>4, <1>6, <1>7, <1>9 DEF Recorded
  <1>14. Whole'
    BY <1>1, <1>11, <1>13, RecordsWhole DEF store
  <1>15. Control(p)'
    BY <1>11 DEF Control, Unpacking, Marking, Copying, Cloning, Unpacked, CheckingOut
  <1> QED
    BY <1>1, <1>11, <1>12, <1>14, <1>15, OthersRest DEF IInv

LEMMA CloneStep ==
    ASSUME IInv, NEW p \in Projects, Clone(p) PROVE IInv'
  <1>1. /\ run[p].at = "fetch" /\ Source(p) \in Git
        /\ run[p].at \notin Ended /\ ~Tears(p)
        /\ UNCHANGED <<server, holds, tables>>
    BY DEF Clone, Ended, Tears
  <1>2. PICK w \in Texts : w = Text[p]
    BY SourceAssumption
  <1>3. /\ files \in [Texts -> SUBSET Entries] /\ run \in [Projects -> Run] /\ run[p] \in Run
        /\ holds \in [Texts -> Versions \cup {NoPackage}]
        /\ exists \subseteq Texts /\ torn \subseteq Texts
        /\ run[p].nth \in DOMAIN SourcesOf[p]
        /\ offer \in [Sources -> Versions \cup {NoPackage}]
        /\ \A d \in Texts : files[d] # {} => d \in exists
    BY DEF IInv, TypeOK
  <1>4. exists' = exists \cup {w}
    BY <1>2 DEF Clone
  <1>5. CASE files[w] # {}
    <2>1. NextSource(p) /\ files' = files /\ exists' = exists
      BY <1>2, <1>3, <1>4, <1>5 DEF Clone
    <2> QED
      BY <1>1, <2>1, GiveUp
  <1>6. CASE files[w] = {}
    <2> DEFINE next == [run[p] EXCEPT !.at = "cloning", !.hand = offer[Source(p)],
                                      !.todo = {"package.json"}]
    <2>1. /\ files' = [files EXCEPT ![w] = {"sources"}]
          /\ run' = [run EXCEPT ![p] = next] /\ torn' = torn
      BY <1>2, <1>6 DEF Clone
    <2>2. Source(p) \in Sources
      BY <1>3, SourceAssumption DEF Source
    <2>3. next \in Run /\ next.at = "cloning" /\ next.nth = run[p].nth
          /\ next.todo = {"package.json"}
      BY <1>3, <2>2 DEF Run, Steps, Entries
    <2> HIDE DEF next
    <2>4. Moved(p) /\ run'[p].at = "cloning" /\ run'[p].nth = run[p].nth
          /\ run'[p].todo = {"package.json"}
      BY <1>3, <2>1, <2>3 DEF Moved
    <2>5. Source(p)' = Source(p) /\ Dest(p)' = w /\ Tears(p)'
      BY <1>1, <1>2, <2>4 DEF Source, Dest, Tears
    <2>6. w \in torn \/ ~Recorded(w)
      <3>1. ~BeingWritten(w)
        BY <1>1, <2>4, OthersRest
      <3> QED
        BY <1>6, <3>1 DEF IInv, Whole, Entries
    <2>7. Cloning(p)'
      <3>1. w \in torn' \/ ~Recorded(w)'
        BY <1>1, <2>1, <2>6 DEF Recorded, tables
      <3>2. files'[w] = {"sources"} /\ w \in exists'
        BY <1>3, <1>4, <2>1
      <3> QED
        BY <1>1, <1>2, <2>4, <2>5, <3>1, <3>2 DEF Cloning
    <2>8. Control(p)'
      BY <2>4, <2>7 DEF Control, Unpacking, Marking, Copying, Unpacked, CheckingOut
    <2>9. /\ files' \in [Texts -> SUBSET Entries]
          /\ holds' \in [Texts -> Versions \cup {NoPackage}]
          /\ exists' \subseteq Texts /\ torn' \subseteq Texts
          /\ \A d \in Texts \ {w} :
               /\ files'[d] = files[d]
               /\ d \in torn <=> d \in torn'
               /\ d \in exists <=> d \in exists'
          /\ w \in exists'
      BY <1>1, <1>3, <1>4, <2>1 DEF Entries
    <2>10. UNCHANGED <<server, tables>>
      BY <1>1
    <2> QED
      BY <1>1, <2>4, <2>5, <2>8, <2>9, <2>10, WriteStep
  <1> QED
    BY <1>5, <1>6

\* What is known of a run that clones.
LEMMA CloningKnown ==
    ASSUME IInv, NEW p \in Projects, run[p].at = "cloning"
    PROVE  /\ run[p].at \notin Ended /\ Tears(p) /\ Source(p) \in Git
           /\ Text[p] \in Texts /\ Dest(p) = Text[p] /\ Cloning(p)
  <1>1. Cloning(p) /\ Source(p) \in Git
    BY DEF IInv, Control, Cloning
  <1> QED
    BY <1>1, SourceAssumption DEF Ended, Tears, Dest

LEMMA CloneFailsStep ==
    ASSUME IInv, NEW p \in Projects, CloneFails(p) PROVE IInv'
  <1>1. /\ run[p].at = "cloning" /\ NextSource(p)
        /\ UNCHANGED <<server, exists, holds, tables>>
    BY DEF CloneFails
  <1>2. PICK w \in Texts : w = Text[p]
    BY SourceAssumption
  <1>3. run[p].at \notin Ended /\ Tears(p) /\ Dest(p) = w
    BY <1>1, <1>2, CloningKnown
  <1>4. Moved(p) /\ run'[p].at \in {"fetch", "out"} /\ torn' = torn \cup {w}
    BY <1>1, <1>3, NextSourceMoves DEF IInv
  <1>5. Control(p)'
    BY <1>4 DEF Control, Unpacking, Marking, Copying, Cloning, Unpacked, CheckingOut
  <1>6. /\ files' \in [Texts -> SUBSET Entries]
        /\ holds' \in [Texts -> Versions \cup {NoPackage}]
        /\ exists' \subseteq Texts /\ torn' \subseteq Texts
        /\ \A d \in Texts \ {w} :
               /\ files'[d] = files[d]
               /\ d \in torn <=> d \in torn'
               /\ d \in exists <=> d \in exists'
        /\ files'[w] = {} /\ w \in torn'
    BY <1>1, <1>2, <1>4 DEF CloneFails, IInv, TypeOK
  <1>7. UNCHANGED <<server, tables>>
    BY <1>1
  <1> QED
    BY <1>3, <1>4, <1>5, <1>6, <1>7, WriteStep

LEMMA CloneEntryStep ==
    ASSUME IInv, NEW p \in Projects, CloneEntry(p) PROVE IInv'
  <1>1. /\ run[p].at = "cloning" /\ run[p].hand # NoPackage
        /\ WriteEntry(p, "package.json", run[p].hand, "checkout")
        /\ UNCHANGED <<server, exists, tables>>
    BY DEF CloneEntry
  <1>2. PICK w \in Texts : w = Text[p]
    BY SourceAssumption
  <1>3. /\ run[p].at \notin Ended /\ Tears(p) /\ Dest(p) = w /\ Source(p) \in Git
        /\ w \in exists /\ files[w] = {"sources"} /\ run[p].todo = {"package.json"}
    BY <1>1, <1>2, CloningKnown DEF Cloning
  <1>4. /\ files \in [Texts -> SUBSET Entries] /\ run \in [Projects -> Run] /\ run[p] \in Run
        /\ holds \in [Texts -> Versions \cup {NoPackage}]
        /\ exists \subseteq Texts /\ torn \subseteq Texts
        /\ run[p].nth \in DOMAIN SourcesOf[p]
    BY DEF IInv, TypeOK
  <1>5. run[p].todo \ {"package.json"} = {}
    BY <1>3
  <1> DEFINE next == [run[p] EXCEPT !.todo = {}, !.at = "checkout"]
  <1>6. /\ files' = [files EXCEPT ![w] = files[w] \cup {"package.json"}]
        /\ holds' = [holds EXCEPT ![w] = run[p].hand]
        /\ torn' = torn \ {w}
        /\ run' = [run EXCEPT ![p] = next]
    BY <1>1, <1>3, <1>5 DEF WriteEntry
  <1>7. next \in Run /\ next.at = "checkout" /\ next.nth = run[p].nth
    BY <1>4 DEF Run, Steps
  <1> HIDE DEF next
  <1>8. Moved(p) /\ run'[p].at = "checkout" /\ run'[p].nth = run[p].nth
    BY <1>4, <1>6, <1>7 DEF Moved
  <1>9. Source(p)' = Source(p)
    BY <1>8 DEF Source
  <1>10. Control(p)'
    BY <1>3, <1>8, <1>9
    DEF Control, Unpacking, Marking, Copying, Cloning, Unpacked, CheckingOut
  <1>11. /\ files' \in [Texts -> SUBSET Entries]
         /\ holds' \in [Texts -> Versions \cup {NoPackage}]
         /\ exists' \subseteq Texts /\ torn' \subseteq Texts
         /\ \A d \in Texts \ {w} :
               /\ files'[d] = files[d]
               /\ d \in torn <=> d \in torn'
               /\ d \in exists <=> d \in exists'
         /\ files'[w] = Entries /\ w \in exists'
    BY <1>1, <1>2, <1>3, <1>4, <1>6 DEF Entries, Run
  <1>12. UNCHANGED <<server, tables>>
    BY <1>1
  <1> QED
    BY <1>3, <1>8, <1>10, <1>11, <1>12, WriteStep

LEMMA CloneNoPackageStep ==
    ASSUME IInv, NEW p \in Projects, CloneNoPackage(p) PROVE IInv'
  <1>1. /\ run[p].at = "cloning" /\ Goto(p, "checkout")
        /\ UNCHANGED <<server, store, tables>>
    BY DEF CloneNoPackage
  <1>2. PICK w \in Texts : w = Text[p]
    BY SourceAssumption
  <1>3. /\ run[p].at \notin Ended /\ Tears(p) /\ Dest(p) = w /\ Source(p) \in Git
        /\ w \in exists /\ files[w] = {"sources"} /\ (w \in torn \/ ~Recorded(w))
    BY <1>1, <1>2, CloningKnown DEF Cloning
  <1>4. Moved(p) /\ run'[p].at = "checkout" /\ run'[p].nth = run[p].nth
    BY <1>1, GotoMoves DEF IInv, Steps
  <1>5. Source(p)' = Source(p)
    BY <1>4 DEF Source
  <1>6. Control(p)'
    BY <1>3, <1>4, <1>5
    DEF Control, Unpacking, Marking, Copying, Cloning, Unpacked, CheckingOut
  <1>7. /\ files' \in [Texts -> SUBSET Entries]
        /\ holds' \in [Texts -> Versions \cup {NoPackage}]
        /\ exists' \subseteq Texts /\ torn' \subseteq Texts
        /\ \A d \in Texts \ {w} :
               /\ files'[d] = files[d]
               /\ d \in torn <=> d \in torn'
               /\ d \in exists <=> d \in exists'
        /\ w \in exists'
    BY <1>1, <1>3 DEF store, IInv, TypeOK
  <1>8. w \in torn' \/ (~Recorded(w)' /\ ~IsPackage(w)')
    BY <1>1, <1>3 DEF Recorded, IsPackage, store, tables
  <1>9. UNCHANGED <<server, tables>>
    BY <1>1
  <1> QED
    BY <1>3, <1>4, <1>6, <1>7, <1>8, <1>9, WriteStep

\* The rebuilt tables record directories that hold a package.json.
LEMMA UpdateDbStep ==
    ASSUME IInv, UpdateDb PROVE IInv'
  <1>1. /\ UNCHANGED <<offer, kills, store, run>>
        /\ row' = [s \in Sources |-> NoRow] /\ got' = [s \in Sources |-> NoText]
    BY DEF UpdateDb
  <1>2. \A v \in Versions :
            \/ registered'[v] = NoText
            \/ registered'[v] \in exists /\ IsPackage(registered'[v])
    <2> SUFFICES ASSUME NEW v \in Versions, registered'[v] # NoText
                 PROVE  registered'[v] \in exists /\ IsPackage(registered'[v])
      OBVIOUS
    <2> DEFINE Good(d) == IsPackage(d) /\ holds[d] = v
    <2>1. registered'[v] = IF Scannable /\ \E d \in exists : Good(d)
                           THEN CHOOSE d \in exists : Good(d) ELSE NoText
      BY DEF UpdateDb
    <2>2. \E d \in exists : Good(d)
      BY <2>1
    <2>3. registered'[v] = CHOOSE d \in exists : Good(d)
      BY <2>1
    <2>4. registered'[v] \in exists /\ Good(registered'[v])
      <3> HIDE DEF Good
      <3> QED
        BY <2>2, <2>3
    <2> QED
      BY <2>4
  <1>3. registered' \in [Versions -> Texts \cup {NoText}]
    <2>1. registered' = [v \in Versions |-> registered'[v]]
      BY DEF UpdateDb
    <2>2. exists \subseteq Texts
      BY DEF IInv, TypeOK
    <2> QED
      BY <1>2, <2>1, <2>2
  <1>4. \A d \in Texts : Recorded(d)' => IsPackage(d)
    BY <1>1, <1>2, TextAssumption DEF Recorded, NoRow
  <1>5. TypeOK'
    <2>1. row' \in [Sources -> Row] /\ \A s \in Sources : row'[s].state # "done"
      BY <1>1 DEF NoRow, Row
    <2>2. changes' \in 0 .. MaxChanges
      BY TextAssumption DEF UpdateDb, IInv, TypeOK
    <2>3. got' \in [Sources -> Texts \cup {NoText}]
      BY <1>1
    <2> QED
      BY <1>1, <1>3, <2>1, <2>2, <2>3 DEF IInv, TypeOK, store
  <1>6. Alone'
    BY <1>1 DEF IInv, Alone
  <1>7. ASSUME NEW p \in Projects PROVE Control(p)'
    <2>1. Cloning(p)'
      <3>1. Cloning(p) /\ Text[p] \in Texts
        BY SourceAssumption DEF IInv, Control
      <3>2. files[Text[p]] = {"sources"} => ~Recorded(Text[p])'
        BY <1>4, <3>1 DEF IsPackage
      <3> QED
        BY <1>1, <3>1, <3>2 DEF Cloning, Source, store
    <2> QED
      BY <1>1, <2>1
      DEF IInv, Control, Unpacking, Marking, Copying, Unpacked, CheckingOut, Source, Dest,
          store
  <1>8. Whole'
    <2>1. \A d \in Texts : (BeingWritten(d)' <=> BeingWritten(d))
                           /\ (IsPackage(d)' <=> IsPackage(d))
      BY <1>1 DEF BeingWritten, Tears, Dest, Source, IsPackage, store
    <2> QED
      BY <1>1, <1>4, <2>1 DEF IInv, Whole, store
  <1> QED
    BY <1>5, <1>6, <1>7, <1>8 DEF IInv

-----------------------------------------------------------------------------
(* The theorems *)

LEMMA Initial == Init => IInv
  <1> SUFFICES ASSUME Init PROVE IInv
    OBVIOUS
  <1>1. \A p \in Projects : run[p] = At("out") /\ run[p].at \in Ended /\ ~Tears(p)
    BY DEF Init, At, Ended, Tears
  <1>2. TypeOK
    <2>1. row \in [Sources -> Row] /\ \A s \in Sources : row[s].state # "done"
      BY DEF Init, NoRow, Row
    <2>2. run \in [Projects -> Run] /\ \A p \in Projects : run[p].nth \in DOMAIN SourcesOf[p]
      <3>1. At("out") \in Run /\ At("out").nth = 1
        BY DEF At, Run, Ended, NoPackage
      <3> QED
        BY <1>1, <3>1, FirstSource DEF Init
    <2> QED
      BY <2>1, <2>2, TextAssumption DEF Init, TypeOK
  <1>3. Alone
    BY <1>1 DEF Alone
  <1>4. \A p \in Projects : Control(p)
    BY <1>1 DEF Control, Unpacking, Marking, Copying, Cloning, Unpacked, CheckingOut, Ended
  <1>5. Whole
    BY TextAssumption DEF Init, Whole, Recorded, IsPackage, NoRow
  <1> QED
    BY <1>2, <1>3, <1>4, <1>5 DEF IInv

LEMMA Preserved == ASSUME ~Concurrent PROVE IInv /\ [Next]_vars => IInv'
  <1> SUFFICES ASSUME IInv, [Next]_vars PROVE IInv'
    OBVIOUS
  <1>1. CASE UNCHANGED vars
    BY <1>1 DEF vars, server, store, tables, IInv, TypeOK, Alone, Control, Unpacking,
                Marking, Copying, Cloning, Unpacked, CheckingOut, Whole, BeingWritten,
                Tears, Dest, Source, Recorded, IsPackage
  <1>2. ASSUME NEW p \in Projects, Start(p) \/ Assemble(p) \/ Kill(p) PROVE IInv'
    BY <1>2, StartStep, KillStep, CheckInvalidStep, CheckFitsStep, CheckNextStep,
       InsertRowsStep, FetchFailsStep, FetchNoPackageStep, FetchStep, ReplaceStep,
       RemoveEntryStep, RemoveDirStep, CreateDirStep, CopyEntryStep, FindRegisteredStep,
       AddPackageStep, MarkDoneStep, LoadTargetStep, CloneStep, CloneFailsStep,
       CloneEntryStep, CloneNoPackageStep, CheckoutStep
    DEF Assemble
  <1>3. ASSUME NEW s \in Sources, Publish(s) PROVE IInv'
    BY <1>3, PublishStep
  <1>4. CASE UpdateDb
    BY <1>4, UpdateDbStep
  <1> QED
    BY <1>1, <1>2, <1>3, <1>4 DEF Next

\* The rows of both tables, the store and the runs keep their types.
THEOREM TypeCorrect == ASSUME ~Concurrent PROVE Spec => []TypeOK
  <1>1. IInv => TypeOK
    BY DEF IInv
  <1> QED
    BY <1>1, Initial, Preserved, PTL DEF Spec

\* When one project is built at a time, what lib_package says is there, or
\* lib_package_download of a url, is there as a whole, unless a run was broken
\* off while it replaced it.
THEOREM RecordedIsWhole == ASSUME ~Concurrent PROVE Spec => []RecordsAreWhole
  <1>1. IInv => RecordsAreWhole
    BY DEF IInv, Whole, RecordsAreWhole
  <1> QED
    BY <1>1, Initial, Preserved, PTL DEF Spec
-----------------------------------------------------------------------------
(* A source is downloaded once: the first row of a source remembers the text *)
(* it was last downloaded for, and a run that gets past its checks has seen  *)
(* that none of its sources was downloaded for its own text.                 *)

\* No source is a tag of a repository: the download of a tagged repository is
\* marked on the row of the untagged one.
Untagged == \A s \in Sources : Marked[s] = s

DownloadedFor(s, t) == row[s].state = "done" /\ row[s].text = t

Remembered == \A s \in Sources : got[s] # NoText => DownloadedFor(s, got[s])
Passed(p) ==
    \A i \in DOMAIN SourcesOf[p] :
        \/ run[p].at = "check" /\ i < run[p].nth
        \/ run[p].at \in Steps \ {"check", "load"}
        => ~DownloadedFor(SourcesOf[p][i], Text[p])
Once == Remembered /\ \A p \in Projects : Passed(p)

\* The sources of a project are sources.
LEMMA SourceOf ==
    ASSUME NEW p \in Projects, NEW i \in DOMAIN SourcesOf[p]
    PROVE  SourcesOf[p][i] \in Sources
  <1>1. SourcesOf[p] \in Seq(Sources)
    BY SourceAssumption
  <1> QED
    BY <1>1

\* A step of one run moves no other.
LEMMA OneMoves ==
    ASSUME IInv, NEW p \in Projects, Start(p) \/ Assemble(p) \/ Kill(p)
    PROVE  \A q \in Projects \ {p} : run'[q] = run[q]
  <1>1. run \in [Projects -> Run]
    BY DEF IInv, TypeOK
  <1>2. ASSUME NEW step, Goto(p, step) \/ Leave(p, step)
        PROVE  \A q \in Projects \ {p} : run'[q] = run[q]
    BY <1>1, <1>2 DEF Goto, Leave
  <1>3. ASSUME NextSource(p) PROVE \A q \in Projects \ {p} : run'[q] = run[q]
    BY <1>1, <1>2, <1>3 DEF NextSource
  <1>4. CASE Start(p) \/ Kill(p)
    BY <1>2, <1>4 DEF Start, Kill
  <1>5. CASE CheckInvalid(p) \/ CheckFits(p) \/ CheckNext(p) \/ InsertRows(p)
    BY <1>1, <1>2, <1>5 DEF CheckInvalid, CheckFits, CheckNext, InsertRows, Load
  <1>6. CASE FetchFails(p) \/ FetchNoPackage(p) \/ Fetch(p) \/ Replace(p)
    BY <1>1, <1>2, <1>3, <1>6 DEF FetchFails, FetchNoPackage, Fetch, Replace
  <1>7. CASE RemoveEntry(p) \/ RemoveDir(p) \/ CreateDir(p) \/ CopyEntry(p)
    BY <1>1, <1>2, <1>3, <1>7 DEF RemoveEntry, RemoveDir, CreateDir, CopyEntry, WriteEntry
  <1>8. CASE FindRegistered(p) \/ AddPackage(p) \/ MarkDone(p) \/ LoadTarget(p)
    BY <1>1, <1>2, <1>3, <1>8 DEF FindRegistered, AddPackage, MarkDone, LoadTarget, Load
  <1>9. CASE Clone(p) \/ CloneFails(p) \/ CloneEntry(p) \/ CloneNoPackage(p) \/ Checkout(p)
    BY <1>1, <1>2, <1>3, <1>9
    DEF Clone, CloneFails, CloneEntry, CloneNoPackage, Checkout, WriteEntry
  <1> QED
    BY <1>4, <1>5, <1>6, <1>7, <1>8, <1>9 DEF Assemble

\* A step that leaves the rows alone, after which p has passed its sources.
LEMMA OnceKept ==
    ASSUME IInv, Once, NEW p \in Projects,
           \A q \in Projects \ {p} : run'[q] = run[q],
           row' = row, got' = got, Passed(p)'
    PROVE  Once'
  <1>1. Remembered'
    BY DEF Once, Remembered, DownloadedFor
  <1>2. ASSUME NEW q \in Projects \ {p} PROVE Passed(q)'
    BY DEF Once, Passed, DownloadedFor
  <1> QED
    BY <1>1, <1>2 DEF Once

\* A run that has passed all its sources may go anywhere.
LEMMA OnceOnward ==
    ASSUME IInv, Once, NEW p \in Projects, Assemble(p), row' = row, got' = got,
           run[p].at \in Steps \ {"check", "load"}
    PROVE  Once'
  <1>1. \A i \in DOMAIN SourcesOf[p] : ~DownloadedFor(SourcesOf[p][i], Text[p])
    BY DEF Once, Passed
  <1>2. Passed(p)'
    BY <1>1 DEF Passed, DownloadedFor
  <1> QED
    BY <1>2, OneMoves, OnceKept

\* A run that is over, or begins.
LEMMA OnceLeave ==
    ASSUME IInv, Once, NEW p \in Projects, Start(p) \/ Assemble(p) \/ Kill(p),
           NEW how \in Ended \cup {"check"}, Leave(p, how), row' = row, got' = got
    PROVE  Once'
  <1>1. run'[p] = At(how)
    BY DEF IInv, TypeOK, Leave
  <1>2. DOMAIN SourcesOf[p] \subseteq Nat \ {0}
    <2>1. SourcesOf[p] \in Seq(Sources)
      BY SourceAssumption
    <2> QED
      BY <2>1
  <1>3. Passed(p)'
    BY <1>1, <1>2 DEF Passed, At, Ended, Steps
  <1> QED
    BY <1>3, OneMoves, OnceKept

\* A check that goes on has looked at one more source.
LEMMA OnceCheckNext ==
    ASSUME IInv, Once, NEW p \in Projects, CheckNext(p) PROVE Once'
  <1>1. /\ run[p].at = "check" /\ UNCHANGED <<server, store, tables>>
        /\ row[Source(p)].state = "done" =>
               row[Source(p)].text \in Parsable /\ ~Fits(row[Source(p)], p)
    BY DEF CheckNext
  <1>2. /\ run \in [Projects -> Run] /\ run[p] \in Run /\ run[p].nth \in Nat
        /\ run[p].nth \in DOMAIN SourcesOf[p]
    BY DEF IInv, TypeOK, Run
  <1>3. DOMAIN SourcesOf[p] = 1 .. Len(SourcesOf[p]) /\ Len(SourcesOf[p]) \in Nat
    <2>1. SourcesOf[p] \in Seq(Sources)
      BY SourceAssumption
    <2> QED
      BY <2>1
  <1>4. ~DownloadedFor(SourcesOf[p][run[p].nth], Text[p])
    BY <1>1 DEF DownloadedFor, Fits, Source
  <1>5. \A i \in DOMAIN SourcesOf[p] :
            i < run[p].nth => ~DownloadedFor(SourcesOf[p][i], Text[p])
    BY <1>1 DEF Once, Passed
  <1>6. \A i \in DOMAIN SourcesOf[p] :
            i < run[p].nth + 1 => ~DownloadedFor(SourcesOf[p][i], Text[p])
    BY <1>2, <1>3, <1>4, <1>5
  <1>7. Passed(p)'
    <2>1. CASE run[p].nth < Len(SourcesOf[p])
      <3>1. run'[p].nth = run[p].nth + 1 /\ run'[p].at = "check"
        BY <1>1, <1>2, <2>1 DEF CheckNext, Run
      <3> QED
        BY <1>1, <1>6, <3>1 DEF Passed, DownloadedFor, tables
    <2>2. CASE ~(run[p].nth < Len(SourcesOf[p]))
      <3>1. \A i \in DOMAIN SourcesOf[p] : ~DownloadedFor(SourcesOf[p][i], Text[p])
        BY <1>2, <1>3, <1>6, <2>2
      <3> QED
        BY <1>1, <3>1 DEF Passed, DownloadedFor, tables
    <2> QED
      BY <2>1, <2>2
  <1> QED
    BY <1>1, <1>7, OneMoves, OnceKept DEF Assemble, tables

\* A row that is opened was not done.
LEMMA OnceInsertRows ==
    ASSUME IInv, Once, NEW p \in Projects, InsertRows(p) PROVE Once'
  <1>1. run[p].at = "insert" /\ got' = got
    BY DEF InsertRows
  <1>2. ASSUME NEW s \in Sources, NEW t PROVE DownloadedFor(s, t)' <=> DownloadedFor(s, t)
    BY DEF InsertRows, DownloadedFor, NoRow
  <1>3. Remembered'
    BY <1>1, <1>2 DEF Once, Remembered
  <1>4. ASSUME NEW q \in Projects \ {p} PROVE Passed(q)'
    <2>1. run'[q] = run[q] /\ Passed(q)
      BY OneMoves DEF Assemble, Once
    <2> QED
      BY <1>2, <2>1, SourceOf DEF Passed
  <1>5. Passed(p)'
    <2>1. \A i \in DOMAIN SourcesOf[p] : ~DownloadedFor(SourcesOf[p][i], Text[p])
      BY <1>1 DEF Once, Passed, Steps
    <2> QED
      BY <1>2, <2>1, SourceOf DEF Passed
  <1> QED
    BY <1>3, <1>4, <1>5 DEF Once

\* A mark remembers the text, and the run that makes it is the only one on its
\* way.
LEMMA OnceMarkDone ==
    ASSUME Untagged, IInv, Once, NEW p \in Projects, MarkDone(p) PROVE Once'
  <1>1. run[p].at = "mark" /\ run[p].nth \in DOMAIN SourcesOf[p]
        /\ row \in [Sources -> Row] /\ got \in [Sources -> Texts \cup {NoText}]
    BY DEF MarkDone, IInv, TypeOK
  <1>2. PICK s \in Sources : s = Source(p) /\ Marked[Source(p)] = s
    BY <1>1, SourceOf DEF Source, Untagged
  <1> DEFINE marked == [state |-> "done", target |-> Dest(p), text |-> Text[p]]
  <1>3. /\ row' = IF row[s].state = "none" THEN row ELSE [row EXCEPT ![s] = marked]
        /\ got' = IF row[s].state = "none" THEN got ELSE [got EXCEPT ![s] = Text[p]]
    BY <1>2 DEF MarkDone
  <1>4. marked.state = "done" /\ marked.text = Text[p]
    OBVIOUS
  <1> HIDE DEF marked
  <1>5. Remembered'
    BY <1>1, <1>3, <1>4 DEF Once, Remembered, DownloadedFor
  <1>6. ASSUME NEW q \in Projects PROVE Passed(q)'
    <2>1. run'[q].at \in Ended \cup {"load"}
      BY <1>1, OneMoves DEF Assemble, IInv, Alone, Ended, MarkDone, Goto, TypeOK, Run
    <2> QED
      BY <2>1 DEF Passed, Ended, Steps
  <1> QED
    BY <1>5, <1>6 DEF Once

\* An empty table remembers nothing.
LEMMA OnceUpdateDb ==
    ASSUME Once, UpdateDb PROVE Once'
  <1>1. \A s \in Sources : got'[s] = NoText /\ row'[s].state = "none"
    BY DEF UpdateDb, NoRow
  <1>2. Remembered'
    BY <1>1 DEF Remembered
  <1>3. ASSUME NEW p \in Projects PROVE Passed(p)'
    BY <1>1, SourceOf DEF Passed, DownloadedFor
  <1> QED
    BY <1>2, <1>3 DEF Once

LEMMA OnceInitial == Init => Once
  <1> SUFFICES ASSUME Init PROVE Once
    OBVIOUS
  <1>1. Remembered
    BY DEF Init, Remembered
  <1>2. ASSUME NEW p \in Projects PROVE Passed(p)
    BY DEF Init, Passed, At, Steps
  <1> QED
    BY <1>1, <1>2 DEF Once

LEMMA OncePreserved ==
    ASSUME Untagged PROVE IInv /\ Once /\ [Next]_vars => Once'
  <1> SUFFICES ASSUME IInv, Once, [Next]_vars PROVE Once'
    OBVIOUS
  <1>1. CASE UNCHANGED vars
    BY <1>1 DEF vars, tables, Once, Remembered, Passed, DownloadedFor
  <1>2. ASSUME NEW p \in Projects, Start(p) PROVE Once'
    BY <1>2, OnceLeave DEF Start, tables
  <1>3. ASSUME NEW p \in Projects, Kill(p) PROVE Once'
    BY <1>3, OnceLeave DEF Kill, tables, Ended
  <1>4. ASSUME NEW p \in Projects, Assemble(p) PROVE Once'
    <2>1. CASE CheckInvalid(p) \/ CheckFits(p) \/ LoadTarget(p)
      BY <1>4, <2>1, OnceLeave DEF CheckInvalid, CheckFits, LoadTarget, Load, tables, Ended
    <2>2. CASE CheckNext(p) \/ InsertRows(p) \/ MarkDone(p)
      BY <2>2, OnceCheckNext, OnceInsertRows, OnceMarkDone
    <2>3. CASE FetchFails(p) \/ FetchNoPackage(p) \/ Fetch(p) \/ Replace(p)
      BY <1>4, <2>3, OnceOnward DEF FetchFails, FetchNoPackage, Fetch, Replace, tables, Steps
    <2>4. CASE RemoveEntry(p) \/ RemoveDir(p) \/ CreateDir(p) \/ CopyEntry(p)
      BY <1>4, <2>4, OnceOnward DEF RemoveEntry, RemoveDir, CreateDir, CopyEntry, tables, Steps
    <2>5. CASE FindRegistered(p) \/ AddPackage(p)
      BY <1>4, <2>5, OnceOnward DEF FindRegistered, AddPackage, tables, Steps
    <2>6. CASE Clone(p) \/ CloneFails(p) \/ CloneEntry(p) \/ CloneNoPackage(p) \/ Checkout(p)
      BY <1>4, <2>6, OnceOnward
      DEF Clone, CloneFails, CloneEntry, CloneNoPackage, Checkout, tables, Steps
    <2> QED
      BY <1>4, <2>1, <2>2, <2>3, <2>4, <2>5, <2>6 DEF Assemble
  <1>5. ASSUME NEW s \in Sources, Publish(s) PROVE Once'
    BY <1>5 DEF Publish, tables, Once, Remembered, Passed, DownloadedFor
  <1>6. CASE UpdateDb
    BY <1>6, OnceUpdateDb
  <1> QED
    BY <1>1, <1>2, <1>3, <1>4, <1>5, <1>6 DEF Next

\* When one project is built at a time and none names a tag, no source is
\* fetched again for the specifier it was last downloaded for, until the
\* database is rebuilt.
THEOREM NotDownloadedTwice ==
    ASSUME ~Concurrent, Untagged PROVE Spec => []DownloadedOnce
  <1>1. IInv /\ Once => DownloadedOnce
    <2> SUFFICES ASSUME Once, NEW p \in Projects, run[p].at = "fetch",
                        NEW i \in DOMAIN SourcesOf[p]
                 PROVE  got[SourcesOf[p][i]] # Text[p]
      BY DEF DownloadedOnce
    <2>1. ~DownloadedFor(SourcesOf[p][i], Text[p])
      BY DEF Once, Passed, Steps
    <2>2. Text[p] # NoText
      BY SourceAssumption, TextAssumption
    <2> QED
      BY <2>1, <2>2, SourceOf DEF Once, Remembered
  <1> QED
    BY <1>1, Initial, Preserved, OnceInitial, OncePreserved, PTL DEF Spec
-----------------------------------------------------------------------------
(* A ref with a url is registered when it has been assembled: what a run has *)
(* unpacked it registers before it marks it, and a directory holds what its  *)
(* name says.                                                                *)

FromUrls(v) == v \in Versions /\ \E s \in Sources \ Git : v \in Offers[s]

Offering == \A s \in Sources : offer[s] \in Offers[s]
OwnVersion == \A d \in Texts : IsPackage(d) => holds[d] \in MayHold(d)
Targets ==
    \A s \in Sources \ Git :
        row[s].state = "done" => FromUrls(row[s].target) /\ registered[row[s].target] # NoText
InHand(p) ==
    /\ /\ run[p].at \in {"replace", "removing", "create", "copying", "register", "add",
                         "mark", "load"}
       /\ Source(p) \notin Git
       => run[p].hand \in Offers[Source(p)] \cap Versions
    /\ run[p].at = "cloning" => run[p].hand \in Offers[Source(p)]
Known(p) ==
    run[p].at \in {"mark", "load"} /\ Source(p) \notin Git
        => registered[run[p].hand] # NoText /\ files[run[p].hand] = Entries
Named ==
    Offering /\ OwnVersion /\ Targets /\ \A p \in Projects : InHand(p) /\ Known(p)

\* A project has one repository, or urls.
LEMMA SourceKind ==
    ASSUME IInv, NEW p \in Projects
    PROVE  /\ Source(p) \in Sources
           /\ Source(p) \in Git => p \notin FromUrl /\ Source(p) = SourcesOf[p][1]
           /\ p \in FromUrl => Source(p) \notin Git
  <1>1. run[p].nth \in DOMAIN SourcesOf[p] /\ SourcesOf[p] \in Seq(Sources)
    BY SourceAssumption DEF IInv, TypeOK
  <1>2. Source(p) \in Sources
    BY <1>1, SourceOf DEF Source
  <1>3. ASSUME Source(p) \in Git PROVE run[p].nth = 1
    <2>1. Len(SourcesOf[p]) = 1
      BY <1>1, <1>3, SourceAssumption DEF Source
    <2> QED
      BY <1>1, <2>1
  <1> QED
    BY <1>2, <1>3 DEF FromUrl, Source

\* A version that a url offers is the name of its directory.
LEMMA OwnDirectory ==
    ASSUME Separate, NEW v, FromUrls(v) PROVE v \in Texts /\ MayHold(v) = {v}
  BY TextAssumption DEF Separate, FromUrls

\* A step of one run that records nothing.
LEMMA NamedKept ==
    ASSUME IInv, Named, NEW p \in Projects, run[p].at \notin Ended,
           \A q \in Projects \ {p} : run'[q] = run[q],
           UNCHANGED <<offer, row, registered>>,
           OwnVersion', InHand(p)', Known(p)'
    PROVE  Named'
  <1>1. Offering' /\ Targets'
    BY DEF Named, Offering, Targets
  <1>2. ASSUME NEW q \in Projects \ {p} PROVE InHand(q)' /\ Known(q)'
    <2>1. run'[q].at \in Ended
      BY DEF IInv, Alone
    <2> QED
      BY <2>1 DEF InHand, Known, Ended
  <1> QED
    BY <1>1, <1>2 DEF Named

\* A step that writes to one directory.
LEMMA OwnKept ==
    ASSUME OwnVersion, NEW w \in Texts,
           \A d \in Texts \ {w} : files'[d] = files[d] /\ holds'[d] = holds[d],
           IsPackage(w)' => holds'[w] \in MayHold(w)
    PROVE  OwnVersion'
  BY DEF OwnVersion, IsPackage

\* A run that has nothing in hand after its step.
LEMMA EmptyHanded ==
    ASSUME NEW p \in Projects,
           run'[p].at \in Ended \cup {"check", "insert", "fetch", "checkout"}
    PROVE  InHand(p)' /\ Known(p)'
  BY DEF InHand, Known, Ended

\* A source fails, or the run is over.
LEMMA NamedGiveUp ==
    ASSUME IInv, Named, NEW p \in Projects, Assemble(p) \/ Kill(p), run[p].at \notin Ended,
           \/ NextSource(p)
           \/ \E how \in Ended \cup {"check", "insert"} : Leave(p, how),
           UNCHANGED <<offer, row, registered>>, OwnVersion'
    PROVE  Named'
  <1>1. run'[p].at \in Ended \cup {"check", "insert", "fetch"}
    <2>1. CASE NextSource(p)
      BY <2>1, NextSourceMoves DEF IInv, Ended
    <2>2. ASSUME NEW how \in Ended \cup {"check", "insert"}, Leave(p, how)
          PROVE  run'[p].at \in Ended \cup {"check", "insert", "fetch"}
      <3>1. run'[p] = At(how)
        BY <2>2, LeaveMoves DEF IInv
      <3> QED
        BY <3>1 DEF At
    <2> QED
      BY <2>1, <2>2
  <1>2. InHand(p)' /\ Known(p)'
    BY <1>1, EmptyHanded
  <1>3. \A q \in Projects \ {p} : run'[q] = run[q]
    BY OneMoves
  <1> HIDE DEF NextSource
  <1> QED
    BY <1>2, <1>3, NamedKept

\* A run that goes on with what it has in hand.
LEMMA NamedGoOn ==
    ASSUME IInv, Named, NEW p \in Projects, Assemble(p), run[p].at \notin Ended,
           run'[p].nth = run[p].nth, run'[p].hand = run[p].hand,
           run'[p].at \in {"removing", "create", "copying", "register", "add"},
           run[p].at \in {"replace", "removing", "create", "copying", "register"},
           UNCHANGED <<offer, row, registered>>, OwnVersion'
    PROVE  Named'
  <1>1. InHand(p)' /\ Known(p)'
    BY DEF Named, InHand, Known, Source
  <1>2. \A q \in Projects \ {p} : run'[q] = run[q]
    BY OneMoves
  <1> QED
    BY <1>1, <1>2, NamedKept

\* The steps before there is something to unpack, and the last.
LEMMA NamedBegin ==
    ASSUME IInv, Named, NEW p \in Projects,
           \/ Start(p) \/ CheckInvalid(p) \/ CheckFits(p) \/ CheckNext(p) \/ InsertRows(p)
           \/ FetchFails(p) \/ FetchNoPackage(p) \/ LoadTarget(p) \/ Kill(p)
    PROVE  Named'
  <1>1. \A q \in Projects \ {p} : run'[q] = run[q]
    BY OneMoves DEF Assemble
  <1>2. UNCHANGED <<offer, files, holds, registered>>
    BY DEF Start, CheckInvalid, CheckFits, CheckNext, InsertRows, FetchFails,
           FetchNoPackage, LoadTarget, Kill, server, store, tables
  <1>3. run'[p].at \in Ended \cup {"check", "insert", "fetch"}
    <2>1. ASSUME NEW how \in Ended \cup {"check", "insert"}, Leave(p, how)
          PROVE  run'[p].at \in Ended \cup {"check", "insert", "fetch"}
      <3>1. run'[p] = At(how)
        BY <2>1, LeaveMoves DEF IInv
      <3> QED
        BY <3>1 DEF At
    <2>2. CASE Start(p) \/ CheckInvalid(p) \/ CheckFits(p) \/ FetchNoPackage(p)
               \/ LoadTarget(p) \/ Kill(p)
      BY <2>1, <2>2 DEF Start, CheckInvalid, CheckFits, FetchNoPackage, LoadTarget, Kill,
                        Load, Ended
    <2>3. CASE CheckNext(p)
      <3>1. run \in [Projects -> Run] /\ run[p] \in Run /\ run[p].at = "check"
        BY <2>3 DEF IInv, TypeOK, CheckNext
      <3>2. CASE run[p].nth < Len(SourcesOf[p])
        BY <2>3, <3>1, <3>2 DEF CheckNext, Run
      <3>3. CASE ~(run[p].nth < Len(SourcesOf[p]))
        BY <2>1, <2>3, <3>3 DEF CheckNext
      <3> QED
        BY <3>2, <3>3
    <2>4. CASE InsertRows(p)
      <3>1. Goto(p, "fetch") /\ TypeOK
        BY <2>4 DEF InsertRows, IInv
      <3> QED
        BY <3>1, GotoMoves DEF Steps
    <2>5. CASE FetchFails(p)
      <3>1. NextSource(p) /\ TypeOK
        BY <2>5 DEF FetchFails, IInv
      <3> QED
        BY <3>1, NextSourceMoves DEF Ended
    <2> QED
      BY <2>2, <2>3, <2>4, <2>5
  <1>4. InHand(p)' /\ Known(p)'
    BY <1>3, EmptyHanded
  <1>5. ASSUME NEW q \in Projects \ {p} PROVE InHand(q)' /\ Known(q)'
    BY <1>1, <1>2 DEF Named, InHand, Known, Source
  <1>6. Offering' /\ OwnVersion'
    BY <1>2 DEF Named, Offering, OwnVersion, IsPackage
  <1>7. Targets'
    <2>1. \A s \in Sources : row'[s].state = "done" => row'[s] = row[s]
      BY DEF Start, CheckInvalid, CheckFits, CheckNext, InsertRows, FetchFails,
             FetchNoPackage, LoadTarget, Kill, tables, NoRow
    <2> QED
      BY <1>2, <2>1 DEF Named, Targets
  <1> QED
    BY <1>4, <1>5, <1>6, <1>7 DEF Named

\* An archive is unpacked that its url offers.
LEMMA NamedFetch ==
    ASSUME IInv, Named, NEW p \in Projects, Fetch(p) PROVE Named'
  <1>1. /\ run[p].at = "fetch" /\ run[p].at \notin Ended
        /\ Source(p) \notin Git /\ offer[Source(p)] # NoPackage
        /\ UNCHANGED <<server, store, tables>>
    BY DEF Fetch, Ended
  <1>2. offer[Source(p)] \in Offers[Source(p)] \cap Versions
    BY <1>1, SourceKind DEF IInv, TypeOK, Named, Offering
  <1>3. run'[p].at = "replace" /\ run'[p].hand = offer[Source(p)] /\ run'[p].nth = run[p].nth
    BY DEF Fetch, IInv, TypeOK, Run
  <1>4. InHand(p)' /\ Known(p)'
    BY <1>2, <1>3 DEF InHand, Known, Source
  <1>5. OwnVersion'
    BY <1>1 DEF store, Named, OwnVersion, IsPackage
  <1>6. \A q \in Projects \ {p} : run'[q] = run[q]
    BY OneMoves DEF Assemble
  <1> QED
    BY <1>1, <1>4, <1>5, <1>6, NamedKept DEF server, tables

LEMMA NamedReplace ==
    ASSUME IInv, Named, NEW p \in Projects, Replace(p) PROVE Named'
  <1>1. run[p].at = "replace" /\ run[p].at \notin Ended /\ UNCHANGED <<server, store, tables>>
    BY DEF Replace, Ended
  <1>2. /\ run'[p].at \in {"removing", "create"}
        /\ run'[p].nth = run[p].nth /\ run'[p].hand = run[p].hand
    <2>1. run \in [Projects -> Run] /\ run[p] \in Run
      BY DEF IInv, TypeOK
    <2> QED
      BY <2>1 DEF Replace, Goto, Run
  <1>3. OwnVersion'
    BY <1>1 DEF store, Named, OwnVersion, IsPackage
  <1> QED
    BY <1>1, <1>2, <1>3, NamedGoOn DEF Assemble, server, tables

\* A directory that loses entries holds what it held, or no package.
LEMMA NamedRemove ==
    ASSUME IInv, Named, NEW p \in Projects, RemoveEntry(p) \/ RemoveDir(p) PROVE Named'
  <1>1. /\ run[p].at = "removing" /\ run[p].at \notin Ended
        /\ UNCHANGED <<offer, row, registered>>
    BY DEF RemoveEntry, RemoveDir, Ended, server, tables
  <1>2. PICK w \in Texts : w = Dest(p)
    BY <1>1, Replacing
  <1>3. /\ files \in [Texts -> SUBSET Entries] /\ holds \in [Texts -> Versions \cup {NoPackage}]
        /\ run \in [Projects -> Run] /\ run[p] \in Run
    BY DEF IInv, TypeOK
  <1>4. CASE NextSource(p) /\ UNCHANGED <<files, holds>>
    <2>1. OwnVersion'
      BY <1>4 DEF Named, OwnVersion, IsPackage
    <2> QED
      BY <1>1, <1>4, <2>1, NamedGiveUp DEF Assemble
  <1>5. ASSUME NEW e \in run[p].todo,
               files' = [files EXCEPT ![w] = @ \ {e}],
               holds' = IF e = "package.json" THEN [holds EXCEPT ![w] = NoPackage] ELSE holds,
               run' = [run EXCEPT ![p].todo = @ \ {e}]
        PROVE  Named'
    <2>1. OwnVersion'
      <3>1. \A d \in Texts \ {w} : files'[d] = files[d] /\ holds'[d] = holds[d]
        BY <1>3, <1>5
      <3>2. IsPackage(w)' => holds'[w] = holds[w] /\ IsPackage(w)
        BY <1>3, <1>5 DEF IsPackage
      <3>3. IsPackage(w)' => holds'[w] \in MayHold(w)
        BY <3>2 DEF Named, OwnVersion
      <3> QED
        BY <3>1, <3>3, OwnKept DEF Named
    <2>2. run'[p].at = "removing" /\ run'[p].nth = run[p].nth /\ run'[p].hand = run[p].hand
      BY <1>1, <1>3, <1>5 DEF Run
    <2> QED
      BY <1>1, <2>1, <2>2, NamedGoOn DEF Assemble
  <1>6. CASE RemoveEntry(p)
    BY <1>2, <1>4, <1>5, <1>6 DEF RemoveEntry
  <1>7. CASE RemoveDir(p) /\ Goto(p, "create")
    <2>1. OwnVersion'
      BY <1>7 DEF RemoveDir, Named, OwnVersion, IsPackage
    <2>2. run'[p].at = "create" /\ run'[p].nth = run[p].nth /\ run'[p].hand = run[p].hand
      BY <1>3, <1>7 DEF Goto, Run
    <2> QED
      BY <1>1, <1>7, <2>1, <2>2, NamedGoOn DEF Assemble
  <1>8. CASE RemoveDir(p) /\ ~Goto(p, "create")
    BY <1>4, <1>8 DEF RemoveDir
  <1> QED
    BY <1>6, <1>7, <1>8

LEMMA NamedCreateDir ==
    ASSUME IInv, Named, NEW p \in Projects, CreateDir(p) PROVE Named'
  <1>1. /\ run[p].at = "create" /\ run[p].at \notin Ended
        /\ UNCHANGED <<offer, files, holds, row, registered>>
    BY DEF CreateDir, Ended, server, tables
  <1>2. OwnVersion'
    BY <1>1 DEF Named, OwnVersion, IsPackage
  <1>3. CASE Dest(p) \in exists
    <2>1. NextSource(p)
      BY <1>3 DEF CreateDir
    <2> QED
      BY <1>1, <1>2, <2>1, NamedGiveUp DEF Assemble
  <1>4. CASE Dest(p) \notin exists
    <2>1. run \in [Projects -> Run] /\ run[p] \in Run
      BY DEF IInv, TypeOK
    <2>2. run'[p].at = "copying" /\ run'[p].nth = run[p].nth /\ run'[p].hand = run[p].hand
      BY <1>4, <2>1 DEF CreateDir, Run
    <2> QED
      BY <1>1, <1>2, <2>2, NamedGoOn DEF Assemble
  <1> QED
    BY <1>3, <1>4

\* What is written to the directory of p holds the version p has in hand.
LEMMA Writes ==
    ASSUME IInv, Named, NEW p \in Projects, NEW e \in Entries, NEW next, NEW w \in Texts,
           w = Dest(p), WriteEntry(p, e, run[p].hand, next),
           run[p].hand \in MayHold(w)
    PROVE  /\ OwnVersion'
           /\ run'[p].at \in {next, run[p].at}
           /\ run'[p].nth = run[p].nth /\ run'[p].hand = run[p].hand
  <1>1. /\ files \in [Texts -> SUBSET Entries] /\ holds \in [Texts -> Versions \cup {NoPackage}]
        /\ run \in [Projects -> Run] /\ run[p] \in Run
    BY DEF IInv, TypeOK
  <1>2. /\ files' = [files EXCEPT ![w] = @ \cup {e}]
        /\ holds' = IF e = "package.json" THEN [holds EXCEPT ![w] = run[p].hand] ELSE holds
    BY DEF WriteEntry
  <1>3. \A d \in Texts \ {w} : files'[d] = files[d] /\ holds'[d] = holds[d]
    BY <1>1, <1>2
  <1>4. IsPackage(w)' => holds'[w] \in MayHold(w)
    <2>1. CASE e = "package.json"
      BY <1>1, <1>2, <2>1
    <2>2. CASE e # "package.json"
      <3>1. IsPackage(w)' => IsPackage(w) /\ holds'[w] = holds[w]
        BY <1>1, <1>2, <2>2 DEF IsPackage
      <3> QED
        BY <3>1 DEF Named, OwnVersion
    <2> QED
      BY <2>1, <2>2
  <1>5. OwnVersion'
    BY <1>3, <1>4, OwnKept DEF Named
  <1>6. /\ run'[p].at \in {next, run[p].at}
        /\ run'[p].nth = run[p].nth /\ run'[p].hand = run[p].hand
    BY <1>1 DEF WriteEntry, Run
  <1> QED
    BY <1>5, <1>6

LEMMA NamedCopyEntry ==
    ASSUME IInv, Named, NEW p \in Projects, CopyEntry(p) PROVE Named'
  <1>1. /\ run[p].at = "copying" /\ run[p].at \notin Ended
        /\ UNCHANGED <<offer, row, registered>>
    BY DEF CopyEntry, Ended, server, tables
  <1>2. PICK w \in Texts : w = Dest(p)
    BY <1>1, Replacing
  <1>3. run[p].hand \in MayHold(w)
    <2>1. Source(p) \in Sources \ Git /\ run[p].hand = w /\ run[p].hand \in Versions
      BY <1>1, <1>2, Replacing, SourceKind
    <2>2. run[p].hand \in Offers[Source(p)]
      BY <1>1, <2>1 DEF Named, InHand
    <2> QED
      BY <2>1, <2>2 DEF MayHold
  <1>4. CASE Dest(p) \in exists
    <2>1. PICK e \in run[p].todo : WriteEntry(p, e, run[p].hand, "register")
      BY <1>4 DEF CopyEntry
    <2>2. e \in Entries
      BY DEF IInv, TypeOK, Run
    <2>3. OwnVersion' /\ run'[p].at \in {"register", "copying"}
          /\ run'[p].nth = run[p].nth /\ run'[p].hand = run[p].hand
      BY <1>1, <1>2, <1>3, <2>1, <2>2, Writes
    <2> QED
      BY <1>1, <2>3, NamedGoOn DEF Assemble
  <1>5. CASE Dest(p) \notin exists
    <2>1. NextSource(p) /\ UNCHANGED <<files, holds>>
      BY <1>5 DEF CopyEntry
    <2>2. OwnVersion'
      BY <2>1 DEF Named, OwnVersion, IsPackage
    <2> QED
      BY <1>1, <2>1, <2>2, NamedGiveUp DEF Assemble
  <1> QED
    BY <1>4, <1>5

\* What is known of a run that registers.
LEMMA Registering ==
    ASSUME IInv, Named, NEW p \in Projects, run[p].at \in {"register", "add"}
    PROVE  /\ run[p].at \notin Ended /\ Source(p) \in Sources \ Git
           /\ run[p].hand \in Offers[Source(p)] \cap Versions
           /\ Dest(p) = run[p].hand /\ files[run[p].hand] = Entries
  <1>1. Source(p) \in Sources \ Git
    BY SourceKind DEF IInv, Control, Unpacking
  <1>2. files[Dest(p)] = Entries /\ Dest(p) = run[p].hand
    BY <1>1 DEF IInv, Control, Unpacked, Dest
  <1> QED
    BY <1>1, <1>2 DEF Named, InHand, Ended

LEMMA NamedFindRegistered ==
    ASSUME IInv, Named, NEW p \in Projects, FindRegistered(p) PROVE Named'
  <1>1. run[p].at = "register" /\ UNCHANGED <<server, store, tables>>
    BY DEF FindRegistered
  <1>2. run[p].at \notin Ended /\ run[p].hand \in Offers[Source(p)] \cap Versions
        /\ files[run[p].hand] = Entries
    BY <1>1, Registering
  <1>3. /\ run'[p].nth = run[p].nth /\ run'[p].hand = run[p].hand
        /\ run'[p].at = IF registered[run[p].hand] = NoText THEN "add" ELSE "mark"
    <2>1. run \in [Projects -> Run] /\ run[p] \in Run
      BY DEF IInv, TypeOK
    <2> QED
      BY <2>1 DEF FindRegistered, Goto, Run
  <1>4. InHand(p)' /\ Known(p)'
    BY <1>1, <1>2, <1>3 DEF InHand, Known, Source, store, tables
  <1>5. OwnVersion'
    BY <1>1 DEF store, Named, OwnVersion, IsPackage
  <1>6. \A q \in Projects \ {p} : run'[q] = run[q]
    BY OneMoves DEF Assemble
  <1> QED
    BY <1>1, <1>2, <1>4, <1>5, <1>6, NamedKept DEF server, tables

\* A package that has been added is registered.
LEMMA NamedAddPackage ==
    ASSUME IInv, Named, NEW p \in Projects, AddPackage(p) PROVE Named'
  <1>1. /\ run[p].at = "add" /\ UNCHANGED <<offer, files, holds, row>>
    BY DEF AddPackage, server
  <1>2. /\ run[p].at \notin Ended /\ run[p].hand \in Offers[Source(p)] \cap Versions
        /\ files[run[p].hand] = Entries /\ Dest(p) = run[p].hand
    BY <1>1, Registering
  <1>3. OwnVersion'
    BY <1>1 DEF Named, OwnVersion, IsPackage
  <1>4. CASE registered[run[p].hand] # NoText
    <2>1. NextSource(p) /\ registered' = registered
      BY <1>4 DEF AddPackage
    <2> QED
      BY <1>1, <1>2, <1>3, <2>1, NamedGiveUp DEF Assemble
  <1>5. CASE registered[run[p].hand] = NoText
    <2>1. registered' = [registered EXCEPT ![run[p].hand] = Dest(p)] /\ Goto(p, "mark")
      BY <1>5 DEF AddPackage
    <2>2. Dest(p) # NoText /\ registered \in [Versions -> Texts \cup {NoText}]
      BY <1>2, TextAssumption DEF IInv, TypeOK
    <2>3. /\ registered'[run[p].hand] # NoText
          /\ \A v \in Versions : registered[v] # NoText => registered'[v] # NoText
      BY <1>2, <2>1, <2>2
    <2>4. run'[p].at = "mark" /\ run'[p].nth = run[p].nth /\ run'[p].hand = run[p].hand
      BY <2>1, GotoMoves DEF IInv, Steps
    <2>5. InHand(p)' /\ Known(p)'
      BY <1>1, <1>2, <2>3, <2>4 DEF InHand, Known, Source
    <2>6. ASSUME NEW q \in Projects \ {p} PROVE InHand(q)' /\ Known(q)'
      <3>1. run'[q].at \in Ended
        BY <1>2, OneMoves DEF Assemble, IInv, Alone
      <3> QED
        BY <3>1 DEF InHand, Known, Ended
    <2>7. Offering' /\ Targets'
      BY <1>1, <2>3 DEF Named, Offering, Targets, FromUrls
    <2> QED
      BY <1>3, <2>5, <2>6, <2>7 DEF Named
  <1> QED
    BY <1>4, <1>5

\* A mark points to what has just been registered.
LEMMA NamedMarkDone ==
    ASSUME IInv, Named, NEW p \in Projects, MarkDone(p) PROVE Named'
  <1>1. /\ run[p].at = "mark" /\ run[p].at \notin Ended
        /\ UNCHANGED <<server, store, registered>> /\ Goto(p, "load")
    BY DEF MarkDone, Ended
  <1>2. run'[p].at = "load" /\ run'[p].nth = run[p].nth /\ run'[p].hand = run[p].hand
    BY <1>1, GotoMoves DEF IInv, Steps
  <1>3. InHand(p)' /\ Known(p)'
    BY <1>1, <1>2 DEF Named, InHand, Known, Source, store
  <1>4. ASSUME NEW q \in Projects \ {p} PROVE InHand(q)' /\ Known(q)'
    <2>1. run'[q].at \in Ended
      BY <1>1, OneMoves DEF Assemble, IInv, Alone
    <2> QED
      BY <2>1 DEF InHand, Known, Ended
  <1>5. Offering' /\ OwnVersion'
    BY <1>1 DEF Named, Offering, OwnVersion, IsPackage, server, store
  <1>6. Targets'
    <2>1. PICK s : s = Marked[Source(p)]
      OBVIOUS
    <2>2. /\ Source(p) \in Sources /\ s \in Sources
          /\ Source(p) \in Git => s \in Git
          /\ Source(p) \notin Git => s = Source(p)
      BY <2>1, SourceKind, SourceAssumption
    <2> DEFINE marked == [state |-> "done", target |-> Dest(p), text |-> Text[p]]
    <2>3. row' = (IF row[s].state = "none" THEN row ELSE [row EXCEPT ![s] = marked])
      BY <2>1 DEF MarkDone
    <2>4. marked.target = Dest(p)
      OBVIOUS
    <2> HIDE DEF marked
    <2>5. \A t \in Sources \ {s} : row'[t] = row[t]
      BY <2>3 DEF IInv, TypeOK
    <2>6. row'[s] = row[s] \/ row'[s] = marked
      BY <2>2, <2>3 DEF IInv, TypeOK
    <2>7. Source(p) \notin Git => FromUrls(Dest(p)) /\ registered[Dest(p)] # NoText
      BY <1>1, <2>2 DEF Named, InHand, Known, FromUrls, Dest
    <2> QED
      BY <1>1, <2>2, <2>4, <2>5, <2>6, <2>7 DEF Named, Targets
  <1> QED
    BY <1>3, <1>4, <1>5, <1>6 DEF Named

\* A clone begins without a package.json.
LEMMA NamedClone ==
    ASSUME IInv, Named, NEW p \in Projects, Clone(p) PROVE Named'
  <1>1. /\ run[p].at = "fetch" /\ run[p].at \notin Ended /\ Source(p) \in Git
        /\ UNCHANGED <<offer, holds, row, registered>>
    BY DEF Clone, Ended, server, tables
  <1>2. PICK w \in Texts : w = Text[p]
    BY SourceAssumption
  <1>3. CASE files[w] # {}
    <2>1. NextSource(p) /\ files' = files
      BY <1>2, <1>3 DEF Clone
    <2>2. OwnVersion'
      BY <1>1, <2>1 DEF Named, OwnVersion, IsPackage
    <2> QED
      BY <1>1, <2>1, <2>2, NamedGiveUp DEF Assemble
  <1>4. CASE files[w] = {}
    <2>1. /\ files' = [files EXCEPT ![w] = {"sources"}]
          /\ run' = [run EXCEPT ![p].at = "cloning", ![p].hand = offer[Source(p)],
                                ![p].todo = {"package.json"}]
      BY <1>2, <1>4 DEF Clone
    <2>2. /\ run'[p].at = "cloning" /\ run'[p].hand = offer[Source(p)]
          /\ run'[p].nth = run[p].nth
      BY <2>1 DEF IInv, TypeOK, Run
    <2>3. offer[Source(p)] \in Offers[Source(p)]
      BY SourceKind DEF Named, Offering
    <2>4. InHand(p)' /\ Known(p)'
      BY <1>1, <2>2, <2>3 DEF InHand, Known, Source
    <2>5. OwnVersion'
      <3>1. /\ \A d \in Texts \ {w} : files'[d] = files[d] /\ holds'[d] = holds[d]
            /\ ~IsPackage(w)'
        BY <1>1, <2>1 DEF IInv, TypeOK, IsPackage
      <3> QED
        BY <3>1, OwnKept DEF Named
    <2>6. \A q \in Projects \ {p} : run'[q] = run[q]
      BY OneMoves DEF Assemble
    <2> QED
      BY <1>1, <2>4, <2>5, <2>6, NamedKept
  <1> QED
    BY <1>3, <1>4

LEMMA NamedCloneFails ==
    ASSUME IInv, Named, NEW p \in Projects, CloneFails(p) PROVE Named'
  <1>1. /\ run[p].at = "cloning" /\ run[p].at \notin Ended /\ NextSource(p)
        /\ UNCHANGED <<offer, holds, row, registered>>
        /\ files' = [files EXCEPT ![Text[p]] = {}]
    BY DEF CloneFails, Ended, server, tables
  <1>2. Text[p] \in Texts
    BY SourceAssumption
  <1>3. OwnVersion'
    <2>1. \A d \in Texts : IsPackage(d)' => IsPackage(d)
      BY <1>1, <1>2 DEF IInv, TypeOK, IsPackage
    <2> QED
      BY <1>1, <2>1 DEF Named, OwnVersion
  <1> QED
    BY <1>1, <1>3, NamedGiveUp DEF Assemble

\* A clone holds what its repository offers.
LEMMA NamedCloneEntry ==
    ASSUME IInv, Named, NEW p \in Projects, CloneEntry(p) PROVE Named'
  <1>1. /\ run[p].at = "cloning" /\ run[p].at \notin Ended /\ run[p].hand # NoPackage
        /\ WriteEntry(p, "package.json", run[p].hand, "checkout")
        /\ UNCHANGED <<offer, row, registered>>
    BY DEF CloneEntry, Ended, server, tables
  <1>2. PICK w \in Texts : w = Dest(p) /\ w = Text[p]
    BY <1>1, CloningKnown
  <1>3. run[p].hand \in MayHold(w)
    <2>1. p \notin FromUrl /\ Source(p) = SourcesOf[p][1]
      BY <1>1, CloningKnown, SourceKind
    <2>2. run[p].hand \in Offers[Source(p)]
      BY <1>1 DEF Named, InHand
    <2>3. run[p].hand \in Versions
      BY <1>1 DEF IInv, TypeOK, Run
    <2> QED
      BY <1>2, <2>1, <2>2, <2>3 DEF MayHold
  <1>4. /\ OwnVersion' /\ run'[p].nth = run[p].nth
        /\ run'[p].at = "checkout"
    <2>1. OwnVersion' /\ run'[p].nth = run[p].nth
      BY <1>1, <1>2, <1>3, Writes DEF Entries
    <2>2. run[p].todo \ {"package.json"} = {}
      BY <1>1 DEF IInv, Control, Cloning
    <2>3. run \in [Projects -> Run] /\ run[p] \in Run
      BY DEF IInv, TypeOK
    <2>4. run'[p].at = "checkout"
      BY <1>1, <2>2, <2>3 DEF WriteEntry, Run
    <2> QED
      BY <2>1, <2>4
  <1>5. InHand(p)' /\ Known(p)'
    BY <1>4, EmptyHanded
  <1>6. \A q \in Projects \ {p} : run'[q] = run[q]
    BY OneMoves DEF Assemble
  <1> QED
    BY <1>1, <1>4, <1>5, <1>6, NamedKept

LEMMA NamedCloned ==
    ASSUME IInv, Named, NEW p \in Projects, CloneNoPackage(p) \/ Checkout(p) PROVE Named'
  <1>1. /\ run[p].at \in {"cloning", "checkout"} /\ run[p].at \notin Ended
        /\ Source(p) \in Git
        /\ UNCHANGED <<offer, files, holds, row, registered>>
    BY CloningKnown
    DEF CloneNoPackage, Checkout, Ended, IInv, Control, CheckingOut, server, store, tables
  <1>2. OwnVersion'
    BY <1>1 DEF Named, OwnVersion, IsPackage
  <1>3. ASSUME NEW step \in {"checkout", "mark"}, Goto(p, step) PROVE Named'
    <2>1. run'[p].at = step /\ run'[p].nth = run[p].nth
      BY <1>3 DEF IInv, TypeOK, Goto, Run
    <2>2. InHand(p)' /\ Known(p)'
      BY <1>1, <2>1 DEF InHand, Known, Source
    <2>3. \A q \in Projects \ {p} : run'[q] = run[q]
      BY OneMoves DEF Assemble
    <2> QED
      BY <1>1, <1>2, <2>2, <2>3, NamedKept
  <1>4. CASE NextSource(p)
    BY <1>1, <1>2, <1>4, NamedGiveUp DEF Assemble
  <1> QED
    BY <1>3, <1>4 DEF CloneNoPackage, Checkout

\* No two directories hold the same version, so that a rebuilt table registers
\* all there are.
LEMMA NamedUpdateDb ==
    ASSUME Separate, IInv, Named, UpdateDb PROVE Named'
  <1>1. /\ UNCHANGED <<offer, store, run>>
        /\ \A s \in Sources : row'[s].state = "none"
    BY DEF UpdateDb, NoRow
  <1>2. exists \subseteq Texts /\ NoText \notin Texts
    BY TextAssumption DEF IInv, TypeOK
  <1>3. Scannable
    BY <1>2 DEF Scannable, Named, OwnVersion, Separate
  <1>4. ASSUME NEW v, FromUrls(v), files[v] = Entries PROVE registered'[v] # NoText
    <2> DEFINE Good(d) == IsPackage(d) /\ holds[d] = v
    <2>1. v \in Texts /\ v \in Versions /\ v \in exists /\ IsPackage(v)
      BY <1>4, OwnDirectory DEF IInv, TypeOK, IsPackage, Entries, FromUrls
    <2>2. Good(v)
      BY <1>4, <2>1, OwnDirectory DEF Named, OwnVersion
    <2>3. registered'[v] = CHOOSE d \in exists : Good(d)
      BY <1>3, <2>1, <2>2 DEF UpdateDb
    <2>4. registered'[v] \in exists
      <3> HIDE DEF Good
      <3> QED
        BY <2>1, <2>2, <2>3
    <2> QED
      BY <1>2, <2>4
  <1>5. ASSUME NEW p \in Projects PROVE InHand(p)' /\ Known(p)'
    <2>1. InHand(p)'
      BY <1>1 DEF Named, InHand, Source
    <2>2. ASSUME run[p].at \in {"mark", "load"}, Source(p) \notin Git
          PROVE  FromUrls(run[p].hand) /\ files[run[p].hand] = Entries
      BY <2>2, SourceKind DEF Named, InHand, Known, FromUrls
    <2>3. Known(p)'
      BY <1>1, <1>4, <2>2 DEF Known, Source, store
    <2> QED
      BY <2>1, <2>3
  <1>6. Offering' /\ OwnVersion' /\ Targets'
    BY <1>1 DEF Named, Offering, OwnVersion, Targets, IsPackage, store
  <1> QED
    BY <1>5, <1>6 DEF Named

LEMMA NamedPublish ==
    ASSUME IInv, Named, NEW s \in Sources, Publish(s) PROVE Named'
  <1>1. UNCHANGED <<store, tables, run>>
    BY DEF Publish
  <1>2. Offering'
    <2>1. PICK v \in Offers[s] \ {offer[s]} : offer' = [offer EXCEPT ![s] = v]
      BY DEF Publish
    <2> QED
      BY <2>1 DEF Named, Offering, IInv, TypeOK
  <1> QED
    BY <1>1, <1>2 DEF Named, OwnVersion, Targets, InHand, Known, Source, IsPackage,
                      store, tables

LEMMA NamedInitial == Init => Named
  <1> SUFFICES ASSUME Init PROVE Named
    OBVIOUS
  <1>1. Offering /\ OwnVersion /\ Targets
    BY DEF Init, Offering, OwnVersion, Targets, IsPackage, NoRow
  <1>2. \A p \in Projects : InHand(p) /\ Known(p)
    BY DEF Init, InHand, Known, At
  <1> QED
    BY <1>1, <1>2 DEF Named

LEMMA NamedPreserved ==
    ASSUME Separate PROVE IInv /\ Named /\ [Next]_vars => Named'
  <1> SUFFICES ASSUME IInv, Named, [Next]_vars PROVE Named'
    OBVIOUS
  <1>1. CASE UNCHANGED vars
    BY <1>1 DEF vars, server, store, tables, Named, Offering, OwnVersion, Targets, InHand,
                Known, Source, IsPackage
  <1>2. ASSUME NEW p \in Projects, Start(p) \/ Assemble(p) \/ Kill(p) PROVE Named'
    BY <1>2, NamedBegin, NamedFetch, NamedReplace, NamedRemove, NamedCreateDir,
       NamedCopyEntry, NamedFindRegistered, NamedAddPackage, NamedMarkDone, NamedClone,
       NamedCloneFails, NamedCloneEntry, NamedCloned
    DEF Assemble
  <1>3. ASSUME NEW s \in Sources, Publish(s) PROVE Named'
    BY <1>3, NamedPublish
  <1>4. CASE UpdateDb
    BY <1>4, NamedUpdateDb
  <1> QED
    BY <1>1, <1>2, <1>3, <1>4 DEF Next

\* A run takes its package at its checks or at the end.
LEMMA Takes ==
    ASSUME IInv, [Next]_vars, NEW p \in Projects, Assembles(p)
    PROVE  CheckFits(p) \/ LoadTarget(p)
  <1> SUFFICES ASSUME ~CheckFits(p), ~LoadTarget(p) PROVE FALSE
    OBVIOUS
  <1>1. /\ run[p].at # "done" /\ run'[p].at = "done"
        /\ run \in [Projects -> Run] /\ run[p] \in Run
    BY DEF Assembles, IInv, TypeOK
  <1>2. ASSUME NEW step \in Steps \cup {"out"}, Goto(p, step) \/ Leave(p, step) PROVE FALSE
    BY <1>1, <1>2 DEF Goto, Leave, At, Run, Steps
  <1>3. ~NextSource(p)
    BY <1>1, NextSourceMoves DEF IInv
  <1>4. ~Start(p) /\ ~Kill(p)
    BY <1>2 DEF Start, Kill, Steps
  <1>5. ~CheckInvalid(p) /\ ~CheckNext(p) /\ ~InsertRows(p)
    BY <1>1, <1>2 DEF CheckInvalid, CheckNext, InsertRows, Steps, Run
  <1>6. ~FetchFails(p) /\ ~FetchNoPackage(p) /\ ~Fetch(p) /\ ~Replace(p)
    BY <1>1, <1>2, <1>3 DEF FetchFails, FetchNoPackage, Fetch, Replace, Steps, Run
  <1>7. ~RemoveEntry(p) /\ ~RemoveDir(p) /\ ~CreateDir(p)
    BY <1>1, <1>2, <1>3 DEF RemoveEntry, RemoveDir, CreateDir, Steps, Run
  <1>8. ~CopyEntry(p) /\ ~CloneEntry(p)
    <2>1. ASSUME NEW e, NEW v, NEW next \in {"register", "checkout"},
                 WriteEntry(p, e, v, next)
          PROVE  FALSE
      BY <1>1, <2>1 DEF WriteEntry, Run
    <2> QED
      BY <1>3, <2>1 DEF CopyEntry, CloneEntry
  <1>9. ~FindRegistered(p) /\ ~AddPackage(p) /\ ~MarkDone(p)
    BY <1>2, <1>3 DEF FindRegistered, AddPackage, MarkDone, Steps
  <1>10. ~Clone(p) /\ ~CloneFails(p) /\ ~CloneNoPackage(p) /\ ~Checkout(p)
    BY <1>1, <1>2, <1>3 DEF Clone, CloneFails, CloneNoPackage, Checkout, Steps, Run
  <1>11. ~(Start(p) \/ Assemble(p) \/ Kill(p))
    BY <1>4, <1>5, <1>6, <1>7, <1>8, <1>9, <1>10 DEF Assemble
  <1>12. run' # run
    BY <1>1
  <1>13. PICK q \in Projects : Start(q) \/ Assemble(q) \/ Kill(q)
    BY <1>12 DEF Next, vars, Publish, UpdateDb
  <1>14. q # p
    BY <1>11, <1>13
  <1>15. run'[p] = run[p]
    BY <1>13, <1>14, OneMoves
  <1> QED
    BY <1>1, <1>15

\* A run that takes a package has it from where a mark points, or has marked it
\* itself; both are registered.
LEMMA TakesRegistered ==
    ASSUME Separate, IInv, Named, [Next]_vars, NEW p \in FromUrl, Assembles(p)
    PROVE  registered[holds[Loaded(p)]] # NoText
  <1>1. p \in Projects /\ Source(p) \in Sources \ Git /\ Text[p] \in Texts
        /\ run \in [Projects -> Run] /\ run[p] \in Run
    BY SourceKind, SourceAssumption DEF FromUrl, IInv, TypeOK
  <1>2. CASE CheckFits(p)
    <2> DEFINE d == row[Source(p)].target
    <2>1. run[p].at = "check" /\ row[Source(p)].state = "done" /\ Load(p, d)
      BY <1>2 DEF CheckFits
    <2>2. FromUrls(d) /\ registered[d] # NoText
      BY <1>1, <2>1 DEF Named, Targets
    <2>3. IsPackage(d)
      BY <1>1, <2>1 DEF Load, Leave, At, Assembles
    <2>4. holds[d] = d
      BY <2>2, <2>3, OwnDirectory DEF Named, OwnVersion
    <2> QED
      BY <2>1, <2>2, <2>4 DEF Loaded
  <1>3. CASE LoadTarget(p)
    <2>1. run[p].at = "load" /\ Load(p, Text[p])
      BY <1>3 DEF LoadTarget
    <2>2. IsPackage(Text[p])
      BY <1>1, <2>1 DEF Load, Leave, At, Assembles
    <2>3. run[p].hand \in Offers[Source(p)] \cap Versions /\ registered[run[p].hand] # NoText
      BY <1>1, <2>1 DEF Named, InHand, Known
    <2>4. MayHold(Text[p]) \subseteq {run[p].hand}
      BY <1>1, <2>3 DEF Separate, Source, IInv, TypeOK
    <2>5. holds[Text[p]] = run[p].hand
      BY <1>1, <2>2, <2>4 DEF Named, OwnVersion
    <2> QED
      BY <2>1, <2>3, <2>5 DEF Loaded
  <1> QED
    BY <1>1, <1>2, <1>3, Takes

\* When one project is built at a time and directories are Separate, a ref with
\* a url that has been assembled has its package registered.
THEOREM UrlsAreRegistered ==
    ASSUME ~Concurrent, Separate PROVE Spec => UrlIsRegistered
  <1>1. IInv /\ Named /\ [Next]_vars
            => [\A p \in FromUrl : Assembles(p) => registered[holds[Loaded(p)]] # NoText]_vars
    BY TakesRegistered
  <1> QED
    BY <1>1, Initial, Preserved, NamedInitial, NamedPreserved, PTL DEF Spec, UrlIsRegistered
=============================================================================
