---------------------------- MODULE Resolution ----------------------------
(***************************************************************************)
(* How PackageResolver chooses one version of every library: resolvelib's  *)
(* Resolution.resolve, asked through ResolveLibProvider, from the refs of  *)
(* packages.json to the mapping that _wire_results reads.                  *)
(*                                                                         *)
(* Resolution keeps a stack of states.  Each state pins one more library   *)
(* than the state below it; the last one is the state being worked on.     *)
(* When no candidate of a library can be pinned, states are thrown away    *)
(* (_backjump), at first optimistically: a first jump past a library that  *)
(* is not among the causes saves the stack, which comes back when the      *)
(* optimistic search has failed or has taken too long.                     *)
(*                                                                         *)
(* Versions are numbers, a newer version being larger, and a version       *)
(* specifier is the set of the versions it contains.  The dictionaries of  *)
(* the code keep the order of insertion: `round`, `since` and `rank` are   *)
(* there for the places where that order decides.                          *)
(***************************************************************************)
EXTENDS Integers, Sequences

CONSTANTS
    Names,      \* the libraries
    Versions,   \* the versions they may have
    Projects,   \* the projects to resolve, each with the libraries that exist
    MaxRounds,  \* Resolver.resolve's max_rounds
    None        \* Python's None

VARIABLES
    project,    \* the project being resolved
    todo,       \* the index of the next ref that adds its requirements
    stack,      \* _states
    saved,      \* _save_states, << >> for None
    optimistic, \* _optimistic_backjumping_ratio is not 0
    start,      \* optimistic_backjumping_start_round
    round,      \* round_index
    causes,     \* incompatible_deps, while backjumping
    phase       \* where resolve is, or how it ended

vars == <<project, todo, stack, saved, optimistic, start, round, causes, phase>>

Requirements == [name : Names, spec : SUBSET Versions]

\* A package.json or packages.json names a library once.
IsList(list) == /\ list \in Seq(Requirements)
                /\ \A i, j \in DOMAIN list : list[i].name = list[j].name => i = j

\* An entry of packages.json: forceCandidate comes from "override", suggestCandidate from
\* the cache of the last run, and dynamic stands for mode "dynamic".
Refs == [name : Names, spec : SUBSET Versions, force : Versions \cup {None},
         suggest : Versions \cup {None}, dynamic : BOOLEAN]

ASSUME RoundsType == MaxRounds \in Nat \ {0}
ASSUME VersionsType == Versions \subseteq Nat /\ None \notin Versions
ASSUME ProjectsType ==
    \A p \in Projects :
        /\ DOMAIN p.deps = Names
        /\ \A n \in Names : /\ DOMAIN p.deps[n] \subseteq Versions
                            /\ \A v \in DOMAIN p.deps[n] : IsList(p.deps[n][v])
        /\ p.refs \in Seq(Refs)
        /\ \A i \in DOMAIN p.refs : p.refs[i].force \in DOMAIN p.deps[p.refs[i].name] \cup {None}

Candidates == [name : Names, version : Versions]

\* A requirement and the candidate that made it, None for the project itself.
Information == [spec : SUBSET Versions, parent : Candidates \cup {None}, since : Nat]
Criteria == [cands : SUBSET Versions, info : SUBSET Information,
             bad : SUBSET Versions, rank : Nat \X Nat]
Pins == [version : Versions, round : Nat]

IsState(s) == /\ s \in [pins : {s.pins}, crit : {s.crit}]
              /\ DOMAIN s.pins \subseteq Names /\ s.pins \in [DOMAIN s.pins -> Pins]
              /\ DOMAIN s.crit \subseteq Names /\ s.crit \in [DOMAIN s.crit -> Criteria]

ASSUME NoneIsNone == None \notin Candidates /\ None \notin Nat

Outcomes == {"resolved", "impossible", "tooDeep", "recursionError"}

-----------------------------------------------------------------------------
(* ResolveLibProvider *)

\* The dependencies of a candidate, in the order of its package.json.
Declared(c) == project.deps[c.name][c.version]

RefsOf(n) == {ref \in {project.refs[i] : i \in DOMAIN project.refs} : ref.name = n}
Forced(n) == {ref.force : ref \in RefsOf(n)} \ {None}
Suggested(n) == {ref.suggest : ref \in RefsOf(n)} \ {None}

\* get_dependencies: nothing below a library the project takes as a binary.
Dependencies(c) == IF \E ref \in RefsOf(c.name) : ref.dynamic THEN <<>> ELSE Declared(c)

\* The versions of a library that may be chosen at all.
Available(n) == IF Forced(n) # {} THEN Forced(n) ELSE DOMAIN project.deps[n]

\* Mutant of Matches: a suggested version that fits is returned alone.
MatchesSuggested(n, info, bad) ==
    LET result == {v \in Available(n) \ bad : \A e \in info : v \in e.spec}
    IN IF result \cap Suggested(n) # {} THEN result \cap Suggested(n) ELSE result

\* find_matches, as a set: every available version that satisfies all requirements and
\* is not known to fail.
Matches(n, info, bad) == {v \in Available(n) \ bad : \A e \in info : v \in e.spec}

\* The order of find_matches: the suggested version, then the newest.
TriedBefore(n, v, w) == \/ v \in Suggested(n) /\ w \notin Suggested(n)
                        \/ (v \in Suggested(n) <=> w \in Suggested(n)) /\ v > w

\* get_preference; len(candidates) is the number of criteria, the same for every library.
Preference(n) == IF Forced(n) # {} THEN 0 ELSE IF Suggested(n) # {} THEN 1 ELSE 2

-----------------------------------------------------------------------------
(* Criteria *)

Required(reqs) == {reqs[i].name : i \in DOMAIN reqs}

\* Grows whenever requirements are added.
Now == todo + round

\* The criterion of n with one more piece of information, the i-th of those added now.
Informed(crit, n, e, i) ==
    LET known == n \in DOMAIN crit
        info == IF known THEN crit[n].info \cup {e} ELSE {e}
        bad == IF known THEN crit[n].bad ELSE {}
    IN [cands |-> Matches(n, info, bad), info |-> info, bad |-> bad,
        rank |-> IF known THEN crit[n].rank ELSE <<Now, i>>]

\* _add_to_criteria for every requirement of a list.
Adding(crit, reqs, parent) ==
    [n \in DOMAIN crit \cup Required(reqs) |->
        IF n \notin Required(reqs) THEN crit[n]
        ELSE LET i == CHOOSE j \in DOMAIN reqs : reqs[j].name = n
             IN Informed(crit, n, [spec |-> reqs[i].spec, parent |-> parent, since |-> Now], i)]

\* RequirementsConflicted: the places in the list where nothing is left to choose from.
Conflicts(crit, reqs, parent) ==
    {i \in DOMAIN reqs : Adding(crit, reqs, parent)[reqs[i].name].cands = {}}

\* Mutant of ParentNames: the project itself is identified too.
ParentNamesAll(info) == {IF e.parent = None THEN None ELSE e.parent.name : e \in info}

ParentNames(info) == {e.parent.name : e \in {f \in info : f.parent # None}}

\* The libraries named by the information of the first conflict.
ConflictNames(crit, reqs, parent) ==
    LET conflicts == Conflicts(crit, reqs, parent)
        first == {i \in conflicts : \A j \in conflicts : i <= j}
    IN UNION {{reqs[i].name} \cup ParentNames(Adding(crit, reqs, parent)[reqs[i].name].info) :
                i \in first}

\* _remove_information_from_criteria
Forget(crit, parents) ==
    [n \in DOMAIN crit |->
        [crit[n] EXCEPT
            !.info = {e \in crit[n].info : e.parent = None \/ e.parent.name \notin parents}]]

\* Mutant of PinSatisfies: any pin will do.
Pinned(pins, crit, n) == n \in DOMAIN pins

\* _is_current_pin_satisfying
PinSatisfies(pins, crit, n) ==
    n \in DOMAIN pins /\ \A e \in crit[n].info : pins[n].version \in e.spec

Unsatisfied(pins, crit) == {n \in DOMAIN crit : ~PinSatisfies(pins, crit, n)}

-----------------------------------------------------------------------------
(* The result: _build_result and _has_route_to_root *)

\* Information whose parent is still the pinned candidate of its library.
Live(s, e) == /\ e.parent # None
              /\ e.parent.name \in DOMAIN s.pins
              /\ s.pins[e.parent.name].version = e.parent.version

\* The libraries the project requires, directly or through pinned candidates.
Connected(s) ==
    LET closed(S) == \A n \in DOMAIN s.crit : \A e \in s.crit[n].info :
                        e.parent = None \/ (Live(s, e) /\ e.parent.name \in S) => n \in S
    IN {n \in DOMAIN s.crit : \A S \in SUBSET DOMAIN s.crit : closed(S) => n \in S}

\* The search for a route goes through the parents in the order they were added and keeps
\* no record of where it is, so that it never returns from a set D of libraries in which
\* each reaches another before any parent with a route.
SearchRunsInCircles(s) ==
    \E D \in SUBSET DOMAIN s.crit \ {{}} : \A n \in D :
        /\ \A e \in s.crit[n].info : e.parent # None
        /\ \E e \in s.crit[n].info :
              /\ Live(s, e)
              /\ e.parent.name \in D
              /\ \A f \in s.crit[n].info :
                    Live(s, f) /\ f.since < e.since => f.parent.name \notin Connected(s)

-----------------------------------------------------------------------------
(* resolve *)

Top == stack[Len(stack)]
Below(states) == SubSeq(states, 1, Len(states) - 1)

EmptyState == [pins |-> << >>, crit |-> << >>]

Init == /\ project \in Projects
        /\ todo = 1
        /\ stack = <<EmptyState>>
        /\ saved = << >>
        /\ optimistic = TRUE
        /\ start = None
        /\ round = 0
        /\ causes = {}
        /\ phase = "requirements"

\* _gather_requirements: a forced package stands for its dependencies, in any mode.
Gathered(ref) ==
    IF ref.force # None THEN Declared([name |-> ref.name, version |-> ref.force])
    ELSE <<[name |-> ref.name, spec |-> ref.spec]>>

AddRequirements ==
    /\ phase = "requirements"
    /\ todo <= Len(project.refs)
    /\ LET reqs == Gathered(project.refs[todo])
       IN IF Conflicts(Top.crit, reqs, None) # {}
          THEN phase' = "impossible" /\ UNCHANGED <<todo, stack>>
          ELSE /\ stack' = <<[Top EXCEPT !.crit = Adding(Top.crit, reqs, None)]>>
               /\ todo' = todo + 1
               /\ UNCHANGED phase
    /\ UNCHANGED <<project, saved, optimistic, start, round, causes>>

RequirementsAdded ==
    /\ phase = "requirements"
    /\ todo > Len(project.refs)
    /\ stack' = Append(stack, Top)
    /\ phase' = "round"
    /\ UNCHANGED <<project, todo, saved, optimistic, start, round, causes>>

\* optimistic_rounds_cutoff: a tenth of the rounds that were left at the start.
OutOfTime(first) == optimistic /\ saved # << >> /\ round - first >= (MaxRounds - first) \div 10

\* _rollback_states
Rollback == /\ optimistic' = FALSE
            /\ stack' = saved
            /\ saved' = << >>

StopOptimism ==
    /\ phase = "round"
    /\ round < MaxRounds
    /\ OutOfTime(IF start = None THEN round ELSE start)
    /\ Rollback
    /\ start' = IF start = None THEN round ELSE start
    /\ round' = round + 1
    /\ UNCHANGED <<project, todo, causes, phase>>

\* What every other round begins with: the first one after a save starts the clock.
InRound ==
    /\ phase = "round"
    /\ round < MaxRounds
    /\ ~OutOfTime(IF start = None THEN round ELSE start)
    /\ start' = IF optimistic /\ saved # << >> /\ start = None THEN round ELSE start
    /\ UNCHANGED <<project, todo, optimistic>>

\* Nothing left to pin.
Finish ==
    /\ InRound
    /\ Unsatisfied(Top.pins, Top.crit) = {}
    /\ phase' = IF SearchRunsInCircles(Top) THEN "recursionError" ELSE "resolved"
    /\ UNCHANGED <<stack, saved, round, causes>>

\* The order of the dictionary of criteria.
FirstIn(crit, n, m) == \/ crit[n].rank[1] < crit[m].rank[1]
                       \/ /\ crit[n].rank[1] = crit[m].rank[1]
                          /\ crit[n].rank[2] < crit[m].rank[2]

\* The library of this round: the most preferred, then the first in the dictionary.
Chosen(n) ==
    /\ n \in Unsatisfied(Top.pins, Top.crit)
    /\ \A m \in Unsatisfied(Top.pins, Top.crit) \ {n} :
          \/ Preference(n) < Preference(m)
          \/ Preference(n) = Preference(m) /\ FirstIn(Top.crit, n, m)

Workable(c) == Conflicts(Top.crit, Dependencies(c), c) = {}

\* _attempt_to_pin_criterion, when a candidate works.  Libraries whose pin does not satisfy
\* the new requirements no longer count as sources of requirements.
Pin(n, v) ==
    LET c == [name |-> n, version |-> v]
        crit == Adding(Top.crit, Dependencies(c), c)
        pins == [m \in DOMAIN Top.pins \cup {n} |->
                    IF m = n THEN [version |-> v, round |-> round] ELSE Top.pins[m]]
        invalidated == (DOMAIN Top.crit \ Unsatisfied(Top.pins, Top.crit))
                            \cap Unsatisfied(pins, crit)
        pinned == [pins |-> pins, crit |-> Forget(crit, invalidated)]
    IN /\ InRound
       /\ Chosen(n)
       /\ v \in Top.crit[n].cands
       /\ Workable(c)
       /\ \A w \in Top.crit[n].cands :
             TriedBefore(n, w, v) => ~Workable([name |-> n, version |-> w])
       /\ stack' = Append(Append(Below(stack), pinned), pinned)
       /\ round' = round + 1
       /\ UNCHANGED <<saved, causes, phase>>

\* _attempt_to_pin_criterion, when no candidate works.
DeadEnd(n) ==
    LET tried == {[name |-> n, version |-> v] : v \in Top.crit[n].cands}
    IN /\ InRound
       /\ Chosen(n)
       /\ \A c \in tried : ~Workable(c)
       /\ causes' = UNION {ConflictNames(Top.crit, Dependencies(c), c) : c \in tried}
       /\ phase' = "discard"
       /\ UNCHANGED <<stack, saved, round>>

TooDeep ==
    /\ phase = "round"
    /\ round = MaxRounds
    /\ phase' = "tooDeep"
    /\ UNCHANGED <<project, todo, stack, saved, optimistic, start, round, causes>>

-----------------------------------------------------------------------------
(* _backjump *)

\* No way back: the optimistic search is undone, or the resolution fails.
GiveUp ==
    IF optimistic /\ saved # << >>
    THEN Rollback /\ round' = round + 1 /\ phase' = "round"
    ELSE phase' = "impossible" /\ UNCHANGED <<stack, saved, optimistic, round>>

DiscardTop ==
    /\ phase = "discard"
    /\ IF Len(stack) < 3 THEN GiveUp
       ELSE /\ stack' = Below(stack)
            /\ phase' = "jump"
            /\ UNCHANGED <<saved, optimistic, round>>
    /\ UNCHANGED <<project, todo, start, causes>>

IsLastPin(s, n) == /\ n \in DOMAIN s.pins
                   /\ \A m \in DOMAIN s.pins : s.pins[m].round <= s.pins[n].round

\* The candidate is a likely cause, or the jump may go no further.
StopsAt(n) ==
    LET c == [name |-> n, version |-> Top.pins[n].version]
    IN \/ ~optimistic /\ n \notin causes
       \/ Required(Dependencies(c)) \cap causes # {}
       \/ DOMAIN Top.pins = {n}

\* _save_state, once.
SaveState(n) == saved' = IF optimistic /\ saved = << >> /\ n \notin causes
                         THEN Below(stack) ELSE saved

\* Mutant of JumpOver: the broken state is looked at but not taken off the stack.
JumpPeeking(n) ==
    /\ phase = "jump"
    /\ IsLastPin(Top, n)
    /\ ~StopsAt(n)
    /\ Len(stack) > 2
    /\ SaveState(n)
    /\ UNCHANGED <<project, todo, stack, optimistic, start, round, causes, phase>>

JumpOver(n) ==
    /\ phase = "jump"
    /\ IsLastPin(Top, n)
    /\ ~StopsAt(n)
    /\ Len(stack) > 2
    /\ SaveState(n)
    /\ stack' = Below(stack)
    /\ UNCHANGED <<project, todo, optimistic, start, round, causes, phase>>

\* Two states have to remain; the guard comes after the state was saved.
JumpOut(n) ==
    /\ phase = "jump"
    /\ IsLastPin(Top, n)
    /\ ~StopsAt(n)
    /\ Len(stack) = 2
    /\ IF optimistic /\ (saved # << >> \/ n \notin causes)
       THEN /\ optimistic' = FALSE
            /\ stack' = IF saved = << >> THEN Below(stack) ELSE saved
            /\ saved' = << >>
            /\ round' = round + 1
            /\ phase' = "round"
       ELSE phase' = "impossible" /\ UNCHANGED <<stack, saved, optimistic, round>>
    /\ UNCHANGED <<project, todo, start, causes>>

\* Mutant of Patched: the failed candidate is not learnt.
PatchedForgetful(s, broken, n) == s

\* _patch_criteria: the state below, knowing what did not work in the broken one.
Patched(s, broken, n) ==
    LET learnt(m) == (IF m \in DOMAIN broken.crit THEN broken.crit[m].bad ELSE {})
                     \cup (IF m = n THEN {broken.pins[n].version} ELSE {})
        relearnt(m) == LET bad == s.crit[m].bad \cup learnt(m)
                       IN [s.crit[m] EXCEPT !.bad = bad,
                                            !.cands = Matches(m, s.crit[m].info, bad)]
    IN [s EXCEPT !.crit = [m \in DOMAIN s.crit |->
            IF learnt(m) = {} THEN s.crit[m] ELSE relearnt(m)]]

\* Mutant of Backtrack: _patch_criteria is taken to succeed.
BacktrackTrusting(n) ==
    /\ phase = "jump"
    /\ IsLastPin(Top, n)
    /\ StopsAt(n)
    /\ SaveState(n)
    /\ LET below == Below(stack)
       IN stack' = Append(below, Patched(below[Len(below)], Top, n))
    /\ phase' = "round"
    /\ round' = round + 1
    /\ UNCHANGED <<project, todo, optimistic, start, causes>>

Backtrack(n) ==
    /\ phase = "jump"
    /\ IsLastPin(Top, n)
    /\ StopsAt(n)
    /\ SaveState(n)
    /\ LET below == Below(stack)
           patched == Patched(below[Len(below)], Top, n)
       IN /\ stack' = Append(below, patched)
          /\ IF \E m \in DOMAIN patched.crit : patched.crit[m].cands = {}
             THEN phase' = "discard" /\ UNCHANGED round
             ELSE phase' = "round" /\ round' = round + 1
    /\ UNCHANGED <<project, todo, optimistic, start, causes>>

-----------------------------------------------------------------------------
Next == \/ AddRequirements
        \/ RequirementsAdded
        \/ StopOptimism
        \/ Finish
        \/ \E n \in Names, v \in Versions : Pin(n, v)
        \/ \E n \in Names : DeadEnd(n)
        \/ TooDeep
        \/ DiscardTop
        \/ \E n \in Names : JumpOver(n) \/ JumpOut(n) \/ Backtrack(n)

Spec == Init /\ [][Next]_vars

\* One thread, no I/O: the loop goes on.
FairSpec == Spec /\ WF_vars(Next)

-----------------------------------------------------------------------------
(* Properties *)

AllStates == {stack[i] : i \in DOMAIN stack} \cup {saved[i] : i \in DOMAIN saved}

\* Types: the stack holds states whose criteria and pins are about known libraries.
TypeOK ==
    /\ project \in Projects
    /\ todo \in Nat \ {0}
    /\ stack \in Seq(AllStates)
    /\ saved \in Seq(AllStates)
    /\ \A s \in AllStates : IsState(s)
    /\ optimistic \in BOOLEAN
    /\ start \in Nat \cup {None}
    /\ round \in Nat
    /\ causes \subseteq Names
    /\ phase \in {"requirements", "round", "discard", "jump"} \cup Outcomes

\* Every candidate that can still be tried, now or after any jump back, satisfies the
\* requirements collected for it and is not known to fail, whatever was added, taken away
\* and restored in between: _attempt_to_pin_criterion never raises InconsistentCandidate.
CandidatesFit ==
    \A s \in AllStates : \A n \in DOMAIN s.crit :
        s.crit[n].cands \subseteq Matches(n, s.crit[n].info, s.crit[n].bad)

\* There is always one left to try: for a criterion without candidates
\* _attempt_to_pin_criterion would return no cause, which resolve takes for success.
NeverEmptyHanded ==
    phase = "round" => \A n \in DOMAIN Top.crit : Top.crit[n].cands # {}

\* What a round tries next is always there and always fits, through all jumps and
\* rollbacks.
CandidatesUsable == CandidatesFit /\ NeverEmptyHanded

Selection == [n \in Connected(Top) |-> Top.pins[n].version]

Meets(choice, reqs) ==
    \A i \in DOMAIN reqs : /\ reqs[i].name \in DOMAIN choice
                           /\ choice[reqs[i].name] \in reqs[i].spec

\* What the project itself asks for it gets: the result has a version for every
\* requirement of packages.json that satisfies it, and a library that is overridden, or
\* required by one, is there in its forced version or not at all.
ProjectHonoured ==
    phase = "resolved" =>
        /\ \A i \in DOMAIN project.refs : Meets(Selection, Gathered(project.refs[i]))
        /\ \A n \in DOMAIN Selection : Selection[n] \in Available(n)

\* A choice of versions that meets the requirements of the project and of all it chooses.
Solution(choice) ==
    /\ \A i \in DOMAIN project.refs : Meets(choice, Gathered(project.refs[i]))
    /\ \A n \in DOMAIN choice :
          /\ choice[n] \in Available(n)
          /\ Meets(choice, Dependencies([name |-> n, version |-> choice[n]]))

Choices == UNION {[D -> Versions] : D \in SUBSET Names}

\* What the resolver returns is a solution: the dependencies of every package it chose are
\* met too, although the requirements it kept are not those of all of them.
AcceptsSolutions == phase = "resolved" => Solution(Selection)

\* ResolutionImpossible is raised only when there is no solution: the jumps back and the
\* versions ruled out on the way never lose the last one.
RefusesTheImpossible == phase = "impossible" => \A choice \in Choices : ~Solution(choice)

\* Some version of m requires n.
Requires(m, n) == \E v \in DOMAIN project.deps[m] : n \in Required(project.deps[m][v])

\* Libraries each of which is required by one of them.
HasCircle == \E S \in SUBSET Names \ {{}} : \A n \in S : \E m \in S : Requires(m, n)

\* A library that is two levels below another one requires nothing itself.  Then a pin
\* cannot lose its requirements (Forget) and come to count again: that takes one library
\* which makes another withdraw a requirement on a third that has requirements to lose.
Flat == \A m, k, n \in Names :
            /\ m # k /\ m # n /\ k # n
            /\ Requires(m, k) /\ Requires(k, n)
            => \A d \in Names : ~Requires(n, d)

\* The resolver answers, with a solution or with ResolutionImpossible, when no library
\* requires itself in a circle: it is not cut off by max_rounds and never loses its way.
AlwaysAnswers == phase \in {"tooDeep", "recursionError"} => HasCircle

\* The search for routes to the root returns, whatever requires what.
RoutesFound == phase # "recursionError"

\* Whatever the packages require of each other, resolve ends.
Terminates == <>(phase \in Outcomes)
=============================================================================
