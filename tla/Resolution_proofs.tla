------------------------- MODULE Resolution_proofs -------------------------
(***************************************************************************)
(* What holds of the resolver for every set of libraries, versions and     *)
(* projects, circular ones too, and whatever is thrown away and restored   *)
(* on the way.                                                             *)
(*                                                                         *)
(* The argument is about one state of the stack at a time: WellMade(s)     *)
(* holds of the state without criteria, of a state that _add_to_criteria,  *)
(* _remove_information_from_criteria or _patch_criteria makes of a         *)
(* well-made one, and so of every state that is ever on either stack.      *)
(*                                                                         *)
(* Grounded(s) adds where the information in a state comes from and, for   *)
(* projects that are Flat, that no pin that counts has lost what its       *)
(* candidate requires; Opening is about the time before the first pin.     *)
(***************************************************************************)
EXTENDS Resolution, SequenceTheorems, TLAPS

AreCriteria(crit) == /\ DOMAIN crit \subseteq Names
                     /\ crit \in [DOMAIN crit -> Criteria]

Fitting(crit) ==
    \A n \in DOMAIN crit : crit[n].cands \subseteq Matches(n, crit[n].info, crit[n].bad)

\* The requirement is recorded as one of the project itself.
Recorded(crit, r) ==
    /\ r.name \in DOMAIN crit
    /\ \E e \in crit[r.name].info : e.parent = None /\ e.spec = r.spec

Contributed(i) ==
    {Gathered(project.refs[i])[j] : j \in DOMAIN Gathered(project.refs[i])}

Rooted(crit) ==
    \A i \in DOMAIN project.refs :
        i < todo => \A r \in Contributed(i) : Recorded(crit, r)

PinsExist(pins) == \A n \in DOMAIN pins : pins[n].version \in Available(n)

Full(s) == \A n \in DOMAIN s.crit : s.crit[n].cands # {}

WellMade(s) == /\ IsState(s)
               /\ Fitting(s.crit)
               /\ Rooted(s.crit)
               /\ PinsExist(s.pins)

StackInv ==
    /\ \A s \in AllStates : WellMade(s)
    /\ \A i \in DOMAIN stack :
          (phase \in {"discard", "impossible"} /\ i = Len(stack)) \/ Full(stack[i])
    /\ \A i \in DOMAIN saved : Full(saved[i])

PhaseInv ==
    /\ Len(stack) > 0
    /\ phase = "requirements" => Len(stack) = 1 /\ saved = << >>
    /\ phase \in {"round", "discard", "jump", "resolved"} => todo > Len(project.refs)
    /\ phase = "jump" => Len(stack) > 1
    /\ phase = "resolved" => Unsatisfied(Top.pins, Top.crit) = {}

IInv == TypeOK /\ StackInv /\ PhaseInv

-----------------------------------------------------------------------------
(* ResolveLibProvider *)

\* The forced versions of a library exist.
LEMMA ForcedExist ==
    ASSUME project \in Projects, NEW n \in Names
    PROVE  Forced(n) \subseteq DOMAIN project.deps[n]
  BY ProjectsType DEF Forced, RefsOf, Refs

\* What find_matches returns is among the versions that exist.
LEMMA MatchesExist ==
    ASSUME project \in Projects, NEW n \in Names, NEW info, NEW bad
    PROVE  /\ Matches(n, info, bad) \subseteq DOMAIN project.deps[n]
           /\ Matches(n, info, bad) \subseteq Versions
  BY ForcedExist, ProjectsType DEF Matches, Available

\* Fewer requirements and fewer known failures leave more to choose from.
LEMMA MatchesShrink ==
    ASSUME NEW n, NEW less, NEW more, less \subseteq more,
           NEW fewer, NEW bad, fewer \subseteq bad
    PROVE  Matches(n, more, bad) \subseteq Matches(n, less, fewer)
  BY DEF Matches

\* The dependencies of an existing version are a list.
LEMMA DependenciesType ==
    ASSUME project \in Projects, NEW n \in Names, NEW v \in DOMAIN project.deps[n]
    PROVE  /\ IsList(Declared([name |-> n, version |-> v]))
           /\ IsList(Dependencies([name |-> n, version |-> v]))
  <1>1. IsList(Declared([name |-> n, version |-> v]))
    BY ProjectsType DEF Declared
  <1>2. IsList(<< >>)
    BY DEF IsList
  <1> QED  BY <1>1, <1>2 DEF Dependencies

\* So are the requirements that a ref contributes.
LEMMA GatheredType ==
    ASSUME project \in Projects, NEW i \in DOMAIN project.refs
    PROVE  IsList(Gathered(project.refs[i]))
  <1> DEFINE ref == project.refs[i]
  <1>1. ref \in Refs
    BY ProjectsType
  <1>2. CASE ref.force # None
    <2>1. ref.force \in DOMAIN project.deps[ref.name]
      BY <1>2, ProjectsType
    <2> QED  BY <1>1, <1>2, <2>1, DependenciesType DEF Refs, Gathered
  <1>3. CASE ref.force = None
    <2>1. Gathered(ref) = <<[name |-> ref.name, spec |-> ref.spec]>>
      BY <1>3 DEF Gathered
    <2>2. [name |-> ref.name, spec |-> ref.spec] \in Requirements
      BY <1>1 DEF Refs, Requirements
    <2> QED  BY <2>1, <2>2 DEF IsList
  <1> QED  BY <1>2, <1>3

-----------------------------------------------------------------------------
(* Criteria *)

\* _add_to_criteria keeps criteria well-typed and fitting, takes no information away, and
\* records every requirement of the list.
LEMMA AddingWell ==
    ASSUME project \in Projects, todo \in Nat, round \in Nat,
           NEW crit, AreCriteria(crit), Fitting(crit),
           NEW reqs, IsList(reqs), NEW parent \in Candidates \cup {None}
    PROVE  /\ AreCriteria(Adding(crit, reqs, parent))
           /\ Fitting(Adding(crit, reqs, parent))
           /\ \A n \in DOMAIN crit : /\ n \in DOMAIN Adding(crit, reqs, parent)
                                     /\ crit[n].info \subseteq Adding(crit, reqs, parent)[n].info
           /\ \A i \in DOMAIN reqs :
                 /\ reqs[i].name \in DOMAIN Adding(crit, reqs, parent)
                 /\ \E e \in Adding(crit, reqs, parent)[reqs[i].name].info :
                        e.parent = parent /\ e.spec = reqs[i].spec
  <1> DEFINE new == Adding(crit, reqs, parent)
             At(n) == CHOOSE j \in DOMAIN reqs : reqs[j].name = n
             Piece(i) == [spec |-> reqs[i].spec, parent |-> parent, since |-> Now]
             Old(n) == IF n \in DOMAIN crit THEN crit[n].info ELSE {}
             Bad(n) == IF n \in DOMAIN crit THEN crit[n].bad ELSE {}
  <1>1. DOMAIN new = DOMAIN crit \cup Required(reqs)
    BY DEF Adding
  <1>2. \A i \in DOMAIN reqs : /\ reqs[i] \in Requirements
                               /\ reqs[i].name \in Required(reqs)
                               /\ reqs[i].name \in Names
                               /\ reqs[i].spec \subseteq Versions
                               /\ i \in Nat
    <2> HIDE DEF new, At, Piece, Old, Bad
    <2> SUFFICES ASSUME NEW i \in DOMAIN reqs
                 PROVE  /\ reqs[i] \in Requirements
                        /\ reqs[i].name \in Required(reqs)
                        /\ i \in Nat
      BY DEF Requirements
    <2> QED  BY DEF IsList, Required
  <1>3. Required(reqs) \subseteq Names
    BY <1>2 DEF Required
  <1>4. \A n \in Required(reqs) : At(n) \in DOMAIN reqs /\ reqs[At(n)].name = n
    BY DEF Required
  <1>5. \A n \in Required(reqs) :
           /\ new[n].info = Old(n) \cup {Piece(At(n))}
           /\ new[n].bad = Bad(n)
           /\ new[n].cands = Matches(n, new[n].info, new[n].bad)
           /\ new[n] = [cands |-> new[n].cands, info |-> new[n].info, bad |-> new[n].bad,
                        rank |-> new[n].rank]
           /\ new[n].rank = IF n \in DOMAIN crit THEN crit[n].rank ELSE <<Now, At(n)>>
    BY <1>1 DEF Adding, Informed
  <1>6. \A n \in DOMAIN crit \ Required(reqs) : new[n] = crit[n]
    BY DEF Adding
  <1> HIDE DEF new, At, Piece, Old, Bad
  <1>7. \A n \in DOMAIN crit : /\ crit[n] \in Criteria
                               /\ crit[n].info \subseteq Information
                               /\ crit[n].bad \subseteq Versions
                               /\ crit[n].rank \in Nat \X Nat
    BY DEF AreCriteria, Criteria
  <1>8. Now \in Nat
    BY DEF Now
  <1>9. \A n \in Required(reqs) : new[n] \in Criteria
    <2> SUFFICES ASSUME NEW n \in Required(reqs)
                 PROVE  new[n] \in Criteria
      OBVIOUS
    <2>1. Piece(At(n)) \in Information
      BY <1>2, <1>4, <1>8 DEF Information, Piece
    <2>2. new[n].info \subseteq Information
      <3>1. Old(n) \subseteq Information
        BY <1>7 DEF Old
      <3> QED  BY <1>5, <2>1, <3>1
    <2>3. new[n].bad \subseteq Versions
      BY <1>5, <1>7 DEF Bad
    <2>4. new[n].cands \subseteq Versions
      <3>1. n \in Names /\ new[n].cands = Matches(n, new[n].info, new[n].bad)
        BY <1>3, <1>5
      <3>2. Matches(n, new[n].info, new[n].bad) \subseteq Versions
        BY <3>1, MatchesExist
      <3> QED  BY <3>1, <3>2
    <2>5. new[n].rank \in Nat \X Nat
      <3>1. At(n) \in Nat
        BY <1>2, <1>4
      <3>2. <<Now, At(n)>> \in Nat \X Nat
        BY <1>8, <3>1
      <3>3. new[n].rank = IF n \in DOMAIN crit THEN crit[n].rank ELSE <<Now, At(n)>>
        BY <1>5
      <3> QED  BY <1>7, <3>2, <3>3
    <2>6. new[n] = [cands |-> new[n].cands, info |-> new[n].info, bad |-> new[n].bad,
                    rank |-> new[n].rank]
      BY <1>5
    <2> QED  BY <2>2, <2>3, <2>4, <2>5, <2>6 DEF Criteria
  <1>10. AreCriteria(new)
    <2>1. \A n \in DOMAIN new : new[n] \in Criteria
      BY <1>1, <1>6, <1>7, <1>9
    <2>2. new = [n \in DOMAIN new |-> new[n]]
      BY DEF Adding, new
    <2>3. DOMAIN new \subseteq Names
      BY <1>1, <1>3 DEF AreCriteria
    <2> QED  BY <2>1, <2>2, <2>3 DEF AreCriteria
  <1>11. Fitting(new)
    BY <1>1, <1>5, <1>6 DEF Fitting
  <1>12. \A n \in DOMAIN crit : n \in DOMAIN new /\ crit[n].info \subseteq new[n].info
    BY <1>1, <1>5, <1>6 DEF Old
  <1>13. ASSUME NEW i \in DOMAIN reqs
         PROVE  /\ reqs[i].name \in DOMAIN new
                /\ \E e \in new[reqs[i].name].info : e.parent = parent /\ e.spec = reqs[i].spec
    <2>1. At(reqs[i].name) = i
      BY <1>2, <1>4 DEF IsList
    <2>2. Piece(i) \in new[reqs[i].name].info
      BY <1>2, <1>5, <2>1
    <2>3. Piece(i).parent = parent /\ Piece(i).spec = reqs[i].spec
      BY DEF Piece
    <2> QED  BY <1>1, <1>2, <2>2, <2>3
  <1> QED  BY <1>10, <1>11, <1>12, <1>13 DEF new

\* Adding keeps what the project recorded.
LEMMA AddingRooted ==
    ASSUME project \in Projects, todo \in Nat, round \in Nat,
           NEW crit, AreCriteria(crit), Fitting(crit), Rooted(crit),
           NEW reqs, IsList(reqs), NEW parent \in Candidates \cup {None}
    PROVE  Rooted(Adding(crit, reqs, parent))
  <1> DEFINE new == Adding(crit, reqs, parent)
  <1>1. \A n \in DOMAIN crit : n \in DOMAIN new /\ crit[n].info \subseteq new[n].info
    BY AddingWell
  <1>2. \A r : Recorded(crit, r) => Recorded(new, r)
    BY <1>1 DEF Recorded
  <1> QED  BY <1>2 DEF Rooted

\* _remove_information_from_criteria keeps criteria well-typed and fitting, and never takes
\* away what the project requires.
LEMMA ForgetWell ==
    ASSUME project \in Projects, NEW crit, AreCriteria(crit), Fitting(crit), NEW parents
    PROVE  /\ AreCriteria(Forget(crit, parents))
           /\ Fitting(Forget(crit, parents))
           /\ Rooted(crit) => Rooted(Forget(crit, parents))
           /\ DOMAIN Forget(crit, parents) = DOMAIN crit
           /\ \A n \in DOMAIN crit : Forget(crit, parents)[n].cands = crit[n].cands
  <1> DEFINE new == Forget(crit, parents)
  <1>1. DOMAIN new = DOMAIN crit
    BY DEF Forget
  <1>2. \A n \in DOMAIN crit : crit[n] \in Criteria
    BY DEF AreCriteria
  <1>3. \A n \in DOMAIN crit :
           /\ new[n] \in Criteria
           /\ new[n].cands = crit[n].cands
           /\ new[n].bad = crit[n].bad
           /\ new[n].info = {e \in crit[n].info : e.parent = None \/ e.parent.name \notin parents}
    BY <1>2 DEF Forget, Criteria
  <1>4. AreCriteria(new)
    <2>1. new = [n \in DOMAIN new |-> new[n]]
      BY DEF Forget
    <2> HIDE DEF new
    <2> QED  BY <1>1, <1>3, <2>1 DEF AreCriteria
  <1>5. Fitting(new)
    <2> SUFFICES ASSUME NEW n \in DOMAIN crit
                 PROVE  new[n].cands \subseteq Matches(n, new[n].info, new[n].bad)
      BY <1>1 DEF Fitting
    <2>1. new[n].info \subseteq crit[n].info
      BY <1>3
    <2>2. Matches(n, crit[n].info, crit[n].bad) \subseteq Matches(n, new[n].info, new[n].bad)
      BY <1>3, <2>1, MatchesShrink
    <2> QED  BY <1>3, <2>2 DEF Fitting
  <1>6. Rooted(crit) => Rooted(new)
    <2>1. \A r : Recorded(crit, r) => Recorded(new, r)
      BY <1>1, <1>3 DEF Recorded
    <2> HIDE DEF new
    <2> QED  BY <2>1 DEF Rooted
  <1> QED  BY <1>1, <1>3, <1>4, <1>5, <1>6

\* _patch_criteria: the same, with candidates taken away only.
LEMMA PatchedWell ==
    ASSUME project \in Projects, NEW s, WellMade(s), NEW broken, WellMade(broken),
           NEW n \in DOMAIN broken.pins
    PROVE  WellMade(Patched(s, broken, n))
  <1> DEFINE learnt(m) == (IF m \in DOMAIN broken.crit THEN broken.crit[m].bad ELSE {})
                          \cup (IF m = n THEN {broken.pins[n].version} ELSE {})
             new == Patched(s, broken, n)
  <1>1. /\ s = [pins |-> s.pins, crit |-> s.crit]
        /\ new = [pins |-> s.pins, crit |-> new.crit]
        /\ DOMAIN new.crit = DOMAIN s.crit
        /\ new.crit = [m \in DOMAIN s.crit |-> new.crit[m]]
    <2>1. s = [pins |-> s.pins, crit |-> s.crit]
      BY DEF WellMade, IsState
    <2> DEFINE f == [m \in DOMAIN s.crit |->
                        IF learnt(m) = {} THEN s.crit[m]
                        ELSE [s.crit[m] EXCEPT
                                !.bad = s.crit[m].bad \cup learnt(m),
                                !.cands = Matches(m, s.crit[m].info, s.crit[m].bad \cup learnt(m))]]
    <2>2. new = [s EXCEPT !.crit = f]
      BY DEF Patched
    <2>3. DOMAIN f = DOMAIN s.crit /\ f = [m \in DOMAIN s.crit |-> f[m]]
      OBVIOUS
    <2> HIDE DEF f, new, learnt
    <2> QED  BY <2>1, <2>2, <2>3
  <1>2. \A m \in DOMAIN s.crit : s.crit[m] \in Criteria /\ m \in Names
    BY DEF WellMade, IsState
  <1>3. \A m : learnt(m) \subseteq Versions
    BY DEF WellMade, IsState, Pins, Criteria
  <1>4. \A m \in DOMAIN s.crit :
           IF learnt(m) = {} THEN new.crit[m] = s.crit[m]
           ELSE new.crit[m] = [cands |-> Matches(m, s.crit[m].info, s.crit[m].bad \cup learnt(m)),
                               info |-> s.crit[m].info, bad |-> s.crit[m].bad \cup learnt(m),
                               rank |-> s.crit[m].rank]
    <2> SUFFICES ASSUME NEW m \in DOMAIN s.crit
                 PROVE  IF learnt(m) = {} THEN new.crit[m] = s.crit[m]
                        ELSE new.crit[m] =
                            [cands |-> Matches(m, s.crit[m].info, s.crit[m].bad \cup learnt(m)),
                             info |-> s.crit[m].info, bad |-> s.crit[m].bad \cup learnt(m),
                             rank |-> s.crit[m].rank]
      OBVIOUS
    <2> DEFINE bad == s.crit[m].bad \cup learnt(m)
    <2>1. new.crit[m] = IF learnt(m) = {} THEN s.crit[m]
                        ELSE [s.crit[m] EXCEPT !.bad = bad, !.cands = Matches(m, s.crit[m].info, bad)]
      BY <1>1 DEF Patched
    <2>2. s.crit[m] \in Criteria
      BY <1>2
    <2> HIDE DEF learnt, new
    <2> QED  BY <2>1, <2>2 DEF Criteria
  <1> HIDE DEF learnt, new
  <1>5. \A m \in DOMAIN s.crit :
           /\ new.crit[m] \in Criteria
           /\ new.crit[m].info = s.crit[m].info
           /\ new.crit[m].cands \subseteq Matches(m, new.crit[m].info, new.crit[m].bad)
    <2> SUFFICES ASSUME NEW m \in DOMAIN s.crit
                 PROVE  /\ new.crit[m] \in Criteria
                        /\ new.crit[m].info = s.crit[m].info
                        /\ new.crit[m].cands \subseteq
                                Matches(m, new.crit[m].info, new.crit[m].bad)
      OBVIOUS
    <2>1. s.crit[m] \in Criteria /\ m \in Names
      BY <1>2
    <2>2. CASE learnt(m) = {}
      BY <1>4, <2>1, <2>2 DEF WellMade, Fitting
    <2>3. CASE learnt(m) # {}
      <3> DEFINE bad == s.crit[m].bad \cup learnt(m)
      <3>1. new.crit[m] = [cands |-> Matches(m, s.crit[m].info, bad), info |-> s.crit[m].info,
                           bad |-> bad, rank |-> s.crit[m].rank]
        BY <1>4, <2>3
      <3>2. bad \subseteq Versions
        BY <1>3, <2>1 DEF Criteria
      <3> HIDE DEF bad
      <3>3. Matches(m, s.crit[m].info, bad) \subseteq Versions
        BY <2>1, MatchesExist
      <3> QED  BY <2>1, <3>1, <3>2, <3>3 DEF Criteria
    <2> QED  BY <2>2, <2>3
  <1>6. IsState(new)
    BY <1>1, <1>2, <1>5 DEF WellMade, IsState
  <1>7. Rooted(new.crit)
    <2>1. \A r : Recorded(s.crit, r) => Recorded(new.crit, r)
      BY <1>1, <1>5 DEF Recorded
    <2> QED  BY <2>1 DEF Rooted, WellMade
  <1>8. Fitting(new.crit) /\ PinsExist(new.pins)
    BY <1>1, <1>5 DEF WellMade, Fitting
  <1> QED  BY <1>6, <1>7, <1>8 DEF WellMade, new

-----------------------------------------------------------------------------
(* Stacks *)

\* All states but the last.
LEMMA BelowType ==
    ASSUME NEW S, NEW q \in Seq(S), Len(q) > 0
    PROVE  /\ Below(q) \in Seq(S)
           /\ Len(Below(q)) = Len(q) - 1
           /\ \A i \in 1 .. Len(q) - 1 : Below(q)[i] = q[i]
  <1> DEFINE last == Len(q) - 1
  <1>1. last \in Nat /\ 1 \in Int /\ \A i \in 1 .. last : q[i] \in S
    OBVIOUS
  <1>2. last - 1 + 1 = last /\ \A i \in 1 .. last : 1 + i - 1 = i
    BY <1>1
  <1> HIDE DEF last
  <1>3. /\ SubSeq(q, 1, last) \in Seq(S)
        /\ Len(SubSeq(q, 1, last)) = IF 1 <= last THEN last - 1 + 1 ELSE 0
        /\ \A i \in 1 .. last - 1 + 1 : SubSeq(q, 1, last)[i] = q[1 + i - 1]
    BY <1>1, SubSeqProperties
  <1>4. /\ Len(SubSeq(q, 1, last)) = last
        /\ \A i \in 1 .. last : SubSeq(q, 1, last)[i] = q[i]
    BY <1>1, <1>2, <1>3
  <1> QED  BY <1>3, <1>4 DEF Below, last

\* A sequence is one over its own elements.
LEMMA OwnElements ==
    ASSUME NEW S, NEW q \in Seq(S)
    PROVE  /\ q \in Seq({q[i] : i \in DOMAIN q})
           /\ {q[i] : i \in DOMAIN q} \subseteq S
  OBVIOUS

\* A well-made state stays one while the project does not change.
LEMMA WellMadeStable ==
    ASSUME project' = project, todo' = todo, NEW s, WellMade(s)
    PROVE  WellMade(s)'
  <1>1. /\ \A n, info, bad : Matches(n, info, bad)' = Matches(n, info, bad)
        /\ \A n : Available(n)' = Available(n)
    BY DEF Matches, Available, Forced, RefsOf
  <1>2. Fitting(s.crit)' /\ PinsExist(s.pins)'
    BY <1>1 DEF WellMade, Fitting, PinsExist
  <1>3. Rooted(s.crit)'
    <2>1. \A i : Contributed(i)' = Contributed(i)
      BY DEF Contributed, Gathered, Declared
    <2> QED  BY <2>1 DEF WellMade, Rooted
  <1>4. IsState(s)
    BY DEF WellMade
  <1> QED  BY <1>2, <1>3, <1>4 DEF WellMade

\* A step that puts only known states and one new well-made state on the stacks.
LEMMA StackStep ==
    ASSUME TypeOK, \A s \in AllStates : WellMade(s), project' = project, todo' = todo,
           NEW new, WellMade(new),
           stack' \in Seq(AllStates \cup {new}), saved' \in Seq(AllStates \cup {new})
    PROVE  /\ (\A s \in AllStates : WellMade(s))'
           /\ (\A s \in AllStates : IsState(s))'
           /\ stack' \in Seq(AllStates')
           /\ saved' \in Seq(AllStates')
  <1> DEFINE S == AllStates \cup {new}
  <1>1. AllStates' \subseteq S
    BY OwnElements DEF AllStates
  <1>2. \A s \in S : WellMade(s)
    OBVIOUS
  <1>3. \A s \in AllStates' : WellMade(s)'
    BY <1>1, <1>2, WellMadeStable
  <1>4. \A s \in AllStates' : IsState(s)
    BY <1>1, <1>2 DEF WellMade
  <1>5. stack' \in Seq(AllStates')
    BY OwnElements DEF AllStates
  <1>6. saved' \in Seq(AllStates')
    BY OwnElements DEF AllStates
  <1> QED  BY <1>3, <1>4, <1>5, <1>6

-----------------------------------------------------------------------------
(* The steps *)

\* The state without criteria is well made before any requirement is added.
LEMMA InitInv == Init => IInv
  <1> SUFFICES ASSUME Init
               PROVE  IInv
    OBVIOUS
  <1>1. AllStates = {EmptyState} /\ DOMAIN stack = {1} /\ Len(stack) = 1
    BY DEF Init, AllStates
  <1>2. /\ IsState(EmptyState)
        /\ DOMAIN EmptyState.crit = {}
        /\ DOMAIN EmptyState.pins = {}
    BY DEF IsState, EmptyState
  <1>3. Rooted(EmptyState.crit)
    BY ProjectsType DEF Init, Rooted
  <1>4. WellMade(EmptyState)
    BY <1>2, <1>3 DEF WellMade, Fitting, PinsExist
  <1>5. TypeOK
    <2>1. stack \in Seq(AllStates) /\ saved \in Seq(AllStates)
      BY <1>1 DEF Init
    <2> QED  BY <1>1, <1>2, <2>1 DEF Init, TypeOK
  <1>6. StackInv
    BY <1>1, <1>2, <1>4 DEF Init, StackInv, Full
  <1>7. PhaseInv
    BY <1>1 DEF Init, PhaseInv
  <1> QED  BY <1>5, <1>6, <1>7 DEF IInv

\* What the invariant says of the state being worked on.
LEMMA TopWell ==
    ASSUME IInv
    PROVE  /\ Len(stack) \in Nat \ {0}
           /\ Top \in AllStates
           /\ WellMade(Top)
           /\ AreCriteria(Top.crit)
           /\ Top = [pins |-> Top.pins, crit |-> Top.crit]
           /\ phase \notin {"discard", "impossible"} => Full(Top)
           /\ stack \in Seq(AllStates) /\ saved \in Seq(AllStates)
  <1>1. Len(stack) \in Nat \ {0} /\ Len(stack) \in DOMAIN stack
    BY DEF IInv, TypeOK, PhaseInv
  <1>2. Top \in AllStates
    BY <1>1 DEF Top, AllStates
  <1>3. WellMade(Top)
    BY <1>2 DEF IInv, StackInv
  <1>4. phase \notin {"discard", "impossible"} => Full(Top)
    BY <1>1 DEF IInv, StackInv, Top
  <1> QED
    BY <1>1, <1>2, <1>3, <1>4 DEF IInv, TypeOK, WellMade, IsState, AreCriteria

\* The root state once the requirements of one more ref are recorded.
LEMMA RootStep ==
    ASSUME project \in Projects, todo \in Nat, project' = project, todo' = todo + 1,
           NEW s, WellMade(s), \A r \in Contributed(todo) : Recorded(s.crit, r)
    PROVE  WellMade(s)'
  <1>1. /\ \A n, info, bad : Matches(n, info, bad)' = Matches(n, info, bad)
        /\ \A n : Available(n)' = Available(n)
    BY DEF Matches, Available, Forced, RefsOf
  <1>2. Fitting(s.crit)' /\ PinsExist(s.pins)'
    BY <1>1 DEF WellMade, Fitting, PinsExist
  <1>3. Rooted(s.crit)'
    <2>1. \A i : Contributed(i)' = Contributed(i)
      BY DEF Contributed, Gathered, Declared
    <2>2. DOMAIN project.refs \subseteq Nat
      BY ProjectsType
    <2>3. ASSUME NEW i \in DOMAIN project.refs, i < todo + 1, NEW r \in Contributed(i)
          PROVE  Recorded(s.crit, r)
      <3>1. i < todo \/ i = todo
        BY <2>2, <2>3
      <3> QED  BY <2>3, <3>1 DEF WellMade, Rooted
    <2>4. Rooted(s.crit)' <=> \A i \in DOMAIN project.refs :
                                i < todo + 1 => \A r \in Contributed(i) : Recorded(s.crit, r)
      BY <2>1 DEF Rooted, Recorded
    <2> QED  BY <2>3, <2>4
  <1>4. IsState(s)
    BY DEF WellMade
  <1> QED  BY <1>2, <1>3, <1>4 DEF WellMade

\* One ref's requirements are added to the root state.
LEMMA AddRequirementsStep == IInv /\ AddRequirements => IInv'
  <1> SUFFICES ASSUME IInv, AddRequirements
               PROVE  IInv'
    OBVIOUS
  <1> DEFINE reqs == Gathered(project.refs[todo])
             t == [Top EXCEPT !.crit = Adding(Top.crit, reqs, None)]
  <1> USE DEF IInv
  <1>1. CASE Conflicts(Top.crit, reqs, None) # {}
    <2>1. /\ phase' = "impossible" /\ phase = "requirements"
          /\ UNCHANGED <<project, todo, stack, saved, optimistic, start, round, causes>>
      BY <1>1 DEF AddRequirements
    <2>2. \A s \in AllStates : WellMade(s)'
      BY <2>1, WellMadeStable DEF StackInv
    <2>3. AllStates' = AllStates
      BY <2>1 DEF AllStates
    <2>4. TypeOK'
      BY <2>1, <2>3 DEF TypeOK, Outcomes
    <2>5. StackInv'
      BY <2>1, <2>2, <2>3 DEF StackInv, Full
    <2>6. PhaseInv'
      BY <2>1 DEF PhaseInv
    <2> QED  BY <2>4, <2>5, <2>6
  <1>2. CASE Conflicts(Top.crit, reqs, None) = {}
    <2>1. /\ phase' = phase /\ phase = "requirements"
          /\ todo' = todo + 1 /\ stack' = <<t>> /\ saved = << >>
          /\ UNCHANGED <<project, saved, optimistic, start, round, causes>>
      BY <1>2 DEF AddRequirements, PhaseInv
    <2>2. todo \in DOMAIN project.refs /\ project \in Projects /\ todo \in Nat /\ round \in Nat
      BY ProjectsType DEF AddRequirements, TypeOK
    <2>3. IsList(reqs)
      BY <2>2, GatheredType
    <2>4. /\ WellMade(Top) /\ AreCriteria(Top.crit) /\ Full(Top)
          /\ Top = [pins |-> Top.pins, crit |-> Top.crit]
      BY <2>1, TopWell
    <2>5. PICK w : w = t
      OBVIOUS
    <2>6. w = [pins |-> Top.pins, crit |-> Adding(Top.crit, reqs, None)]
      BY <2>4, <2>5
    <2>7. stack' = <<w>>
      BY <2>1, <2>5
    <2> HIDE DEF reqs, t
    <2>8. /\ AreCriteria(w.crit)
          /\ Fitting(w.crit)
          /\ Rooted(w.crit)
          /\ \A i \in DOMAIN reqs : Recorded(w.crit, reqs[i])
      BY <2>2, <2>3, <2>4, <2>6, AddingWell, AddingRooted DEF WellMade, Recorded
    <2>9. WellMade(w)
      BY <2>4, <2>6, <2>8 DEF WellMade, IsState, AreCriteria
    <2>10. \A r \in Contributed(todo) : Recorded(w.crit, r)
      BY <2>8 DEF Contributed, reqs
    <2>11. WellMade(w)'
      BY <2>1, <2>2, <2>9, <2>10, RootStep
    <2>12. AllStates' = {w} /\ Len(stack') = 1 /\ DOMAIN stack' = {1} /\ saved' = << >>
      BY <2>1, <2>7 DEF AllStates
    <2>13. Full(w)
      <3> SUFFICES ASSUME NEW n \in DOMAIN w.crit
                   PROVE  w.crit[n].cands # {}
        BY DEF Full
      <3>1. CASE n \in Required(reqs)
        BY <1>2, <2>6, <3>1 DEF Conflicts, Required, reqs
      <3>2. CASE n \notin Required(reqs)
        BY <2>4, <2>6, <3>2 DEF Adding, Full
      <3> QED  BY <3>1, <3>2
    <2>14. TypeOK'
      <3>1. stack' \in Seq(AllStates') /\ saved' \in Seq(AllStates')
        BY <2>7, <2>12
      <3>2. IsState(w)
        BY <2>9 DEF WellMade
      <3> QED  BY <2>1, <2>12, <3>1, <3>2 DEF TypeOK
    <2>15. StackInv'
      BY <2>1, <2>7, <2>11, <2>12, <2>13 DEF StackInv, Full
    <2>16. PhaseInv'
      BY <2>1, <2>12 DEF PhaseInv
    <2> QED  BY <2>14, <2>15, <2>16
  <1> QED  BY <1>1, <1>2

\* What every step after the requirements has to show: only known states and one new
\* well-made state are on the stacks.
LEMMA Kept ==
    ASSUME IInv, project' = project, todo' = todo, NEW new, WellMade(new),
           stack' \in Seq(AllStates \cup {new}), saved' \in Seq(AllStates \cup {new}),
           optimistic' \in BOOLEAN, start' \in Nat \cup {None}, round' \in Nat,
           causes' \subseteq Names,
           phase' \in {"requirements", "round", "discard", "jump"} \cup Outcomes
    PROVE  TypeOK' /\ (\A s \in AllStates : WellMade(s))'
  <1>1. TypeOK /\ \A s \in AllStates : WellMade(s)
    BY DEF IInv, StackInv
  <1>2. /\ (\A s \in AllStates : WellMade(s))'
        /\ (\A s \in AllStates : IsState(s))'
        /\ stack' \in Seq(AllStates')
        /\ saved' \in Seq(AllStates')
    BY <1>1, StackStep
  <1>3. project' \in Projects /\ todo' \in Nat \ {0}
    BY <1>1 DEF TypeOK
  <1> QED  BY <1>2, <1>3 DEF TypeOK

\* The same when no state is new.
LEMMA KeptOld ==
    ASSUME IInv, project' = project, todo' = todo,
           stack' \in Seq(AllStates), saved' \in Seq(AllStates),
           optimistic' \in BOOLEAN, start' \in Nat \cup {None}, round' \in Nat,
           causes' \subseteq Names,
           phase' \in {"requirements", "round", "discard", "jump"} \cup Outcomes
    PROVE  TypeOK' /\ (\A s \in AllStates : WellMade(s))'
  <1>1. PICK w : w = Top
    OBVIOUS
  <1>2. WellMade(w) /\ AllStates \cup {w} = AllStates
    BY <1>1, TopWell
  <1> QED  BY <1>2, Kept

\* The root state is pushed a second time, to be pinned in.
LEMMA RequirementsAddedStep == IInv /\ RequirementsAdded => IInv'
  <1> SUFFICES ASSUME IInv, RequirementsAdded
               PROVE  IInv'
    OBVIOUS
  <1>1. /\ stack' = Append(stack, Top) /\ phase' = "round" /\ phase = "requirements"
        /\ todo > Len(project.refs)
        /\ UNCHANGED <<project, todo, saved, optimistic, start, round, causes>>
    BY DEF RequirementsAdded
  <1>2. /\ Len(stack) \in Nat \ {0} /\ Top \in AllStates /\ Full(Top)
        /\ stack \in Seq(AllStates) /\ saved \in Seq(AllStates)
    BY <1>1, TopWell
  <1>3. stack' \in Seq(AllStates)
    BY <1>1, <1>2
  <1>4. TypeOK' /\ (\A s \in AllStates : WellMade(s))'
    BY <1>1, <1>2, <1>3, KeptOld DEF IInv, TypeOK
  <1>5. \A i \in DOMAIN stack' : Full(stack'[i])
    BY <1>1, <1>2 DEF IInv, StackInv
  <1>6. \A i \in DOMAIN saved' : Full(saved'[i])
    BY <1>1 DEF IInv, StackInv
  <1>7. PhaseInv'
    BY <1>1, <1>2 DEF PhaseInv
  <1> QED  BY <1>4, <1>5, <1>6, <1>7 DEF IInv, StackInv, Full

\* The optimistic search is undone.
LEMMA RollbackStep ==
    ASSUME IInv, Rollback, saved # << >>, phase \in {"round", "discard", "jump"},
           phase' = "round", round' = round + 1, start' \in {start, round},
           UNCHANGED <<project, todo, causes>>
    PROVE  IInv'
  <1>1. /\ stack' = saved /\ saved' = << >> /\ optimistic' = FALSE
        /\ todo' > Len(project'.refs)
    BY DEF Rollback, IInv, PhaseInv
  <1>2. /\ saved \in Seq(AllStates) /\ round \in Nat /\ start \in Nat \cup {None}
        /\ causes \subseteq Names
    BY DEF IInv, TypeOK
  <1>3. stack' \in Seq(AllStates) /\ saved' \in Seq(AllStates) /\ Len(stack') > 0
    BY <1>1, <1>2
  <1>4. TypeOK' /\ (\A s \in AllStates : WellMade(s))'
    <2>1. optimistic' \in BOOLEAN
      BY <1>1, Zenon
    <2>2. /\ start' \in Nat \cup {None} /\ round' \in Nat
          /\ causes' \subseteq Names
          /\ phase' \in {"requirements", "round", "discard", "jump"} \cup Outcomes
      BY <1>2
    <2> QED  BY <1>3, <2>1, <2>2, KeptOld
  <1>5. /\ \A i \in DOMAIN stack' : Full(stack'[i])
        /\ \A i \in DOMAIN saved' : Full(saved'[i])
    BY <1>1 DEF IInv, StackInv
  <1>6. PhaseInv'
    BY <1>1, <1>3 DEF PhaseInv
  <1> QED  BY <1>4, <1>5, <1>6 DEF IInv, StackInv, Full

\* It has taken too long.
LEMMA StopOptimismStep == IInv /\ StopOptimism => IInv'
  BY RollbackStep DEF StopOptimism, OutOfTime

\* The search ends with the states as they are.
LEMMA FinishStep == IInv /\ (Finish \/ TooDeep) => IInv'
  <1> SUFFICES ASSUME IInv, Finish \/ TooDeep
               PROVE  IInv'
    OBVIOUS
  <1>1. /\ phase = "round" /\ phase' \in {"resolved", "recursionError", "tooDeep"}
        /\ start' \in {start, round}
        /\ phase' = "resolved" => Unsatisfied(Top.pins, Top.crit) = {}
        /\ UNCHANGED <<project, todo, stack, saved, optimistic, round, causes>>
    BY DEF Finish, InRound, TooDeep
  <1>2. /\ stack \in Seq(AllStates) /\ saved \in Seq(AllStates)
        /\ round \in Nat /\ start \in Nat \cup {None}
    BY DEF IInv, TypeOK
  <1>3. TypeOK' /\ (\A s \in AllStates : WellMade(s))'
    BY <1>1, <1>2, KeptOld DEF IInv, TypeOK, Outcomes
  <1>4. StackInv'
    BY <1>1, <1>3 DEF IInv, StackInv, Full
  <1>5. PhaseInv'
    <2>1. Top' = Top
      BY <1>1 DEF Top
    <2>2. Unsatisfied(Top.pins, Top.crit)' = Unsatisfied(Top.pins, Top.crit)
      BY <2>1 DEF Unsatisfied, PinSatisfies
    <2> QED  BY <1>1, <2>2 DEF IInv, PhaseInv
  <1> QED  BY <1>3, <1>4, <1>5 DEF IInv

\* One more library is pinned, in a state whose candidates are all still there.
LEMMA PinStep ==
    ASSUME IInv, NEW n \in Names, NEW v \in Versions, Pin(n, v)
    PROVE  IInv'
  <1> DEFINE c == [name |-> n, version |-> v]
             crit == Adding(Top.crit, Dependencies(c), c)
             pins == [m \in DOMAIN Top.pins \cup {n} |->
                        IF m = n THEN [version |-> v, round |-> round] ELSE Top.pins[m]]
             invalidated == (DOMAIN Top.crit \ Unsatisfied(Top.pins, Top.crit))
                                \cap Unsatisfied(pins, crit)
             pinned == [pins |-> pins, crit |-> Forget(crit, invalidated)]
  <1>1. /\ phase = "round" /\ phase' = "round" /\ round' = round + 1
        /\ start' \in {start, round}
        /\ n \in DOMAIN Top.crit /\ v \in Top.crit[n].cands
        /\ Conflicts(Top.crit, Dependencies(c), c) = {}
        /\ stack' = Append(Append(Below(stack), pinned), pinned)
        /\ UNCHANGED <<project, todo, saved, optimistic, causes>>
    BY DEF Pin, InRound, Chosen, Unsatisfied, Workable
  <1>2. project \in Projects /\ todo \in Nat /\ round \in Nat /\ start \in Nat \cup {None}
    BY DEF IInv, TypeOK
  <1>3. /\ WellMade(Top) /\ AreCriteria(Top.crit) /\ Full(Top)
        /\ Len(stack) \in Nat \ {0}
        /\ stack \in Seq(AllStates) /\ saved \in Seq(AllStates)
    BY <1>1, TopWell
  <1>4. v \in Available(n) /\ v \in DOMAIN project.deps[n]
    <2>1. v \in Matches(n, Top.crit[n].info, Top.crit[n].bad)
      BY <1>1, <1>3 DEF WellMade, Fitting
    <2>2. Matches(n, Top.crit[n].info, Top.crit[n].bad) \subseteq Available(n)
      BY DEF Matches
    <2>3. Available(n) \subseteq DOMAIN project.deps[n]
      BY <1>1, <1>2, ForcedExist DEF Available
    <2> QED  BY <2>1, <2>2, <2>3
  <1>5. IsList(Dependencies(c)) /\ c \in Candidates
    BY <1>2, <1>4, DependenciesType DEF Candidates
  <1>6. /\ \A m \in DOMAIN pins : /\ pins[m] \in Pins
                                  /\ pins[m].version \in Available(m)
        /\ DOMAIN pins \subseteq Names
        /\ pins = [m \in DOMAIN pins |-> pins[m]]
    BY <1>2, <1>3, <1>4 DEF WellMade, IsState, PinsExist, Pins
  <1> HIDE DEF c, crit, pins, invalidated
  <1>7. AreCriteria(crit) /\ Fitting(crit) /\ Rooted(crit)
    BY <1>2, <1>3, <1>5, AddingWell, AddingRooted DEF crit, WellMade
  <1>8. PICK w : w = pinned
    OBVIOUS
  <1>9. /\ AreCriteria(w.crit) /\ Fitting(w.crit) /\ Rooted(w.crit)
        /\ DOMAIN w.crit = DOMAIN crit
        /\ \A m \in DOMAIN crit : w.crit[m].cands = crit[m].cands
    BY <1>2, <1>7, <1>8, ForgetWell
  <1>10. w = [pins |-> w.pins, crit |-> w.crit] /\ w.pins = pins
    BY <1>8
  <1>11. WellMade(w)
    <2>1. IsState(w)
      BY <1>6, <1>9, <1>10 DEF IsState, AreCriteria
    <2> QED  BY <1>6, <1>9, <1>10, <2>1 DEF WellMade, PinsExist
  <1>12. Full(w)
    <2> SUFFICES ASSUME NEW m \in DOMAIN crit
                 PROVE  crit[m].cands # {}
      BY <1>9 DEF Full
    <2>1. CASE m \in Required(Dependencies(c))
      BY <1>1, <2>1 DEF Conflicts, Required, crit
    <2>2. CASE m \notin Required(Dependencies(c))
      BY <1>3, <2>2 DEF Adding, Full, crit
    <2> QED  BY <2>1, <2>2
  <1>13. /\ Below(stack) \in Seq(AllStates)
         /\ Len(Below(stack)) = Len(stack) - 1
         /\ \A i \in 1 .. Len(stack) - 1 : Below(stack)[i] = stack[i]
    BY <1>3, BelowType
  <1>14. stack' = Append(Append(Below(stack), w), w)
    BY <1>1, <1>8
  <1> DEFINE q == Below(stack)
  <1>15. \A i \in 1 .. Len(q) : Full(q[i])
    <2> SUFFICES ASSUME NEW i \in 1 .. Len(q)
                 PROVE  Full(q[i])
      OBVIOUS
    <2>1. i \in DOMAIN stack /\ q[i] = stack[i]
      BY <1>3, <1>13
    <2> QED  BY <1>1, <2>1 DEF IInv, StackInv
  <1> HIDE DEF q
  <1>16. /\ stack' \in Seq(AllStates \cup {w}) /\ Len(stack') > 0
         /\ saved' \in Seq(AllStates \cup {w})
    <2>1. q \in Seq(AllStates \cup {w}) /\ saved \in Seq(AllStates \cup {w})
      BY <1>3, <1>13 DEF q
    <2> QED  BY <1>1, <1>14, <2>1 DEF q
  <1>17. TypeOK' /\ (\A s \in AllStates : WellMade(s))'
    <2>1. /\ optimistic' \in BOOLEAN /\ start' \in Nat \cup {None} /\ round' \in Nat
          /\ causes' \subseteq Names
          /\ phase' \in {"requirements", "round", "discard", "jump"} \cup Outcomes
      BY <1>1, <1>2 DEF IInv, TypeOK
    <2> QED  BY <1>1, <1>11, <1>16, <2>1, Kept
  <1>18. \A i \in DOMAIN stack' : Full(stack'[i])
    <2>1. q \in Seq(AllStates)
      BY <1>13 DEF q
    <2>2. stack' = Append(Append(q, w), w)
      BY <1>14 DEF q
    <2> QED  BY <1>12, <1>15, <2>1, <2>2
  <1>19. \A i \in DOMAIN saved' : Full(saved'[i])
    BY <1>1 DEF IInv, StackInv
  <1>20. PhaseInv'
    BY <1>1, <1>16 DEF IInv, PhaseInv
  <1> QED  BY <1>17, <1>18, <1>19, <1>20 DEF IInv, StackInv, Full

\* The causes of a conflict are libraries.
LEMMA ConflictNamesType ==
    ASSUME project \in Projects, todo \in Nat, round \in Nat,
           NEW crit, AreCriteria(crit), Fitting(crit),
           NEW reqs, IsList(reqs), NEW parent \in Candidates \cup {None}
    PROVE  ConflictNames(crit, reqs, parent) \subseteq Names
  <1> DEFINE new == Adding(crit, reqs, parent)
  <1>1. AreCriteria(new) /\ \A i \in DOMAIN reqs : reqs[i].name \in DOMAIN new
    BY AddingWell
  <1> HIDE DEF new
  <1>2. \A i \in DOMAIN reqs : /\ reqs[i].name \in Names
                               /\ ParentNames(new[reqs[i].name].info) \subseteq Names
    BY <1>1 DEF AreCriteria, Criteria, Information, Candidates, ParentNames
  <1>3. Conflicts(crit, reqs, parent) \subseteq DOMAIN reqs
    BY DEF Conflicts
  <1> QED  BY <1>2, <1>3 DEF ConflictNames, new

\* No candidate can be pinned: backjumping begins.
LEMMA DeadEndStep ==
    ASSUME IInv, NEW n \in Names, DeadEnd(n)
    PROVE  IInv'
  <1> DEFINE tried == {[name |-> n, version |-> v] : v \in Top.crit[n].cands}
  <1>1. /\ phase = "round" /\ phase' = "discard" /\ start' \in {start, round}
        /\ n \in DOMAIN Top.crit
        /\ causes' = UNION {ConflictNames(Top.crit, Dependencies(c), c) : c \in tried}
        /\ UNCHANGED <<project, todo, stack, saved, optimistic, round>>
    BY DEF DeadEnd, InRound, Chosen, Unsatisfied
  <1>2. /\ project \in Projects /\ todo \in Nat /\ round \in Nat
        /\ start \in Nat \cup {None}
    BY DEF IInv, TypeOK
  <1>3. /\ WellMade(Top) /\ AreCriteria(Top.crit)
        /\ stack \in Seq(AllStates) /\ saved \in Seq(AllStates)
    BY TopWell
  <1>4. ASSUME NEW c \in tried
        PROVE  ConflictNames(Top.crit, Dependencies(c), c) \subseteq Names
    <2>1. PICK v \in Top.crit[n].cands : c = [name |-> n, version |-> v]
      OBVIOUS
    <2>2. v \in Matches(n, Top.crit[n].info, Top.crit[n].bad)
      BY <1>1, <1>3 DEF WellMade, Fitting
    <2>3. v \in DOMAIN project.deps[n] /\ v \in Versions
      BY <1>2, <2>2, MatchesExist
    <2>4. IsList(Dependencies(c)) /\ c \in Candidates
      BY <1>2, <2>1, <2>3, DependenciesType DEF Candidates
    <2> QED  BY <1>2, <1>3, <2>4, ConflictNamesType DEF WellMade
  <1> HIDE DEF tried
  <1>5. causes' \subseteq Names
    BY <1>1, <1>4
  <1>6. TypeOK' /\ (\A s \in AllStates : WellMade(s))'
    <2>1. /\ optimistic' \in BOOLEAN /\ start' \in Nat \cup {None} /\ round' \in Nat
          /\ phase' \in {"requirements", "round", "discard", "jump"} \cup Outcomes
      BY <1>1, <1>2 DEF IInv, TypeOK
    <2> QED  BY <1>1, <1>3, <1>5, <2>1, KeptOld
  <1>7. StackInv'
    BY <1>1, <1>6 DEF IInv, StackInv, Full
  <1>8. PhaseInv'
    BY <1>1 DEF IInv, PhaseInv
  <1> QED  BY <1>6, <1>7, <1>8 DEF IInv

\* All states below the last can be worked on again.
LEMMA BelowStack ==
    ASSUME IInv
    PROVE  /\ Below(stack) \in Seq(AllStates)
           /\ Len(Below(stack)) = Len(stack) - 1
           /\ \A i \in DOMAIN Below(stack) : Full(Below(stack)[i])
  <1>1. Len(stack) \in Nat \ {0} /\ stack \in Seq(AllStates)
    BY TopWell
  <1>2. /\ Below(stack) \in Seq(AllStates)
        /\ Len(Below(stack)) = Len(stack) - 1
        /\ \A i \in 1 .. Len(stack) - 1 : Below(stack)[i] = stack[i]
    BY <1>1, BelowType
  <1>3. DOMAIN Below(stack) = 1 .. Len(stack) - 1
    BY <1>2
  <1>4. \A i \in 1 .. Len(stack) - 1 : i \in DOMAIN stack /\ i # Len(stack)
    BY <1>1
  <1> QED  BY <1>2, <1>3, <1>4 DEF IInv, StackInv

\* The resolution fails with the states as they are.
LEMMA FailStep ==
    ASSUME IInv, phase \in {"discard", "jump"}, phase' = "impossible",
           UNCHANGED <<project, todo, stack, saved, optimistic, start, round, causes>>
    PROVE  IInv'
  <1>1. TypeOK' /\ (\A s \in AllStates : WellMade(s))'
    BY KeptOld DEF IInv, TypeOK, Outcomes
  <1>2. StackInv'
    BY <1>1 DEF IInv, StackInv, Full
  <1>3. PhaseInv'
    BY DEF IInv, PhaseInv
  <1> QED  BY <1>1, <1>2, <1>3 DEF IInv

\* The last state is thrown away.
LEMMA DropStep ==
    ASSUME IInv, phase \in {"discard", "jump"},
           stack' = Below(stack), saved' \in {saved, Below(stack)},
           \/ phase' = "jump" /\ Len(stack) > 2
           \/ phase' = "round" /\ Len(stack) > 1,
           optimistic' \in BOOLEAN, round' \in Nat, UNCHANGED <<project, todo, start, causes>>
    PROVE  IInv'
  <1>1. /\ Below(stack) \in Seq(AllStates)
        /\ Len(Below(stack)) = Len(stack) - 1
        /\ \A i \in DOMAIN Below(stack) : Full(Below(stack)[i])
    BY BelowStack
  <1>2. saved \in Seq(AllStates) /\ Len(stack) \in Nat
    BY TopWell
  <1>3. stack' \in Seq(AllStates) /\ saved' \in Seq(AllStates)
    BY <1>1, <1>2
  <1>4. TypeOK' /\ (\A s \in AllStates : WellMade(s))'
    BY <1>3, KeptOld DEF IInv, TypeOK
  <1>5. /\ \A i \in DOMAIN stack' : Full(stack'[i])
        /\ \A i \in DOMAIN saved' : Full(saved'[i])
    BY <1>1 DEF IInv, StackInv
  <1>6. PhaseInv'
    BY <1>1, <1>2 DEF IInv, PhaseInv
  <1> QED  BY <1>4, <1>5, <1>6 DEF IInv, StackInv, Full

\* The state that cannot be worked on is thrown away.
LEMMA DiscardTopStep == IInv /\ DiscardTop => IInv'
  <1> SUFFICES ASSUME IInv, DiscardTop
               PROVE  IInv'
    OBVIOUS
  <1>1. /\ phase = "discard" /\ UNCHANGED <<project, todo, start, causes>>
        /\ Len(stack) \in Nat /\ optimistic \in BOOLEAN /\ round \in Nat
    BY TopWell DEF DiscardTop, IInv, TypeOK
  <1>2. CASE Len(stack) >= 3
    <2>1. stack' = Below(stack) /\ phase' = "jump" /\ UNCHANGED <<saved, optimistic, round>>
      BY <1>1, <1>2 DEF DiscardTop
    <2> QED  BY <1>1, <1>2, <2>1, DropStep
  <1>3. CASE Len(stack) < 3 /\ optimistic /\ saved # << >>
    BY <1>1, <1>3, RollbackStep DEF DiscardTop, GiveUp
  <1>4. CASE Len(stack) < 3 /\ ~(optimistic /\ saved # << >>)
    BY <1>1, <1>4, FailStep DEF DiscardTop, GiveUp
  <1> QED  BY <1>1, <1>2, <1>3, <1>4

\* The state below is thrown away too.
LEMMA JumpOverStep ==
    ASSUME IInv, NEW n \in Names, JumpOver(n)
    PROVE  IInv'
  <1>1. /\ phase = "jump" /\ phase' = "jump" /\ Len(stack) > 2 /\ stack' = Below(stack)
        /\ saved' \in {saved, Below(stack)}
        /\ UNCHANGED <<project, todo, optimistic, start, round, causes>>
    BY DEF JumpOver, SaveState
  <1>2. optimistic' \in BOOLEAN /\ round' \in Nat
    BY <1>1 DEF IInv, TypeOK
  <1> QED  BY <1>1, <1>2, DropStep

\* There is no state left to jump to.
LEMMA JumpOutStep ==
    ASSUME IInv, NEW n \in Names, JumpOut(n)
    PROVE  IInv'
  <1>1. /\ phase = "jump" /\ Len(stack) = 2 /\ UNCHANGED <<project, todo, start, causes>>
    BY DEF JumpOut
  <1>2. CASE optimistic /\ (saved # << >> \/ n \notin causes)
    <2>1. /\ optimistic' = FALSE /\ saved' = << >> /\ round' = round + 1 /\ phase' = "round"
          /\ stack' = IF saved = << >> THEN Below(stack) ELSE saved
      BY <1>2 DEF JumpOut
    <2>2. CASE saved # << >>
      BY <1>1, <2>1, <2>2, RollbackStep DEF Rollback
    <2>3. CASE saved = << >>
      <3>1. round' \in Nat
        BY <2>1 DEF IInv, TypeOK
      <3>2. optimistic' \in BOOLEAN
        BY <2>1, Zenon
      <3>3. stack' = Below(stack) /\ saved' = saved
        BY <2>1, <2>3
      <3> QED  BY <1>1, <2>1, <3>1, <3>2, <3>3, DropStep
    <2> QED  BY <2>2, <2>3
  <1>3. CASE ~(optimistic /\ (saved # << >> \/ n \notin causes))
    <2>1. phase' = "impossible" /\ UNCHANGED <<stack, saved, optimistic, round>>
      BY <1>3 DEF JumpOut
    <2> QED  BY <1>1, <2>1, FailStep
  <1> QED  BY <1>2, <1>3

\* The jump ends, and the candidate of the broken state is known not to work.
LEMMA BacktrackStep ==
    ASSUME IInv, NEW n \in Names, Backtrack(n)
    PROVE  IInv'
  <1> DEFINE below == Below(stack)
             patched == Patched(below[Len(below)], Top, n)
  <1>1. PICK w : w = patched
    OBVIOUS
  <1>2. /\ phase = "jump" /\ n \in DOMAIN Top.pins /\ stack' = Append(below, w)
        /\ saved' \in {saved, below}
        /\ UNCHANGED <<project, todo, optimistic, start, causes>>
    BY <1>1 DEF Backtrack, SaveState, IsLastPin
  <1>3. \/ phase' = "discard" /\ round' = round
        \/ phase' = "round" /\ round' = round + 1 /\ Full(w)
    BY <1>1 DEF Backtrack, Full
  <1>4. /\ WellMade(Top) /\ saved \in Seq(AllStates)
        /\ Len(stack) \in Nat /\ Len(stack) > 1
    BY <1>2, TopWell DEF IInv, PhaseInv
  <1>5. /\ below \in Seq(AllStates) /\ Len(below) = Len(stack) - 1
        /\ \A i \in DOMAIN below : Full(below[i])
    BY BelowStack
  <1> HIDE DEF below
  <1>6. WellMade(w)
    <2>1. below[Len(below)] \in AllStates
      BY <1>4, <1>5
    <2>2. WellMade(below[Len(below)]) /\ project \in Projects
      BY <2>1 DEF IInv, StackInv, TypeOK
    <2> QED  BY <1>1, <1>2, <1>4, <2>2, PatchedWell
  <1>7. /\ stack' \in Seq(AllStates \cup {w}) /\ saved' \in Seq(AllStates \cup {w})
        /\ Len(stack') > 0
    <2>1. below \in Seq(AllStates \cup {w}) /\ saved \in Seq(AllStates \cup {w})
      BY <1>4, <1>5
    <2> QED  BY <1>2, <2>1
  <1>8. TypeOK' /\ (\A s \in AllStates : WellMade(s))'
    <2>1. /\ optimistic' \in BOOLEAN /\ start' \in Nat \cup {None} /\ round' \in Nat
          /\ causes' \subseteq Names
          /\ phase' \in {"requirements", "round", "discard", "jump"} \cup Outcomes
      BY <1>2, <1>3 DEF IInv, TypeOK
    <2> QED  BY <1>2, <1>6, <1>7, <2>1, Kept
  <1>9. \A i \in DOMAIN stack' : (phase' = "discard" /\ i = Len(stack')) \/ Full(stack'[i])
    BY <1>2, <1>3, <1>5
  <1>10. \A i \in DOMAIN saved' : Full(saved'[i])
    BY <1>2, <1>5 DEF IInv, StackInv
  <1>11. PhaseInv'
    BY <1>2, <1>3, <1>7 DEF IInv, PhaseInv
  <1> QED  BY <1>8, <1>9, <1>10, <1>11 DEF IInv, StackInv, Full

\* Every step keeps the invariant.
LEMMA NextInv == IInv /\ [Next]_vars => IInv'
  <1> SUFFICES ASSUME IInv, [Next]_vars
               PROVE  IInv'
    OBVIOUS
  <1>1. CASE UNCHANGED vars
    <2>1. UNCHANGED <<project, todo, stack, saved, optimistic, start, round, causes, phase>>
      BY <1>1 DEF vars
    <2>2. TypeOK' /\ (\A s \in AllStates : WellMade(s))'
      BY <2>1, KeptOld DEF IInv, TypeOK
    <2>3. StackInv'
      BY <2>1, <2>2 DEF IInv, StackInv, Full
    <2>4. PhaseInv'
      <3>1. Top' = Top
        BY <2>1 DEF Top
      <3>2. Unsatisfied(Top.pins, Top.crit)' = Unsatisfied(Top.pins, Top.crit)
        BY <3>1 DEF Unsatisfied, PinSatisfies
      <3> QED  BY <2>1, <3>2 DEF IInv, PhaseInv
    <2> QED  BY <2>2, <2>3, <2>4 DEF IInv
  <1>2. ASSUME NEW n \in Names, JumpOver(n) \/ JumpOut(n) \/ Backtrack(n)
        PROVE  IInv'
    BY <1>2, JumpOverStep, JumpOutStep, BacktrackStep
  <1> QED
    BY <1>1, <1>2, AddRequirementsStep, RequirementsAddedStep, StopOptimismStep, FinishStep,
       PinStep, DeadEndStep, DiscardTopStep DEF Next

\* The invariant holds always.
THEOREM Invariant == Spec => []IInv
  BY InitInv, NextInv, PTL DEF Spec

-----------------------------------------------------------------------------
(* What follows from it *)

\* The stack always holds states whose criteria and pins are about known libraries.
THEOREM TypeCorrect == Spec => []TypeOK
  <1>1. IInv => TypeOK
    BY DEF IInv
  <1> QED  BY <1>1, Invariant, PTL

\* Candidates always satisfy the requirements collected for them and are not known to fail.
THEOREM Fits == Spec => []CandidatesFit
  <1>1. IInv => CandidatesFit
    BY DEF IInv, StackInv, WellMade, Fitting, CandidatesFit
  <1> QED  BY <1>1, Invariant, PTL

\* Every criterion a round may choose has a candidate left.
THEOREM NeverEmpty == Spec => []NeverEmptyHanded
  <1>1. IInv => NeverEmptyHanded
    BY TopWell DEF Full, NeverEmptyHanded
  <1> QED  BY <1>1, Invariant, PTL

\* A round always has a candidate to try, and every candidate fits.
THEOREM Usable == Spec => []CandidatesUsable
  BY Fits, NeverEmpty, PTL DEF CandidatesUsable

\* Libraries that the project itself requires are part of the result.
LEMMA RecordedConnected ==
    ASSUME NEW s, NEW r, Recorded(s.crit, r)
    PROVE  r.name \in Connected(s)
  BY DEF Recorded, Connected

\* A result gives the project what it asks for.
LEMMA ResultHonours == IInv => ProjectHonoured
  <1>1. ASSUME IInv, phase = "resolved"
        PROVE  /\ \A i \in DOMAIN project.refs : Meets(Selection, Gathered(project.refs[i]))
               /\ \A n \in DOMAIN Selection : Selection[n] \in Available(n)
    <2>1. /\ todo > Len(project.refs) /\ todo \in Nat
          /\ project \in Projects /\ Unsatisfied(Top.pins, Top.crit) = {}
      BY <1>1 DEF IInv, PhaseInv, TypeOK
    <2>2. WellMade(Top)
      BY <1>1, TopWell
    <2>3. \A n \in DOMAIN Top.crit : /\ n \in DOMAIN Top.pins
                                     /\ \A e \in Top.crit[n].info :
                                            Top.pins[n].version \in e.spec
      BY <2>1 DEF Unsatisfied, PinSatisfies
    <2>4. Connected(Top) \subseteq DOMAIN Top.crit
      BY DEF Connected
    <2>5. /\ DOMAIN Selection = Connected(Top)
          /\ \A n \in Connected(Top) : Selection[n] = Top.pins[n].version
      BY DEF Selection
    <2>6. ASSUME NEW i \in DOMAIN project.refs
          PROVE  Meets(Selection, Gathered(project.refs[i]))
      <3>1. i < todo
        BY <2>1, ProjectsType
      <3>2. ASSUME NEW j \in DOMAIN Gathered(project.refs[i])
            PROVE  Recorded(Top.crit, Gathered(project.refs[i])[j])
        BY <2>2, <3>1 DEF WellMade, Rooted, Contributed
      <3>3. ASSUME NEW r, Recorded(Top.crit, r)
            PROVE  r.name \in DOMAIN Selection /\ Selection[r.name] \in r.spec
        <4>1. r.name \in Connected(Top)
          BY <3>3, RecordedConnected
        <4> QED  BY <2>3, <2>5, <3>3, <4>1 DEF Recorded
      <3> QED  BY <3>2, <3>3 DEF Meets
    <2>7. ASSUME NEW n \in DOMAIN Selection
          PROVE  Selection[n] \in Available(n)
      BY <2>2, <2>3, <2>4, <2>5 DEF WellMade, PinsExist
    <2> QED  BY <2>6, <2>7
  <1> QED  BY <1>1 DEF ProjectHonoured

\* What the project itself asks for it gets, whatever the packages require of each other.
THEOREM Honoured == Spec => []ProjectHonoured
  BY ResultHonours, Invariant, PTL
-----------------------------------------------------------------------------
(* Where requirements come from and what they are kept for *)

\* The requirement is recorded as one of the candidate c.
RecordedOf(crit, c, r) ==
    /\ r.name \in DOMAIN crit
    /\ \E e \in crit[r.name].info : e.parent = c /\ e.spec = r.spec

\* The information was added by the project or by a dependency of its parent.
ComesFrom(n, e) ==
    IF e.parent = None
    THEN \E i \in DOMAIN project.refs : \E r \in Contributed(i) : r.name = n /\ r.spec = e.spec
    ELSE Requires(e.parent.name, n)

Declaring(crit) == \A n \in DOMAIN crit : \A e \in crit[n].info : ComesFrom(n, e)

\* A pin that counts has the requirements of its candidate recorded.
Committed(s) ==
    \A n \in DOMAIN s.crit :
        PinSatisfies(s.pins, s.crit, n) =>
            LET c == [name |-> n, version |-> s.pins[n].version]
            IN \A i \in DOMAIN Dependencies(c) : RecordedOf(s.crit, c, Dependencies(c)[i])

Grounded(s) == /\ DOMAIN s.pins \subseteq DOMAIN s.crit
               /\ Declaring(s.crit)
               /\ Flat => Committed(s)

Sourced == \A s \in AllStates : Grounded(s)

\* What is added is one of the requirements.
LEMMA AddingSources ==
    ASSUME NEW crit, NEW reqs, NEW parent,
           NEW n \in DOMAIN Adding(crit, reqs, parent),
           NEW e \in Adding(crit, reqs, parent)[n].info
    PROVE  \/ n \in DOMAIN crit /\ e \in crit[n].info
           \/ /\ e.parent = parent
              /\ \E i \in DOMAIN reqs : reqs[i].name = n /\ reqs[i].spec = e.spec
  <1> DEFINE new == Adding(crit, reqs, parent)
             j == CHOOSE i \in DOMAIN reqs : reqs[i].name = n
             Piece == [spec |-> reqs[j].spec, parent |-> parent, since |-> Now]
  <1>1. DOMAIN new = DOMAIN crit \cup Required(reqs)
    BY DEF Adding
  <1>2. CASE n \notin Required(reqs)
    <2>1. n \in DOMAIN crit /\ new[n] = crit[n]
      BY <1>1, <1>2 DEF Adding
    <2> QED
      BY <2>1
  <1>3. CASE n \in Required(reqs)
    <2>1. j \in DOMAIN reqs /\ reqs[j].name = n
      BY <1>3 DEF Required
    <2>2. new[n].info = IF n \in DOMAIN crit THEN crit[n].info \cup {Piece} ELSE {Piece}
      BY <1>1, <1>3 DEF Adding, Informed
    <2>3. Piece.parent = parent /\ Piece.spec = reqs[j].spec
      OBVIOUS
    <2> HIDE DEF new, j, Piece
    <2>4. e \in new[n].info
      BY DEF new
    <2> QED
      BY <2>1, <2>2, <2>3, <2>4
  <1> QED
    BY <1>2, <1>3

\* What is there stays, and what is added is recorded.
LEMMA AddingKeeps ==
    ASSUME NEW crit, NEW reqs, NEW parent
    PROVE  /\ DOMAIN Adding(crit, reqs, parent) = DOMAIN crit \cup Required(reqs)
           /\ \A n \in DOMAIN crit :
                 crit[n].info \subseteq Adding(crit, reqs, parent)[n].info
           /\ \A n \in DOMAIN crit \ Required(reqs) :
                 Adding(crit, reqs, parent)[n] = crit[n]
  BY DEF Adding, Informed

LEMMA AddingRecords ==
    ASSUME NEW crit, NEW reqs, IsList(reqs), NEW parent
    PROVE  /\ \A i \in DOMAIN reqs : RecordedOf(Adding(crit, reqs, parent), parent, reqs[i])
           /\ \A n \in Required(reqs) :
                 LET new == Adding(crit, reqs, parent)[n]
                 IN /\ new.cands = Matches(n, new.info, new.bad)
                    /\ new.bad = IF n \in DOMAIN crit THEN crit[n].bad ELSE {}
  <1> DEFINE new == Adding(crit, reqs, parent)
             At(n) == CHOOSE j \in DOMAIN reqs : reqs[j].name = n
             Piece(i) == [spec |-> reqs[i].spec, parent |-> parent, since |-> Now]
             Old(n) == IF n \in DOMAIN crit THEN crit[n].info ELSE {}
  <1>1. DOMAIN new = DOMAIN crit \cup Required(reqs)
    BY DEF Adding
  <1>2. \A i \in DOMAIN reqs : reqs[i].name \in Required(reqs)
    BY DEF Required
  <1>3. \A n \in Required(reqs) : At(n) \in DOMAIN reqs /\ reqs[At(n)].name = n
    BY DEF Required
  <1>4. \A n \in Required(reqs) :
           /\ new[n].info = Old(n) \cup {Piece(At(n))}
           /\ new[n].bad = IF n \in DOMAIN crit THEN crit[n].bad ELSE {}
           /\ new[n].cands = Matches(n, new[n].info, new[n].bad)
    BY <1>1 DEF Adding, Informed
  <1> HIDE DEF new, At
  <1>6. \A i \in DOMAIN reqs : At(reqs[i].name) = i
    BY <1>2, <1>3 DEF IsList
  <1>7. ASSUME NEW i \in DOMAIN reqs
        PROVE  RecordedOf(new, parent, reqs[i])
    <2>1. Piece(i) \in new[reqs[i].name].info
      BY <1>2, <1>4, <1>6
    <2> QED
      BY <1>1, <1>2, <2>1 DEF RecordedOf
  <1> QED
    BY <1>4, <1>7 DEF new

\* What a candidate depends on, it requires.
LEMMA DependsRequires ==
    ASSUME project \in Projects, NEW n \in Names, NEW v \in DOMAIN project.deps[n],
           NEW i \in DOMAIN Dependencies([name |-> n, version |-> v])
    PROVE  Requires(n, Dependencies([name |-> n, version |-> v])[i].name)
  <1>1. Dependencies([name |-> n, version |-> v]) = project.deps[n][v]
    BY DEF Dependencies, Declared
  <1> QED
    BY <1>1 DEF Requires, Required

\* Everything that a candidate's dependencies add comes from it.
LEMMA AddingDeclares ==
    ASSUME project \in Projects, NEW crit, Declaring(crit),
           NEW n \in Names, NEW v \in DOMAIN project.deps[n]
    PROVE  LET c == [name |-> n, version |-> v]
           IN c \in Candidates => Declaring(Adding(crit, Dependencies(c), c))
  <1> DEFINE c == [name |-> n, version |-> v]
             new == Adding(crit, Dependencies(c), c)
  <1> SUFFICES ASSUME c \in Candidates
               PROVE  Declaring(new)
    OBVIOUS
  <1>1. IsList(Dependencies(c))
    BY DependenciesType
  <1>2. c # None /\ c.name = n
    BY NoneIsNone
  <1>3. \A i \in DOMAIN Dependencies(c) : Requires(n, Dependencies(c)[i].name)
    BY DependsRequires
  <1> HIDE DEF c, new
  <1>4. ASSUME NEW m \in DOMAIN new, NEW e \in new[m].info
        PROVE  \/ m \in DOMAIN crit /\ e \in crit[m].info
               \/ /\ e.parent = c
                  /\ \E i \in DOMAIN Dependencies(c) : Dependencies(c)[i].name = m
    BY <1>4, AddingSources DEF new
  <1>5. ASSUME NEW m \in DOMAIN new, NEW e \in new[m].info
        PROVE  ComesFrom(m, e)
    BY <1>2, <1>3, <1>4 DEF Declaring, ComesFrom
  <1> QED
    BY <1>5 DEF Declaring

\* Everything that a ref adds comes from the project.
LEMMA AddingContributes ==
    ASSUME project \in Projects, NEW crit, Declaring(crit), NEW j \in DOMAIN project.refs
    PROVE  Declaring(Adding(crit, Gathered(project.refs[j]), None))
  <1> DEFINE reqs == Gathered(project.refs[j])
             new == Adding(crit, reqs, None)
  <1>1. IsList(reqs)
    BY GatheredType
  <1>2. \A i \in DOMAIN reqs : reqs[i] \in Contributed(j)
    BY DEF Contributed
  <1> HIDE DEF reqs, new
  <1>3. ASSUME NEW m \in DOMAIN new, NEW e \in new[m].info
        PROVE  \/ m \in DOMAIN crit /\ e \in crit[m].info
               \/ /\ e.parent = None
                  /\ \E i \in DOMAIN reqs : reqs[i].name = m /\ reqs[i].spec = e.spec
    BY <1>3, AddingSources DEF new
  <1>4. ASSUME NEW m \in DOMAIN new, NEW e \in new[m].info PROVE ComesFrom(m, e)
    BY <1>2, <1>3 DEF Declaring, ComesFrom
  <1> QED
    BY <1>4 DEF Declaring, new, reqs

\* Information of the parents is taken away and nothing else.
LEMMA ForgetInfo ==
    ASSUME NEW crit, AreCriteria(crit), NEW parents, NEW n \in DOMAIN crit
    PROVE  /\ DOMAIN Forget(crit, parents) = DOMAIN crit
           /\ Forget(crit, parents)[n].info =
                 {e \in crit[n].info : e.parent = None \/ e.parent.name \notin parents}
  <1>1. crit[n] \in Criteria
    BY DEF AreCriteria
  <1> QED
    BY <1>1 DEF Forget, Criteria

\* A requirement is about a library.
LEMMA ListNames ==
    ASSUME NEW list, IsList(list), NEW i \in DOMAIN list
    PROVE  list[i].name \in Names
  <1>1. list[i] \in Requirements
    BY DEF IsList
  <1> QED
    BY <1>1 DEF Requirements

\* A pin that stops satisfying when c is pinned is required by c.
LEMMA InvalidatedBy ==
    ASSUME NEW crit, NEW reqs, NEW c, NEW k \in DOMAIN crit, NEW pins, NEW new,
           new = Adding(crit, reqs, c), AreCriteria(new),
           PinSatisfies(pins, crit, k), ~PinSatisfies(pins, new, k)
    PROVE  /\ \E i \in DOMAIN reqs : reqs[i].name = k
           /\ \E e \in new[k].info : e.parent = c /\ pins[k].version \notin e.spec
  <1>1. PICK e \in new[k].info : pins[k].version \notin e.spec
    BY DEF PinSatisfies
  <1>2. e \notin crit[k].info
    BY <1>1 DEF PinSatisfies
  <1>3. k \in DOMAIN new
    BY DEF Adding
  <1>4. e.parent = c /\ \E i \in DOMAIN reqs : reqs[i].name = k
    BY <1>2, <1>3, AddingSources
  <1> QED
    BY <1>1, <1>4

\* Pinning a candidate records its dependencies.  Other pins that count lose theirs only
\* if they come to count again without having been pinned, for which the project needs a
\* library with dependencies below two others.
LEMMA PinGrounded ==
    ASSUME IInv, Grounded(Top), NEW n \in Names, NEW v \in Versions, Pin(n, v)
    PROVE  \E w : stack' = Append(Append(Below(stack), w), w) /\ Grounded(w)
  <1> DEFINE c == [name |-> n, version |-> v]
             reqs == Dependencies(c)
             crit == Adding(Top.crit, reqs, c)
             pins == [m \in DOMAIN Top.pins \cup {n} |->
                        IF m = n THEN [version |-> v, round |-> round] ELSE Top.pins[m]]
             others == (DOMAIN Top.crit \ Unsatisfied(Top.pins, Top.crit))
                            \cap Unsatisfied(pins, crit)
             w == [pins |-> pins, crit |-> Forget(crit, others)]
  <1>1. /\ n \in DOMAIN Top.crit /\ ~PinSatisfies(Top.pins, Top.crit, n)
        /\ v \in Top.crit[n].cands
        /\ stack' = Append(Append(Below(stack), w), w)
    BY DEF Pin, Chosen, Unsatisfied
  <1>2. project \in Projects /\ WellMade(Top) /\ AreCriteria(Top.crit)
    BY TopWell DEF IInv, TypeOK
  <1>3. v \in DOMAIN project.deps[n]
    BY <1>1, <1>2, MatchesExist DEF WellMade, Fitting
  <1>4. IsList(reqs) /\ c \in Candidates /\ c # None /\ c.name = n
    BY <1>2, <1>3, DependenciesType, NoneIsNone DEF Candidates
  <1>5. n \notin others
    BY <1>1 DEF Unsatisfied
  <1>6. Declaring(crit) /\ AreCriteria(crit)
    <2>1. todo \in Nat /\ round \in Nat
      BY DEF IInv, TypeOK
    <2> QED
      BY <1>2, <1>3, <1>4, <2>1, AddingDeclares, AddingWell DEF Grounded, WellMade
  <1>7. /\ DOMAIN w.pins = DOMAIN Top.pins \cup {n} /\ w.pins = pins
        /\ pins[n].version = v
        /\ \A m \in DOMAIN Top.pins \ {n} : pins[m] = Top.pins[m]
    OBVIOUS
  <1>8. DOMAIN w.crit = DOMAIN crit /\ DOMAIN crit = DOMAIN Top.crit \cup Required(reqs)
    BY AddingKeeps DEF Forget
  <1>10. \A m \in others :
            /\ m \in DOMAIN Top.crit /\ m # n
            /\ PinSatisfies(Top.pins, Top.crit, m) /\ ~PinSatisfies(pins, crit, m)
    BY <1>5 DEF Unsatisfied
  <1>11. w.crit = Forget(crit, others)
    OBVIOUS
  <1> HIDE DEF c, reqs, crit, pins, others, w
  <1>9. \A m \in DOMAIN crit : w.crit[m].info =
            {e \in crit[m].info : e.parent = None \/ e.parent.name \notin others}
    BY <1>6, <1>11, ForgetInfo
  <1>12. Declaring(w.crit)
    BY <1>6, <1>8, <1>9 DEF Declaring
  <1>13. DOMAIN w.pins \subseteq DOMAIN w.crit
    BY <1>1, <1>7, <1>8 DEF Grounded
  <1>14. \A m, d, r : d # None /\ d.name = m /\ m \notin others /\ RecordedOf(crit, d, r)
            => RecordedOf(w.crit, d, r)
    BY <1>8, <1>9 DEF RecordedOf
  <1>15. \A m \in others : /\ \E i \in DOMAIN reqs : reqs[i].name = m
                            /\ ~PinSatisfies(w.pins, w.crit, m)
    <2> SUFFICES ASSUME NEW m \in others
                 PROVE  /\ \E i \in DOMAIN reqs : reqs[i].name = m
                        /\ ~PinSatisfies(w.pins, w.crit, m)
      OBVIOUS
    <2>1. m \in DOMAIN Top.pins
      BY <1>10 DEF PinSatisfies
    <2>2. PinSatisfies(pins, Top.crit, m)
      BY <1>7, <1>10, <2>1 DEF PinSatisfies
    <2>3. crit = Adding(Top.crit, reqs, c)
      BY DEF crit
    <2>4. m \in DOMAIN Top.crit /\ ~PinSatisfies(pins, crit, m)
      BY <1>10
    <2>5. PICK e \in crit[m].info : e.parent = c /\ pins[m].version \notin e.spec
      BY <1>6, <2>2, <2>3, <2>4, InvalidatedBy
    <2>6. \E i \in DOMAIN reqs : reqs[i].name = m
      BY <1>6, <2>2, <2>3, <2>4, InvalidatedBy
    <2>7. e \in w.crit[m].info
      BY <1>4, <1>5, <1>8, <1>9, <2>4, <2>5
    <2> QED
      BY <1>7, <2>5, <2>6, <2>7 DEF PinSatisfies

  <1>16. ASSUME Flat PROVE Committed(w)
    <2> SUFFICES ASSUME NEW m \in DOMAIN w.crit, PinSatisfies(w.pins, w.crit, m)
                 PROVE  LET d == [name |-> m, version |-> w.pins[m].version]
                        IN \A i \in DOMAIN Dependencies(d) :
                                RecordedOf(w.crit, d, Dependencies(d)[i])
      BY DEF Committed
    <2> DEFINE d == [name |-> m, version |-> w.pins[m].version]
    <2>0. m \in DOMAIN w.pins /\ m \notin others /\ d # None /\ d.name = m
      <3>1. m \in Names
        BY <1>6, <1>8 DEF AreCriteria
      <3>2. m \in DOMAIN w.pins
        BY DEF PinSatisfies
      <3>3. w.pins[m].version \in Versions
        BY <1>2, <1>7, <3>2 DEF WellMade, IsState, Pins
      <3>4. d \in Candidates
        BY <3>1, <3>3 DEF Candidates
      <3> QED
        BY <1>15, <3>2, <3>4, NoneIsNone
    <2>1. CASE m = n
      <3>1. d = c
        BY <1>7, <2>1 DEF c
      <3>2. \A i \in DOMAIN reqs : RecordedOf(crit, c, reqs[i])
        BY <1>4, AddingRecords DEF crit
      <3> QED
        BY <1>4, <1>5, <1>14, <3>1, <3>2 DEF reqs
    <2>2. CASE m # n /\ PinSatisfies(Top.pins, Top.crit, m)
      <3>1. m \in DOMAIN Top.crit /\ d = [name |-> m, version |-> Top.pins[m].version]
        BY <1>7, <2>0, <2>2 DEF Grounded
      <3>2. \A i \in DOMAIN Dependencies(d) : RecordedOf(Top.crit, d, Dependencies(d)[i])
        BY <1>16, <2>2, <3>1 DEF Grounded, Committed
      <3>3. \A r : RecordedOf(Top.crit, d, r) => RecordedOf(crit, d, r)
        BY <1>4, <1>8, AddingKeeps DEF RecordedOf, crit
      <3> QED
        BY <1>14, <2>0, <3>2, <3>3
    <2>3. CASE m # n /\ ~PinSatisfies(Top.pins, Top.crit, m)
      <3>1. m \in DOMAIN Top.pins /\ m \in DOMAIN Top.crit /\ pins[m] = Top.pins[m]
        BY <1>7, <2>0, <2>3 DEF Grounded
      <3>2. PICK e \in Top.crit[m].info : Top.pins[m].version \notin e.spec
        BY <2>3, <3>1 DEF PinSatisfies
      <3>3. e \in crit[m].info /\ m \in DOMAIN crit
        BY <1>4, <1>8, <3>1, <3>2, AddingKeeps DEF crit
      <3>4. e \notin w.crit[m].info
        BY <1>7, <3>1, <3>2 DEF PinSatisfies
      <3>5. e.parent # None /\ e.parent.name \in others
        BY <1>9, <3>3, <3>4
      <3> DEFINE k == e.parent.name
      <3>6. Requires(k, m)
        BY <3>1, <3>2, <3>5 DEF Grounded, Declaring, ComesFrom
      <3>7. Requires(n, k)
        <4>1. PICK i \in DOMAIN reqs : reqs[i].name = k
          BY <1>15, <3>5
        <4> QED
          BY <1>2, <1>3, <4>1, DependsRequires DEF reqs, c
      <3>8. k # n /\ k # m /\ k \in Names /\ m \in Names
        BY <1>2, <1>10, <2>3, <3>1, <3>5 DEF AreCriteria
      <3>9. \A l \in Names : ~Requires(m, l)
        BY <1>16, <2>3, <3>6, <3>7, <3>8 DEF Flat
      <3>10. d.version \in DOMAIN project.deps[m]
        BY <1>2, <1>7, <3>1, <3>8, ForcedExist DEF WellMade, PinsExist, Available
      <3>11. ASSUME NEW i \in DOMAIN Dependencies(d) PROVE FALSE
        <4>1. IsList(Dependencies(d))
          BY <1>2, <3>8, <3>10, DependenciesType
        <4>2. Dependencies(d)[i].name \in Names
          BY <4>1, ListNames
        <4>3. Requires(m, Dependencies(d)[i].name)
          BY <1>2, <3>8, <3>10, DependsRequires
        <4> QED
          BY <3>9, <4>2, <4>3
      <3> QED
        BY <3>11
    <2> QED
      BY <2>1, <2>2, <2>3
  <1> QED
    BY <1>1, <1>12, <1>13, <1>16 DEF Grounded

\* What only changes candidates and what is known to fail.
LEMMA SameInfo ==
    ASSUME NEW s, Grounded(s), NEW w, w.pins = s.pins, DOMAIN w.crit = DOMAIN s.crit,
           \A n \in DOMAIN s.crit : w.crit[n].info = s.crit[n].info
    PROVE  Grounded(w)
  <1>1. \A n \in DOMAIN s.crit : PinSatisfies(w.pins, w.crit, n) <=> PinSatisfies(s.pins, s.crit, n)
    BY DEF PinSatisfies
  <1>2. \A c, r : RecordedOf(s.crit, c, r) => RecordedOf(w.crit, c, r)
    BY DEF RecordedOf
  <1>3. Declaring(w.crit)
    BY DEF Grounded, Declaring
  <1>4. Flat => Committed(w)
    BY <1>1, <1>2 DEF Grounded, Committed
  <1> QED
    BY <1>3, <1>4 DEF Grounded

LEMMA PatchedGrounded ==
    ASSUME NEW s, IsState(s), Grounded(s), NEW broken, NEW n
    PROVE  Grounded(Patched(s, broken, n))
  <1> DEFINE learnt(m) == (IF m \in DOMAIN broken.crit THEN broken.crit[m].bad ELSE {})
                          \cup (IF m = n THEN {broken.pins[n].version} ELSE {})
             new == [m \in DOMAIN s.crit |->
                        IF learnt(m) = {} THEN s.crit[m]
                        ELSE [s.crit[m] EXCEPT
                                !.bad = s.crit[m].bad \cup learnt(m),
                                !.cands = Matches(m, s.crit[m].info, s.crit[m].bad \cup learnt(m))]]
             w == Patched(s, broken, n)
  <1>1. w = [s EXCEPT !.crit = new]
    BY DEF Patched
  <1>2. s = [pins |-> s.pins, crit |-> s.crit]
    BY DEF IsState
  <1>3. \A m \in DOMAIN s.crit : s.crit[m] \in Criteria
    BY DEF IsState
  <1>4. DOMAIN new = DOMAIN s.crit /\ \A m \in DOMAIN s.crit : new[m].info = s.crit[m].info
    <2> HIDE DEF learnt
    <2> SUFFICES ASSUME NEW m \in DOMAIN s.crit PROVE new[m].info = s.crit[m].info
      OBVIOUS
    <2> QED
      BY <1>3 DEF Criteria
  <1> HIDE DEF w, new
  <1>5. w.pins = s.pins /\ w.crit = new
    BY <1>1, <1>2
  <1> QED
    BY <1>4, <1>5, SameInfo DEF w

\* A state stays grounded while the project is the same.
LEMMA GroundedStable ==
    ASSUME project' = project, NEW s, Grounded(s)
    PROVE  Grounded(s)'
  <1>1. /\ \A c : Dependencies(c)' = Dependencies(c)
        /\ \A m, n : Requires(m, n)' <=> Requires(m, n)
        /\ \A i : Contributed(i)' = Contributed(i)
    BY DEF Dependencies, Declared, RefsOf, Requires, Contributed, Gathered
  <1>2. Flat' <=> Flat
    BY <1>1 DEF Flat
  <1>3. \A n, e : ComesFrom(n, e)' <=> ComesFrom(n, e)
    BY <1>1 DEF ComesFrom
  <1>4. Committed(s)' <=> Committed(s)
    BY <1>1 DEF Committed, PinSatisfies, RecordedOf
  <1> QED
    BY <1>2, <1>3, <1>4 DEF Grounded, Declaring

\* A step that puts known states and one that is grounded on the stacks.
LEMMA SourcedStep ==
    ASSUME Sourced, project' = project, NEW w, Grounded(w),
           stack' \in Seq(AllStates \cup {w}), saved' \in Seq(AllStates \cup {w})
    PROVE  Sourced'
  <1>1. AllStates' \subseteq AllStates \cup {w}
    BY OwnElements DEF AllStates
  <1>2. \A s \in AllStates' : Grounded(s)'
    BY <1>1, GroundedStable DEF Sourced
  <1> QED
    BY <1>2 DEF Sourced

\* The requirements of one more ref.
LEMMA RootGrounded ==
    ASSUME IInv, Grounded(Top), NEW j \in DOMAIN project.refs
    PROVE  Grounded([Top EXCEPT !.crit = Adding(Top.crit, Gathered(project.refs[j]), None)])
  <1> DEFINE crit == Adding(Top.crit, Gathered(project.refs[j]), None)
             w == [Top EXCEPT !.crit = crit]
  <1>1. Top = [pins |-> Top.pins, crit |-> Top.crit] /\ project \in Projects
    BY TopWell DEF IInv, TypeOK
  <1>2. w.pins = Top.pins /\ w.crit = crit
    BY <1>1
  <1>3. Declaring(crit)
    BY <1>1, AddingContributes DEF Grounded
  <1>4. /\ DOMAIN Top.crit \subseteq DOMAIN crit
        /\ \A n \in DOMAIN Top.crit : Top.crit[n].info \subseteq crit[n].info
    BY DEF Adding, Informed
  <1> HIDE DEF crit, w
  <1>5. ASSUME Flat PROVE Committed(w)
    <2> SUFFICES ASSUME NEW n \in DOMAIN crit, PinSatisfies(Top.pins, crit, n),
                        NEW c, c = [name |-> n, version |-> Top.pins[n].version],
                        NEW i \in DOMAIN Dependencies(c)
                 PROVE  RecordedOf(crit, c, Dependencies(c)[i])
      BY <1>2 DEF Committed, PinSatisfies, RecordedOf
    <2>1. n \in DOMAIN Top.crit /\ PinSatisfies(Top.pins, Top.crit, n)
      BY <1>4 DEF PinSatisfies, Grounded
    <2>2. RecordedOf(Top.crit, c, Dependencies(c)[i])
      BY <1>5, <2>1 DEF Grounded, Committed
    <2> QED
      BY <1>4, <2>2 DEF RecordedOf
  <1> QED
    BY <1>2, <1>3, <1>4, <1>5 DEF Grounded, w, crit

LEMMA SourcedNext == IInv /\ Sourced /\ [Next]_vars => Sourced'
  <1> SUFFICES ASSUME IInv, Sourced, [Next]_vars
               PROVE  Sourced'
    OBVIOUS
  <1>1. /\ project \in Projects /\ Len(stack) \in Nat \ {0}
        /\ stack \in Seq(AllStates) /\ saved \in Seq(AllStates)
        /\ Top \in AllStates /\ Grounded(Top) /\ Len(Below(stack)) = Len(stack) - 1
        /\ Below(stack) \in Seq(AllStates)
    BY TopWell, BelowStack DEF IInv, TypeOK, Sourced
  <1>2. ASSUME project' = project, stack' \in Seq(AllStates), saved' \in Seq(AllStates)
        PROVE  Sourced'
    <2>1. stack' \in Seq(AllStates \cup {Top}) /\ saved' \in Seq(AllStates \cup {Top})
      BY <1>2
    <2> QED
      BY <1>1, <1>2, <2>1, SourcedStep
  <1>3. CASE AddRequirements
    <2> DEFINE new == [Top EXCEPT !.crit = Adding(Top.crit, Gathered(project.refs[todo]), None)]
    <2>1. todo \in DOMAIN project.refs
      BY <1>1, <1>3, ProjectsType DEF AddRequirements, IInv, TypeOK
    <2>2. PICK w : w = new /\ Grounded(w)
      BY <2>1, <1>1, RootGrounded
    <2>3. project' = project /\ saved' = saved /\ (stack' = stack \/ stack' = <<w>>)
      BY <1>3, <2>2 DEF AddRequirements
    <2>4. /\ stack \in Seq(AllStates \cup {w}) /\ <<w>> \in Seq(AllStates \cup {w})
          /\ saved \in Seq(AllStates \cup {w})
      BY <1>1
    <2> QED
      BY <2>2, <2>3, <2>4, SourcedStep
  <1>4. CASE RequirementsAdded
    BY <1>1, <1>2, <1>4 DEF RequirementsAdded
  <1>5. CASE StopOptimism
    BY <1>1, <1>2, <1>5 DEF StopOptimism, Rollback
  <1>6. CASE Finish \/ TooDeep \/ UNCHANGED vars
    BY <1>1, <1>2, <1>6 DEF Finish, TooDeep, InRound, vars
  <1>7. ASSUME NEW n \in Names, NEW v \in Versions, Pin(n, v) PROVE Sourced'
    <2>1. PICK w : stack' = Append(Append(Below(stack), w), w) /\ Grounded(w)
      BY <1>1, <1>7, PinGrounded
    <2>2. project' = project /\ saved' = saved
      BY <1>7 DEF Pin, InRound
    <2>3. Below(stack) \in Seq(AllStates \cup {w}) /\ saved \in Seq(AllStates \cup {w})
      BY <1>1
    <2>4. stack' \in Seq(AllStates \cup {w}) /\ saved' \in Seq(AllStates \cup {w})
      BY <2>1, <2>2, <2>3
    <2> QED
      BY <2>1, <2>2, <2>4, SourcedStep
  <1>8. ASSUME NEW n \in Names, DeadEnd(n) PROVE Sourced'
    BY <1>1, <1>2, <1>8 DEF DeadEnd, InRound
  <1>9. CASE DiscardTop
    <2>1. /\ project' = project /\ stack' \in {stack, Below(stack), saved}
          /\ saved' \in {saved, << >>}
      BY <1>9 DEF DiscardTop, GiveUp, Rollback
    <2>2. << >> \in Seq(AllStates)
      OBVIOUS
    <2>3. stack' \in Seq(AllStates) /\ saved' \in Seq(AllStates)
      BY <1>1, <2>1, <2>2
    <2> QED
      BY <1>2, <2>1, <2>3
  <1>10. ASSUME NEW n \in Names, JumpOver(n) \/ JumpOut(n) PROVE Sourced'
    <2>1. /\ project' = project /\ stack' \in {stack, Below(stack), saved}
          /\ saved' \in {saved, Below(stack), << >>}
      BY <1>10 DEF JumpOver, JumpOut, SaveState
    <2>2. << >> \in Seq(AllStates)
      OBVIOUS
    <2>3. stack' \in Seq(AllStates) /\ saved' \in Seq(AllStates)
      BY <1>1, <2>1, <2>2
    <2> QED
      BY <1>2, <2>1, <2>3
  <1>11. ASSUME NEW n \in Names, Backtrack(n) PROVE Sourced'
    <2> DEFINE below == Below(stack)
    <2>1. PICK w : w = Patched(below[Len(below)], Top, n)
      OBVIOUS
    <2>2. /\ project' = project /\ saved' \in {saved, below} /\ stack' = Append(below, w)
          /\ phase = "jump"
      BY <1>11, <2>1 DEF Backtrack, SaveState
    <2>3. below[Len(below)] \in AllStates
      <3>1. Len(stack) > 1
        BY <2>2 DEF IInv, PhaseInv
      <3> HIDE DEF below
      <3> QED
        BY <1>1, <3>1 DEF below
    <2> HIDE DEF below
    <2>4. Grounded(w)
      BY <2>1, <2>3, PatchedGrounded DEF Sourced, IInv, TypeOK
    <2>5. below \in Seq(AllStates \cup {w}) /\ saved \in Seq(AllStates \cup {w})
      BY <1>1 DEF below
    <2>6. stack' \in Seq(AllStates \cup {w}) /\ saved' \in Seq(AllStates \cup {w})
      BY <2>2, <2>5
    <2> QED
      BY <2>2, <2>4, <2>6, SourcedStep
  <1> QED
    BY <1>3, <1>4, <1>5, <1>6, <1>7, <1>8, <1>9, <1>10, <1>11 DEF Next

LEMMA SourcedInit == Init => Sourced
  <1> SUFFICES ASSUME Init PROVE Sourced
    OBVIOUS
  <1>1. AllStates = {EmptyState}
    BY DEF Init, AllStates
  <1>2. DOMAIN EmptyState.crit = {} /\ DOMAIN EmptyState.pins = {}
    BY DEF EmptyState
  <1> QED
    BY <1>1, <1>2 DEF Sourced, Grounded, Declaring, Committed

THEOREM SourcedAlways == Spec => []Sourced
  BY SourcedInit, SourcedNext, Invariant, PTL DEF Spec

-----------------------------------------------------------------------------
(* Results and refusals *)

\* What a connected library requires is connected.
LEMMA ConnectedClosed ==
    ASSUME NEW s, NEW n \in DOMAIN s.crit, NEW e \in s.crit[n].info,
           Live(s, e), e.parent.name \in Connected(s)
    PROVE  n \in Connected(s)
  BY DEF Connected

\* When nothing is left to pin, and all pins count, the result is a solution.
LEMMA ResultSolves ==
    ASSUME IInv, Sourced, Flat, phase = "resolved"
    PROVE  Solution(Selection)
  <1>1. /\ project \in Projects /\ WellMade(Top) /\ Committed(Top)
        /\ \A n \in DOMAIN Top.crit : PinSatisfies(Top.pins, Top.crit, n)
    BY TopWell DEF IInv, PhaseInv, TypeOK, Unsatisfied, Sourced, Grounded
  <1>2. /\ DOMAIN Selection = Connected(Top)
        /\ \A n \in Connected(Top) : Selection[n] = Top.pins[n].version
        /\ Connected(Top) \subseteq DOMAIN Top.crit
    BY DEF Selection, Connected
  <1>3. ASSUME NEW n \in DOMAIN Selection
        PROVE  Meets(Selection, Dependencies([name |-> n, version |-> Selection[n]]))
    <2> DEFINE c == [name |-> n, version |-> Top.pins[n].version]
    <2>1. n \in DOMAIN Top.crit /\ n \in Connected(Top) /\ n \in DOMAIN Top.pins
      BY <1>1, <1>2 DEF PinSatisfies
    <2>2. c \in Candidates
      BY <1>1, <2>1 DEF WellMade, IsState, Pins, Candidates
    <2>3. c # None /\ c.name = n /\ c.version = Top.pins[n].version
      BY <2>2, NoneIsNone
    <2>4. \A i \in DOMAIN Dependencies(c) : RecordedOf(Top.crit, c, Dependencies(c)[i])
      BY <1>1, <2>1 DEF Committed
    <2> HIDE DEF c
    <2>5. ASSUME NEW i \in DOMAIN Dependencies(c)
          PROVE  /\ Dependencies(c)[i].name \in DOMAIN Selection
                 /\ Selection[Dependencies(c)[i].name] \in Dependencies(c)[i].spec
      <3> DEFINE r == Dependencies(c)[i]
      <3>1. r.name \in DOMAIN Top.crit
        BY <2>4 DEF RecordedOf
      <3>2. PICK e \in Top.crit[r.name].info : e.parent = c /\ e.spec = r.spec
        BY <2>4 DEF RecordedOf
      <3>3. Live(Top, e)
        BY <2>1, <2>3, <3>2 DEF Live
      <3>4. r.name \in Connected(Top)
        BY <2>1, <2>3, <3>1, <3>2, <3>3, ConnectedClosed
      <3>5. Top.pins[r.name].version \in e.spec
        BY <1>1, <3>1, <3>2 DEF PinSatisfies
      <3> QED
        BY <1>2, <3>2, <3>4, <3>5
    <2>6. [name |-> n, version |-> Selection[n]] = c
      BY <1>2 DEF c
    <2> QED
      BY <2>5, <2>6 DEF Meets
  <1> QED
    BY <1>3, ResultHonours DEF ProjectHonoured, Solution

\* Of however many libraries and versions: when no library that has dependencies is needed
\* by one that another one needs, the requirements that are lost with a pin are never
\* missed, and what the resolver returns is a solution.
THEOREM Accepts == Spec => [](Flat => AcceptsSolutions)
  <1>1. IInv /\ Sourced => (Flat => AcceptsSolutions)
    BY ResultSolves DEF AcceptsSolutions
  <1> QED
    BY <1>1, Invariant, SourcedAlways, PTL

\* Libraries whose routes lead to each other require each other.
LEMMA CircleFound ==
    ASSUME IInv, Sourced, SearchRunsInCircles(Top)
    PROVE  HasCircle
  <1>1. Declaring(Top.crit) /\ DOMAIN Top.crit \subseteq Names
    BY TopWell DEF Sourced, Grounded, AreCriteria
  <1>2. PICK D \in SUBSET DOMAIN Top.crit \ {{}} :
            \A n \in D : \E e \in Top.crit[n].info : Live(Top, e) /\ e.parent.name \in D
    BY DEF SearchRunsInCircles
  <1>3. ASSUME NEW n \in D PROVE \E m \in D : Requires(m, n)
    <2>1. PICK e \in Top.crit[n].info : Live(Top, e) /\ e.parent.name \in D
      BY <1>2
    <2>2. Requires(e.parent.name, n)
      BY <1>1, <1>2, <2>1 DEF Declaring, ComesFrom, Live
    <2> QED
      BY <2>1, <2>2
  <1> QED
    BY <1>1, <1>2, <1>3 DEF HasCircle

\* The search for routes to the root loses its way only if libraries require each other in
\* a circle: nothing else than max_rounds can keep the resolver from an answer.
THEOREM Answers == Spec => [](phase # "tooDeep" => AlwaysAnswers)
  <1> DEFINE Lost == phase = "recursionError" => HasCircle
  <1>1. Init => Lost
    BY DEF Init
  <1>2. ASSUME IInv, Sourced, Lost, [Next]_vars PROVE Lost'
    <2> SUFFICES ASSUME phase' = "recursionError" PROVE HasCircle'
      OBVIOUS
    <2>1. project' = project
      BY <1>2 DEF Next, vars, AddRequirements, RequirementsAdded, StopOptimism, Finish, InRound,
                  Pin, DeadEnd, TooDeep, DiscardTop, JumpOver, JumpOut, Backtrack
    <2>2. HasCircle' <=> HasCircle
      BY <2>1 DEF HasCircle, Requires
    <2>3. phase = "recursionError" \/ (Finish /\ SearchRunsInCircles(Top))
      BY <1>2 DEF Next, vars, AddRequirements, RequirementsAdded, StopOptimism, Finish, InRound,
                  Pin, DeadEnd, TooDeep, DiscardTop, GiveUp, Rollback, JumpOver, JumpOut, Backtrack
    <2> QED
      BY <1>2, <2>2, <2>3, CircleFound
  <1>3. Lost => (phase # "tooDeep" => AlwaysAnswers)
    BY DEF AlwaysAnswers
  <1> HIDE DEF Lost
  <1> QED
    BY <1>1, <1>2, <1>3, Invariant, SourcedAlways, PTL DEF Spec

-----------------------------------------------------------------------------
(* Refusals before anything is pinned *)

Refused == \A choice \in Choices : ~Solution(choice)

\* Only the project has asked for anything, and nothing is known to fail.
Untried(crit) ==
    \A n \in DOMAIN crit :
        /\ crit[n].info # {} /\ \A e \in crit[n].info : e.parent = None
        /\ crit[n].bad = {}
        /\ crit[n].cands = Matches(n, crit[n].info, {})

Opening ==
    round = 0 => /\ saved = << >> /\ Len(stack) < 3 /\ phase # "jump"
                 /\ Untried(Top.crit)
                 /\ phase \in {"discard", "impossible"} => Refused

\* A solution meets what the project has asked for.
LEMMA SolutionMeets ==
    ASSUME NEW choice, Solution(choice), NEW n, NEW e, ComesFrom(n, e), e.parent = None
    PROVE  /\ n \in DOMAIN choice
           /\ choice[n] \in e.spec
           /\ choice[n] \in Available(n)
  <1>1. PICK i \in DOMAIN project.refs : \E r \in Contributed(i) : r.name = n /\ r.spec = e.spec
    BY DEF ComesFrom
  <1>2. PICK j \in DOMAIN Gathered(project.refs[i]) :
            /\ Gathered(project.refs[i])[j].name = n
            /\ Gathered(project.refs[i])[j].spec = e.spec
    BY <1>1 DEF Contributed
  <1>3. Meets(choice, Gathered(project.refs[i]))
    BY DEF Solution
  <1>4. n \in DOMAIN choice /\ choice[n] \in e.spec
    BY <1>2, <1>3 DEF Meets
  <1> QED
    BY <1>4 DEF Solution

\* So it is among the candidates.
LEMMA SolutionMatches ==
    ASSUME NEW choice, Solution(choice), NEW crit, Declaring(crit), Untried(crit),
           NEW n \in DOMAIN crit
    PROVE  n \in DOMAIN choice /\ choice[n] \in crit[n].cands
  <1>1. \A e \in crit[n].info : /\ n \in DOMAIN choice
                                /\ choice[n] \in e.spec
                                /\ choice[n] \in Available(n)
    BY SolutionMeets DEF Declaring, Untried
  <1>2. crit[n].info # {} /\ crit[n].cands = Matches(n, crit[n].info, {})
    BY DEF Untried
  <1> QED
    BY <1>1, <1>2 DEF Matches

\* The project contradicts itself.
LEMMA RefusedByProject ==
    ASSUME IInv, Sourced, Untried(Top.crit), NEW j \in DOMAIN project.refs
    PROVE  LET reqs == Gathered(project.refs[j]) IN
           /\ Untried(Adding(Top.crit, reqs, None))
           /\ Conflicts(Top.crit, reqs, None) # {} => Refused
  <1> DEFINE reqs == Gathered(project.refs[j])
             new == Adding(Top.crit, reqs, None)
  <1>1. /\ project \in Projects /\ Declaring(Top.crit)
        /\ IsList(reqs)
    BY TopWell, GatheredType DEF IInv, TypeOK, Sourced, Grounded
  <1>2. Declaring(new)
    BY <1>1, AddingContributes
  <1>3. \A i \in DOMAIN reqs : reqs[i].name \in Required(reqs)
    BY DEF Required
  <1>4. DOMAIN new = DOMAIN Top.crit \cup Required(reqs)
    BY DEF Adding
  <1>5. \A n \in DOMAIN Top.crit \ Required(reqs) : new[n] = Top.crit[n]
    BY DEF Adding
  <1>6. \A n \in Required(reqs) :
            /\ new[n].cands = Matches(n, new[n].info, new[n].bad)
            /\ new[n].bad = IF n \in DOMAIN Top.crit THEN Top.crit[n].bad ELSE {}
            /\ new[n].info # {}
    BY <1>4 DEF Adding, Informed
  <1>7. ASSUME NEW n \in DOMAIN new, NEW e \in new[n].info PROVE e.parent = None
    BY <1>7, AddingSources DEF Untried, new
  <1> HIDE DEF new
  <1>8. Untried(new)
    BY <1>4, <1>5, <1>6, <1>7 DEF Untried
  <1>9. ASSUME NEW choice \in Choices, Solution(choice), NEW i \in DOMAIN reqs,
               new[reqs[i].name].cands = {}
        PROVE  FALSE
    BY <1>2, <1>3, <1>4, <1>8, <1>9, SolutionMatches
  <1> QED
    BY <1>8, <1>9 DEF Conflicts, Refused, new

\* No candidate of a library works beside what the project asks for.
LEMMA RefusedByLibrary ==
    ASSUME IInv, Sourced, Untried(Top.crit), NEW n \in Names, DeadEnd(n)
    PROVE  Refused
  <1> SUFFICES ASSUME NEW choice \in Choices, Solution(choice) PROVE FALSE
    BY DEF Refused
  <1> DEFINE c == [name |-> n, version |-> choice[n]]
             reqs == Dependencies(c)
             new == Adding(Top.crit, reqs, c)
  <1>1. /\ project \in Projects /\ Declaring(Top.crit) /\ n \in DOMAIN Top.crit
        /\ WellMade(Top)
    BY TopWell DEF IInv, TypeOK, Sourced, Grounded, DeadEnd, Chosen, Unsatisfied
  <1>2. n \in DOMAIN choice /\ choice[n] \in Top.crit[n].cands
    BY <1>1, SolutionMatches
  <1>3. choice[n] \in DOMAIN project.deps[n]
    BY <1>1, <1>2, MatchesExist DEF WellMade, Fitting
  <1>4. PICK i \in DOMAIN reqs : new[reqs[i].name].cands = {}
    BY <1>2 DEF DeadEnd, Workable, Conflicts
  <1> DEFINE m == reqs[i].name
  <1>5. IsList(reqs) /\ m \in Required(reqs)
    BY <1>1, <1>3, DependenciesType DEF Required
  <1>6. m \in DOMAIN choice /\ choice[m] \in reqs[i].spec /\ choice[m] \in Available(m)
    BY <1>2 DEF Solution, Meets
  <1>7. /\ new[m].cands = Matches(m, new[m].info, new[m].bad)
        /\ new[m].bad = IF m \in DOMAIN Top.crit THEN Top.crit[m].bad ELSE {}
        /\ m \in DOMAIN new
    BY <1>5 DEF Adding, Informed
  <1>8. new[m].bad = {}
    BY <1>7 DEF Untried
  <1>9. ASSUME NEW e \in new[m].info PROVE choice[m] \in e.spec
    <2>1. CASE m \in DOMAIN Top.crit /\ e \in Top.crit[m].info
      BY <1>1, <2>1, SolutionMeets DEF Declaring, Untried
    <2>2. CASE \E k \in DOMAIN reqs : reqs[k].name = m /\ reqs[k].spec = e.spec
      BY <1>5, <1>6, <2>2 DEF IsList
    <2> QED
      BY <1>7, <1>9, <2>1, <2>2, AddingSources DEF new
  <1>10. choice[m] \in new[m].cands
    BY <1>6, <1>7, <1>8, <1>9 DEF Matches
  <1> QED
    BY <1>4, <1>10

LEMMA OpeningInit == Init => Opening
  <1> SUFFICES ASSUME Init PROVE Opening
    OBVIOUS
  <1>1. Top = EmptyState /\ DOMAIN EmptyState.crit = {} /\ Len(stack) = 1
    BY DEF Init, Top, EmptyState
  <1> QED
    BY <1>1 DEF Init, Opening, Untried

LEMMA OpeningNext == IInv /\ Sourced /\ Opening /\ [Next]_vars => Opening'
  <1> SUFFICES ASSUME IInv, Sourced, Opening, [Next]_vars, round' = 0
               PROVE  Opening'
    BY DEF Opening
  <1>1. round \in Nat /\ stack \in Seq(AllStates) /\ Len(stack) \in Nat \ {0}
    BY TopWell DEF IInv, TypeOK
  <1>2. ASSUME project' = project
        PROVE  /\ \A n, info, bad : Matches(n, info, bad)' = Matches(n, info, bad)
               /\ Refused => Refused'
    <2>1. /\ \A c : Dependencies(c)' = Dependencies(c)
          /\ \A n, info, bad : Matches(n, info, bad)' = Matches(n, info, bad)
          /\ \A n : Available(n)' = Available(n)
          /\ \A ref : Gathered(ref)' = Gathered(ref)
      BY <1>2 DEF Dependencies, Declared, RefsOf, Matches, Available, Forced, Gathered
    <2> QED
      BY <1>2, <2>1 DEF Refused, Solution, Meets, Choices
  <1>3. ASSUME project' = project, stack' = stack, saved' = saved, round = 0,
               phase' # "jump", phase' \in {"discard", "impossible"} => Refused
        PROVE  Opening'
    <2>1. Top' = Top
      BY <1>3 DEF Top
    <2>2. Untried(Top.crit)'
      BY <1>2, <1>3, <2>1 DEF Opening, Untried
    <2> QED
      BY <1>2, <1>3, <2>2 DEF Opening
  <1>4. CASE AddRequirements
    <2>1. /\ round = 0 /\ project' = project /\ saved' = saved
          /\ phase = "requirements"
      BY <1>4 DEF AddRequirements
    <2>2. todo \in DOMAIN project.refs
      BY <1>4, ProjectsType DEF AddRequirements, IInv, TypeOK
    <2> DEFINE reqs == Gathered(project.refs[todo])
               new == Adding(Top.crit, reqs, None)
    <2>3. CASE Conflicts(Top.crit, reqs, None) # {}
      <3>1. stack' = stack /\ phase' = "impossible" /\ Refused
        BY <1>4, <2>1, <2>2, <2>3, RefusedByProject DEF AddRequirements, Opening
      <3> QED
        BY <1>3, <2>1, <3>1
    <2>4. CASE Conflicts(Top.crit, reqs, None) = {}
      <3>1. PICK w : w = [Top EXCEPT !.crit = new]
        OBVIOUS
      <3>2. stack' = <<w>> /\ phase' = phase
        BY <1>4, <2>4, <3>1 DEF AddRequirements
      <3>3. Top' = w /\ Len(stack') = 1
        BY <3>2 DEF Top
      <3>4. w.crit = new
        <4>1. Top = [pins |-> Top.pins, crit |-> Top.crit]
          BY TopWell
        <4> QED
          BY <3>1, <4>1
      <3>5. Untried(new)
        BY <2>1, <2>2, RefusedByProject DEF Opening
      <3> HIDE DEF new
      <3>6. Untried(Top.crit)'
        BY <1>2, <2>1, <3>3, <3>4, <3>5 DEF Untried
      <3> QED
        BY <2>1, <3>2, <3>3, <3>6 DEF Opening
    <2> QED
      BY <2>3, <2>4
  <1>5. CASE RequirementsAdded
    <2>1. /\ round = 0 /\ project' = project /\ saved' = saved /\ phase' = "round"
          /\ stack' = Append(stack, Top) /\ Len(stack) = 1
      BY <1>5 DEF RequirementsAdded, IInv, PhaseInv
    <2>2. Len(stack') = 2 /\ Top' = Top
      <3>1. PICK t \in AllStates : t = Top
        BY TopWell
      <3>2. stack' = Append(stack, t)
        BY <2>1, <3>1
      <3>3. /\ Len(Append(stack, t)) = Len(stack) + 1
            /\ Append(stack, t)[Len(stack) + 1] = t
        BY <1>1, AppendProperties
      <3> QED
        BY <2>1, <3>1, <3>2, <3>3 DEF Top
    <2>3. Untried(Top.crit)'
      BY <1>2, <2>1, <2>2 DEF Opening, Untried
    <2> QED
      BY <2>1, <2>2, <2>3 DEF Opening
  <1>6. CASE Finish \/ TooDeep
    <2>1. /\ round = 0 /\ project' = project /\ stack' = stack /\ saved' = saved
          /\ phase' \in {"recursionError", "resolved", "tooDeep"}
      BY <1>6 DEF Finish, TooDeep, InRound
    <2> QED
      BY <1>3, <2>1
  <1>7. CASE StopOptimism \/ \E n \in Names, v \in Versions : Pin(n, v)
    <2>1. round' = round + 1
      BY <1>7 DEF StopOptimism, Pin
    <2> QED
      BY <1>1, <2>1
  <1>8. ASSUME NEW n \in Names, DeadEnd(n) PROVE Opening'
    <2>1. /\ round = 0 /\ project' = project /\ stack' = stack /\ saved' = saved
          /\ phase' = "discard"
      BY <1>8 DEF DeadEnd, InRound
    <2> QED
      BY <1>3, <1>8, <2>1, RefusedByLibrary DEF Opening
  <1>9. CASE DiscardTop
    <2>1. round = 0 \/ round' = round + 1
      BY <1>9 DEF DiscardTop, GiveUp
    <2>2. round = 0 /\ saved = << >> /\ Len(stack) < 3 /\ phase = "discard"
      BY <1>1, <1>9, <2>1 DEF DiscardTop, Opening
    <2>3. /\ project' = project /\ stack' = stack /\ saved' = saved
          /\ phase' = "impossible"
      BY <1>9, <2>2 DEF DiscardTop, GiveUp
    <2> QED
      BY <1>3, <2>2, <2>3 DEF Opening
  <1>10. ASSUME NEW n \in Names, JumpOver(n) \/ JumpOut(n) \/ Backtrack(n) PROVE Opening'
    <2>1. phase = "jump" /\ (round' = round \/ round' = round + 1)
      BY <1>10 DEF JumpOver, JumpOut, Backtrack
    <2> QED
      BY <1>1, <2>1 DEF Opening
  <1>11. CASE UNCHANGED vars
    BY <1>3, <1>11 DEF vars, Opening
  <1> QED
    BY <1>4, <1>5, <1>6, <1>7, <1>8, <1>9, <1>10, <1>11 DEF Next

\* However large the project: when the resolver gives up before it has pinned anything,
\* because packages.json contradicts itself or every version of a library contradicts it,
\* there is no solution.
THEOREM RefusesAtOnce == Spec => [](round = 0 => RefusesTheImpossible)
  <1>1. Opening => (round = 0 => RefusesTheImpossible)
    BY DEF Opening, Refused, RefusesTheImpossible
  <1> QED
    BY <1>1, OpeningInit, OpeningNext, Invariant, SourcedAlways, PTL DEF Spec

=============================================================================
