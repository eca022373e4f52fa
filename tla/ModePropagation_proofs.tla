----------------------- MODULE ModePropagation_proofs -----------------------
(***************************************************************************)
(* Proofs about ModePropagation, for any set of packages, any dependency   *)
(* graph and any modes: the static closure of the output, and that the     *)
(* program implements ModeAssignment.                                      *)
(***************************************************************************)
EXTENDS ModePropagation, TLAPS

\* The packages of the abstract specification that have to be static.
Chain == Assignment!StaticChain

Static(p) == mode[p] = "static"

(***************************************************************************)
(* While the propagation runs, only packages without a mode have changed,  *)
(* and only to static; everything static is in the chain and visited; what *)
(* is visited needs no conversion any more; and a static package that left *)
(* the queue has no dependency that could still change.                    *)
(***************************************************************************)
UserKept == \A p \in Pkgs : mode[p] # user[p] => user[p] = "default" /\ mode[p] = "static"

PropagationInv ==
    /\ UserKept
    /\ \A p \in Pkgs : user[p] = "static" => Static(p)
    /\ \A p \in Pkgs : Static(p) => p \in Chain /\ p \in visited
    /\ \A p \in visited : mode[p] \in {"static", "dynamic"}
    /\ \A p \in queue : Static(p)
    /\ \A p \in Pkgs : Static(p) /\ p \notin queue =>
            trait[p].static /\ \A d \in dep[p] : mode[d] \in {"static", "dynamic"}

\* Once the queue is empty the static packages are the chain; the validation of the
\* header-only packages only turns default into source.
ChainInv ==
    /\ \A p \in Pkgs : Static(p) <=> p \in Chain
    /\ \A p \in Pkgs : mode[p] \notin {user[p], "static"} =>
            user[p] = "default" /\ mode[p] = "source" /\ trait[p].header
    /\ \A p \in Pkgs : user[p] = "default" /\ ~Static(p) /\ trait[p].header => mode[p] = "source"
    /\ \A p \in Pkgs : Static(p) => /\ trait[p].static
                                    /\ ~trait[p].header
                                    /\ \A d \in dep[p] : mode[d] \in {"static", "dynamic"}
    /\ \A p \in Pkgs : user[p] = "dynamic" => ~trait[p].header /\ mode[p] = "dynamic"

\* The phases that follow each validation.
AfterDependencies == {"staticDependencies", "output"}
AfterDynamic      == {"dependencies"} \cup AfterDependencies
AfterHeaderOnly   == {"dynamicDefinition"} \cup AfterDynamic

IInv ==
    /\ TypeOK
    /\ phase \in {"propagate", "headerOnly"} => PropagationInv
    /\ phase = "headerOnly" => queue = {}
    /\ phase \in AfterHeaderOnly => ChainInv
    /\ phase \in AfterDynamic =>
            \A p \in Pkgs : mode[p] = "dynamic" => trait[p].dynDef
    /\ phase \in AfterDependencies => \A p \in Pkgs : ~trait[p].missing
    /\ phase = "exited" => ~Assignment!Acceptable
    /\ why # "staticOnSource"

\* The packages the user wants static are in the chain, and a dependency without a mode
\* of a package in the chain is.
LEMMA ChainClosed ==
  ASSUME TypeOK
  PROVE  /\ Chain \subseteq Pkgs
         /\ \A p \in Pkgs : user[p] = "static" => p \in Chain
         /\ \A p \in Chain : \A d \in dep[p] : user[d] = "default" => d \in Chain
BY DEF Chain, Assignment!StaticChain, Assignment!ClosedUnderStatic, TypeOK

\* The chain is the smallest closed set.
LEMMA ChainSmallest ==
  ASSUME TypeOK, NEW S \in SUBSET Pkgs, Assignment!ClosedUnderStatic(S)
  PROVE  Chain \subseteq S
BY DEF Chain, Assignment!StaticChain

LEMMA TypeStep == TypeOK /\ [Next]_vars => TypeOK'
<1> SUFFICES ASSUME TypeOK, [Next]_vars PROVE TypeOK'
  OBVIOUS
<1> USE DEF TypeOK, Exit, Project, Phases, Errors
<1>1. ASSUME NEW p \in Pkgs, VisitUnsupported(p) PROVE TypeOK'
  BY <1>1 DEF VisitUnsupported
<1>2. ASSUME NEW p \in Pkgs, VisitSource(p) PROVE TypeOK'
  BY <1>2 DEF VisitSource
<1>3. ASSUME NEW p \in Pkgs, Visit(p) PROVE TypeOK'
  BY <1>3 DEF Visit, Convertible, Fresh, Modes
<1>4. CASE Propagated
  BY <1>4 DEF Propagated
<1>5. CASE ValidateHeaderOnlyModes
  BY <1>5 DEF ValidateHeaderOnlyModes, Modes
<1>6. CASE ValidateDynamicDefinitions
  BY <1>6 DEF ValidateDynamicDefinitions, Validation
<1>7. CASE ValidateDependencies
  BY <1>7 DEF ValidateDependencies, Validation
<1>8. CASE ValidateStaticDependencies
  BY <1>8 DEF ValidateStaticDependencies, Validation
<1>9. CASE UNCHANGED vars
  BY <1>9 DEF vars
<1>10. QED
  BY <1>1, <1>2, <1>3, <1>4, <1>5, <1>6, <1>7, <1>8, <1>9 DEF Next

LEMMA InitInv == Init => IInv
<1> SUFFICES ASSUME Init PROVE IInv
  OBVIOUS
<1>1. TypeOK
  BY DEF Init, TypeOK, Phases
<1>2. PropagationInv
  BY <1>1, ChainClosed DEF Init, PropagationInv, UserKept, Static, TypeOK
<1>3. QED
  BY <1>1, <1>2 DEF Init, IInv, AfterHeaderOnly, AfterDynamic, AfterDependencies

(* The steps of the propagation. *)

\* What an error of the propagation shows: a package of the chain cannot be static, or
\* depends on a package the user wants as source.
LEMMA RejectChain ==
  ASSUME TypeOK, PropagationInv, NEW p \in queue,
         \/ ~trait[p].static
         \/ \E d \in Convertible(p) : ~trait[d].static
         \/ \E d \in Fresh(p) : mode[d] = "source"
  PROVE  ~Assignment!Acceptable
<1>1. p \in Chain
  BY DEF PropagationInv, TypeOK
<1>2. CASE ~trait[p].static
  BY <1>1, <1>2 DEF Assignment!Acceptable, Chain
<1>3. CASE \E d \in Convertible(p) : ~trait[d].static
  <2>1. PICK d \in Convertible(p) : ~trait[d].static
    BY <1>3
  <2>2. d \in dep[p] /\ user[d] = "default"
    BY <2>1, <1>1, ChainClosed
    DEF Convertible, Fresh, PropagationInv, UserKept, TypeOK
  <2>3. d \in Chain
    BY <1>1, <2>2, ChainClosed
  <2>4. QED
    BY <2>1, <2>3 DEF Assignment!Acceptable, Chain
<1>4. CASE \E d \in Fresh(p) : mode[d] = "source"
  <2>1. PICK d \in Fresh(p) : mode[d] = "source"
    BY <1>4
  <2>2. d \in dep[p] /\ user[d] = "source"
    BY <2>1, <1>1, ChainClosed DEF Fresh, PropagationInv, UserKept, TypeOK
  <2>3. QED
    BY <1>1, <2>2 DEF Assignment!Acceptable, Chain
<1>5. QED
  BY <1>2, <1>3, <1>4

\* The project does not change, hence neither does the chain nor the verdict.
LEMMA ProjectFixed ==
  ASSUME UNCHANGED Project
  PROVE  Chain' = Chain /\ Assignment!Acceptable' = Assignment!Acceptable
BY DEF Project, Chain, Assignment!StaticChain, Assignment!ClosedUnderStatic,
       Assignment!Acceptable

LEMMA VisitInv ==
  ASSUME TypeOK, PropagationInv, NEW p \in Pkgs, Visit(p)
  PROVE  PropagationInv'
<1> DEFINE C == Convertible(p)
<1>1. /\ p \in queue /\ trait[p].static
      /\ mode' = [d \in Pkgs |-> IF d \in C THEN "static" ELSE mode[d]]
      /\ queue' = (queue \ {p}) \cup C
      /\ visited' = visited \cup Fresh(p)
      /\ UNCHANGED Project
      /\ \A d \in Fresh(p) : mode[d] # "source"
  BY DEF Visit
<1>2. /\ Fresh(p) \subseteq Pkgs /\ Fresh(p) \subseteq dep[p] /\ Fresh(p) \cap visited = {}
      /\ \A d \in dep[p] : d \in Fresh(p) \/ d \in visited
      /\ C = {d \in Fresh(p) : mode[d] = "default"}
  BY DEF Fresh, Convertible, TypeOK
<1>3. \A d \in C : user[d] = "default" /\ d \in Chain
  <2>1. \A d \in C : user[d] = "default"
    BY <1>2 DEF PropagationInv, UserKept
  <2>2. p \in Chain
    BY <1>1 DEF PropagationInv, TypeOK
  <2>3. QED
    BY <1>2, <2>1, <2>2, ChainClosed
<1>4. \A d \in Pkgs : mode'[d] = IF d \in C THEN "static" ELSE mode[d]
  BY <1>1
<1>5. \A d \in Fresh(p) : d \in C \/ mode[d] = "dynamic"
  \* A fresh dependency is not static, because every static package has been visited.
  BY <1>1, <1>2 DEF PropagationInv, TypeOK, Modes, Static
<1>6. Chain' = Chain
  BY <1>1, ProjectFixed
<1>7. user' = user /\ trait' = trait /\ dep' = dep
  BY <1>1 DEF Project
<1>8. UserKept'
  BY <1>3, <1>4, <1>7 DEF PropagationInv, UserKept
<1>9. \A q \in Pkgs : user'[q] = "static" => Static(q)'
  BY <1>4, <1>7 DEF PropagationInv, Static
<1>10. \A q \in Pkgs : Static(q)' => q \in Chain' /\ q \in visited'
  BY <1>1, <1>2, <1>3, <1>4, <1>6 DEF PropagationInv, Static
<1>11. \A q \in visited' : mode'[q] \in {"static", "dynamic"}
  BY <1>1, <1>2, <1>4, <1>5, TypeOK DEF PropagationInv, TypeOK
<1>12. \A q \in queue' : Static(q)'
  BY <1>1, <1>2, <1>4 DEF PropagationInv, Static, TypeOK
<1>13. ASSUME NEW q \in Pkgs, Static(q)', q \notin queue'
       PROVE  trait'[q].static /\ \A d \in dep'[q] : mode'[d] \in {"static", "dynamic"}
  <2>1. CASE q = p
    <3>1. ASSUME NEW d \in dep[p] PROVE mode'[d] \in {"static", "dynamic"}
      <4>1. d \in Pkgs
        BY DEF TypeOK
      <4>2. CASE d \in visited
        BY <1>4, <4>1, <4>2 DEF PropagationInv
      <4>3. CASE d \in Fresh(p)
        BY <1>4, <1>5, <4>1, <4>3
      <4>4. QED
        BY <1>2, <4>2, <4>3
    <3>2. QED
      BY <1>1, <1>7, <2>1, <3>1
  <2>2. CASE q # p
    <3>1. Static(q) /\ q \notin queue
      BY <1>1, <1>4, <1>13, <2>2 DEF Static
    <3>2. trait[q].static /\ \A d \in dep[q] : mode[d] \in {"static", "dynamic"}
      BY <3>1 DEF PropagationInv
    <3>3. \A d \in dep[q] : d \in Pkgs
      BY DEF TypeOK
    <3>4. QED
      BY <1>4, <1>7, <3>2, <3>3
  <2>3. QED
    BY <2>1, <2>2
<1>14. QED
  BY <1>8, <1>9, <1>10, <1>11, <1>12, <1>13 DEF PropagationInv

(* From the propagation to the validations. *)

\* With an empty queue the static packages are exactly the chain: they are in it, and they
\* are a closed set.
LEMMA StaticIsChain ==
  ASSUME TypeOK, PropagationInv, queue = {}
  PROVE  \A p \in Pkgs : Static(p) <=> p \in Chain
<1> DEFINE S == {p \in Pkgs : Static(p)}
<1>1. Assignment!ClosedUnderStatic(S)
  <2>1. \A p \in Pkgs : user[p] = "static" => p \in S
    BY DEF PropagationInv
  <2>2. ASSUME NEW p \in S, NEW d \in dep[p], user[d] = "default"
        PROVE  d \in S
    <3>1. d \in Pkgs /\ mode[d] \in {"static", "dynamic"}
      BY <2>2 DEF PropagationInv, TypeOK
    <3>2. mode[d] = "static"
      BY <2>2, <3>1 DEF PropagationInv, UserKept
    <3>3. QED
      BY <3>1, <3>2 DEF Static
  <2>3. QED
    BY <2>1, <2>2 DEF Assignment!ClosedUnderStatic
<1>2. Chain \subseteq S
  BY <1>1, ChainSmallest
<1>3. QED
  BY <1>2 DEF PropagationInv

LEMMA HeaderOnlyInv ==
  ASSUME TypeOK, PropagationInv, queue = {}, HeaderOnlyRejected = {}, UNCHANGED Project,
         mode' = [p \in Pkgs |-> IF trait[p].header /\ mode[p] = "default"
                                 THEN "source" ELSE mode[p]]
  PROVE  ChainInv'
<1>1. \A p \in Pkgs : mode'[p] = IF trait[p].header /\ mode[p] = "default"
                                 THEN "source" ELSE mode[p]
  OBVIOUS
<1>2. \A p \in Pkgs : Static(p)' <=> Static(p)
  BY <1>1 DEF Static
<1>3. Chain' = Chain /\ user' = user /\ trait' = trait /\ dep' = dep
  BY ProjectFixed DEF Project
<1>4. (\A p \in Pkgs : Static(p) <=> p \in Chain)'
  BY <1>2, <1>3, StaticIsChain
<1>5. (\A p \in Pkgs : mode[p] \notin {user[p], "static"} =>
            user[p] = "default" /\ mode[p] = "source" /\ trait[p].header)'
  BY <1>1, <1>3 DEF PropagationInv, UserKept
<1>6. (\A p \in Pkgs : user[p] = "default" /\ ~Static(p) /\ trait[p].header =>
            mode[p] = "source")'
  BY <1>1, <1>3 DEF PropagationInv, UserKept, Static
<1>7. ASSUME NEW p \in Pkgs, Static(p)'
      PROVE  /\ trait'[p].static
             /\ ~trait'[p].header
             /\ \A d \in dep'[p] : mode'[d] \in {"static", "dynamic"}
  <2>1. Static(p)
    BY <1>2, <1>7
  <2>2. trait[p].static /\ \A d \in dep[p] : d \in Pkgs /\ mode[d] \in {"static", "dynamic"}
    BY <2>1 DEF PropagationInv, TypeOK
  <2>3. ~trait[p].header
    BY <2>1 DEF HeaderOnlyRejected, Static
  <2>4. QED
    BY <1>1, <1>3, <2>2, <2>3
<1>8. (\A p \in Pkgs : user[p] = "dynamic" => ~trait[p].header /\ mode[p] = "dynamic")'
  BY <1>1, <1>3 DEF PropagationInv, UserKept, HeaderOnlyRejected
<1>9. QED
  BY <1>4, <1>5, <1>6, <1>7, <1>8 DEF ChainInv

LEMMA HeaderOnlyReject ==
  ASSUME TypeOK, PropagationInv, HeaderOnlyRejected # {}
  PROVE  ~Assignment!Acceptable
<1>1. PICK p \in Pkgs : trait[p].header /\ mode[p] \in {"static", "dynamic"}
  BY DEF HeaderOnlyRejected
<1>2. CASE mode[p] = "static"
  BY <1>1, <1>2 DEF PropagationInv, Static, Assignment!Acceptable, Chain
<1>3. CASE mode[p] = "dynamic"
  BY <1>1, <1>3 DEF PropagationInv, UserKept, Assignment!Acceptable
<1>4. QED
  BY <1>1, <1>2, <1>3

\* _validate_static_dependencies has nothing to reject.
LEMMA NothingOnSource ==
  ASSUME TypeOK, ChainInv
  PROVE  {p \in Pkgs : OnSource(p)} = {}
BY DEF ChainInv, OnSource, Static

LEMMA StepInv == IInv /\ [Next]_vars => IInv'
<1> SUFFICES ASSUME IInv, [Next]_vars PROVE IInv'
  OBVIOUS
<1>0. TypeOK /\ TypeOK'
  BY TypeStep DEF IInv
<1>1. ASSUME NEW p \in Pkgs, VisitUnsupported(p) \/ VisitSource(p) PROVE IInv'
  <2>1. phase = "propagate" /\ p \in queue /\ phase' = "exited" /\ UNCHANGED Project
        /\ why' \in {"notStatic", "sourceInChain"}
    BY <1>1 DEF VisitUnsupported, VisitSource, Exit
  <2>2. \/ ~trait[p].static
        \/ \E d \in Convertible(p) : ~trait[d].static
        \/ \E d \in Fresh(p) : mode[d] = "source"
    BY <1>1 DEF VisitUnsupported, VisitSource
  <2>3. ~Assignment!Acceptable
    BY <1>0, <2>1, <2>2, RejectChain DEF IInv
  <2>4. ~Assignment!Acceptable'
    BY <2>1, <2>3, ProjectFixed
  <2>5. QED
    BY <1>0, <2>1, <2>4 DEF IInv, AfterHeaderOnly, AfterDynamic, AfterDependencies
<1>2. ASSUME NEW p \in Pkgs, Visit(p) PROVE IInv'
  <2>1. phase = "propagate" /\ phase' = "propagate" /\ why' = why
    BY <1>2 DEF Visit
  <2>2. PropagationInv'
    BY <1>0, <1>2, <2>1, VisitInv DEF IInv
  <2>3. QED
    BY <1>0, <2>1, <2>2 DEF IInv, AfterHeaderOnly, AfterDynamic, AfterDependencies
<1>3. CASE Propagated
  <2>1. PropagationInv'
    BY <1>3, ProjectFixed
    DEF Propagated, IInv, PropagationInv, UserKept, Static, Project
  <2>2. QED
    BY <1>0, <1>3, <2>1 DEF Propagated, IInv, AfterHeaderOnly, AfterDynamic, AfterDependencies
<1>4. CASE ValidateHeaderOnlyModes
  <2>1. PropagationInv /\ queue = {} /\ UNCHANGED Project
    BY <1>4 DEF ValidateHeaderOnlyModes, IInv, Exit
  <2>2. CASE HeaderOnlyRejected # {} /\ Exit("headerOnlyMode")
    <3>1. ~Assignment!Acceptable'
      BY <1>0, <2>1, <2>2, HeaderOnlyReject, ProjectFixed
    <3>2. QED
      BY <1>0, <2>2, <3>1 DEF Exit, IInv, AfterHeaderOnly, AfterDynamic, AfterDependencies
  <2>3. CASE HeaderOnlyRejected = {}
    <3>1. ChainInv'
      BY <1>0, <1>4, <2>1, <2>3, HeaderOnlyInv DEF ValidateHeaderOnlyModes
    <3>2. phase' = "dynamicDefinition" /\ why' = why
      BY <1>4, <2>3 DEF ValidateHeaderOnlyModes
    <3>3. QED
      BY <1>0, <3>1, <3>2 DEF IInv, AfterHeaderOnly, AfterDynamic, AfterDependencies
  <2>4. QED
    BY <1>4, <2>2, <2>3 DEF ValidateHeaderOnlyModes
<1>5. CASE ValidateDynamicDefinitions
  <2> DEFINE bad == {p \in Pkgs : mode[p] = "dynamic" /\ ~trait[p].dynDef}
  <2>1. ChainInv /\ phase = "dynamicDefinition" /\ UNCHANGED <<Project, mode>>
    BY <1>5 DEF ValidateDynamicDefinitions, Validation, Exit, IInv, AfterHeaderOnly, AfterDynamic, AfterDependencies
  <2>2. CASE bad # {} /\ Exit("noDynamicDefinition")
    <3>1. ~Assignment!Acceptable
      BY <2>1, <2>2 DEF ChainInv, Assignment!Acceptable
    <3>2. QED
      BY <1>0, <2>2, <3>1, ProjectFixed DEF Exit, IInv, AfterHeaderOnly, AfterDynamic, AfterDependencies
  <2>3. CASE bad = {} /\ phase' = "dependencies" /\ why' = why
    <3>1. ChainInv'
      BY <2>1, ProjectFixed DEF ChainInv, Static, Project
    <3>2. QED
      BY <1>0, <2>1, <2>3, <3>1 DEF IInv, AfterHeaderOnly, AfterDynamic, AfterDependencies, Project
  <2>4. QED
    BY <1>5, <2>2, <2>3 DEF ValidateDynamicDefinitions, Validation
<1>6. CASE ValidateDependencies
  <2> DEFINE bad == {p \in Pkgs : trait[p].missing}
  <2>1. ChainInv /\ phase = "dependencies" /\ UNCHANGED <<Project, mode>>
    BY <1>6 DEF ValidateDependencies, Validation, Exit, IInv, AfterHeaderOnly, AfterDynamic, AfterDependencies
  <2>2. CASE bad # {} /\ Exit("notResolved")
    <3>1. ~Assignment!Acceptable
      BY <2>2 DEF Assignment!Acceptable
    <3>2. QED
      BY <1>0, <2>2, <3>1, ProjectFixed DEF Exit, IInv, AfterHeaderOnly, AfterDynamic, AfterDependencies
  <2>3. CASE bad = {} /\ phase' = "staticDependencies" /\ why' = why
    <3>1. ChainInv'
      BY <2>1, ProjectFixed DEF ChainInv, Static, Project
    <3>2. QED
      BY <1>0, <2>1, <2>3, <3>1 DEF IInv, AfterHeaderOnly, AfterDynamic, AfterDependencies, Project
  <2>4. QED
    BY <1>6, <2>2, <2>3 DEF ValidateDependencies, Validation
<1>7. CASE ValidateStaticDependencies
  <2>1. ChainInv /\ phase = "staticDependencies"
    BY <1>7 DEF ValidateStaticDependencies, Validation, IInv, AfterHeaderOnly, AfterDynamic, AfterDependencies
  <2>2. phase' = "output" /\ why' = why /\ UNCHANGED <<Project, mode>>
    BY <1>0, <1>7, <2>1, NothingOnSource DEF ValidateStaticDependencies, Validation
  <2>3. ChainInv'
    BY <2>1, <2>2, ProjectFixed DEF ChainInv, Static, Project
  <2>4. QED
    BY <1>0, <2>1, <2>2, <2>3 DEF IInv, AfterHeaderOnly, AfterDynamic, AfterDependencies, Project
<1>8. CASE UNCHANGED vars
  <2>1. UNCHANGED <<Project, mode, queue, visited, phase, why>>
    BY <1>8 DEF vars, Project
  <2>2. /\ PropagationInv => PropagationInv'
        /\ ChainInv => ChainInv'
        /\ ~Assignment!Acceptable => ~Assignment!Acceptable'
    BY <2>1, ProjectFixed DEF PropagationInv, ChainInv, UserKept, Static, Project
  <2>3. QED
    BY <1>0, <2>1, <2>2 DEF IInv, AfterHeaderOnly, AfterDynamic, AfterDependencies, Project
<1>9. QED
  BY <1>1, <1>2, <1>3, <1>4, <1>5, <1>6, <1>7, <1>8 DEF Next

LEMMA Invariant == Spec => []IInv
BY InitInv, StepInv, PTL DEF Spec

-----------------------------------------------------------------------------
(* The theorems. *)

\* Every variable of ModePropagation keeps its type.
THEOREM TypeCorrect == Spec => []TypeOK
BY Invariant, PTL DEF IInv

\* In everything that is generated, the dependencies of a static library are libraries.
THEOREM StaticClosed == Spec => []StaticClosure
<1>1. IInv => StaticClosure
  <2> SUFFICES ASSUME IInv, phase \notin {"propagate", "exited"},
                      NEW p \in Pkgs, mode[p] = "static", NEW d \in dep[p]
               PROVE  mode[d] \in {"static", "dynamic"}
    BY DEF StaticClosure
  <2>1. CASE phase = "headerOnly"
    BY <2>1 DEF IInv, PropagationInv, Static
  <2>2. CASE phase # "headerOnly"
    BY <2>2 DEF IInv, AfterHeaderOnly, AfterDynamic, AfterDependencies, ChainInv, Static, TypeOK, Phases
  <2>3. QED
    BY <2>1, <2>2
<1>2. QED
  BY <1>1, Invariant, PTL

\* _validate_static_dependencies never has anything left to reject.
THEOREM CheckAgrees == Spec => []StaticCheckAgrees
<1>1. IInv => StaticCheckAgrees
  BY DEF IInv, StaticCheckAgrees
<1>2. QED
  BY <1>1, Invariant, PTL

\* A package that has to be static is one the user wants static or gave no mode.
LEMMA ChainUsers ==
  ASSUME TypeOK
  PROVE  \A p \in Chain : user[p] \in {"static", "default"}
<1> DEFINE S == {p \in Pkgs : user[p] \in {"static", "default"}}
<1>1. Assignment!ClosedUnderStatic(S)
  BY DEF Assignment!ClosedUnderStatic, TypeOK
<1>2. QED
  BY <1>1, ChainSmallest

\* What the output phase has established about the project.
LEMMA OutputAccepted ==
  ASSUME IInv, phase = "output"
  PROVE  Assignment!Acceptable /\ mode = [p \in Pkgs |-> Assignment!FinalMode(p)]
<1>1. /\ TypeOK
      /\ ChainInv
      /\ \A p \in Pkgs : mode[p] = "dynamic" => trait[p].dynDef
      /\ \A p \in Pkgs : ~trait[p].missing
  BY DEF IInv, AfterHeaderOnly, AfterDynamic, AfterDependencies
<1>2. ASSUME NEW p \in Chain, NEW d \in dep[p] PROVE user[d] # "source"
  <2>1. p \in Pkgs /\ d \in Pkgs /\ mode[d] \in {"static", "dynamic"}
    BY <1>1, <1>2, ChainClosed DEF ChainInv, TypeOK
  <2>2. mode[d] = "static" => user[d] # "source"
    BY <1>1, <2>1, ChainUsers DEF ChainInv, Static
  <2>3. mode[d] = "dynamic" => user[d] # "source"
    BY <1>1, <2>1 DEF ChainInv
  <2>4. QED
    BY <2>1, <2>2, <2>3
<1>3. \A p \in Chain : trait[p].static /\ ~trait[p].header
  BY <1>1, ChainClosed DEF ChainInv
<1>4. \A p \in Pkgs : user[p] = "dynamic" => trait[p].dynDef /\ ~trait[p].header
  BY <1>1 DEF ChainInv
<1>5. Assignment!Acceptable
  BY <1>1, <1>2, <1>3, <1>4 DEF Assignment!Acceptable, Chain
<1>6. ASSUME NEW p \in Pkgs PROVE mode[p] = Assignment!FinalMode(p)
  <2>1. CASE p \in Chain
    BY <1>1, <2>1 DEF ChainInv, Static, Assignment!FinalMode, Chain
  <2>2. CASE p \notin Chain
    BY <1>1, <2>2 DEF ChainInv, Static, Assignment!FinalMode, Chain
  <2>3. QED
    BY <2>1, <2>2
<1>7. QED
  BY <1>1, <1>5, <1>6 DEF TypeOK

\* The program implements ModeAssignment: it accepts exactly the acceptable projects, each
\* with the one assignment of modes the specification allows.
THEOREM Refinement == Spec => ImplementsAssignment
<1> DEFINE AbstractVars == <<Assignment!Project, Decision>>
<1>1. Init => Assignment!Init
  BY DEF Init, Assignment!Init, Assignment!ProjectOK, Assignment!Result, Decision,
         Modes, Assignment!Modes
<1>2. IInv /\ IInv' /\ [Next]_vars => [Assignment!Decide]_AbstractVars
  <2> SUFFICES ASSUME IInv, IInv', [Next]_vars, ~UNCHANGED AbstractVars
               PROVE  Assignment!Decide
    OBVIOUS
  <2>1. UNCHANGED Project
    BY DEF Next, VisitUnsupported, VisitSource, Visit, Propagated, ValidateHeaderOnlyModes,
           ValidateDynamicDefinitions, ValidateDependencies, ValidateStaticDependencies,
           Validation, Exit, vars, Project
  <2>2. UNCHANGED Assignment!Project
    BY <2>1 DEF Project, Assignment!Project
  \* Only an exit and the entry of the output phase show in the abstract specification.
  <2>3. phase \notin {"output", "exited"} /\ phase' \in {"output", "exited"}
    <3>1. CASE phase \in {"output", "exited"}
      <4>1. UNCHANGED <<phase, mode>>
        BY <3>1
        DEF Next, VisitUnsupported, VisitSource, Visit, Propagated, ValidateHeaderOnlyModes,
            ValidateDynamicDefinitions, ValidateDependencies, ValidateStaticDependencies,
            Validation, vars
      <4>2. QED
        BY <2>1, <2>2, <4>1 DEF Decision, Project
    <3>2. CASE phase' \notin {"output", "exited"} /\ phase \notin {"output", "exited"}
      BY <2>1, <2>2, <3>2 DEF Decision, Project
    <3>3. QED
      BY <3>1, <3>2
  <2>4. Decision = Assignment!Result("pending", user)
    BY <2>3 DEF Decision, Assignment!Result
  <2>5. CASE phase' = "exited"
    <3>1. ~Assignment!Acceptable
      BY <2>1, <2>5, ProjectFixed DEF IInv
    <3>2. Decision' = Assignment!Result("rejected", user)
      BY <2>1, <2>5 DEF Decision, Assignment!Result, Project
    <3>3. QED
      BY <2>2, <2>4, <3>1, <3>2 DEF Assignment!Decide, Assignment!Result
  <2>6. CASE phase' = "output"
    <3>1. mode' = mode /\ phase = "staticDependencies"
      BY <2>3, <2>6
      DEF Next, VisitUnsupported, VisitSource, Visit, Propagated, ValidateHeaderOnlyModes,
          ValidateDynamicDefinitions, ValidateDependencies, ValidateStaticDependencies,
          Validation, Exit, vars
    <3>2. /\ Assignment!Acceptable'
          /\ mode' = [p \in Pkgs |-> Assignment!FinalMode(p)']
      <4>1. (IInv /\ phase = "output" => Assignment!Acceptable
                /\ mode = [p \in Pkgs |-> Assignment!FinalMode(p)])'
        BY OutputAccepted, PTL
      <4>2. QED
        BY <2>6, <4>1
    <3>3. Assignment!Acceptable /\ \A p \in Pkgs : Assignment!FinalMode(p)' = Assignment!FinalMode(p)
      BY <2>1, <3>2, ProjectFixed DEF Project, Chain, Assignment!FinalMode
    <3>4. Decision' = Assignment!Result("accepted", [p \in Pkgs |-> Assignment!FinalMode(p)])
      BY <2>6, <3>2, <3>3 DEF Decision, Assignment!Result
    <3>5. QED
      BY <2>2, <2>4, <3>3, <3>4 DEF Assignment!Decide, Assignment!Result
  <2>7. QED
    BY <2>3, <2>5, <2>6
<1>3. QED
  BY <1>1, <1>2, Invariant, PTL DEF Spec, ImplementsAssignment, Assignment!Spec
=============================================================================
