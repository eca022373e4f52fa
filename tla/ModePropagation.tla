-------------------------- MODULE ModePropagation --------------------------
(***************************************************************************)
(* From the resolved packages to the modes they are built in:              *)
(* PackageResolver._checkResults, which spreads "static" over the          *)
(* dependency graph breadth first, and the four validations of             *)
(* IMakeCore.py that run before any output is generated.  Every error      *)
(* prints and calls exit(1).                                               *)
(*                                                                         *)
(* The order of the packages, and of the dependencies of one, decides only *)
(* which of several errors is printed: the queue is a set here, and one    *)
(* step takes a package from it and looks at all its dependencies.         *)
(***************************************************************************)
EXTENDS Integers

CONSTANTS Pkgs, Traits

VARIABLES user, trait, dep,   \* the project: see ModeAssignment
    mode,      \* RefPackage.mode as it changes
    queue,     \* the packages still to be visited
    visited,   \* the packages queued so far, and the dynamic ones met
    phase,     \* the function that runs next, or how the program ended
    why        \* the error of the exit

Modes == {"default", "source", "static", "dynamic"}
Project == <<user, trait, dep>>
vars == <<user, trait, dep, mode, queue, visited, phase, why>>

Phases == {"propagate", "headerOnly", "dynamicDefinition", "dependencies",
           "staticDependencies", "output", "exited"}
Errors == {"notStatic", "sourceInChain", "headerOnlyMode", "noDynamicDefinition",
           "notResolved", "staticOnSource"}

ASSUME TraitType ==
    Traits \subseteq [header : BOOLEAN,   \* no sources, no ui and no resource files
                      static : BOOLEAN,   \* package.json lets it be built static
                      dynDef : BOOLEAN,   \* it declares a dynamicDefinition
                      missing : BOOLEAN,  \* a dependency of it was not resolved
                      bare : BOOLEAN]     \* it names its dependencies without publisher

TypeOK ==
    /\ user \in [Pkgs -> Modes]
    /\ trait \in [Pkgs -> Traits]
    /\ dep \in [Pkgs -> SUBSET Pkgs]
    /\ mode \in [Pkgs -> Modes]
    /\ queue \subseteq Pkgs
    /\ visited \subseteq Pkgs
    /\ phase \in Phases
    /\ why \in Errors \cup {"none"}

Init ==
    /\ user \in [Pkgs -> Modes]
    /\ trait \in [Pkgs -> Traits]
    /\ dep \in [Pkgs -> SUBSET Pkgs]
    /\ mode = user
    /\ queue = {p \in Pkgs : user[p] = "static"}
    /\ visited = queue
    /\ phase = "propagate"
    /\ why = "none"

Exit(error) == /\ phase' = "exited"
               /\ why' = error
               /\ UNCHANGED <<Project, mode, queue, visited>>

-----------------------------------------------------------------------------
(* PackageResolver._checkResults *)

\* The dependencies of p met for the first time.
Fresh(p) == dep[p] \ visited

Convertible(p) == {d \in Fresh(p) : mode[d] = "default"}

\* A static package, or a dependency about to become static, cannot be built static.
VisitUnsupported(p) ==
    /\ phase = "propagate"
    /\ p \in queue
    /\ ~trait[p].static \/ \E d \in Convertible(p) : ~trait[d].static
    /\ Exit("notStatic")

VisitSource(p) ==
    /\ phase = "propagate"
    /\ p \in queue
    /\ trait[p].static
    /\ \E d \in Fresh(p) : mode[d] = "source"
    /\ Exit("sourceInChain")

\* What the mutants of Visit share with it.
Visiting(p, enqueued) ==
    /\ phase = "propagate"
    /\ p \in queue
    /\ trait[p].static
    /\ \A d \in Convertible(p) : trait[d].static
    /\ queue' = (queue \ {p}) \cup enqueued
    /\ UNCHANGED <<Project, phase, why>>

\* Mutants of Visit: new static packages are not visited in their turn; the modes of
\* all but the new ones are lost; packages are queued without being marked.
VisitOnce(p) ==
    /\ Visiting(p, {})
    /\ \A d \in Fresh(p) : mode[d] # "source"
    /\ mode' = [d \in Pkgs |-> IF d \in Convertible(p) THEN "static" ELSE mode[d]]
    /\ visited' = visited \cup Fresh(p)
VisitDropping(p) ==
    /\ Visiting(p, Convertible(p))
    /\ \A d \in Fresh(p) : mode[d] # "source"
    /\ mode' = [d \in Convertible(p) |-> "static"]
    /\ visited' = visited \cup Fresh(p)
VisitUnmarked(p) ==
    /\ Visiting(p, Convertible(p))
    /\ \A d \in Fresh(p) : mode[d] # "source"
    /\ UNCHANGED <<mode, visited>>

\* The dynamic dependencies are left alone; those without a mode become static and are
\* visited in their turn.
Visit(p) ==
    /\ phase = "propagate"
    /\ p \in queue
    /\ trait[p].static
    /\ \A d \in Fresh(p) : mode[d] # "source"
    /\ \A d \in Convertible(p) : trait[d].static
    /\ mode' = [d \in Pkgs |-> IF d \in Convertible(p) THEN "static" ELSE mode[d]]
    /\ queue' = (queue \ {p}) \cup Convertible(p)
    /\ visited' = visited \cup Fresh(p)
    /\ UNCHANGED <<Project, phase, why>>

Propagated ==
    /\ phase = "propagate"
    /\ queue = {}
    /\ phase' = "headerOnly"
    /\ UNCHANGED <<Project, mode, queue, visited, why>>

-----------------------------------------------------------------------------
(* The validations of IMakeCore.py *)

\* One validation: the error it exits with, the packages it rejects, where it goes on.
Validation(here, bad, error, next) ==
    /\ phase = here
    /\ \/ bad # {} /\ Exit(error)
       \/ bad = {} /\ phase' = next /\ UNCHANGED <<Project, mode, queue, visited, why>>

\* Mutant of HeaderOnlyRejected: dynamic mode is not looked at.
HeaderOnlyStatic == {p \in Pkgs : trait[p].header /\ mode[p] = "static"}

HeaderOnlyRejected == {p \in Pkgs : trait[p].header /\ mode[p] \in {"static", "dynamic"}}

\* A header-only package without a mode becomes a source package.
ValidateHeaderOnlyModes ==
    /\ phase = "headerOnly"
    /\ \/ HeaderOnlyRejected # {} /\ Exit("headerOnlyMode")
       \/ /\ HeaderOnlyRejected = {}
          /\ mode' = [p \in Pkgs |-> IF trait[p].header /\ mode[p] = "default"
                                     THEN "source" ELSE mode[p]]
          /\ phase' = "dynamicDefinition"
          /\ UNCHANGED <<Project, queue, visited, why>>

ValidateDynamicDefinitions ==
    Validation("dynamicDefinition", {p \in Pkgs : mode[p] = "dynamic" /\ ~trait[p].dynDef},
               "noDynamicDefinition", "dependencies")

\* Every declared dependency, those of dynamic packages too, has to be among the resolved
\* packages.
ValidateDependencies ==
    Validation("dependencies", {p \in Pkgs : trait[p].missing},
               "notResolved", "staticDependencies")

\* No source package with code below a static one; a dependency named without publisher
\* is not found in the table of packages and passes.
OnSource(p) == /\ mode[p] = "static"
               /\ ~trait[p].bare
               /\ \E d \in dep[p] : mode[d] \in {"source", "default"} /\ ~trait[d].header

ValidateStaticDependencies ==
    Validation("staticDependencies", {p \in Pkgs : OnSource(p)}, "staticOnSource", "output")

Next == \/ \E p \in Pkgs : VisitUnsupported(p) \/ VisitSource(p) \/ Visit(p)
        \/ Propagated
        \/ ValidateHeaderOnlyModes
        \/ ValidateDynamicDefinitions
        \/ ValidateDependencies
        \/ ValidateStaticDependencies

Spec == Init /\ [][Next]_vars

\* The program is sequential and runs until it exits or generates its output.
FairSpec == Spec /\ WF_vars(Next)

-----------------------------------------------------------------------------
(* Properties *)

\* The build files are generated only for modes under which every dependency of a static
\* library is a library itself: no object file is pulled into two archives.
StaticClosure ==
    phase \notin {"propagate", "exited"} =>
        \A p \in Pkgs : mode[p] = "static" =>
            \A d \in dep[p] : mode[d] \in {"static", "dynamic"}

\* _validate_static_dependencies rejects nothing that _checkResults let through, although
\* it would miss a dependency named without its publisher.
StaticCheckAgrees == why # "staticOnSource"

\* What the abstract specification sees of the program.
Decision == IF phase = "output" THEN [verdict |-> "accepted", mode |-> mode]
            ELSE IF phase = "exited" THEN [verdict |-> "rejected", mode |-> user]
            ELSE [verdict |-> "pending", mode |-> user]

Assignment == INSTANCE ModeAssignment WITH result <- Decision

\* Whatever the visiting order, the program accepts the acceptable projects and no other,
\* with the one assignment that makes no package static without need.
ImplementsAssignment == Assignment!Spec

\* The propagation ends, on cyclic dependency graphs too.
Terminates == <>(phase \in {"output", "exited"})

-----------------------------------------------------------------------------
\* "Cannot use mode='static'. Use mode='source' or omit the mode field": a header-only
\* package whose mode the user omitted is never rejected for being header-only.
OmittedModeAccepted ==
    why = "headerOnlyMode" => \E p \in Pkgs : trait[p].header /\ user[p] \in {"static", "dynamic"}
=============================================================================
