--------------------------- MODULE ModeAssignment ---------------------------
(***************************************************************************)
(* What the mode handling of IMakeCore promises, whatever the order in     *)
(* which packages are visited: a project is either accepted with one       *)
(* assignment of build modes, or rejected, and the project alone decides.  *)
(***************************************************************************)
EXTENDS Integers

CONSTANTS
    Pkgs,   \* the resolved packages
    Traits  \* the package properties that a project may combine

Modes == {"default", "source", "static", "dynamic"}

VARIABLES
    user,    \* the mode packages.json gives each package, "default" when it gives none
    trait,   \* the properties of each package
    dep,     \* the resolved packages among its dependencies
    result   \* the verdict, and the mode of every package

Project == <<user, trait, dep>>

ProjectOK == /\ user \in [Pkgs -> Modes]
             /\ trait \in [Pkgs -> Traits]
             /\ dep \in [Pkgs -> SUBSET Pkgs]

\* A set of packages that holds the packages the user wants static, and with a package
\* each of its dependencies the user gave no mode.
ClosedUnderStatic(S) ==
    /\ \A p \in Pkgs : user[p] = "static" => p \in S
    /\ \A p \in S : \A d \in dep[p] : user[d] = "default" => d \in S

\* The packages that have to be static: the smallest such set.
StaticChain == {p \in Pkgs : \A S \in SUBSET Pkgs : ClosedUnderStatic(S) => p \in S}

\* A dynamic dependency ends a static chain; a source one breaks it.
Acceptable ==
    /\ \A p \in StaticChain : /\ trait[p].static
                              /\ ~trait[p].header
                              /\ \A d \in dep[p] : user[d] # "source"
    /\ \A p \in Pkgs : /\ user[p] = "dynamic" => trait[p].dynDef /\ ~trait[p].header
                       /\ ~trait[p].missing

FinalMode(p) == IF p \in StaticChain THEN "static"
                ELSE IF user[p] = "default" /\ trait[p].header THEN "source"
                ELSE user[p]

Result(v, m) == [verdict |-> v, mode |-> m]

Init == ProjectOK /\ result = Result("pending", user)

Decide ==
    /\ result.verdict = "pending"
    /\ result' = IF Acceptable THEN Result("accepted", [p \in Pkgs |-> FinalMode(p)])
                               ELSE Result("rejected", user)
    /\ UNCHANGED Project

Spec == Init /\ [][Decide]_<<Project, result>>
=============================================================================
