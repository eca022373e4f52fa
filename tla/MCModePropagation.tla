------------------------- MODULE MCModePropagation -------------------------
(* Instances of ModePropagation for TLC.                                     *)
EXTENDS ModePropagation

Trait(header, static, dynDef, missing, bare) ==
    [header |-> header, static |-> static, dynDef |-> dynDef,
     missing |-> missing, bare |-> bare]

Code       == Trait(FALSE, TRUE, TRUE, FALSE, FALSE)
BareCode   == Trait(FALSE, TRUE, FALSE, FALSE, TRUE)
SourceOnly == Trait(FALSE, FALSE, TRUE, FALSE, FALSE)
HeaderOnly == Trait(TRUE, TRUE, TRUE, FALSE, FALSE)
Incomplete == Trait(FALSE, TRUE, TRUE, TRUE, FALSE)

AllTraits   == {Code, BareCode, SourceOnly, HeaderOnly, Incomplete}
ModeTraits  == {Code, SourceOnly, HeaderOnly}
TwoPackages == 1 .. 2
ThreePackages == 1 .. 3

\* Any modes and dependencies of three packages with the properties that modes
\* depend on, or of the first two with any properties.  The packages are
\* interchangeable: one order of their modes stands for all.
Rank(m) == CASE m = "static" -> 1 [] m = "default" -> 2
             [] m = "dynamic" -> 3 [] m = "source" -> 4
Ordered == \A p, q \in Pkgs : p < q => Rank(user[p]) <= Rank(user[q])

MCInit ==
    /\ \/ trait \in [Pkgs -> ModeTraits]
       \/ /\ trait \in {t \in [Pkgs -> AllTraits] : t[3] = Code}
          /\ dep \in {d \in [Pkgs -> SUBSET (Pkgs \ {3})] : d[3] = {}}
    /\ user \in [Pkgs -> Modes]
    /\ Ordered
    /\ Init

MCSpec == MCInit /\ [][Next]_vars /\ WF_vars(Next)
=============================================================================
