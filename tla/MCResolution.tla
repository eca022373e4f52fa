--------------------------- MODULE MCResolution ---------------------------
(* Instances of Resolution for TLC. *)
EXTENDS Resolution

TwoVersions   == 1 .. 2
ThreeVersions == 1 .. 3
TwoLibraries   == 1 .. 2
ThreeLibraries == 1 .. 3
FourLibraries  == 1 .. 4
FiveLibraries  == 1 .. 5

Req(n, spec) == [name |-> n, spec |-> spec]
Ref(n, spec) == [name |-> n, spec |-> spec, force |-> None, suggest |-> None,
                 dynamic |-> FALSE]

\* The lists of dependencies on the libraries of ns, at most one on each, with a specifier
\* from specs.
ListsOn(ns, specs) ==
    {SelectSeq([i \in 1 .. 3 |-> Req(i, f[i])], LAMBDA r : r.spec # {}) :
        f \in {g \in [1 .. 3 -> specs \cup {{}}] : \A i \in 1 .. 3 \ ns : g[i] = {}}}

AnySpec == {{1}, {2}, {1, 2}}

\* Any two versions of each of three libraries, a library depending only on those after it.
AcyclicDeps ==
    {<<a, b, <<<<>>, <<>>>>>> : a \in [TwoVersions -> ListsOn({2, 3}, AnySpec)],
                                b \in [TwoVersions -> ListsOn({3}, AnySpec)]}

Orders == {<<1>>, <<1, 2>>, <<2, 1>>, <<1, 3>>, <<3, 1>>,
           <<1, 2, 3>>, <<2, 3, 1>>, <<3, 2, 1>>}

AcyclicProjects ==
    [deps : AcyclicDeps,
     refs : {[i \in DOMAIN order |-> Ref(order[i], TwoVersions)] : order \in Orders}]

\* Two libraries that may need each other, overridden, cached or dynamic.
PairRefs(n) ==
    {r \in [name : {n}, spec : {{1}, {1, 2}}, force : {None, 1, 2},
            suggest : {None, 1, 2}, dynamic : BOOLEAN] :
        r.force # None => r.suggest = None /\ r.spec = {1, 2}}

PairProjects ==
    [deps : {<<a, b>> : a \in [TwoVersions -> ListsOn({2}, AnySpec)],
                        b \in [TwoVersions -> ListsOn({1}, AnySpec)]},
     refs : {<<r>> : r \in PairRefs(1)} \cup (PairRefs(1) \X PairRefs(2))]

\* No circles; 3 is pinned in version 2, loses its requirement on 5 when 1 asks for another
\* version, and is kept when 2 makes 1 give that up again.
StaleProject ==
    [deps |-> <<<<<<>>, <<Req(3, {1})>>, <<>>>>,
                <<<<>>, <<Req(1, {1})>>, <<>>>>,
                <<<<>>, <<Req(5, {1})>>>>,
                <<<<Req(1, {1, 2}), Req(2, {1, 2})>>>>,
                <<<<>>>>>>,
     refs |-> [n \in FourLibraries |-> Ref(n, ThreeVersions)]]

\* Libraries 3 and 4 need each other; 1 needs them only in the version given up for 2.
RingProject ==
    [deps |-> <<<<<<>>, <<Req(3, {1})>>>>,
                <<<<Req(1, {1})>>>>,
                <<<<Req(4, {1})>>>>,
                <<<<Req(3, {1})>>>>>>,
     refs |-> <<Ref(1, TwoVersions), Ref(2, TwoVersions)>>]

\* No circles; a jump back rules out the version the only solution needs.
LostProject ==
    [deps |-> <<<<<<Req(3, {2}), Req(2, {2})>>, <<>>, <<Req(4, {3}), Req(2, {2, 3})>>>>,
                <<<<>>, <<>>, <<>>>>,
                <<<<>>, <<Req(4, {1})>>, <<Req(4, {1, 3})>>>>,
                <<<<Req(2, {1})>>, <<>>, <<Req(2, {1})>>>>>>,
     refs |-> <<Ref(3, ThreeVersions), Ref(2, {2}), Ref(4, ThreeVersions),
                Ref(1, ThreeVersions)>>]

\* The same project, its refs in any order, without any of the dependencies.
JumpProjects ==
    [deps : {[n \in FourLibraries |-> [v \in ThreeVersions |->
                IF <<n, v>> \in without THEN <<>> ELSE LostProject.deps[n][v]]] :
                without \in SUBSET {<<1, 1>>, <<1, 3>>, <<3, 2>>, <<3, 3>>, <<4, 1>>, <<4, 3>>}},
     refs : {[i \in FourLibraries |-> LostProject.refs[p[i]]] :
                p \in {q \in [FourLibraries -> FourLibraries] :
                          \A i, j \in FourLibraries : q[i] = q[j] => i = j}}]

\* Both kinds, as projects of three libraries; a pair has no third one.
SmallProjects ==
    AcyclicProjects \cup
    {[p EXCEPT !.deps = Append(p.deps, <<>>)] : p \in PairProjects}

StaleProjects == {StaleProject}
RingProjects  == {RingProject}
LostProjects  == {LostProject}
=============================================================================
