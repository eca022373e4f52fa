--------------------------- MODULE MCProjectRuns ---------------------------
(* Instances of ProjectRuns for TLC. *)
EXTENDS ProjectRuns

TwoVersions == 1 .. 2

\* "*" and an exact version, the older one.
TwoSpecs == {{1, 2}, {1}}
=============================================================================
