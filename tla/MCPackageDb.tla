---------------------------- MODULE MCPackageDb ----------------------------
(* Instances of PackageDb for TLC. *)
EXTENDS PackageDb, TLC

\* The runs are interchangeable: no definition tells one from another.
RunSymmetry == Permutations(Runs)
=============================================================================
