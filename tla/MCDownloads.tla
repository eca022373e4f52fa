----------------------------- MODULE MCDownloads -----------------------------
(* Instances of Downloads for TLC: versions 1.0.0 and 2.0.0; "1.0" is the    *)
(* same version under another directory name, ">=1.0" no version at all.     *)
EXTENDS Downloads

MCVersions == {"1.0.0", "2.0.0"}
MCTexts == MCVersions \cup {"1.0", ">=1.0"}
MCParsable == MCVersions \cup {"1.0"}
MCWanted == [t \in MCTexts |->
    CASE t \in {"1.0.0", "1.0"} -> {"1.0.0"}
      [] t = "2.0.0" -> {"2.0.0"}
      [] t = ">=1.0" -> MCVersions]

AllSources == {"mirror", "url", "git:other"}
AllProjects == {"exact", "alias", "range"}
AllText == [p \in AllProjects |->
    CASE p = "exact" -> "1.0.0" [] p = "alias" -> "1.0" [] p = "range" -> ">=1.0"]
AllSourcesOf == [p \in AllProjects |->
    CASE p = "exact" -> <<"mirror", "url">>
      [] p = "alias" -> <<"url">>
      [] p = "range" -> <<"git:other">>]
AllMarked == [s \in AllSources |-> s]
AllOffers == [s \in AllSources |->
    CASE s = "mirror" -> {"1.0.0", NoPackage}
      [] s = "url" -> {"1.0.0"}
      [] s = "git:other" -> {"2.0.0", NoPackage}]
OtherGit == {"git:other"}

GitSources == {"git:repo", "git:repo tag=v1"}
GitProjects == {"tagged"}
GitText == [p \in GitProjects |-> "1.0.0"]
GitSourcesOf == [p \in GitProjects |-> <<"git:repo tag=v1">>]
GitMarked == [s \in GitSources |-> "git:repo"]
GitOffers == [s \in GitSources |-> {"1.0.0"}]
=============================================================================
