---------------------------- MODULE MCInstallation ----------------------------
(***************************************************************************)
(* Two bundles, the newer of which ships one file more, the source tree of *)
(* the newer one, and the release of a legacy installation.                *)
(***************************************************************************)
EXTENDS InstallationReview, TLC

MCReleases == {"old", "new", "tree", "first"}
MCLegacy == {"first"}
MCVersion == "first" :> "0" @@ "old" :> "1" @@ "new" :> "2" @@ "tree" :> "2"
MCSource == [v \in MCReleases |-> IF v = "tree" THEN "source_tree" ELSE "bundle"]
MCCommon == [v \in MCReleases |->
    {Catalog, VersionFile, Thresholds, ConflictTask}
        \cup (IF v \in {"new", "tree"} THEN {<<"common", "scripts">>} ELSE {})]
MCSupport == [p \in Bases \cup Addons |->
    {Baseline(p)} \cup (IF p = "dast-baseline" THEN {<<"suppressions", p>>} ELSE {})]
MCStable == {ConflictTask, <<"suppressions", "dast-baseline">>} \cup Baselines
\* .github, .vibesec/api, .vibesec/auth, .vibesec/install, .vibesec/project, ...
MCPlace == [f \in Files \cup {ManifestFile} |->
    CASE f = ManifestFile -> 4
      [] f \in Workflows -> 1
      [] f \in {Configuration(a) : a \in Configured} -> 2
      [] f = Authentication -> 3
      [] f = Capabilities -> 5
      [] f = VersionFile -> 6
      [] f = Catalog -> 7
      [] f = ConflictTask -> 8
      [] f \in Baselines -> 9
      [] f = Thresholds -> 10
      [] OTHER -> 11]
=============================================================================
