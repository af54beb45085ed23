-------------------------- MODULE InstallationReview --------------------------
(***************************************************************************)
(* The three commands that judge an installed repository and change        *)
(* nothing: verify_installation (vibesec/installation.py), the upgrade     *)
(* planner (plan_vibesec_upgrade.py) and the doctor (vibesec_doctor.py),   *)
(* as functions of the state of Installation.                              *)
(*                                                                         *)
(* The verifier collects messages and derives the status from words in     *)
(* them.  A message is reduced to the word that counts: "conflict" (or     *)
(* "without"), "missing", neither ("invalid"), or neither and recoverable  *)
(* by an upgrade ("action").                                               *)
(***************************************************************************)
EXTENDS Installation

Catalog == <<"common", "catalog">>
VersionFile == <<"common", "version">>
Thresholds == <<"common", "thresholds">>
\* machine/agents/tasks/resolve-merge-conflicts.json
ConflictTask == <<"common", "resolve-merge-conflicts">>

ASSUME CatalogAssumption ==
    /\ \A v \in Releases : {Catalog, VersionFile, Thresholds} \subseteq Common[v]
    /\ VersionFile \notin Stable

Current == {request \in Manifested : manifest[request].release \notin Legacy}
Tracked == UNION {Declared(request) : request \in Manifested}
InstalledVersions == {Version[manifest[request].release] : request \in Manifested}
InstalledSources == {IF request \in Current THEN Source[manifest[request].release] ELSE "legacy"
                        : request \in Manifested}

-----------------------------------------------------------------------------
(* verify_installation                                                      *)

\* Mutation: the two stages of the Standard profile count as two base profiles.
CompetingStages == Cardinality({request \in Manifested : request[1] \in Bases}) > 1

\* Manifests that cannot stand together.
Competing ==
    \/ Bases \subseteq Profiles
    \/ <<"standard", "workflow">> \in Manifested /\ <<"standard", "support">> \notin Manifested
    \/ "api-fuzzing" \in Profiles /\ "api-security-baseline" \notin Profiles
    \/ Cardinality(InstalledVersions) > 1
    \/ Cardinality(InstalledSources) > 1

WrongBaseline ==
    \/ "minimal" \in Profiles /\ (Baseline("minimal") \notin Tracked \/ Baseline("standard") \in Tracked)
    \/ /\ "minimal" \notin Profiles /\ "standard" \in Profiles
       /\ Baseline("standard") \notin Tracked \/ Baseline("minimal") \in Tracked

\* What is missing, or else wrong with a message that says "missing or ...".
Lacking ==
    \/ WrongBaseline
    \/ Current # {} /\ (~RegularFile(Catalog) \/ ~CapabilitiesLoad)
    \/ /\ Current # {} /\ CapabilitiesLoad
       /\ "authentication" \in answers /\ ~AuthenticationLoads

CatalogLoads == Current # {} /\ RegularFile(Catalog) /\ disk[Catalog] # "malformed"
\* The release whose catalog is installed; one that was edited keeps the sets.
InstalledCatalogs == {v \in Releases : Catalog \notin Stable /\ disk[Catalog] = Version[v]}
CatalogOf(request) ==
    IF InstalledCatalogs = {} THEN manifest[request].release ELSE CHOOSE v \in InstalledCatalogs : TRUE

Unsound ==
    \/ \E request \in Requests : manifest[request] = BadManifest
    \/ Current # {} /\ disk[Catalog] = "malformed"
    \/ /\ CatalogLoads
       /\ \/ disk[VersionFile] \notin InstalledVersions \cup {"wrong mode"}
          \/ \E request \in Current :
                Shipped[CatalogOf(request)][request] # Shipped[manifest[request].release][request]
    \/ /\ Current # {} /\ CapabilitiesLoad
       /\ \/ \E addon \in Addons \cap Profiles : addon \notin answers
          \/ "authentication" \notin answers /\ AuthenticationLoads

\* The word in a message about a file; one file's name has "conflict" in it.
Naming(f, word) == IF f = ConflictTask THEN "conflict" ELSE word

Words == {"conflict", "missing", "invalid", "action"}
FileErrors(request, f) == {word \in Words :
    \/ word = Naming(f, "missing") /\ disk[f] = "absent"
    \/ /\ word = Naming(f, "invalid")
       /\ disk[f] = "symlink" \/ (disk[f] = "wrong mode" /\ request \in Current)
    \/ /\ word = "invalid"
       /\ disk[f] = "unsafe" \/ (f \in Baselines /\ disk[f] = "malformed")
    \/ word = "action" /\ CatalogLoads /\ disk[f] \in {"old pin", "old action"}
    \/ word = "missing" /\ CatalogLoads /\ disk[f] = "old action" }

Errors == UNION {
    IF Competing THEN {"conflict"} ELSE {},
    IF Lacking THEN {"missing"} ELSE {},
    IF Unsound THEN {"invalid"} ELSE {},
    UNION {UNION {FileErrors(request, f) : f \in Declared(request)} : request \in Manifested} }

\* Mutation: a text is compared with those of all releases.
ChangedFromAll(request, f) == disk[f] \in Damages \ {"symlink", "wrong mode"}

Changed(request, f) ==
    /\ request \in Current
    /\ disk[f] \notin {"absent", "symlink", "wrong mode", TextOf(manifest[request].release, f)}
Warnings == \E request \in Manifested : \E f \in Declared(request) : Changed(request, f)

Status == LET errors == Errors IN
    CASE \A request \in Requests : manifest[request] = NoManifest -> "unverifiable_legacy_installation"
      [] errors = {} /\ Manifested # Current -> "unverifiable_legacy_installation"
      [] "conflict" \in errors -> "conflict"
      [] "missing" \in errors /\ "conflict" \notin errors -> "partial"
      [] errors # {} /\ errors \cap {"conflict", "missing"} = {} -> "invalid"
      [] errors = {} /\ Manifested = Current /\ Warnings -> "valid_with_local_changes"
      [] OTHER -> "valid"

VerifyExit ==
    CASE ~inventories -> 2
      [] inventories /\ Status = "valid" -> 0
      [] inventories /\ Status \in {"valid_with_local_changes", "unverifiable_legacy_installation"} -> 1
      [] OTHER -> 2

-----------------------------------------------------------------------------
(* plan_vibesec_upgrade, against the bundle of a release                    *)

Bundles == {v \in Releases : Source[v] = "bundle"}

\* Only action pins may be wrong.
Recoverable == Errors = {"action"}
Plannable == LET status == Status IN
    \/ status \in {"valid", "valid_with_local_changes", "unverifiable_legacy_installation"}
    \/ status = "invalid" /\ Recoverable

Proposed(v) == UNION {Shipped[v][request] : request \in Manifested}
\* The bundle holds the template of an add-on's workflow, never what is generated from it.
AddonWorkflows == {Workflow(addon) : addon \in Addons}
ProposedText(v, f) == IF f \in AddonWorkflows THEN "template" ELSE TextOf(v, f)
RecordedText(f) ==
    LET request == CHOOSE r \in Manifested : f \in Declared(r) IN
    IF request \in Current THEN TextOf(manifest[request].release, f) ELSE "unknown"

Planned(v) == Tracked \cup Proposed(v) \cup {f \in {Verification} : RegularFile(f)}

IsSuppressions(f) == "suppressions" \in {f[1], f[2]}

\* Mutation: what was recorded is taken for what is there.
ClassifyRecorded(v, f) ==
    IF f \in Tracked /\ RecordedText(f) = ProposedText(v, f) THEN "unchanged" ELSE "both_modified"

Classify(v, f) ==
    LET old == RecordedText(f)  new == ProposedText(v, f)  actual == disk[f] IN
    CASE f = Verification -> "release_metadata_preserve"
      [] f \in Generated -> "capability_preserve"
      [] f \in Baselines -> "baseline_preserve"
      [] IsSuppressions(f) -> "suppression_preserve"
      [] OTHER ->
    CASE f \notin Tracked -> "add"
      [] f \in Tracked \ Proposed(v) -> "remove_candidate"
      [] OTHER ->
    CASE old = "unknown" -> "unknown_legacy_state"
      [] old # "unknown" /\ f \in Workflows /\ InstalledVersions # {Version[v]} ->
            "workflow_support_version_mismatch"
      [] OTHER ->
    CASE f = Thresholds /\ old # new -> "policy_review_required"
      [] actual = old /\ old = new -> "unchanged"
      [] actual # old /\ old = new -> "locally_modified_upstream_unchanged"
      [] f # Thresholds /\ actual = old /\ old # new -> "upstream_changed_local_unmodified"
      [] f # Thresholds /\ actual # old /\ old # new -> "both_modified"

ByHand == {"both_modified", "baseline_preserve", "suppression_preserve", "capability_preserve",
           "release_metadata_preserve", "policy_review_required",
           "workflow_support_version_mismatch", "unknown_legacy_state"}
Quiet == {"unchanged", "baseline_preserve", "suppression_preserve", "capability_preserve"}

PlanExit(v) ==
    CASE ~Plannable -> 2
      [] Plannable /\ ~inventories -> 1   \* a ValueError that nobody catches
      [] Plannable /\ inventories ->
            IF /\ \A f \in Planned(v) : Classify(v, f) \in Quiet \ ByHand
               /\ Status # "unverifiable_legacy_installation"
            THEN 0 ELSE 1

-----------------------------------------------------------------------------
(* vibesec_doctor, on a host that it has nothing to say about               *)

\* _auth_workflow_problems.  Only the steps of two of the three add-ons are known as
\* places for the secret.
SecretProblem(addon) ==
    /\ RegularFile(Workflow(addon))
    /\ \/ disk[Workflow(addon)] = "unsafe"
       \/ /\ "authentication" \in answers
          /\ \/ addon \notin secrets \/ addon = "api-fuzzing"
             \/ disk[Authentication] \notin {"generated", "wrong mode"}
       \/ "authentication" \notin answers /\ addon \in secrets

DoctorErrors ==
    \/ ~inventories
    \/ Errors # {}
    \/ ~CapabilitiesLoad
    \/ CapabilitiesLoad /\ \E addon \in Addons : ~(addon \in Profiles <=> addon \in answers)
    \/ CapabilitiesLoad /\ "authentication" \in answers /\ ~AuthenticationLoads
    \/ CapabilitiesLoad /\ \E addon \in Addons : SecretProblem(addon)
    \/ \E w \in Workflows : disk[w] \in {"old pin", "old action"}
    \/ disk[Thresholds] = "malformed"
    \/ \E addon \in Configured \cap Profiles : disk[Configuration(addon)] \in {"absent", "malformed"}
    \/ InstalledSources = {"bundle"} /\ disk[Verification] \in {"malformed", "symlink"}

\* Mutation: the stage is taken for installed when its file is there.
WorkflowPending == <<"standard", "support">> \in Manifested /\ disk[Workflow("standard")] = "absent"

StandardPending == <<"standard", "support">> \in Manifested /\ <<"standard", "workflow">> \notin Manifested
                       /\ "minimal" \notin Profiles

DoctorWarnings ==
    \/ Status # "valid" \/ Warnings \/ StandardPending
    \/ InstalledSources = {"bundle"} /\ disk[Verification] = "absent"

DoctorExit == IF DoctorErrors THEN 2 ELSE IF DoctorWarnings THEN 1 ELSE 0

-----------------------------------------------------------------------------
\* An installation that is called valid is what its manifests say, to the last byte,
\* whatever was killed or edited before, and its answers are those that it was made
\* for: nothing is taken for intact because the message about it had another name or
\* because another check was skipped.
ValidIsIntact == Status = "valid" =>
    /\ \A request \in Manifested : \A f \in Declared(request) : disk[f] = TextOf(manifest[request].release, f)
    /\ Profiles \cap Addons \subseteq answers
    /\ "authentication" \in answers <=> AuthenticationLoads

\* An add-on that builds on something that is itself installed.
BuildsOnInstalled(request) ==
    /\ request[1] = "api-fuzzing" => "api-security-baseline" \in Profiles
    /\ request = <<"standard", "workflow">> => <<"standard", "support">> \in Manifested

\* A further initialisation from the same release, which is only checked against the
\* files that it needs and not against the manifests, keeps a valid installation valid.
InitKeepsValid == [][
    \A v \in Releases, request \in Requests :
        /\ mishaps' = mishaps   \* an initialisation, from its first to its last entry
        /\ manifest[request] = NoManifest /\ manifest'[request].release = v
        /\ InstalledVersions = {Version[v]} /\ InstalledSources = {Source[v]}
        /\ BuildsOnInstalled(request)
        /\ Status = "valid"
        => Status' = "valid" ]_vars

\* A valid installation can be completed: the preflight of an add-on that the answers
\* ask for, or of the workflow stage, finds nothing in its way, unless the user or a
\* command that was killed left something where it writes.
Completes(request) ==
    \/ request[2] = "addon" /\ request[1] \in answers
    \/ request = <<"standard", "workflow">>
ValidCanGrow == Status = "valid" /\ cut = {} =>
    \A v \in Releases, request \in Requests :
        /\ request \notin Manifested /\ Completes(request)
        /\ InstalledVersions = {Version[v]} /\ InstalledSources = {Source[v]}
        /\ BuildsOnInstalled(request)
        /\ Profiles \cap Bases # {}
        /\ touched \cap Plan(v, request, FALSE) = {}
        => Prerequisites(v, request) /\ NoConflict(v, request, "authentication" \in answers)

\* What init wrote, in whatever stages and with whatever answers, and nobody touched,
\* is valid.  An upgrade to the same release finds no file to add, to merge or to
\* remove; but it calls the workflows of add-ons changed upstream, for it compares
\* what was generated from a template with the template.  And once the add-ons that
\* were asked for are installed the doctor has errors with one combination of answers
\* and with no other: of the fuzzing workflow it does not know the step that holds
\* the secret.
UntouchedIsAccepted ==
    /\ mishaps = 0 /\ Manifested # {} /\ Manifested = Current
    /\ \E v \in Releases : InstalledVersions = {Version[v]} /\ InstalledSources = {Source[v]}
    =>
    /\ Status = "valid"
    /\ \A v \in Bundles : Version[v] \in InstalledVersions =>
          /\ PlanExit(v) # 2
          /\ \A f \in Planned(v) : IF f \in AddonWorkflows
                                   THEN Classify(v, f) = "upstream_changed_local_unmodified"
                                   ELSE Classify(v, f) \in Quiet
    /\ Addons \cap answers \subseteq Profiles =>
          (DoctorErrors <=> {"api-fuzzing", "authentication"} \subseteq answers)

\* The planner never takes a text of the user for that of a release: no recorded file
\* that the user changed is reported as unchanged or as changed upstream only.  (One
\* that the other release does not ship is a candidate for removal whatever its text.)
UserTextIsSeen == touched # {} /\ Plannable => \A f \in touched \cap Tracked, v \in Bundles :
    disk[f] # RecordedText(f)
        => Classify(v, f) \notin {"unchanged", "upstream_changed_local_unmodified"}

\* What it reports as safe to add is not there, whatever was killed before, unless the
\* user put a file of that name there or removed a manifest: the planner does not look.
OfferedIsFree == Plannable => \A v \in Bundles : \A f \in Planned(v) :
    disk[f] # "absent" /\ Classify(v, f) = "add" => touched \cap {f, ManifestFile} # {}

\* The commands that judge an installation complain about what init wrote in two known
\* cases only, and take what a user wrote for it in one, a new file of the same name.
ReviewIsHonest == UntouchedIsAccepted /\ UserTextIsSeen /\ OfferedIsFree

\* An initialisation that was killed is noticed, as long as the user has not cleaned up
\* after it: the verifier and the doctor are not both content.  (Except for a Minimal
\* one that had not come to its manifest when the Standard profile was installed
\* instead: its workflow stays.)
InterruptionIsNoticed ==
    cut # {} /\ touched = {}
        /\ ~(cut = {<<"minimal", "all">>} /\ "minimal" \notin Profiles /\ "standard" \in Profiles)
        => ~(VerifyExit = 0 /\ DoctorExit = 0)
=============================================================================
