----------------------------- MODULE Installation -----------------------------
(***************************************************************************)
(* A repository that VibeSec Guardian is initialised into, over its life:  *)
(* `vibesec init --write` in any order of profiles, stages and add-ons, of *)
(* any release and with any answers (scripts/init_vibesec.py), commands    *)
(* that are killed half-way, and the user, who edits what is there.        *)
(*                                                                         *)
(* One initialisation is one step, all of its plan or nothing: that is     *)
(* what SuccessIsComplete and FailureLeavesNothing of InitWriter say.  A   *)
(* killed one leaves the beginning of its plan.                            *)
(*                                                                         *)
(* A file is a pair of what it is for and whose it is.  Its text is the    *)
(* version that wrote it, or what a user made of it.  Scripts, documents   *)
(* and schemas, which are all treated alike, are one file.                 *)
(***************************************************************************)
EXTENDS Naturals, FiniteSets

CONSTANTS
    Releases,  \* bundles and source trees that can be initialised from
    Legacy,    \* those whose manifests had the first schema
    Version,   \* the development version of each
    Source,    \* and its source type
    Common,    \* the files that each ships to every installation
    Support,   \* the files that belong to each profile or add-on
    Stable,    \* files that all versions ship with the same text
    Place,     \* the order of the destinations, also of the manifest's
    MaxMishaps \* bound on killed commands and on steps of the user, together

Bases == {"minimal", "standard"}
Addons == {"dast-baseline", "api-security-baseline", "api-fuzzing"}
Requests == {<<"minimal", "all">>, <<"standard", "support">>, <<"standard", "workflow">>}
                \cup {<<addon, "addon">> : addon \in Addons}

Workflow(profile) == <<"workflow", profile>>
Baseline(profile) == <<"baseline", profile>>
Configuration(addon) == <<"configuration", addon>>
Configured == {"api-security-baseline", "api-fuzzing"}
Capabilities == <<"capabilities", "project">>
Authentication == <<"authentication", "project">>
Verification == <<"verification", "release">>   \* the record of a release verification
ManifestFile == <<"manifest", "installation">>   \* .vibesec/install-*.json
Workflows == {Workflow(profile) : profile \in Bases \cup Addons}
Baselines == {Baseline(profile) : profile \in Bases \cup Addons}
Generated == {Capabilities, Authentication} \cup {Configuration(addon) : addon \in Configured}
Files == (UNION {Common[v] : v \in Releases}) \cup (UNION {Support[p] : p \in Bases \cup Addons})
            \cup Workflows \cup Baselines \cup Generated \cup {Verification}

Versions == {Version[v] : v \in Releases}
\* What a user may make of a file: another well-formed text, one that cannot be
\* parsed, a link, other permissions; and of a workflow an unsafe trigger, an action
\* pin that is not approved, or the pin and the comment of an old release.
Damages == {"edited", "malformed", "symlink", "wrong mode", "unsafe", "old pin", "old action"}
Texts == Versions \cup {"absent", "same", "generated"} \cup Damages
Present == Texts \ {"absent"}

NoManifest == [release |-> "none", bearer |-> FALSE]
BadManifest == [release |-> "malformed", bearer |-> FALSE]
Manifests == [release: Releases, bearer: BOOLEAN] \cup {NoManifest, BadManifest}

ASSUME ReleasesAssumption ==
    /\ Legacy \subseteq Releases
    /\ Common \in [Releases -> SUBSET ({"common"} \X STRING)]
    /\ Support \in [Bases \cup Addons -> SUBSET ({"baseline", "suppressions", "support"} \X STRING)]
    /\ \A p \in Bases \cup Addons : Support[p] \cap Baselines = {Baseline(p)}
    /\ \A p \in Addons, q \in Bases \cup Addons : p # q => Support[p] \cap Support[q] = {}
    /\ {"none", "malformed"} \cap Releases = {}
    /\ Versions \cap ({"absent", "same", "generated", "unknown", "template"} \cup Damages) = {}
    /\ \A v, w \in Releases : Version[v] = Version[w] => Common[v] = Common[w]
    /\ Place \in [Files \cup {ManifestFile} -> Nat]
    /\ MaxMishaps \in Nat

\* All that a first stage copies, and the answers, come after .vibesec/install-*.
ASSUME PlaceAssumption ==
    \A f \in {Capabilities} \cup (UNION {Common[v] : v \in Releases})
                 \cup Support["minimal"] \cup Support["standard"] :
        Place[ManifestFile] < Place[f]

VARIABLES
    disk,      \* what is at each path
    manifest,  \* the installation manifest of each request
    answers,   \* what the capability manifest says of targets and authentication
    secrets,   \* add-ons whose workflow was generated with the secret in it
    inventories,  \* whether extensions and agent guidance verify
    cut,       \* initialisations that were killed and not repeated
    touched,   \* files the user changed
    mishaps

vars == <<disk, manifest, answers, secrets, inventories, cut, touched, mishaps>>

\* validate_capabilities, as far as targets and authentication depend on each other
\* (what they need besides is then answered with yes).
Consistent(a) ==
    /\ "api-fuzzing" \in a => "api-security-baseline" \in a
    /\ "authentication" \in a => a \cap {"dast-baseline", "api-security-baseline"} # {}
Answers == {a \in SUBSET (Addons \cup {"authentication"}) : Consistent(a)}

\* The catalog of a release: what a request copies.
Shipped == [v \in Releases |-> [request \in Requests |->
    LET profile == request[1]  stage == request[2] IN
    UNION { IF stage \in {"all", "support"} THEN Common[v] ELSE {},
            IF stage # "workflow" THEN Support[profile] ELSE {},
            IF stage # "support" THEN {Workflow(profile)} ELSE {} }]]

\* What it generates: the answers and the secret's name with the first stage, the
\* configuration of an add-on that has one.
Rendered == [request \in Requests |-> [bearer \in BOOLEAN |->
    LET profile == request[1]  stage == request[2] IN
    UNION { IF stage \in {"all", "support"} THEN {Capabilities} ELSE {},
            IF stage \in {"all", "support"} /\ bearer THEN {Authentication} ELSE {},
            IF profile \in Configured THEN {Configuration(profile)} ELSE {} }]]

\* installed_files of a manifest
Declared(request) ==
    LET m == manifest[request] IN
    Shipped[m.release][request] \cup (IF m.release \in Legacy THEN {} ELSE Rendered[request][m.bearer])

\* The text with which a release writes a file.  Those of an add-on's workflow are
\* generated from the template: markers in it are replaced.
TextOf(v, f) == CASE f \in Generated -> "generated"
                  [] f \in Stable \ Generated -> "same"
                  [] OTHER -> Version[v]

Manifested == {request \in Requests : manifest[request].release \in Releases}
Profiles == {request[1] : request \in Manifested}

Init ==
    /\ \/ /\ disk = [f \in Files |-> "absent"]
          /\ manifest = [request \in Requests |-> NoManifest]
       \/ \E v \in Legacy : LET minimal == <<"minimal", "all">> IN
          /\ disk = [f \in Files |-> IF f \in Shipped[v][minimal] THEN TextOf(v, f) ELSE "absent"]
          /\ manifest = [[request \in Requests |-> NoManifest] EXCEPT ![minimal].release = v]
    /\ answers = {} /\ secrets = {}
    /\ inventories = TRUE
    /\ cut = {} /\ touched = {} /\ mishaps = 0

-----------------------------------------------------------------------------
(* main of init_vibesec, up to the plan                                     *)

RegularFile(f) == disk[f] \notin {"absent", "symlink"}

\* load_capabilities_file and load_configuration succeed.
CapabilitiesLoad == RegularFile(Capabilities) /\ disk[Capabilities] # "malformed"
AuthenticationLoads == RegularFile(Authentication) /\ disk[Authentication] # "malformed"

\* Mutation: what an add-on builds on is not looked for.
NoPrerequisites(v, request) == request[2] \in {"addon", "workflow"} => CapabilitiesLoad

\* Add-ons and the workflow stage build on what is there.
Prerequisites(v, request) ==
    LET profile == request[1]  stage == request[2] IN
    stage \in {"addon", "workflow"} =>
        /\ \A f \in Common[v] : RegularFile(f)
        /\ stage = "workflow" => \A f \in Support[profile] : RegularFile(f)
        /\ CapabilitiesLoad
        /\ "authentication" \in answers => AuthenticationLoads
        /\ stage = "addon" => profile \in answers
        /\ profile = "api-fuzzing" => disk[Configuration("api-security-baseline")] # "absent"

\* The answers after it: those of the options or the questionnaire with the first
\* stage, and else those that are there.
AnswersOf(request) == IF request[2] \in {"all", "support"} THEN Answers ELSE {answers}

Plan(v, request, bearer) == Shipped[v][request] \cup Rendered[request][bearer] \cup {ManifestFile}

\* Mutation: an installation of anything is in the way.
NothingInstalled(v, request, bearer) == Manifested = {}

NoConflict(v, request, bearer) ==
    /\ manifest[request] = NoManifest
    /\ \A f \in Plan(v, request, bearer) \ {ManifestFile} : disk[f] = "absent"

\* Some entries of the plan.
Write(v, request, a, entries) ==
    LET bearer == "authentication" \in a IN
    /\ Prerequisites(v, request)
    /\ NoConflict(v, request, bearer)
    /\ disk' = [f \in Files |-> IF f \in entries THEN TextOf(v, f) ELSE disk[f]]
    /\ manifest' = IF ManifestFile \in entries
                   THEN [manifest EXCEPT ![request] = [release |-> v, bearer |-> bearer]]
                   ELSE manifest
    /\ answers' = IF Capabilities \in entries THEN a ELSE answers
    /\ secrets' = IF bearer THEN secrets \cup {p \in Addons : Workflow(p) \in entries} ELSE secrets
    /\ UNCHANGED <<inventories, touched>>

Initialise(v, request) ==
    /\ v \notin Legacy
    /\ \E a \in AnswersOf(request) : Write(v, request, a, Plan(v, request, "authentication" \in a))
    /\ cut' = cut \ {request} /\ UNCHANGED mishaps

Mishap == mishaps < MaxMishaps /\ mishaps' = mishaps + 1

\* Between two entries of the plan, after the first and before the last.
Killed(v, request) ==
    /\ v \notin Legacy
    /\ Mishap
    /\ \E a \in AnswersOf(request) :
          LET plan == Plan(v, request, "authentication" \in a) IN
          \E f \in plan : LET written == {g \in plan : Place[g] < Place[f]} IN
                          written # {} /\ Write(v, request, a, written)
    /\ cut' = cut \cup {request}

-----------------------------------------------------------------------------
(* The user, and what else is done to the repository                        *)

Parsed == Generated \cup Baselines \cup {<<"common", "catalog">>, <<"common", "thresholds">>, Verification}
\* What makes sense for a file.
DamagesOf(f) == {"edited", "symlink", "wrong mode", "absent"}
                    \cup (IF f \in Parsed THEN {"malformed"} ELSE {})
                    \cup (IF f \in Workflows THEN {"unsafe", "old pin", "old action"} ELSE {})

UserEdits(f) ==
    /\ Mishap
    /\ \E text \in DamagesOf(f) \ {disk[f]} :
          /\ disk[f] = "absent" => text = "edited"
          /\ disk' = [disk EXCEPT ![f] = text]
    /\ touched' = touched \cup {f}
    /\ answers' = IF disk'[Capabilities] = "absent" THEN {} ELSE answers
    /\ secrets' = {p \in secrets : disk'[Workflow(p)] # "absent"}
    /\ UNCHANGED <<manifest, inventories, cut>>

UserAnswers ==
    /\ Mishap
    /\ \E a \in Answers \ {answers} : answers' = a
    /\ CapabilitiesLoad
    /\ disk' = [disk EXCEPT ![Capabilities] = "edited"]
    /\ touched' = touched \cup {Capabilities}
    /\ UNCHANGED <<manifest, secrets, inventories, cut>>

\* A reviewed file of another release is copied over the installed one by hand.
UserAdopts(v, f) ==
    /\ Mishap
    /\ f \in Common[v] /\ v \notin Legacy /\ disk[f] # TextOf(v, f)
    /\ disk' = [disk EXCEPT ![f] = TextOf(v, f)]
    /\ touched' = touched \cup {f}
    /\ UNCHANGED <<manifest, answers, secrets, inventories, cut>>

UserDamagesManifest(request) ==
    /\ Mishap
    /\ manifest[request] # NoManifest
    /\ \E m \in {NoManifest, BadManifest} \ {manifest[request]} :
          manifest' = [manifest EXCEPT ![request] = m]
    /\ touched' = touched \cup {ManifestFile}
    /\ UNCHANGED <<disk, answers, secrets, inventories, cut>>

\* A managed extension or a managed guidance file is changed.
UserDamagesInventory ==
    /\ Mishap
    /\ inventories' = FALSE
    /\ UNCHANGED <<disk, manifest, answers, secrets, cut, touched>>

User == \/ \E f \in Files : UserEdits(f)
        \/ UserAnswers
        \/ UserDamagesInventory
        \/ \E v \in Releases, f \in Files : UserAdopts(v, f)
        \/ \E request \in Requests : UserDamagesManifest(request)

Next == \/ \E v \in Releases, request \in Requests : Initialise(v, request) \/ Killed(v, request)
        \/ User

Spec == Init /\ [][Next]_vars

-----------------------------------------------------------------------------
\* Types of what is in the repository.
TypeOK ==
    /\ disk \in [Files -> Texts]
    /\ manifest \in [Requests -> Manifests]
    /\ answers \in Answers /\ secrets \subseteq Addons
    /\ inventories \in BOOLEAN
    /\ cut \subseteq Requests /\ touched \subseteq Files \cup {ManifestFile}
    /\ mishaps \in 0..MaxMishaps
=============================================================================
