-------------------------- MODULE InstallationProofs --------------------------
(***************************************************************************)
(* Proofs about a repository over its life (Installation) and about the    *)
(* commands that judge it (InstallationReview): for every set of releases, *)
(* whatever they ship, and for any number of kills and changes.            *)
(***************************************************************************)
EXTENDS InstallationReview, FiniteSetTheorems, TLAPS

-----------------------------------------------------------------------------
(* Files and plans.                                                         *)

\* The requests that start an installation, and those that build on one.
First == {<<"minimal", "all">>, <<"standard", "support">>}
Later == {<<"standard", "workflow">>} \cup {<<addon, "addon">> : addon \in Addons}

LEMMA RequestKinds == Requests = First \cup Later /\ First \cap Later = {}
  BY DEF Requests, First, Later, Addons

\* What kind of file it is tells the sets of the catalog apart.
LEMMA FileKinds ==
    /\ \A v \in Releases : \A f \in Common[v] : f[1] = "common"
    /\ \A p \in Bases \cup Addons : \A f \in Support[p] : f[1] \in {"baseline", "suppressions", "support"}
    /\ \A p : Workflow(p)[1] = "workflow" /\ Configuration(p)[1] = "configuration"
    /\ \A p, q : Workflow(p) = Workflow(q) => p = q
    /\ \A p, q : Configuration(p) = Configuration(q) => p = q
    /\ Capabilities[1] = "capabilities" /\ Authentication[1] = "authentication"
    /\ ManifestFile[1] = "manifest"
  BY ReleasesAssumption DEF Workflow, Configuration, Capabilities, Authentication, ManifestFile

LEMMA FileKindsOfAll == ManifestFile \notin Files
<1>1. \A f \in Workflows \cup Baselines \cup Generated \cup {Verification} : f[1] # "manifest"
  BY DEF Workflows, Workflow, Baselines, Baseline, Generated, Capabilities, Authentication,
         Configuration, Verification
<1>2. QED
  BY <1>1, FileKinds DEF Files

LEMMA VersionTexts ==
    ASSUME NEW v \in Releases, NEW f
    PROVE  /\ TextOf(v, f) \in Versions \cup {"same", "generated"}
           /\ TextOf(v, f) \in Texts \ ({"absent"} \cup Damages)
  <1>1. TextOf(v, f) \in Versions \cup {"same", "generated"}
    BY DEF TextOf, Versions
  <1>2. {"same", "generated"} \cap ({"absent"} \cup Damages) = {}
    BY DEF Damages
  <1>3. Versions \cap ({"absent"} \cup Damages) = {}
    BY ReleasesAssumption
  <1>4. QED
    BY <1>1, <1>2, <1>3 DEF Texts

LEMMA ShippedBy ==
    ASSUME NEW v \in Releases, NEW request \in Requests
    PROVE  Shipped[v][request] =
             UNION { IF request[2] \in {"all", "support"} THEN Common[v] ELSE {},
                     IF request[2] # "workflow" THEN Support[request[1]] ELSE {},
                     IF request[2] # "support" THEN {Workflow(request[1])} ELSE {} }
  BY DEF Shipped

\* Releases that share the common files ship the same.
LEMMA ShippedAlike ==
    ASSUME NEW v \in Releases, NEW w \in Releases, Common[v] = Common[w], NEW request \in Requests
    PROVE  Shipped[v][request] = Shipped[w][request]
<1>1. \A x \in {v, w} : \A f : f \in Shipped[x][request] <=>
          \/ request[2] \in {"all", "support"} /\ f \in Common[v]
          \/ request[2] # "workflow" /\ f \in Support[request[1]]
          \/ request[2] # "support" /\ f = Workflow(request[1])
  BY ShippedBy
<1>2. QED
  BY <1>1

LEMMA RenderedBy ==
    ASSUME NEW request \in Requests, NEW bearer \in BOOLEAN
    PROVE  Rendered[request][bearer] =
             UNION { IF request[2] \in {"all", "support"} THEN {Capabilities} ELSE {},
                     IF request[2] \in {"all", "support"} /\ bearer THEN {Authentication} ELSE {},
                     IF request[1] \in Configured THEN {Configuration(request[1])} ELSE {} }
  BY DEF Rendered

\* A plan, but for the manifest.
Entries(v, request, bearer) == Shipped[v][request] \cup Rendered[request][bearer]

\* The first request ships what all share and the answers.
LEMMA FirstEntries ==
    ASSUME NEW v \in Releases, NEW request \in First, NEW bearer \in BOOLEAN
    PROVE  Common[v] \cup {Capabilities} \cup Support[request[1]] \subseteq Entries(v, request, bearer)
<1>1. request \in Requests /\ request[2] \in {"all", "support"}
  BY DEF First, Requests
<1>2. QED
  BY <1>1, ShippedBy, RenderedBy DEF Entries

\* The others add their own, whichever the release is and whatever the answers are.
Own(request) ==
    UNION { IF request[2] = "addon" THEN Support[request[1]] ELSE {},
            {Workflow(request[1])},
            IF request[1] \in Configured THEN {Configuration(request[1])} ELSE {} }

LEMMA LaterEntries ==
    ASSUME NEW v \in Releases, NEW request \in Later, NEW bearer \in BOOLEAN
    PROVE  /\ Entries(v, request, bearer) = Own(request)
           /\ Shipped[v][request] = Own(request) \ {Configuration(request[1])}
<1>1. request \in Requests /\ request[2] \in {"workflow", "addon"}
  BY RequestKinds DEF Later
<1>2. request[1] \in Bases \cup Addons
  BY DEF Later, Bases
<1>3. \A f \in Support[request[1]] \cup {Workflow(request[1])} : f # Configuration(request[1])
  BY <1>2, FileKinds
<1>4. Shipped[v][request] =
        (IF request[2] = "addon" THEN Support[request[1]] ELSE {}) \cup {Workflow(request[1])}
  BY <1>1, ShippedBy
<1>5. Rendered[request][bearer] = IF request[1] \in Configured THEN {Configuration(request[1])} ELSE {}
  BY <1>1, RenderedBy
<1>6. QED
  BY <1>3, <1>4, <1>5 DEF Entries, Own

\* What a request adds of its own is in no other plan.
LEMMA OwnIsApart ==
    ASSUME NEW v \in Releases, NEW bearer \in BOOLEAN,
           NEW request \in Later, NEW other \in Requests, other # request
    PROVE  Own(request) \cap Entries(v, other, bearer) = {}
<1>1. request[1] \in Bases \cup Addons /\ other[1] \in Bases \cup Addons
  BY DEF Later, Requests, Bases
<1>2. \A f \in Own(request) : \/ request[2] = "addon" /\ f \in Support[request[1]]
                              \/ f = Workflow(request[1])
                              \/ f = Configuration(request[1]) /\ request[1] \in Configured
  BY DEF Own
<1>3. \A f \in Entries(v, other, bearer) :
        \/ other[2] \in {"all", "support"} /\ (f \in Common[v] \/ f \in {Capabilities, Authentication})
        \/ other[2] # "workflow" /\ f \in Support[other[1]]
        \/ other[2] # "support" /\ f = Workflow(other[1])
        \/ other[1] \in Configured /\ f = Configuration(other[1])
  BY ShippedBy, RenderedBy DEF Entries
<1>4. request[1] = other[1] => other = <<"standard", "support">> /\ request = <<"standard", "workflow">>
  BY DEF Requests, Later, Addons
<1>5. request[2] = "addon" => request[1] \in Addons
  BY DEF Later
<1>6. request[2] = "addon" => Support[request[1]] \cap Support[other[1]] = {}
  <2>1. ASSUME request[2] = "addon" PROVE request[1] # other[1]
    BY <1>4, <2>1
  <2>2. QED
    BY <1>1, <1>5, <2>1, ReleasesAssumption
<1>7. SUFFICES ASSUME NEW f \in Own(request), f \in Entries(v, other, bearer) PROVE FALSE
  OBVIOUS
<1>8. CASE request[2] = "addon" /\ f \in Support[request[1]]
  BY <1>1, <1>3, <1>6, <1>7, <1>8, FileKinds
<1>9. CASE f = Workflow(request[1])
  <2>1. other[2] # "support" /\ f = Workflow(other[1])
    BY <1>1, <1>3, <1>7, <1>9, FileKinds
  <2>2. request[1] = other[1]
    BY <1>9, <2>1, FileKinds
  <2>3. QED
    BY <1>4, <2>1, <2>2
<1>10. CASE f = Configuration(request[1]) /\ request[1] \in Configured
  <2>1. f = Configuration(other[1])
    BY <1>1, <1>3, <1>7, <1>10, FileKinds
  <2>2. request[1] = other[1]
    BY <1>10, <2>1, FileKinds
  <2>3. QED
    BY <1>4, <1>10, <2>2 DEF Configured
<1>11. QED
  BY <1>2, <1>7, <1>8, <1>9, <1>10

-----------------------------------------------------------------------------
(* Types.                                                                   *)

LEMMA InitialTypes == Init => TypeOK
<1> SUFFICES ASSUME Init PROVE TypeOK
  OBVIOUS
<1>1. {} \in Answers /\ "absent" \in Texts /\ NoManifest \in Manifests
  BY DEF Answers, Consistent, Texts, Manifests
<1>2. disk \in [Files -> Texts] /\ manifest \in [Requests -> Manifests]
  <2>1. CASE disk = [f \in Files |-> "absent"] /\ manifest = [request \in Requests |-> NoManifest]
    BY <1>1, <2>1
  <2>2. ASSUME NEW v \in Legacy,
               disk = [f \in Files |-> IF f \in Shipped[v][<<"minimal", "all">>] THEN TextOf(v, f) ELSE "absent"],
               manifest = [[request \in Requests |-> NoManifest] EXCEPT ![<<"minimal", "all">>].release = v]
        PROVE  disk \in [Files -> Texts] /\ manifest \in [Requests -> Manifests]
    <3>1. v \in Releases
      BY ReleasesAssumption
    <3>2. \A f \in Files : TextOf(v, f) \in Texts
      BY <3>1, VersionTexts
    <3>3. [NoManifest EXCEPT !.release = v] \in Manifests
      BY <3>1 DEF NoManifest, Manifests
    <3>4. QED
      BY <1>1, <2>2, <3>2, <3>3
  <2>3. QED
    BY <2>1, <2>2 DEF Init
<1>3. QED
  BY <1>1, <1>2, ReleasesAssumption DEF Init, TypeOK

LEMMA WriteTypes ==
    ASSUME TypeOK, NEW v \in Releases, NEW request \in Requests, NEW a \in AnswersOf(request),
           NEW entries, Write(v, request, a, entries)
    PROVE  /\ disk' \in [Files -> Texts] /\ manifest' \in [Requests -> Manifests]
           /\ answers' \in Answers /\ secrets' \subseteq Addons
           /\ inventories' \in BOOLEAN /\ touched' \subseteq Files \cup {ManifestFile}
<1>1. disk' \in [Files -> Texts]
  BY VersionTexts DEF TypeOK, Write
<1>2. manifest' \in [Requests -> Manifests]
  <2>1. [release |-> v, bearer |-> "authentication" \in a] \in Manifests
    BY DEF Manifests
  <2>2. QED
    BY <2>1 DEF TypeOK, Write
<1>3. answers' \in Answers /\ secrets' \subseteq Addons
  BY DEF TypeOK, Write, AnswersOf
<1>4. QED
  BY <1>1, <1>2, <1>3 DEF TypeOK, Write

LEMMA UserTypes == TypeOK /\ User => TypeOK'
<1> SUFFICES ASSUME TypeOK, User PROVE TypeOK'
  OBVIOUS
<1>1. Mishap => mishaps' \in 0..MaxMishaps
  BY ReleasesAssumption DEF Mishap, TypeOK
<1>2. ASSUME NEW f \in Files, UserEdits(f) PROVE TypeOK'
  <2>1. DamagesOf(f) \subseteq Texts
    BY DEF DamagesOf, Texts, Damages
  <2>2. {} \in Answers
    BY DEF Answers, Consistent
  <2>3. PICK text \in DamagesOf(f) : disk' = [disk EXCEPT ![f] = text]
    BY <1>2 DEF UserEdits
  <2>4. disk' \in [Files -> Texts]
    BY <2>1, <2>3 DEF TypeOK
  <2>5. QED
    BY <1>1, <1>2, <2>2, <2>4 DEF UserEdits, TypeOK
<1>3. CASE UserAnswers
  <2>1. "edited" \in Texts /\ disk' = [disk EXCEPT ![Capabilities] = "edited"]
    BY <1>3 DEF UserAnswers, Texts, Damages
  <2>2. Capabilities \in Files
    <3>1. Capabilities \in Generated
      BY DEF Generated
    <3>2. QED
      BY <3>1 DEF Files
  <2>3. QED
    BY <1>1, <1>3, <2>1, <2>2 DEF UserAnswers, TypeOK
<1>4. CASE UserDamagesInventory
  BY <1>1, <1>4 DEF UserDamagesInventory, TypeOK
<1>5. ASSUME NEW v \in Releases, NEW f \in Files, UserAdopts(v, f) PROVE TypeOK'
  <2>1. TextOf(v, f) \in Texts
    BY VersionTexts
  <2>2. disk' \in [Files -> Texts]
    BY <1>5, <2>1 DEF UserAdopts, TypeOK
  <2>3. QED
    BY <1>1, <1>5, <2>2 DEF UserAdopts, TypeOK
<1>6. ASSUME NEW request \in Requests, UserDamagesManifest(request) PROVE TypeOK'
  <2>1. NoManifest \in Manifests /\ BadManifest \in Manifests
    BY DEF Manifests
  <2>2. manifest' \in [Requests -> Manifests]
    BY <1>6, <2>1 DEF UserDamagesManifest, TypeOK
  <2>3. QED
    BY <1>1, <1>6, <2>2 DEF UserDamagesManifest, TypeOK
<1>7. QED
  BY <1>2, <1>3, <1>4, <1>5, <1>6 DEF User

\* A killed command, as a command that writes some of its entries.
LEMMA KilledWrites ==
    ASSUME NEW v \in Releases, NEW request \in Requests, Killed(v, request)
    PROVE  \E a \in AnswersOf(request) : \E entries \in SUBSET Plan(v, request, "authentication" \in a) :
              Write(v, request, a, entries)
<1>1. PICK a \in AnswersOf(request) : \E f \in Plan(v, request, "authentication" \in a) :
        Write(v, request, a, {g \in Plan(v, request, "authentication" \in a) : Place[g] < Place[f]})
  BY DEF Killed
<1>2. PICK f \in Plan(v, request, "authentication" \in a) :
        Write(v, request, a, {g \in Plan(v, request, "authentication" \in a) : Place[g] < Place[f]})
  BY <1>1
<1> DEFINE entries == {g \in Plan(v, request, "authentication" \in a) : Place[g] < Place[f]}
<1>3. entries \in SUBSET Plan(v, request, "authentication" \in a) /\ Write(v, request, a, entries)
  BY <1>2
<1> HIDE DEF entries
<1>4. QED
  BY <1>3

LEMMA NextTypes == TypeOK /\ [Next]_vars => TypeOK'
<1> SUFFICES ASSUME TypeOK, [Next]_vars PROVE TypeOK'
  OBVIOUS
<1>1. ASSUME NEW v \in Releases, NEW request \in Requests, Initialise(v, request) PROVE TypeOK'
  <2>1. PICK a \in AnswersOf(request) : Write(v, request, a, Plan(v, request, "authentication" \in a))
    BY <1>1 DEF Initialise
  <2>2. QED
    BY <1>1, <2>1, WriteTypes DEF Initialise, TypeOK
<1>2. ASSUME NEW v \in Releases, NEW request \in Requests, Killed(v, request) PROVE TypeOK'
  <2>1. PICK a \in AnswersOf(request) : \E entries : Write(v, request, a, entries)
    BY <1>2, KilledWrites
  <2>2. PICK entries : Write(v, request, a, entries)
    BY <2>1
  <2>3. mishaps' \in 0..MaxMishaps /\ cut' \subseteq Requests
    BY <1>2, ReleasesAssumption DEF Killed, Mishap, TypeOK
  <2>4. QED
    BY <2>2, <2>3, WriteTypes DEF TypeOK
<1>3. CASE User
  BY <1>3, UserTypes
<1>4. CASE UNCHANGED vars
  BY <1>4 DEF vars, TypeOK
<1>5. QED
  BY <1>1, <1>2, <1>3, <1>4 DEF Next

\* The repository stays within the types of what may be in it.
THEOREM InstallationTyping == Spec => []TypeOK
  BY InitialTypes, NextTypes, PTL DEF Spec

-----------------------------------------------------------------------------
(* What is where a later request writes.                                    *)

\* Whatever is there, the request itself wrote, unless the user put it there or
\* removed the manifest.
Traceable ==
    \A request \in Later : \A f \in Own(request) \cap Files :
        disk[f] # "absent" => \/ request \in Manifested \/ request \in cut
                              \/ f \in touched \/ ManifestFile \in touched

LEMMA InitialTraces == Init => Traceable
<1> SUFFICES ASSUME Init, NEW request \in Later, NEW f \in Own(request) \cap Files
             PROVE  disk[f] = "absent"
  BY DEF Traceable
<1>1. CASE disk = [g \in Files |-> "absent"]
  BY <1>1
<1>2. ASSUME NEW v \in Legacy,
             disk = [g \in Files |-> IF g \in Shipped[v][<<"minimal", "all">>] THEN TextOf(v, g) ELSE "absent"]
      PROVE  disk[f] = "absent"
  <2>1. v \in Releases /\ <<"minimal", "all">> \in Requests /\ <<"minimal", "all">> # request
    BY ReleasesAssumption DEF Requests, Later
  <2>2. Own(request) \cap Entries(v, <<"minimal", "all">>, FALSE) = {}
    BY <2>1, OwnIsApart
  <2>3. f \notin Shipped[v][<<"minimal", "all">>]
    BY <2>2 DEF Entries
  <2>4. QED
    BY <1>2, <2>3
<1>3. QED
  BY <1>1, <1>2 DEF Init

\* Only a command of that request puts something there.
LEMMA WriteTraces ==
    ASSUME TypeOK, Traceable, NEW v \in Releases, NEW other \in Requests, NEW a \in AnswersOf(other),
           NEW entries \in SUBSET Plan(v, other, "authentication" \in a), Write(v, other, a, entries),
           \A q \in Requests \ {other} : q \in cut => q \in cut',
           other \in cut' \/ ManifestFile \in entries
    PROVE  Traceable'
<1> SUFFICES ASSUME NEW request \in Later, NEW f \in Own(request) \cap Files, disk'[f] # "absent"
             PROVE  \/ request \in Manifested' \/ request \in cut'
                    \/ f \in touched \/ ManifestFile \in touched
  BY DEF Traceable, Write
<1>1. request \in Requests
  BY RequestKinds
<1>2. CASE request = other
  <2>1. ManifestFile \in entries => manifest'[other].release = v
    BY DEF Write, TypeOK
  <2>2. QED
    BY <1>1, <1>2, <2>1 DEF Manifested
<1>3. CASE request # other
  <2>1. f \notin Entries(v, other, "authentication" \in a)
    <3>1. ("authentication" \in a) \in BOOLEAN
      OBVIOUS
    <3>2. Own(request) \cap Entries(v, other, "authentication" \in a) = {}
      BY <1>3, <3>1, OwnIsApart
    <3>3. QED
      BY <3>2
  <2>2. f # ManifestFile
    <3>1. request[1] \in Bases \cup Addons
      BY DEF Later, Bases
    <3>2. \A g \in Own(request) : g[1] # "manifest"
      BY <3>1, FileKinds DEF Own
    <3>3. QED
      BY <3>2, FileKinds
  <2>3. f \notin entries
    BY <2>1, <2>2 DEF Plan, Entries
  <2>4. disk'[f] = disk[f]
    BY <2>3 DEF Write
  <2>5. request \in Manifested => request \in Manifested'
    BY <1>3 DEF Manifested, Write, TypeOK
  <2>6. QED
    BY <1>1, <1>3, <2>4, <2>5 DEF Traceable
<1>4. QED
  BY <1>2, <1>3

LEMMA UserTraces == TypeOK /\ Traceable /\ User => Traceable'
<1> SUFFICES ASSUME TypeOK, Traceable, User,
                    NEW request \in Later, NEW f \in Own(request) \cap Files, disk'[f] # "absent"
             PROVE  \/ request \in Manifested' \/ request \in cut'
                    \/ f \in touched' \/ ManifestFile \in touched'
  BY DEF Traceable
<1>1. disk[f] # "absent" => \/ request \in Manifested \/ request \in cut
                            \/ f \in touched \/ ManifestFile \in touched
  BY DEF Traceable
<1>2. ASSUME NEW g \in Files, UserEdits(g) PROVE disk'[f] = disk[f] \/ f \in touched'
  BY <1>2 DEF UserEdits, TypeOK
<1>3. ASSUME UserAnswers PROVE disk'[f] = disk[f] \/ f \in touched'
  BY <1>3 DEF UserAnswers, TypeOK
<1>4. ASSUME NEW v \in Releases, NEW g \in Files, UserAdopts(v, g) PROVE disk'[f] = disk[f] \/ f \in touched'
  BY <1>4 DEF UserAdopts, TypeOK
<1>5. ASSUME NEW q \in Requests, UserDamagesManifest(q) PROVE ManifestFile \in touched'
  BY <1>5 DEF UserDamagesManifest
<1>6. QED
  BY <1>1, <1>2, <1>3, <1>4, <1>5 DEF User, UserEdits, UserAnswers, UserAdopts, UserDamagesInventory, Manifested

IInv == TypeOK /\ Traceable

\* Whatever is found where an add-on or the workflow stage would write has a
\* history.
THEOREM InstallationInvariant == Spec => []IInv
<1>1. Init => IInv
  BY InitialTypes, InitialTraces DEF IInv
<1>2. IInv /\ [Next]_vars => IInv'
  <2> SUFFICES ASSUME IInv, [Next]_vars PROVE Traceable'
    BY NextTypes DEF IInv
  <2>1. ASSUME NEW v \in Releases, NEW request \in Requests, Initialise(v, request) PROVE Traceable'
    <3>1. PICK a \in AnswersOf(request) : Write(v, request, a, Plan(v, request, "authentication" \in a))
      BY <2>1 DEF Initialise
    <3>2. ManifestFile \in Plan(v, request, "authentication" \in a)
      BY DEF Plan
    <3>3. \A q \in Requests \ {request} : q \in cut => q \in cut'
      BY <2>1 DEF Initialise
    <3>4. QED
      BY <3>1, <3>2, <3>3, WriteTraces DEF IInv
  <2>2. ASSUME NEW v \in Releases, NEW request \in Requests, Killed(v, request) PROVE Traceable'
    <3>1. PICK a \in AnswersOf(request) : \E entries \in SUBSET Plan(v, request, "authentication" \in a) :
            Write(v, request, a, entries)
      BY <2>2, KilledWrites
    <3>2. request \in cut' /\ \A q \in Requests : q \in cut => q \in cut'
      BY <2>2 DEF Killed
    <3>3. QED
      BY <3>1, <3>2, WriteTraces DEF IInv
  <2>3. CASE User
    BY <2>3, UserTraces DEF IInv
  <2>4. CASE UNCHANGED vars
    BY <2>4 DEF vars, IInv, Traceable, Manifested
  <2>5. QED
    BY <2>1, <2>2, <2>3, <2>4 DEF Next
<1>3. QED
  BY <1>1, <1>2, PTL DEF Spec

-----------------------------------------------------------------------------
(* What the verifier's status means.                                        *)

LEMMA ValidMeans ==
    Status = "valid" <=> /\ \E q \in Requests : manifest[q] # NoManifest
                         /\ Errors = {}
                         /\ Manifested = Current
                         /\ ~Warnings
<1> DEFINE errors == Errors
<1>1. Status = CASE \A request \in Requests : manifest[request] = NoManifest -> "unverifiable_legacy_installation"
      [] errors = {} /\ Manifested # Current -> "unverifiable_legacy_installation"
      [] "conflict" \in errors -> "conflict"
      [] "missing" \in errors /\ "conflict" \notin errors -> "partial"
      [] errors # {} /\ errors \cap {"conflict", "missing"} = {} -> "invalid"
      [] errors = {} /\ Manifested = Current /\ Warnings -> "valid_with_local_changes"
      [] OTHER -> "valid"
  BY DEF Status
<1> HIDE DEF errors
<1>2. errors # {} => \/ "conflict" \in errors
                     \/ "missing" \in errors /\ "conflict" \notin errors
                     \/ errors # {} /\ errors \cap {"conflict", "missing"} = {}
  OBVIOUS
<1>3. Status = "valid" <=> /\ \E request \in Requests : manifest[request] # NoManifest
                           /\ errors = {}
                           /\ Manifested = Current
                           /\ ~Warnings
  BY <1>1, <1>2
<1>4. QED
  BY <1>3 DEF errors

LEMMA ErrorParts ==
    Errors = {} <=> /\ ~Competing /\ ~Lacking /\ ~Unsound
                    /\ \A q \in Manifested : \A f \in Declared(q) : FileErrors(q, f) = {}
  BY DEF Errors

\* The same of the next state.
LEMMA ValidMeansNext ==
    (Status = "valid" <=> /\ \E q \in Requests : manifest[q] # NoManifest
                          /\ Errors = {}
                          /\ Manifested = Current
                          /\ ~Warnings)'
  BY ValidMeans, PTL

LEMMA ErrorPartsNext ==
    (Errors = {} <=> /\ ~Competing /\ ~Lacking /\ ~Unsound
                     /\ \A q \in Manifested : \A f \in Declared(q) : FileErrors(q, f) = {})'
  BY ErrorParts, PTL

LEMMA FineFile ==
    ASSUME NEW request, NEW f, FileErrors(request, f) = {}
    PROVE  /\ disk[f] \notin {"absent", "symlink", "unsafe"}
           /\ disk[f] = "wrong mode" => request \notin Current
<1>1. Naming(f, "missing") \in Words /\ Naming(f, "invalid") \in Words /\ "invalid" \in Words
  BY DEF Naming, Words
<1>2. QED
  BY <1>1 DEF FileErrors

\* A file with the text of some release is no error.
LEMMA WrittenFile ==
    ASSUME NEW request, NEW f, disk[f] \notin {"absent"} \cup Damages
    PROVE  FileErrors(request, f) = {}
  BY DEF FileErrors, Damages

\* What else a valid installation consists of.
LEMMA ValidFacts ==
    ASSUME TypeOK, Status = "valid"
    PROVE  /\ Manifested = Current /\ Manifested # {}
           /\ ~Competing /\ ~Lacking /\ ~Unsound /\ ~Warnings
           /\ \A request \in Requests : manifest[request] = NoManifest \/ request \in Manifested
           /\ \A request \in Manifested : \A f \in Declared(request) :
                 /\ disk[f] = TextOf(manifest[request].release, f)
                 /\ disk[f] \notin {"absent"} \cup Damages
<1>1. /\ \E request \in Requests : manifest[request] # NoManifest
      /\ Errors = {} /\ Manifested = Current /\ ~Warnings
  BY ValidMeans
<1>2. /\ ~Competing /\ ~Lacking /\ ~Unsound
      /\ \A request \in Manifested : \A f \in Declared(request) : FileErrors(request, f) = {}
  BY <1>1, ErrorParts
<1>3. \A request \in Requests : manifest[request] = NoManifest \/ request \in Manifested
  <2>1. \A request \in Requests : manifest[request] # BadManifest
    BY <1>2 DEF Unsound
  <2>2. \A m \in Manifests : m = NoManifest \/ m = BadManifest \/ m.release \in Releases
    BY DEF Manifests
  <2>3. QED
    BY <2>1, <2>2 DEF TypeOK, Manifested
<1>4. ASSUME NEW request \in Manifested, NEW f \in Declared(request)
      PROVE  /\ disk[f] = TextOf(manifest[request].release, f)
             /\ disk[f] \notin {"absent"} \cup Damages
  <2>1. ~Changed(request, f) /\ request \in Current
    BY <1>1 DEF Warnings
  <2>2. disk[f] \notin {"absent", "symlink", "wrong mode"}
    BY <1>2, <2>1, FineFile
  <2>3. disk[f] = TextOf(manifest[request].release, f)
    BY <2>1, <2>2 DEF Changed
  <2>4. manifest[request].release \in Releases
    BY DEF Manifested
  <2>5. QED
    BY <2>3, <2>4, VersionTexts
<1>5. QED
  BY <1>1, <1>2, <1>3, <1>4

\* The answers of a valid installation are those that it was made for.
LEMMA ValidAnswers ==
    ASSUME TypeOK, Status = "valid"
    PROVE  /\ RegularFile(Catalog) /\ CapabilitiesLoad
           /\ Profiles \cap Addons \subseteq answers
           /\ "authentication" \in answers <=> AuthenticationLoads
<1>1. Current # {} /\ ~Lacking /\ ~Unsound
  BY ValidFacts
<1>2. RegularFile(Catalog) /\ CapabilitiesLoad
  BY <1>1 DEF Lacking
<1>3. "authentication" \in answers => AuthenticationLoads
  BY <1>1, <1>2 DEF Lacking
<1>4. AuthenticationLoads => "authentication" \in answers
  BY <1>1, <1>2 DEF Unsound
<1>5. Profiles \cap Addons \subseteq answers
  BY <1>1, <1>2 DEF Unsound
<1>6. QED
  BY <1>2, <1>3, <1>4, <1>5

\* Whatever was killed or edited: what the verifier calls valid is what the
\* manifests record, and its answers are those that it was made for.
THEOREM ValidIsIntactHolds == Spec => []ValidIsIntact
<1>1. TypeOK => ValidIsIntact
  BY ValidFacts, ValidAnswers DEF ValidIsIntact
<1>2. QED
  BY <1>1, InstallationTyping, PTL

\* A recorded file of a user is never classified as one that may be replaced.
LEMMA UserTextIsClassified ==
    ASSUME NEW v, NEW f \in Tracked, disk[f] # RecordedText(f)
    PROVE  Classify(v, f) \notin {"unchanged", "upstream_changed_local_unmodified"}
  BY DEF Classify

THEOREM UserTextIsSeenHolds == Spec => []UserTextIsSeen
<1>1. UserTextIsSeen
  BY UserTextIsClassified DEF UserTextIsSeen
<1>2. QED
  BY <1>1, PTL

-----------------------------------------------------------------------------
(* A valid installation can be completed.                                   *)

LEMMA EntriesAreFiles ==
    ASSUME NEW v \in Releases, NEW request \in Requests, NEW bearer \in BOOLEAN
    PROVE  Entries(v, request, bearer) \subseteq Files
<1>1. request[1] \in Bases \cup Addons
  BY DEF Requests, Bases
<1>2. \A f \in Entries(v, request, bearer) :
        \/ f \in Common[v] \/ f \in Support[request[1]] \/ f = Workflow(request[1])
        \/ f \in {Capabilities, Authentication}
        \/ request[1] \in Configured /\ f = Configuration(request[1])
  BY ShippedBy, RenderedBy DEF Entries
<1>3. \A f : request[1] \in Configured /\ f = Configuration(request[1]) => f \in Generated
  BY DEF Generated, Configured, Addons
<1>4. Workflow(request[1]) \in Workflows /\ {Capabilities, Authentication} \subseteq Generated
  BY <1>1 DEF Workflows, Generated
<1>5. QED
  BY <1>1, <1>2, <1>3, <1>4 DEF Files

LEMMA OwnAreFiles == ASSUME NEW request \in Later PROVE Own(request) \subseteq Files \ {ManifestFile}
<1>1. request[1] \in Bases \cup Addons /\ request \in Requests
  BY RequestKinds DEF Later, Bases
<1>2. \A f \in Own(request) :
        \/ f \in Support[request[1]] \/ f = Workflow(request[1])
        \/ request[1] \in Configured /\ f = Configuration(request[1])
  BY DEF Own
<1>3. \A f : request[1] \in Configured /\ f = Configuration(request[1]) => f \in Generated
  BY DEF Generated, Configured, Addons
<1>4. Workflow(request[1]) \in Workflows
  BY <1>1 DEF Workflows
<1>5. Own(request) \subseteq Files
  BY <1>1, <1>2, <1>3, <1>4 DEF Files
<1>6. ManifestFile \notin Own(request)
  BY <1>1, <1>2, FileKinds
<1>7. QED
  BY <1>5, <1>6

\* What the manifest of a release that is not a legacy one records.
LEMMA DeclaredEntries ==
    ASSUME TypeOK, NEW request \in Current
    PROVE  /\ manifest[request].release \in Releases /\ manifest[request].bearer \in BOOLEAN
           /\ Declared(request) = Entries(manifest[request].release, request, manifest[request].bearer)
<1>1. request \in Requests /\ manifest[request].release \in Releases \ Legacy
  BY DEF Current, Manifested
<1>2. manifest[request].bearer \in BOOLEAN
  <2>1. manifest[request] \in Manifests /\ manifest[request] \notin {NoManifest, BadManifest}
    BY <1>1, ReleasesAssumption DEF TypeOK, NoManifest, BadManifest
  <2>2. QED
    BY <2>1 DEF Manifests
<1>3. QED
  BY <1>1, <1>2 DEF Declared, Entries

\* A valid installation with a base profile has all the common files of its version.
LEMMA ValidCommon ==
    ASSUME TypeOK, Status = "valid", NEW v \in Releases, InstalledVersions = {Version[v]},
           NEW request \in Requests, request \in Manifested
    PROVE  /\ request \in First => \A f \in Common[v] \cup Support[request[1]] : RegularFile(f)
           /\ request \in First => Support[request[1]] \subseteq Tracked
           /\ request[2] = "addon" /\ request[1] \in Configured =>
                disk[Configuration(request[1])] # "absent"
<1>1. request \in Current /\ manifest[request].release \in Releases
  BY ValidFacts, DeclaredEntries
<1>2. Version[manifest[request].release] = Version[v]
  BY DEF InstalledVersions
<1>3. Common[manifest[request].release] = Common[v]
  BY <1>1, <1>2, ReleasesAssumption
<1>4. \A f \in Declared(request) : f \in Tracked /\ disk[f] \notin {"absent"} \cup Damages
  BY ValidFacts DEF Tracked
<1>5. "symlink" \in Damages
  BY DEF Damages
<1>6. request \in First => Common[v] \cup Support[request[1]] \subseteq Declared(request)
  BY <1>1, <1>3, DeclaredEntries, FirstEntries
<1>7. request[2] = "addon" /\ request[1] \in Configured => Configuration(request[1]) \in Declared(request)
  BY <1>1, DeclaredEntries, RenderedBy DEF Entries
<1>8. QED
  BY <1>4, <1>5, <1>6, <1>7 DEF RegularFile

LEMMA ValidGrows == IInv => ValidCanGrow
<1> SUFFICES ASSUME IInv, Status = "valid", cut = {},
                    NEW v \in Releases, NEW request \in Requests,
                    request \notin Manifested, Completes(request),
                    InstalledVersions = {Version[v]},
                    BuildsOnInstalled(request),
                    Profiles \cap Bases # {},
                    touched \cap Plan(v, request, FALSE) = {}
             PROVE  Prerequisites(v, request) /\ NoConflict(v, request, "authentication" \in answers)
  BY DEF ValidCanGrow
<1>1. request \in Later /\ (request[2] = "addon" => request[1] \in answers)
  BY DEF Completes, Later, Requests, Addons
<1>2. PICK base \in First : base \in Manifested
  <2>1. PICK q \in Manifested : q[1] \in Bases
    BY DEF Profiles
  <2>2. q \in Requests
    BY DEF Manifested
  <2>3. q \in First \/ q = <<"standard", "workflow">>
    BY <2>1, <2>2 DEF Requests, First, Bases, Addons
  <2>4. q = <<"standard", "workflow">> => <<"standard", "support">> \in Manifested
    BY ValidFacts DEF Competing, IInv
  <2>5. QED
    BY <2>1, <2>3, <2>4 DEF First
<1>3. \A f \in Common[v] : RegularFile(f)
  BY <1>2, ValidCommon, RequestKinds DEF IInv
<1>4. request[2] = "workflow" => \A f \in Support[request[1]] : RegularFile(f)
  <2>1. ASSUME request[2] = "workflow"
        PROVE  /\ request[1] = "standard" /\ <<"standard", "support">> \in Manifested
               /\ <<"standard", "support">> \in First
    BY <2>1 DEF BuildsOnInstalled, Requests, First
  <2>2. QED
    BY <2>1, ValidCommon, RequestKinds DEF IInv
<1>5. request[1] = "api-fuzzing" => disk[Configuration("api-security-baseline")] # "absent"
  <2>1. ASSUME request[1] = "api-fuzzing" PROVE <<"api-security-baseline", "addon">> \in Manifested
    <3>1. PICK q \in Manifested : q[1] = "api-security-baseline"
      BY <2>1 DEF BuildsOnInstalled, Profiles
    <3>2. q = <<"api-security-baseline", "addon">>
      BY <3>1 DEF Manifested, Requests, Addons
    <3>3. QED
      BY <3>2
  <2>2. <<"api-security-baseline", "addon">> \in Requests /\ "api-security-baseline" \in Configured
    BY DEF Requests, Addons, Configured
  <2>3. QED
    BY <2>1, <2>2, ValidCommon DEF IInv
<1>6. Prerequisites(v, request)
  BY <1>1, <1>3, <1>4, <1>5, ValidAnswers DEF Prerequisites, IInv
<1>7. manifest[request] = NoManifest
  BY ValidFacts DEF IInv
<1>8. ASSUME NEW f \in Own(request) PROVE disk[f] = "absent"
  <2>1. f \in Files
    BY <1>1, OwnAreFiles
  <2>2. Plan(v, request, FALSE) = Own(request) \cup {ManifestFile}
    BY <1>1, LaterEntries DEF Plan, Entries
  <2>3. f \notin touched /\ ManifestFile \notin touched
    BY <1>8, <2>2
  <2>4. QED
    BY <1>1, <2>1, <2>3 DEF IInv, Traceable
<1>9. NoConflict(v, request, "authentication" \in answers)
  <2>1. ("authentication" \in answers) \in BOOLEAN
    OBVIOUS
  <2>2. Plan(v, request, "authentication" \in answers) \ {ManifestFile} \subseteq Own(request)
    BY <1>1, <2>1, LaterEntries DEF Plan, Entries
  <2>3. QED
    BY <1>7, <1>8, <2>2 DEF NoConflict
<1>10. QED
  BY <1>6, <1>9

\* The add-ons that the answers ask for, and the workflow stage, find nothing in
\* their way, unless it was left by a killed command or put there by the user.
THEOREM ValidCanGrowHolds == Spec => []ValidCanGrow
  BY InstallationInvariant, ValidGrows, PTL

-----------------------------------------------------------------------------
(* A valid installation stays valid when it grows.                          *)

\* An initialisation that runs to its end, from the release of a valid
\* installation, is one of an add-on or of the workflow stage, and adds its own files.
LEMMA GrowthStep ==
    ASSUME TypeOK, Status = "valid", NEW v \in Releases \ Legacy, NEW request \in Requests,
           InstalledVersions = {Version[v]}, NEW a \in AnswersOf(request),
           Write(v, request, a, Plan(v, request, "authentication" \in a))
    PROVE  /\ request \in Later /\ manifest[request] = NoManifest /\ answers' = answers
           /\ manifest' = [manifest EXCEPT ![request] =
                              [release |-> v, bearer |-> "authentication" \in answers]]
           /\ \A f \in Files : disk'[f] = IF f \in Own(request) THEN TextOf(v, f) ELSE disk[f]
           /\ \A f \in Own(request) : disk[f] = "absent"
           /\ request[2] = "addon" => request[1] \in answers
<1> DEFINE bearer == "authentication" \in a
<1>1. bearer \in BOOLEAN
  OBVIOUS
<1>2. /\ Prerequisites(v, request) /\ NoConflict(v, request, bearer)
      /\ \A f \in Files : disk'[f] = IF f \in Plan(v, request, bearer) THEN TextOf(v, f) ELSE disk[f]
      /\ manifest' = IF ManifestFile \in Plan(v, request, bearer)
                     THEN [manifest EXCEPT ![request] = [release |-> v, bearer |-> bearer]]
                     ELSE manifest
      /\ answers' = IF Capabilities \in Plan(v, request, bearer) THEN a ELSE answers
  BY DEF Write
<1>3. request \in Later
  <2>1. Plan(v, request, bearer) \ {ManifestFile} = Entries(v, request, bearer) \ {ManifestFile}
    BY DEF Plan, Entries
  <2>2. Catalog \in Common[v] /\ Catalog # ManifestFile
    BY CatalogAssumption DEF Catalog, ManifestFile
  <2>3. disk[Catalog] # "absent"
    BY ValidAnswers DEF RegularFile
  <2>4. ASSUME request \in First PROVE FALSE
    <3>1. Catalog \in Entries(v, request, bearer)
      BY <1>1, <2>2, <2>4, FirstEntries
    <3>2. QED
      BY <1>2, <2>1, <2>2, <2>3, <3>1 DEF NoConflict
  <2>5. QED
    BY <2>4, RequestKinds
<1>4. a = answers
  <2>1. request[2] \notin {"all", "support"}
    BY <1>3 DEF Later
  <2>2. QED
    BY <2>1 DEF AnswersOf
<1>5. Plan(v, request, bearer) = Own(request) \cup {ManifestFile} /\ ManifestFile \notin Own(request)
  BY <1>1, <1>3, LaterEntries, OwnAreFiles DEF Plan, Entries
<1>6. ManifestFile \notin Files
  BY FileKindsOfAll
<1>7. answers' = answers
  BY <1>2, <1>4
<1>8. request[2] = "addon" => request[1] \in answers
  BY <1>2 DEF Prerequisites
<1>9. QED
  BY <1>2, <1>3, <1>4, <1>5, <1>6, <1>7, <1>8 DEF NoConflict

LEMMA GrowthKeepsValid ==
    ASSUME TypeOK, Status = "valid", NEW v \in Releases \ Legacy, NEW request \in Requests,
           InstalledVersions = {Version[v]}, InstalledSources = {Source[v]}, BuildsOnInstalled(request),
           NEW a \in AnswersOf(request), Write(v, request, a, Plan(v, request, "authentication" \in a))
    PROVE  Status' = "valid"
<1> DEFINE bearer == "authentication" \in answers
           mine == Own(request)
<1>1. /\ request \in Later /\ manifest[request] = NoManifest /\ answers' = answers
      /\ manifest' = [manifest EXCEPT ![request] = [release |-> v, bearer |-> bearer]]
      /\ \A f \in Files : disk'[f] = IF f \in mine THEN TextOf(v, f) ELSE disk[f]
      /\ \A f \in mine : disk[f] = "absent"
      /\ request[2] = "addon" => request[1] \in answers
  BY GrowthStep
<1>2. /\ Manifested = Current /\ ~Competing /\ ~Lacking /\ ~Unsound
      /\ \A q \in Manifested : \A f \in Declared(q) :
            /\ disk[f] = TextOf(manifest[q].release, f)
            /\ disk[f] \notin {"absent"} \cup Damages
      /\ \A q \in Requests : manifest[q] = NoManifest \/ q \in Manifested
  BY ValidFacts
<1>3. /\ RegularFile(Catalog) /\ CapabilitiesLoad /\ Profiles \cap Addons \subseteq answers
      /\ "authentication" \in answers <=> AuthenticationLoads
  BY ValidAnswers
<1>4. request \notin Manifested
  BY <1>1, ReleasesAssumption DEF Manifested, NoManifest
<1>5. /\ manifest'[request] = [release |-> v, bearer |-> bearer]
      /\ \A q \in Requests \ {request} : manifest'[q] = manifest[q]
      /\ Manifested' = Manifested \cup {request}
  <2>1. /\ manifest'[request] = [release |-> v, bearer |-> bearer]
        /\ \A q \in Requests \ {request} : manifest'[q] = manifest[q]
    BY <1>1 DEF TypeOK
  <2>2. QED
    BY <2>1 DEF Manifested
<1>6. Profiles' = Profiles \cup {request[1]}
  BY <1>5 DEF Profiles
<1>7. Current' = Manifested' /\ Current # {}
  <2>1. \A q \in Manifested : manifest[q].release \notin Legacy
    BY <1>2 DEF Current
  <2>2. \A q \in Manifested' : manifest'[q].release \notin Legacy
    BY <1>4, <1>5, <2>1 DEF Manifested
  <2>3. QED
    BY <2>2, ValidFacts DEF Current
<1>8. /\ InstalledVersions' = {Version[v]} /\ InstalledSources' = {Source[v]}
  <2>1. InstalledVersions' = InstalledVersions \cup {Version[v]}
    BY <1>4, <1>5 DEF InstalledVersions, Manifested
  <2>2. \A q \in Manifested : Source[manifest[q].release] \in InstalledSources
    BY <1>2 DEF InstalledSources
  <2>3. \A q \in Manifested' : Source[manifest'[q].release] = Source[v]
    BY <1>4, <1>5, <2>2 DEF Manifested
  <2>4. InstalledSources' = {Source[v]}
    BY <1>5, <1>7, <2>3 DEF InstalledSources
  <2>5. QED
    BY <2>1, <2>4
<1>9. /\ \A q \in Manifested : Declared(q)' = Declared(q) /\ Declared(q) \subseteq Files
      /\ Declared(request)' = mine /\ mine \subseteq Files
  <2>1. ASSUME NEW q \in Manifested PROVE Declared(q)' = Declared(q) /\ Declared(q) \subseteq Files
    <3>1. q \in Requests \ {request} /\ q \in Current
      BY <1>2, <1>4 DEF Manifested
    <3>2. Declared(q) \subseteq Files
      BY <3>1, DeclaredEntries, EntriesAreFiles
    <3>3. QED
      BY <1>5, <3>1, <3>2 DEF Declared
  <2>2. Declared(request)' = Entries(v, request, bearer)
    BY <1>5 DEF Declared, Entries
  <2>3. bearer \in BOOLEAN
    OBVIOUS
  <2>4. QED
    BY <1>1, <2>1, <2>2, <2>3, LaterEntries, OwnAreFiles
<1>10. \A q \in Manifested : \A f \in Declared(q) : f \notin mine /\ disk'[f] = disk[f]
  BY <1>1, <1>2, <1>9
<1>11. /\ request[1] \in Bases \cup Addons
       /\ \A f \in mine : f[1] \in {"baseline", "suppressions", "support", "workflow", "configuration"}
       /\ mine \cap Baselines \subseteq IF request[2] = "addon" THEN {Baseline(request[1])} ELSE {}
  <2>1. request[1] \in Bases \cup Addons
    BY <1>1 DEF Later, Bases
  <2>2. \A f \in mine : \/ request[2] = "addon" /\ f \in Support[request[1]]
                        \/ f = Workflow(request[1]) \/ f = Configuration(request[1])
    BY DEF Own
  <2>3. \A f \in Baselines : f[1] = "baseline"
    BY DEF Baselines, Baseline
  <2>4. Support[request[1]] \cap Baselines = {Baseline(request[1])}
    BY <2>1, ReleasesAssumption
  <2>5. \A f \in mine : f[1] \in {"baseline", "suppressions", "support", "workflow", "configuration"}
    BY <2>1, <2>2, FileKinds
  <2>6. \A f \in mine \cap Baselines : request[2] = "addon" /\ f \in Support[request[1]]
    BY <2>1, <2>2, <2>3, FileKinds
  <2>7. QED
    BY <2>1, <2>4, <2>5, <2>6
<1>12. \A f \in {Catalog, VersionFile, Capabilities, Authentication} : disk'[f] = disk[f]
  <2>1. \A f \in {Catalog, VersionFile, Capabilities, Authentication} : f \notin mine
    BY <1>11 DEF Catalog, VersionFile, Capabilities, Authentication
  <2>2. {Catalog, VersionFile} \subseteq Files
    BY CatalogAssumption DEF Files
  <2>3. {Capabilities, Authentication} \subseteq Files
    <3>1. {Capabilities, Authentication} \subseteq Generated
      BY DEF Generated
    <3>2. QED
      BY <3>1 DEF Files
  <2>4. QED
    BY <1>1, <2>1, <2>2, <2>3
<1>13. /\ RegularFile(Catalog)' /\ CapabilitiesLoad' /\ AuthenticationLoads' = AuthenticationLoads
       /\ CatalogLoads' = CatalogLoads
  <2>1. /\ RegularFile(Catalog)' = RegularFile(Catalog) /\ CapabilitiesLoad' = CapabilitiesLoad
        /\ AuthenticationLoads' = AuthenticationLoads
    BY <1>12 DEF RegularFile, CapabilitiesLoad, AuthenticationLoads
  <2>2. Current' # {}
    BY <1>5, <1>7
  <2>3. CatalogLoads' = CatalogLoads
    BY <1>7, <1>12, <2>1, <2>2 DEF CatalogLoads
  <2>4. QED
    BY <1>3, <2>1, <2>3
<1>14. ~Competing'
  <2>1. ~(Bases \subseteq Profiles')
    <3>1. request[1] \in Bases => request[1] \in Profiles
      BY <1>1 DEF BuildsOnInstalled, Later, Bases, Addons, Profiles
    <3>2. ~(Bases \subseteq Profiles)
      BY <1>2 DEF Competing
    <3>3. QED
      BY <1>6, <3>1, <3>2
  <2>2. ~(<<"standard", "workflow">> \in Manifested' /\ <<"standard", "support">> \notin Manifested')
    BY <1>2, <1>5 DEF Competing, BuildsOnInstalled
  <2>3. ~("api-fuzzing" \in Profiles' /\ "api-security-baseline" \notin Profiles')
    BY <1>2, <1>6 DEF Competing, BuildsOnInstalled
  <2>4. Cardinality(InstalledVersions') = 1 /\ Cardinality(InstalledSources') = 1
    BY <1>8, FS_Singleton
  <2>5. ~(Cardinality(InstalledVersions') > 1) /\ ~(Cardinality(InstalledSources') > 1)
    BY <2>4
  <2>6. QED
    BY <2>1, <2>2, <2>3, <2>5 DEF Competing
<1>15. ~Lacking'
  <2>1. Tracked' = Tracked \cup mine
    BY <1>4, <1>5, <1>9 DEF Tracked
  <2>2. \A p \in Bases : /\ p \in Profiles' => p \in Profiles
                         /\ Baseline(p) \in Tracked' <=> Baseline(p) \in Tracked
    <3>1. ASSUME NEW p \in Bases PROVE p \in Profiles' => p \in Profiles
      BY <1>1, <1>6 DEF BuildsOnInstalled, Later, Bases, Addons, Profiles
    <3>2. ASSUME NEW p \in Bases PROVE Baseline(p) \notin mine
      <4>1. Baseline(p) \in Baselines
        BY DEF Baselines
      <4>2. request[2] = "addon" => Baseline(p) # Baseline(request[1])
        BY <1>1 DEF Later, Bases, Addons, Baseline
      <4>3. QED
        BY <1>11, <4>1, <4>2
    <3>3. QED
      BY <2>1, <3>1, <3>2
  <2>3. Profiles \subseteq Profiles'
    BY <1>6
  <2>4. ~WrongBaseline
    BY <1>2 DEF Lacking
  <2>5. ~WrongBaseline'
    BY <2>2, <2>3, <2>4 DEF WrongBaseline, Bases
  <2>6. QED
    BY <1>1, <1>3, <1>13, <2>5 DEF Lacking
<1>16. ~Unsound'
  <2>1. \A q \in Requests : manifest'[q] # BadManifest
    <3>1. v # "malformed" /\ manifest'[request].release = v
      BY <1>5, ReleasesAssumption
    <3>2. manifest'[request] # BadManifest
      BY <3>1 DEF BadManifest
    <3>3. \A q \in Requests : manifest[q] # BadManifest
      BY <1>2 DEF Unsound
    <3>4. QED
      BY <1>5, <3>2, <3>3
  <2>2. disk'[Catalog] # "malformed"
    BY <1>2, <1>7, <1>12 DEF Unsound
  <2>3. CatalogLoads' => disk'[VersionFile] \in InstalledVersions' \cup {"wrong mode"}
    BY <1>2, <1>8, <1>12, <1>13 DEF Unsound
  <2>4. \A q \in Manifested : CatalogOf(q)' = CatalogOf(q)
    <3>1. InstalledCatalogs' = InstalledCatalogs
      BY <1>12 DEF InstalledCatalogs
    <3>2. \A q \in Manifested : manifest'[q] = manifest[q]
      BY <1>4, <1>5 DEF Manifested
    <3>3. QED
      BY <3>1, <3>2 DEF CatalogOf
  <2>5. CatalogLoads' => \A q \in Manifested :
            Shipped[CatalogOf(q)'][q] = Shipped[manifest'[q].release][q]
    BY <1>2, <1>4, <1>5, <1>13, <2>4 DEF Unsound, Manifested
  <2>6. Shipped[CatalogOf(request)'][request] = Shipped[manifest'[request].release][request]
    <3>1. CatalogOf(request)' \in Releases
      BY <1>5 DEF CatalogOf, InstalledCatalogs
    <3>2. manifest'[request].release \in Releases
      BY <1>5
    <3>3. \A w \in Releases : Shipped[w][request] = mine \ {Configuration(request[1])}
      BY <1>1, LaterEntries
    <3>4. QED
      BY <3>1, <3>2, <3>3
  <2>7. \A addon \in Addons \cap Profiles' : addon \in answers'
    <3>1. request[1] \in Addons => request[2] = "addon"
      BY <1>1 DEF Later, Addons
    <3>2. QED
      BY <1>1, <1>3, <1>6, <3>1
  <2>8. ~("authentication" \notin answers' /\ AuthenticationLoads')
    BY <1>1, <1>3, <1>13
  <2>9. QED
    BY <1>5, <1>7, <2>1, <2>2, <2>3, <2>5, <2>6, <2>7, <2>8 DEF Unsound
<1>17. \A q \in Manifested' : \A f \in Declared(q)' :
          /\ disk'[f] = TextOf(manifest'[q].release, f)
          /\ disk'[f] \notin {"absent"} \cup Damages
  <2>1. \A q \in Manifested : \A f \in Declared(q)' :
          /\ disk'[f] = TextOf(manifest'[q].release, f)
          /\ disk'[f] \notin {"absent"} \cup Damages
    BY <1>2, <1>4, <1>5, <1>9, <1>10 DEF Manifested
  <2>2. \A f \in mine : /\ disk'[f] = TextOf(manifest'[request].release, f)
                        /\ disk'[f] \notin {"absent"} \cup Damages
    BY <1>1, <1>5, <1>9, VersionTexts
  <2>3. QED
    BY <1>5, <1>9, <2>1, <2>2
<1>18. \A q \in Manifested' : \A f \in Declared(q)' : FileErrors(q, f)' = {}
  BY <1>17 DEF FileErrors, Damages
<1>19. ~Warnings'
  BY <1>17 DEF Warnings, Changed
<1>20. Errors' = {}
  BY <1>14, <1>15, <1>16, <1>18, ErrorPartsNext
<1>21. QED
  <2>1. manifest'[request] # NoManifest
    BY <1>5, ReleasesAssumption DEF NoManifest
  <2>2. QED
    BY <1>7, <1>19, <1>20, <2>1, ValidMeansNext

\* A further initialisation of the same release, which looks at files and not at
\* manifests, keeps a valid installation valid.
THEOREM InitKeepsValidHolds == Spec => InitKeepsValid
<1> DEFINE Kept == \A v \in Releases, request \in Requests :
        /\ mishaps' = mishaps   \* an initialisation, from its first to its last entry
        /\ manifest[request] = NoManifest /\ manifest'[request].release = v
        /\ InstalledVersions = {Version[v]} /\ InstalledSources = {Source[v]}
        /\ BuildsOnInstalled(request)
        /\ Status = "valid"
        => Status' = "valid"
<1>1. TypeOK /\ [Next]_vars => [Kept]_vars
  <2> SUFFICES ASSUME TypeOK, Next, NEW v \in Releases, NEW request \in Requests,
                      mishaps' = mishaps,
                      manifest[request] = NoManifest, manifest'[request].release = v,
                      InstalledVersions = {Version[v]}, InstalledSources = {Source[v]},
                      BuildsOnInstalled(request), Status = "valid"
               PROVE  Status' = "valid"
    OBVIOUS
  <2>1. ~Mishap
    BY DEF Mishap, TypeOK
  <2>2. PICK w \in Releases, other \in Requests : Initialise(w, other)
    BY <2>1 DEF Next, Killed, User, UserEdits, UserAnswers, UserAdopts, UserDamagesManifest, UserDamagesInventory
  <2>3. PICK a \in AnswersOf(other) : Write(w, other, a, Plan(w, other, "authentication" \in a))
    BY <2>2 DEF Initialise
  <2>4. manifest' = [manifest EXCEPT ![other] = [release |-> w, bearer |-> "authentication" \in a]]
    BY <2>3 DEF Write, Plan
  <2>5. other = request /\ w = v
    BY <2>4, ReleasesAssumption DEF TypeOK, NoManifest
  <2>6. w \notin Legacy
    BY <2>2 DEF Initialise
  <2>7. QED
    BY <2>3, <2>5, <2>6, GrowthKeepsValid
<1>2. QED
  BY <1>1, InstallationTyping, PTL DEF Spec, InitKeepsValid

-----------------------------------------------------------------------------
(* What init wrote and nobody touched.                                      *)

\* What the manifests record is there as it was written, and nothing else.
Recorded ==
    /\ \A q \in Manifested : \A f \in Declared(q) : disk[f] = TextOf(manifest[q].release, f)
    /\ \A f \in Files \ Tracked : disk[f] = "absent"

\* There is one request that started it, whose answers still stand, and the others
\* build on what is installed.
Grown ==
    /\ \A q \in Requests : manifest[q] # BadManifest
    /\ \A b, c \in First \cap Manifested : b = c
    /\ \A b \in First \cap Current : manifest[b].bearer <=> "authentication" \in answers
    /\ \A q \in Later \cap Manifested :
          /\ First \cap Current # {} /\ manifest[q].release \notin Legacy
          /\ BuildsOnInstalled(q)
          /\ q[2] = "addon" => q[1] \in answers
    /\ secrets = IF "authentication" \in answers
                 THEN {p \in Addons : <<p, "addon">> \in Manifested} ELSE {}

Pristine == mishaps = 0 => inventories /\ Recorded /\ Grown

\* Which request a recorded file is from.
LEMMA DeclaredParts ==
    ASSUME TypeOK, NEW q \in Manifested, NEW f \in Declared(q)
    PROVE  /\ f \in Files
           /\ \/ q \in First /\ f \in Common[manifest[q].release]
              \/ q[2] # "workflow" /\ f \in Support[q[1]]
              \/ q[2] # "support" /\ f = Workflow(q[1])
              \/ q \in First \cap Current /\ f = Capabilities
              \/ q \in First \cap Current /\ manifest[q].bearer /\ f = Authentication
              \/ q \in Current /\ q[1] \in Configured /\ f = Configuration(q[1])
<1>1. q \in Requests /\ manifest[q].release \in Releases
  BY DEF Manifested
<1>2. q[2] \in {"all", "support"} => q \in First
  BY <1>1 DEF Requests, First
<1>3. CASE q \in Current
  <2>1. /\ f \in Entries(manifest[q].release, q, manifest[q].bearer) /\ manifest[q].bearer \in BOOLEAN
    BY <1>3, DeclaredEntries
  <2>2. f \in Shipped[manifest[q].release][q] \/ f \in Rendered[q][manifest[q].bearer]
    BY <2>1 DEF Entries
  <2>3. f \in Files
    BY <1>1, <2>1, EntriesAreFiles
  <2>4. QED
    BY <1>1, <1>2, <1>3, <2>1, <2>2, <2>3, ShippedBy, RenderedBy
<1>4. CASE q \notin Current
  <2>1. f \in Shipped[manifest[q].release][q]
    BY <1>1, <1>4 DEF Declared, Current
  <2>2. f \in Files
    BY <1>1, <2>1, EntriesAreFiles DEF Entries
  <2>3. QED
    BY <1>1, <1>2, <2>1, <2>2, ShippedBy
<1>5. QED
  BY <1>3, <1>4

LEMMA DeclaredByFirst ==
    ASSUME TypeOK, NEW q \in First \cap Manifested
    PROVE  /\ {Catalog, VersionFile, Thresholds} \subseteq Declared(q)
           /\ Support[q[1]] \subseteq Declared(q)
           /\ q \in Current => Capabilities \in Declared(q)
           /\ q \in Current /\ manifest[q].bearer => Authentication \in Declared(q)
<1>1. q \in Requests /\ manifest[q].release \in Releases /\ q[2] \in {"all", "support"}
  BY DEF Manifested, First
<1>2. Common[manifest[q].release] \cup Support[q[1]] \subseteq Shipped[manifest[q].release][q]
  BY <1>1, ShippedBy
<1>3. Shipped[manifest[q].release][q] \subseteq Declared(q)
  BY DEF Declared
<1>4. ASSUME q \in Current
      PROVE  /\ Capabilities \in Declared(q)
             /\ manifest[q].bearer => Authentication \in Declared(q)
  <2>1. Declared(q) = Entries(manifest[q].release, q, manifest[q].bearer) /\ manifest[q].bearer \in BOOLEAN
    BY <1>4, DeclaredEntries
  <2>2. QED
    BY <1>1, <2>1, RenderedBy DEF Entries
<1>5. QED
  BY <1>1, <1>2, <1>3, <1>4, CatalogAssumption

\* One initialisation, from its first to its last entry.
LEMMA InitStep ==
    ASSUME TypeOK, NEW v \in Releases \ Legacy, NEW r \in Requests, NEW a \in AnswersOf(r),
           Write(v, r, a, Plan(v, r, "authentication" \in a))
    PROVE  /\ Prerequisites(v, r) /\ r \notin Manifested
           /\ manifest' = [manifest EXCEPT ![r] = [release |-> v, bearer |-> "authentication" \in a]]
           /\ Manifested' = Manifested \cup {r} /\ Current' = Current \cup {r}
           /\ \A q \in Manifested : manifest'[q] = manifest[q] /\ Declared(q)' = Declared(q)
           /\ Declared(r)' = Entries(v, r, "authentication" \in a)
           /\ Entries(v, r, "authentication" \in a) \subseteq Files
           /\ \A f \in Files : disk'[f] = IF f \in Entries(v, r, "authentication" \in a)
                                          THEN TextOf(v, f) ELSE disk[f]
           /\ \A f \in Entries(v, r, "authentication" \in a) : disk[f] = "absent"
           /\ answers' = a /\ (r \in Later => a = answers)
           /\ secrets' = IF "authentication" \in a /\ r[2] # "support" /\ r[1] \in Addons
                         THEN secrets \cup {r[1]} ELSE secrets
<1> DEFINE bearer == "authentication" \in a
           new == Entries(v, r, bearer)
<1>1. bearer \in BOOLEAN /\ v \in Releases
  OBVIOUS
<1>2. new \subseteq Files
  BY <1>1, EntriesAreFiles
<1>3. Plan(v, r, bearer) = new \cup {ManifestFile} /\ ManifestFile \notin new
  BY <1>2, FileKindsOfAll DEF Plan, Entries
<1>4. /\ Prerequisites(v, r) /\ NoConflict(v, r, bearer)
      /\ \A f \in Files : disk'[f] = IF f \in Plan(v, r, bearer) THEN TextOf(v, f) ELSE disk[f]
      /\ manifest' = IF ManifestFile \in Plan(v, r, bearer)
                     THEN [manifest EXCEPT ![r] = [release |-> v, bearer |-> bearer]]
                     ELSE manifest
      /\ answers' = IF Capabilities \in Plan(v, r, bearer) THEN a ELSE answers
      /\ secrets' = IF bearer THEN secrets \cup {p \in Addons : Workflow(p) \in Plan(v, r, bearer)} ELSE secrets
  BY DEF Write
<1>5. manifest[r] = NoManifest /\ \A f \in new : disk[f] = "absent"
  BY <1>3, <1>4 DEF NoConflict
<1>6. r \notin Manifested
  BY <1>5, ReleasesAssumption DEF Manifested, NoManifest
<1>7. manifest' = [manifest EXCEPT ![r] = [release |-> v, bearer |-> bearer]]
  BY <1>3, <1>4
<1>8. manifest'[r] = [release |-> v, bearer |-> bearer] /\ \A q \in Requests \ {r} : manifest'[q] = manifest[q]
  BY <1>7 DEF TypeOK
<1>9. Manifested' = Manifested \cup {r}
  BY <1>1, <1>8 DEF Manifested
<1>10. \A q \in Manifested : manifest'[q] = manifest[q] /\ Declared(q)' = Declared(q)
  <2>1. \A q \in Manifested : manifest'[q] = manifest[q]
    BY <1>6, <1>8 DEF Manifested
  <2>2. QED
    BY <2>1 DEF Declared
<1>11. Current' = Current \cup {r}
  BY <1>8, <1>9, <1>10 DEF Current
<1>12. Declared(r)' = new
  BY <1>8 DEF Declared, Entries
<1>13. answers' = a /\ (r \in Later => a = answers)
  <2>1. r \in Later => a = answers
    BY DEF AnswersOf, Later
  <2>2. r \in First => Capabilities \in new
    BY <1>1, FirstEntries
  <2>3. QED
    BY <1>3, <1>4, <2>1, <2>2, RequestKinds
<1>14. secrets' = IF bearer /\ r[2] # "support" /\ r[1] \in Addons THEN secrets \cup {r[1]} ELSE secrets
  <2>1. \A p \in Addons : Workflow(p) \in new <=> r[2] # "support" /\ p = r[1]
    <3>1. r[1] \in Bases \cup Addons
      BY DEF Requests, Bases
    <3>2. ASSUME NEW p \in Addons, Workflow(p) \in new PROVE r[2] # "support" /\ p = r[1]
      <4>1. \/ Workflow(p) \in Common[v] \/ Workflow(p) \in Support[r[1]]
            \/ r[2] # "support" /\ Workflow(p) = Workflow(r[1])
            \/ Workflow(p) \in {Capabilities, Authentication, Configuration(r[1])}
        <5>1. Workflow(p) \in Shipped[v][r] \/ Workflow(p) \in Rendered[r][bearer]
          BY <3>2 DEF Entries
        <5>2. Workflow(p) \in Shipped[v][r] =>
                \/ Workflow(p) \in Common[v] \/ Workflow(p) \in Support[r[1]]
                \/ r[2] # "support" /\ Workflow(p) = Workflow(r[1])
          BY <1>1, ShippedBy
        <5>3. \A b \in BOOLEAN : \A f \in Rendered[r][b] : f \in {Capabilities, Authentication, Configuration(r[1])}
          BY RenderedBy
        <5>4. QED
          BY <1>1, <5>1, <5>2, <5>3
      <4>2. QED
        BY <1>1, <3>1, <4>1, FileKinds
    <3>3. r[2] # "support" => Workflow(r[1]) \in new
      BY <1>1, ShippedBy DEF Entries
    <3>4. QED
      BY <3>2, <3>3
  <2>2. \A p \in Addons : Workflow(p) # ManifestFile
    BY FileKinds
  <2>3. {p \in Addons : Workflow(p) \in Plan(v, r, bearer)} =
            IF r[2] # "support" /\ r[1] \in Addons THEN {r[1]} ELSE {}
    BY <1>3, <2>1, <2>2
  <2>4. QED
    BY <1>4, <2>3
<1>15. \A f \in Files : disk'[f] = IF f \in new THEN TextOf(v, f) ELSE disk[f]
  BY <1>3, <1>4, FileKindsOfAll
<1>16. QED
  BY <1>2, <1>4, <1>5, <1>6, <1>7, <1>9, <1>10, <1>11, <1>12, <1>13, <1>14, <1>15

\* Who needs which file to be there, and who then wrote it.
LEMMA WhoIsThere ==
    ASSUME TypeOK, Recorded
    PROVE  /\ disk[Capabilities] # "absent" => First \cap Current # {}
           /\ disk[Authentication] # "absent" => \E b \in First \cap Current : manifest[b].bearer
           /\ disk[Verification] = "absent"
           /\ \A addon \in Configured : disk[Configuration(addon)] # "absent" => addon \in Profiles
           /\ \A f \in Workflows : disk[f] # "absent" =>
                 \E q \in Manifested : f = Workflow(q[1]) /\ f \in Declared(q)
           /\ \A p \in Bases : disk[Baseline(p)] # "absent" =>
                 \E q \in Manifested : q[1] = p /\ q[2] # "workflow"
<1>1. ASSUME NEW f \in Files, disk[f] # "absent" PROVE \E q \in Manifested : f \in Declared(q)
  BY <1>1 DEF Recorded, Tracked
<1>2. \A q \in Manifested : q \in Requests /\ q[1] \in Bases \cup Addons /\ manifest[q].release \in Releases
  BY DEF Manifested, Requests, Bases
<1>3. ASSUME disk[Capabilities] # "absent" PROVE First \cap Current # {}
  <2>1. Capabilities \in Files
    <3>1. Capabilities \in Generated
      BY DEF Generated
    <3>2. QED
      BY <3>1 DEF Files
  <2>2. PICK q \in Manifested : Capabilities \in Declared(q)
    BY <1>1, <1>3, <2>1
  <2>3. q \in First \cap Current
    BY <1>2, <2>2, DeclaredParts, FileKinds DEF Authentication, Capabilities
  <2>4. QED
    BY <2>3
<1>4. ASSUME NEW addon \in Configured, disk[Configuration(addon)] # "absent" PROVE addon \in Profiles
  <2>1. Configuration(addon) \in Files
    <3>1. Configuration(addon) \in Generated
      BY DEF Generated
    <3>2. QED
      BY <3>1 DEF Files
  <2>2. PICK q \in Manifested : Configuration(addon) \in Declared(q)
    BY <1>1, <1>4, <2>1
  <2>3. Configuration(addon) = Configuration(q[1])
    BY <1>2, <2>2, DeclaredParts, FileKinds
  <2>4. QED
    BY <2>3, FileKinds DEF Profiles
<1>5. ASSUME disk[Authentication] # "absent" PROVE \E b \in First \cap Current : manifest[b].bearer
  <2>1. Authentication \in Files
    <3>1. Authentication \in Generated
      BY DEF Generated
    <3>2. QED
      BY <3>1 DEF Files
  <2>2. PICK q \in Manifested : Authentication \in Declared(q)
    BY <1>1, <1>5, <2>1
  <2>3. q \in First \cap Current /\ manifest[q].bearer
    BY <1>2, <2>2, DeclaredParts, FileKinds DEF Authentication, Capabilities
  <2>4. QED
    BY <2>3
<1>6. disk[Verification] = "absent"
  <2>1. Verification \in Files /\ Verification[1] = "verification"
    BY DEF Files, Verification
  <2>2. ASSUME NEW q \in Manifested, Verification \in Declared(q) PROVE FALSE
    BY <1>2, <2>1, <2>2, DeclaredParts, FileKinds
  <2>3. QED
    BY <1>1, <2>1, <2>2
<1>7. ASSUME NEW f \in Workflows, disk[f] # "absent"
      PROVE  \E q \in Manifested : f = Workflow(q[1]) /\ f \in Declared(q)
  <2>1. f \in Files /\ f[1] = "workflow"
    BY FileKinds DEF Files, Workflows
  <2>2. PICK q \in Manifested : f \in Declared(q)
    BY <1>1, <1>7, <2>1
  <2>3. f = Workflow(q[1])
    BY <1>2, <2>1, <2>2, DeclaredParts, FileKinds
  <2>4. QED
    BY <2>2, <2>3
<1>8. ASSUME NEW p \in Bases, disk[Baseline(p)] # "absent"
      PROVE  \E q \in Manifested : q[1] = p /\ q[2] # "workflow"
  <2>1. Baseline(p) \in Baselines
    BY DEF Baselines
  <2>2. Baseline(p) \in Files
    BY <2>1 DEF Files
  <2>3. PICK q \in Manifested : Baseline(p) \in Declared(q)
    BY <1>1, <1>8, <2>2
  <2>4. Baseline(p)[1] = "baseline"
    BY DEF Baseline
  <2>5. q[2] # "workflow" /\ Baseline(p) \in Support[q[1]]
    BY <1>2, <2>3, <2>4, DeclaredParts, FileKinds
  <2>6. Support[q[1]] \cap Baselines = {Baseline(q[1])}
    BY <1>2, ReleasesAssumption
  <2>7. Baseline(p) = Baseline(q[1])
    BY <2>1, <2>5, <2>6
  <2>8. q[1] = p
    BY <2>7 DEF Baseline
  <2>9. QED
    BY <2>5, <2>8
<1>9. QED
  BY <1>3, <1>4, <1>5, <1>6, <1>7, <1>8

LEMMA InitialPristine == Init => Pristine
<1> SUFFICES ASSUME Init PROVE inventories /\ Recorded /\ Grown
  BY DEF Pristine
<1>1. TypeOK /\ inventories /\ secrets = {} /\ answers = {}
  BY InitialTypes DEF Init
<1>2. CASE disk = [f \in Files |-> "absent"] /\ manifest = [request \in Requests |-> NoManifest]
  <2>1. Manifested = {}
    BY <1>2, ReleasesAssumption DEF Manifested, NoManifest
  <2>2. Recorded
    BY <1>2, <2>1 DEF Recorded
  <2>3. Grown
    BY <1>1, <1>2, <2>1 DEF Grown, Current, NoManifest, BadManifest
  <2>4. QED
    BY <1>1, <2>2, <2>3
<1>3. ASSUME NEW v \in Legacy,
             disk = [f \in Files |-> IF f \in Shipped[v][<<"minimal", "all">>] THEN TextOf(v, f) ELSE "absent"],
             manifest = [[request \in Requests |-> NoManifest] EXCEPT ![<<"minimal", "all">>].release = v]
      PROVE  Recorded /\ Grown
  <2> DEFINE minimal == <<"minimal", "all">>
  <2>1. minimal \in Requests /\ minimal \in First /\ v \in Releases /\ v # "malformed"
    BY ReleasesAssumption DEF Requests, First
  <2>2. /\ manifest[minimal].release = v
        /\ \A q \in Requests \ {minimal} : manifest[q] = NoManifest
    BY <1>3, <2>1 DEF NoManifest
  <2>3. Manifested = {minimal} /\ Current = {}
    <3>1. Manifested = {minimal}
      BY <2>1, <2>2, ReleasesAssumption DEF Manifested, NoManifest
    <3>2. QED
      BY <2>2, <3>1 DEF Current
  <2>4. Declared(minimal) = Shipped[v][minimal]
    BY <2>2 DEF Declared
  <2>5. Shipped[v][minimal] \subseteq Files
    BY <2>1, EntriesAreFiles DEF Entries
  <2>6. Tracked = Shipped[v][minimal]
    BY <2>3, <2>4 DEF Tracked
  <2>7. Recorded
    BY <1>3, <2>2, <2>3, <2>4, <2>5, <2>6 DEF Recorded
  <2>8. \A q \in Requests : manifest[q] # BadManifest
    BY <2>1, <2>2 DEF BadManifest, NoManifest
  <2>9. Grown
    BY <1>1, <2>1, <2>3, <2>8, RequestKinds DEF Grown
  <2>10. QED
    BY <2>7, <2>9
<1>4. QED
  BY <1>1, <1>2, <1>3 DEF Init

LEMMA InitialiseKeepsPristine ==
    ASSUME TypeOK, Recorded, Grown, NEW v \in Releases, NEW r \in Requests, Initialise(v, r)
    PROVE  Recorded' /\ Grown'
<1>1. v \in Releases \ Legacy
  BY DEF Initialise
<1>2. PICK a \in AnswersOf(r) : Write(v, r, a, Plan(v, r, "authentication" \in a))
  BY DEF Initialise
<1> DEFINE bearer == "authentication" \in a
           new == Entries(v, r, bearer)
<1>3. /\ Prerequisites(v, r) /\ r \notin Manifested
      /\ manifest' = [manifest EXCEPT ![r] = [release |-> v, bearer |-> bearer]]
      /\ Manifested' = Manifested \cup {r} /\ Current' = Current \cup {r}
      /\ \A q \in Manifested : manifest'[q] = manifest[q] /\ Declared(q)' = Declared(q)
      /\ Declared(r)' = new /\ new \subseteq Files
      /\ \A f \in Files : disk'[f] = IF f \in new THEN TextOf(v, f) ELSE disk[f]
      /\ \A f \in new : disk[f] = "absent"
      /\ answers' = a /\ (r \in Later => a = answers)
      /\ secrets' = IF bearer /\ r[2] # "support" /\ r[1] \in Addons THEN secrets \cup {r[1]} ELSE secrets
  BY <1>1, <1>2, InitStep
<1>4. manifest'[r] = [release |-> v, bearer |-> bearer] /\ bearer \in BOOLEAN
  BY <1>3 DEF TypeOK
<1>5. Tracked' = Tracked \cup new
  BY <1>3 DEF Tracked
<1>6. \A q \in Manifested : \A f \in Declared(q) : f \notin new /\ disk'[f] = disk[f]
  <2>1. ASSUME NEW q \in Manifested, NEW f \in Declared(q) PROVE f \in Files /\ disk[f] # "absent"
    <3>1. manifest[q].release \in Releases
      BY DEF Manifested
    <3>2. QED
      BY <3>1, DeclaredParts, VersionTexts DEF Recorded
  <2>2. QED
    BY <1>3, <2>1
<1>7. Recorded'
  <2>1. \A q \in Manifested' : \A f \in Declared(q)' : disk'[f] = TextOf(manifest'[q].release, f)
    BY <1>3, <1>4, <1>6 DEF Recorded
  <2>2. \A f \in Files \ Tracked' : disk'[f] = "absent"
    BY <1>3, <1>5 DEF Recorded
  <2>3. QED
    BY <2>1, <2>2 DEF Recorded
<1>8. r \in First => Manifested = {}
  <2> SUFFICES ASSUME r \in First PROVE Manifested = {}
    OBVIOUS
  <2>1. VersionFile \in new
    BY <1>1, <1>4, FirstEntries, CatalogAssumption
  <2>2. First \cap Manifested = {}
    BY <1>6, <2>1, DeclaredByFirst
  <2>3. Later \cap Manifested = {}
    BY <2>2 DEF Grown, Current
  <2>4. QED
    BY <2>2, <2>3, RequestKinds DEF Manifested
<1>9. r \in Later => /\ First \cap Current # {} /\ BuildsOnInstalled(r)
                     /\ r[2] = "addon" => r[1] \in answers
  <2> SUFFICES ASSUME r \in Later
               PROVE  /\ First \cap Current # {} /\ BuildsOnInstalled(r)
                      /\ r[2] = "addon" => r[1] \in answers
    OBVIOUS
  <2>1. r[2] \in {"addon", "workflow"}
    BY DEF Later
  <2>2. /\ CapabilitiesLoad /\ (r[2] = "addon" => r[1] \in answers)
        /\ r[2] = "workflow" => \A f \in Support[r[1]] : RegularFile(f)
        /\ r[1] = "api-fuzzing" => disk[Configuration("api-security-baseline")] # "absent"
    BY <1>3, <2>1 DEF Prerequisites
  <2>3. First \cap Current # {}
    BY <2>2, WhoIsThere DEF CapabilitiesLoad, RegularFile
  <2>4. r[1] = "api-fuzzing" => "api-security-baseline" \in Profiles
    BY <2>2, WhoIsThere DEF Configured
  <2>5. ASSUME r = <<"standard", "workflow">> PROVE <<"standard", "support">> \in Manifested
    <3>1. "standard" \in Bases \cup Addons /\ r[1] = "standard" /\ r[2] = "workflow"
      BY <2>5 DEF Bases
    <3>2. Baseline("standard") \in Support["standard"]
      BY <3>1, ReleasesAssumption
    <3>3. disk[Baseline("standard")] # "absent"
      BY <2>2, <3>1, <3>2 DEF RegularFile
    <3>4. PICK q \in Manifested : q[1] = "standard" /\ q[2] # "workflow"
      BY <3>3, WhoIsThere DEF Bases
    <3>5. q = <<"standard", "support">>
      BY <3>4 DEF Manifested, Requests, Addons
    <3>6. QED
      BY <3>4, <3>5
  <2>6. QED
    BY <2>2, <2>3, <2>4, <2>5 DEF BuildsOnInstalled
<1>10. \A q \in Manifested : manifest'[q].release = manifest[q].release
  BY <1>3
<1>11. \A q \in Requests : manifest'[q] # BadManifest
  <2>1. v # "malformed"
    BY <1>1, ReleasesAssumption
  <2>2. manifest'[r] # BadManifest
    BY <1>4, <2>1 DEF BadManifest
  <2>3. \A q \in Requests \ {r} : manifest'[q] = manifest[q]
    BY <1>3 DEF TypeOK
  <2>4. QED
    BY <2>2, <2>3 DEF Grown
<1>12. \A b, c \in First \cap Manifested' : b = c
  BY <1>3, <1>8 DEF Grown
<1>13. \A b \in First \cap Current' : manifest'[b].bearer <=> "authentication" \in answers'
  <2>1. Current \subseteq Manifested
    BY DEF Current
  <2>2. CASE r \in First
    <3>1. \A b \in Current' : b = r
      BY <1>3, <1>8, <2>1, <2>2
    <3>2. manifest'[r].bearer = bearer
      BY <1>4
    <3>3. QED
      BY <1>3, <3>1, <3>2
  <2>3. CASE r \in Later
    <3>1. r \notin First
      BY <2>3, RequestKinds
    <3>2. QED
      BY <1>3, <2>1, <2>3, <3>1 DEF Grown
  <2>4. QED
    BY <2>2, <2>3, RequestKinds
<1>14. \A q \in Later \cap Manifested' :
          /\ First \cap Current' # {} /\ manifest'[q].release \notin Legacy
          /\ BuildsOnInstalled(q)'
          /\ q[2] = "addon" => q[1] \in answers'
  <2>1. ASSUME NEW q, BuildsOnInstalled(q) PROVE BuildsOnInstalled(q)'
    BY <1>3, <2>1 DEF BuildsOnInstalled, Profiles
  <2>2. ASSUME NEW q \in Later \cap Manifested
        PROVE  /\ First \cap Current' # {} /\ manifest'[q].release \notin Legacy
               /\ BuildsOnInstalled(q)'
               /\ q[2] = "addon" => q[1] \in answers'
    <3>1. r \in Later
      BY <1>8, RequestKinds
    <3>2. QED
      BY <1>3, <1>10, <2>1, <3>1 DEF Grown
  <2>3. ASSUME r \in Later
        PROVE  /\ First \cap Current' # {} /\ manifest'[r].release \notin Legacy
               /\ BuildsOnInstalled(r)'
               /\ r[2] = "addon" => r[1] \in answers'
    BY <1>1, <1>3, <1>4, <1>9, <2>1, <2>3
  <2>4. QED
    BY <1>3, <2>2, <2>3
<1>15. secrets' = IF "authentication" \in answers'
                  THEN {p \in Addons : <<p, "addon">> \in Manifested'} ELSE {}
  <2>1. CASE r \in First
    <3>1. secrets = {} /\ Manifested' = {r}
      BY <1>3, <1>8, <2>1 DEF Grown
    <3>2. r[1] \notin Addons /\ \A p \in Addons : <<p, "addon">> # r
      BY <2>1 DEF First, Addons
    <3>3. QED
      BY <1>3, <3>1, <3>2
  <2>2. CASE r = <<"standard", "workflow">>
    <3>1. r[1] \notin Addons /\ r \in Later /\ \A p \in Addons : <<p, "addon">> # r
      BY <2>2 DEF Addons, Later
    <3>2. QED
      BY <1>3, <3>1 DEF Grown
  <2>3. ASSUME NEW addon \in Addons, r = <<addon, "addon">>
        PROVE  secrets' = IF "authentication" \in answers'
                          THEN {p \in Addons : <<p, "addon">> \in Manifested'} ELSE {}
    <3>1. r[1] = addon /\ r[2] = "addon" /\ r \in Later /\ \A p \in Addons : <<p, "addon">> = r <=> p = addon
      BY <2>3 DEF Later
    <3>2. secrets' = IF "authentication" \in answers THEN secrets \cup {addon} ELSE secrets
      BY <1>3, <3>1
    <3>3. {p \in Addons : <<p, "addon">> \in Manifested'} = {p \in Addons : <<p, "addon">> \in Manifested} \cup {addon}
      BY <1>3, <3>1
    <3>4. QED
      BY <1>3, <3>1, <3>2, <3>3 DEF Grown
  <2>4. QED
    BY <2>1, <2>2, <2>3, RequestKinds DEF Later
<1>16. Grown'
  BY <1>11, <1>12, <1>13, <1>14, <1>15 DEF Grown
<1>17. QED
  BY <1>7, <1>16

\* Nothing is in a repository that only init has written but what its manifests
\* record, and the requests fit each other and the answers.
THEOREM PristineInvariant == Spec => []Pristine
<1>1. TypeOK /\ Pristine /\ [Next]_vars => Pristine'
  <2> SUFFICES ASSUME TypeOK, Pristine, [Next]_vars, mishaps' = 0
               PROVE  inventories' /\ Recorded' /\ Grown'
    BY DEF Pristine
  <2>1. CASE UNCHANGED vars
    BY <2>1 DEF vars, Pristine, Recorded, Grown, Tracked, Declared, Manifested, Current, BuildsOnInstalled, Profiles
  <2>2. ~Mishap
    BY DEF Mishap, TypeOK
  <2>3. ASSUME NEW v \in Releases, NEW r \in Requests, Initialise(v, r)
        PROVE  inventories' /\ Recorded' /\ Grown'
    <3>1. mishaps = 0 /\ inventories' = inventories
      BY <2>3 DEF Initialise, Write
    <3>2. QED
      BY <2>3, <3>1, InitialiseKeepsPristine DEF Pristine
  <2>4. QED
    BY <2>1, <2>2, <2>3 DEF Next, Killed, User, UserEdits, UserAnswers, UserAdopts,
          UserDamagesManifest, UserDamagesInventory
<1>2. QED
  BY <1>1, InitialPristine, InstallationTyping, PTL DEF Spec

-----------------------------------------------------------------------------
(* It is accepted.                                                          *)

\* The state that `UntouchedIsAccepted` is about.
Untouched(v) ==
    /\ TypeOK /\ Recorded /\ Grown /\ inventories
    /\ Manifested # {} /\ Manifested = Current
    /\ InstalledVersions = {Version[v]} /\ InstalledSources = {Source[v]}

\* It has one base profile, and what is recorded is as it was written.
LEMMA UntouchedFacts ==
    ASSUME NEW v \in Releases, Untouched(v)
    PROVE  /\ \E base \in First \cap Current : manifest[base].bearer <=> "authentication" \in answers
           /\ \A b, c \in First \cap Manifested : b = c
           /\ \A q \in Manifested : /\ q \in Requests /\ manifest[q].release \in Releases
                                    /\ Version[manifest[q].release] = Version[v]
                                    /\ q \in Later => BuildsOnInstalled(q)
                                    /\ q \in Later /\ q[2] = "addon" => q[1] \in answers
           /\ \A f \in Tracked : disk[f] \notin {"absent"} \cup Damages
<1>1. \A q \in Manifested : q \in Requests /\ manifest[q].release \in Releases
  BY DEF Manifested
<1>2. First \cap Current # {}
  <2>1. PICK q : q \in Manifested
    BY DEF Untouched
  <2>2. q \in First \/ q \in Later
    BY <1>1, <2>1, RequestKinds
  <2>3. q \in Current
    BY <2>1 DEF Untouched
  <2>4. QED
    BY <2>1, <2>2, <2>3 DEF Untouched, Grown
<1>3. PICK base \in First \cap Current : manifest[base].bearer <=> "authentication" \in answers
  BY <1>2 DEF Untouched, Grown
<1>4. \A q \in Manifested : Version[manifest[q].release] = Version[v]
  BY DEF Untouched, InstalledVersions
<1>5. ASSUME NEW f \in Tracked PROVE disk[f] \notin {"absent"} \cup Damages
  <2>1. PICK q \in Manifested : f \in Declared(q)
    BY DEF Tracked
  <2>2. disk[f] = TextOf(manifest[q].release, f)
    BY <2>1 DEF Untouched, Recorded
  <2>3. QED
    BY <1>1, <2>1, <2>2, VersionTexts
<1>6. QED
  BY <1>1, <1>3, <1>4, <1>5 DEF Untouched, Grown

LEMMA UntouchedDoesNotCompete ==
    ASSUME NEW v \in Releases, Untouched(v)
    PROVE  ~Competing
<1>1. /\ \A b, c \in First \cap Manifested : b = c
      /\ \A q \in Manifested : q \in Requests /\ (q \in Later => BuildsOnInstalled(q))
  BY UntouchedFacts
<1>2. "minimal" \in Profiles => <<"minimal", "all">> \in Manifested
  BY <1>1 DEF Profiles, Requests, Addons
<1>3. <<"standard", "workflow">> \in Manifested => <<"standard", "support">> \in Manifested
  BY <1>1 DEF BuildsOnInstalled, Later
<1>4. "standard" \in Profiles => <<"standard", "support">> \in Manifested
  BY <1>1, <1>3 DEF Profiles, Requests, Addons
<1>5. <<"minimal", "all">> # <<"standard", "support">> /\ <<"minimal", "all">> \in First /\ <<"standard", "support">> \in First
  BY DEF First
<1>6. ~(Bases \subseteq Profiles)
  BY <1>1, <1>2, <1>4, <1>5 DEF Bases
<1>7. "api-fuzzing" \in Profiles => "api-security-baseline" \in Profiles
  <2>1. ASSUME "api-fuzzing" \in Profiles PROVE "api-security-baseline" \in Profiles
    <3>1. PICK q \in Manifested : q[1] = "api-fuzzing"
      BY <2>1 DEF Profiles
    <3>2. q \in Later
      BY <1>1, <3>1 DEF Requests, Later
    <3>3. QED
      BY <1>1, <3>1, <3>2 DEF BuildsOnInstalled
  <2>2. QED
    BY <2>1
<1>8. ~(Cardinality(InstalledVersions) > 1) /\ ~(Cardinality(InstalledSources) > 1)
  <2>1. Cardinality(InstalledVersions) = 1 /\ Cardinality(InstalledSources) = 1
    BY FS_Singleton DEF Untouched
  <2>2. QED
    BY <2>1
<1>9. QED
  BY <1>3, <1>6, <1>7, <1>8 DEF Competing

LEMMA UntouchedLacksNothing ==
    ASSUME NEW v \in Releases, Untouched(v)
    PROVE  /\ ~Lacking /\ RegularFile(Catalog) /\ CapabilitiesLoad
           /\ AuthenticationLoads <=> "authentication" \in answers
           /\ "authentication" \in answers => disk[Authentication] = "generated"
           /\ disk[Thresholds] # "malformed"
<1>1. PICK base \in First \cap Current : manifest[base].bearer <=> "authentication" \in answers
  BY UntouchedFacts
<1>2. /\ \A q \in Manifested : q \in Requests /\ q[1] \in Bases \cup Addons
      /\ \A f \in Tracked : disk[f] \notin {"absent"} \cup Damages
      /\ {"symlink", "malformed"} \subseteq Damages
  <2>1. \A request \in Requests : request[1] \in Bases \cup Addons
    BY DEF Requests, Bases
  <2>2. {"symlink", "malformed"} \subseteq Damages
    BY DEF Damages
  <2>3. QED
    BY <2>1, <2>2, UntouchedFacts
<1>3. base \in Manifested /\ TypeOK
  BY DEF Current, Untouched
<1>4. /\ {Catalog, VersionFile, Thresholds} \subseteq Declared(base) /\ Support[base[1]] \subseteq Declared(base)
      /\ Capabilities \in Declared(base)
      /\ "authentication" \in answers => Authentication \in Declared(base)
  BY <1>1, <1>3, DeclaredByFirst
<1>5. Declared(base) \subseteq Tracked
  BY <1>3 DEF Tracked
<1>6. RegularFile(Catalog) /\ CapabilitiesLoad /\ disk[Thresholds] # "malformed"
  BY <1>2, <1>4, <1>5 DEF RegularFile, CapabilitiesLoad
<1>7. "authentication" \in answers => AuthenticationLoads /\ disk[Authentication] = "generated"
  <2>1. ASSUME "authentication" \in answers PROVE disk[Authentication] = "generated"
    <3>1. disk[Authentication] = TextOf(manifest[base].release, Authentication)
      BY <1>3, <1>4, <2>1 DEF Untouched, Recorded
    <3>2. Authentication \in Generated
      BY DEF Generated
    <3>3. QED
      BY <3>1, <3>2 DEF TextOf
  <2>2. QED
    BY <1>2, <1>4, <1>5, <2>1 DEF RegularFile, AuthenticationLoads
<1>8. AuthenticationLoads => "authentication" \in answers
  <2>1. ASSUME AuthenticationLoads PROVE "authentication" \in answers
    <3>1. PICK b \in First \cap Current : manifest[b].bearer
      BY <2>1, WhoIsThere DEF AuthenticationLoads, RegularFile, Untouched
    <3>2. QED
      BY <3>1 DEF Untouched, Grown
  <2>2. QED
    BY <2>1
<1>9. ~WrongBaseline
  <2>1. \A p \in Bases : Baseline(p) \in Tracked => \E q \in Manifested : q[1] = p /\ q[2] # "workflow"
    BY <1>2, WhoIsThere DEF Untouched
  <2>2. \A p \in Bases : Baseline(p) \in Tracked => p \in Profiles
    BY <2>1 DEF Profiles
  <2>3. ~(Bases \subseteq Profiles)
    BY UntouchedDoesNotCompete DEF Competing
  <2>4. base[1] \in Bases /\ base[1] \in Profiles /\ Baseline(base[1]) \in Tracked
    <3>1. base[1] \in Bases /\ base[1] \in Profiles
      BY <1>3 DEF First, Bases, Profiles
    <3>2. Baseline(base[1]) \in Support[base[1]]
      BY <3>1, ReleasesAssumption
    <3>3. QED
      BY <1>4, <1>5, <3>1, <3>2
  <2>5. QED
    BY <2>2, <2>3, <2>4 DEF WrongBaseline, Bases
<1>10. QED
  BY <1>6, <1>7, <1>8, <1>9 DEF Lacking

LEMMA UntouchedIsSound ==
    ASSUME NEW v \in Releases, Untouched(v)
    PROVE  ~Unsound
<1>1. PICK base \in First \cap Current : TRUE
  BY UntouchedFacts
<1>2. /\ \A q \in Manifested : /\ q \in Requests /\ manifest[q].release \in Releases
                               /\ Version[manifest[q].release] = Version[v]
                               /\ q \in Later /\ q[2] = "addon" => q[1] \in answers
      /\ \A f \in Tracked : disk[f] \notin {"absent"} \cup Damages
  BY UntouchedFacts
<1>3. base \in Manifested /\ TypeOK
  BY DEF Current, Untouched
<1>4. /\ disk[Catalog] = TextOf(manifest[base].release, Catalog)
      /\ disk[VersionFile] = TextOf(manifest[base].release, VersionFile)
      /\ Catalog \in Tracked
  BY <1>3, DeclaredByFirst DEF Untouched, Recorded, Tracked
<1>5. Catalog \notin Generated /\ VersionFile \notin Generated
  BY DEF Catalog, VersionFile, Generated, Capabilities, Authentication, Configuration
<1>6. disk[VersionFile] \in InstalledVersions
  <2>1. disk[VersionFile] = Version[manifest[base].release]
    BY <1>4, <1>5, CatalogAssumption DEF TextOf
  <2>2. QED
    BY <1>2, <1>3, <2>1 DEF Untouched
<1>7. disk[Catalog] # "malformed"
  BY <1>2, <1>4 DEF Damages
<1>8. \A q \in Current : Shipped[CatalogOf(q)][q] = Shipped[manifest[q].release][q]
  <2> SUFFICES ASSUME NEW q \in Current
               PROVE  Shipped[CatalogOf(q)][q] = Shipped[manifest[q].release][q]
    OBVIOUS
  <2>1. q \in Manifested
    BY DEF Current
  <2>2. ASSUME NEW w \in InstalledCatalogs PROVE w \in Releases /\ Version[w] = Version[v]
    <3>1. w \in Releases /\ Catalog \notin Stable /\ disk[Catalog] = Version[w]
      BY DEF InstalledCatalogs
    <3>2. disk[Catalog] = Version[manifest[base].release]
      BY <1>4, <1>5, <3>1 DEF TextOf
    <3>3. QED
      BY <1>2, <1>3, <3>1, <3>2
  <2>3. CatalogOf(q) \in Releases /\ Version[CatalogOf(q)] = Version[manifest[q].release]
    BY <1>2, <2>1, <2>2 DEF CatalogOf
  <2>4. Common[CatalogOf(q)] = Common[manifest[q].release]
    BY <1>2, <2>1, <2>3, ReleasesAssumption
  <2>5. QED
    BY <1>2, <2>1, <2>3, <2>4, ShippedAlike
<1>9. \A addon \in Addons \cap Profiles : addon \in answers
  <2>1. ASSUME NEW addon \in Addons \cap Profiles PROVE addon \in answers
    <3>1. PICK q \in Manifested : q[1] = addon
      BY DEF Profiles
    <3>2. q \in Later /\ q[2] = "addon"
      BY <1>2, <3>1 DEF Requests, Later, Addons
    <3>3. QED
      BY <1>2, <3>1, <3>2
  <2>2. QED
    BY <2>1
<1>10. ~("authentication" \notin answers /\ AuthenticationLoads)
  BY UntouchedLacksNothing
<1>11. \A q \in Requests : manifest[q] # BadManifest
  BY DEF Untouched, Grown
<1>12. QED
  BY <1>6, <1>7, <1>8, <1>9, <1>10, <1>11 DEF Unsound

LEMMA UntouchedIsValid ==
    ASSUME NEW v \in Releases, Untouched(v)
    PROVE  Errors = {} /\ ~Warnings /\ Status = "valid"
<1>1. \A q \in Manifested : \A f \in Declared(q) : /\ disk[f] = TextOf(manifest[q].release, f)
                                                   /\ disk[f] \notin {"absent"} \cup Damages
  BY UntouchedFacts DEF Untouched, Recorded, Tracked
<1>2. \A q \in Manifested : \A f \in Declared(q) : FileErrors(q, f) = {}
  BY <1>1, WrittenFile
<1>3. Errors = {}
  BY <1>2, ErrorParts, UntouchedDoesNotCompete, UntouchedLacksNothing, UntouchedIsSound
<1>4. ~Warnings
  BY <1>1 DEF Warnings, Changed
<1>5. \E q \in Requests : manifest[q] # NoManifest
  <2>1. PICK q : q \in Manifested
    BY DEF Untouched
  <2>2. QED
    BY <2>1, ReleasesAssumption DEF Manifested, NoManifest
<1>6. QED
  BY <1>3, <1>4, <1>5, ValidMeans DEF Untouched

\* An upgrade to a bundle of the same version keeps every file, except that the
\* planner takes the generated workflows of the add-ons for outdated.
LEMMA UntouchedNeedsNoUpgrade ==
    ASSUME NEW v \in Releases, Untouched(v), NEW w \in Bundles, Version[w] \in InstalledVersions,
           NEW f \in Planned(w)
    PROVE  IF f \in AddonWorkflows THEN Classify(w, f) = "upstream_changed_local_unmodified"
                                   ELSE Classify(w, f) \in Quiet
<1>1. w \in Releases /\ Version[w] = Version[v] /\ TypeOK
  BY DEF Bundles, Untouched
<1>2. \A q \in Manifested : q \in Requests /\ manifest[q].release \in Releases /\ Version[manifest[q].release] = Version[v]
  BY UntouchedFacts
<1>3. \A q \in Manifested : Shipped[w][q] = Shipped[manifest[q].release][q]
  <2> SUFFICES ASSUME NEW q \in Manifested PROVE Shipped[w][q] = Shipped[manifest[q].release][q]
    OBVIOUS
  <2>1. Common[w] = Common[manifest[q].release]
    BY <1>1, <1>2, ReleasesAssumption
  <2>2. QED
    BY <1>1, <1>2, <2>1, ShippedAlike
<1>4. f \in Tracked
  <2>1. ~RegularFile(Verification)
    BY WhoIsThere DEF RegularFile, Untouched
  <2>2. Proposed(w) \subseteq Tracked
    BY <1>3 DEF Proposed, Tracked, Declared
  <2>3. QED
    BY <2>1, <2>2 DEF Planned
<1>5. PICK r \in Manifested : f \in Declared(r) /\ RecordedText(f) = TextOf(manifest[r].release, f)
  <2>1. \E q \in Manifested : f \in Declared(q)
    BY <1>4 DEF Tracked
  <2>2. \A q \in Manifested : q \in Current
    BY DEF Untouched
  <2>3. QED
    BY <2>1, <2>2 DEF RecordedText
<1>6. ASSUME f \notin Generated PROVE f \in Proposed(w)
  <2>1. r \in Current /\ r \in Requests /\ manifest[r].release \in Releases
    BY <1>2 DEF Untouched
  <2>2. manifest[r].bearer \in BOOLEAN /\ f \in Entries(manifest[r].release, r, manifest[r].bearer)
    BY <1>1, <1>5, <2>1, DeclaredEntries
  <2>3. f \notin Rendered[r][manifest[r].bearer]
    BY <1>6, <2>1, <2>2, RenderedBy DEF Generated
  <2>4. QED
    BY <1>3, <2>2, <2>3 DEF Entries, Proposed
<1>7. f \notin Generated \cup AddonWorkflows => TextOf(manifest[r].release, f) = ProposedText(w, f)
  BY <1>1, <1>2 DEF TextOf, ProposedText
<1>8. disk[f] = TextOf(manifest[r].release, f)
  BY <1>5 DEF Untouched, Recorded
<1>9. f # Verification
  <2>1. disk[Verification] = "absent" /\ disk[f] # "absent"
    BY <1>4, UntouchedFacts, WhoIsThere DEF Untouched
  <2>2. QED
    BY <2>1
<1>10. InstalledVersions = {Version[w]} /\ RecordedText(f) # "unknown"
  <2>1. TextOf(manifest[r].release, f) \in Versions \cup {"same", "generated"}
    BY <1>2, VersionTexts
  <2>2. RecordedText(f) # "unknown"
    BY <1>5, <2>1, ReleasesAssumption
  <2>3. QED
    BY <1>1, <2>2 DEF Untouched
<1>11. CASE f \in AddonWorkflows
  <2>1. f[1] = "workflow"
    BY <1>11 DEF AddonWorkflows, Workflow
  <2>2. f \notin Generated /\ f # Thresholds
    BY <2>1 DEF Generated, Capabilities, Authentication, Configuration, Thresholds
  <2>3. f \notin Baselines /\ ~IsSuppressions(f)
    <3>1. PICK addon \in Addons : f = <<"workflow", addon>>
      BY <1>11 DEF AddonWorkflows, Workflow
    <3>2. "suppressions" \notin Addons
      BY DEF Addons
    <3>3. QED
      BY <2>1, <3>1, <3>2 DEF Baselines, Baseline, IsSuppressions
  <2>4. ProposedText(w, f) = "template" /\ RecordedText(f) # "template"
    <3>1. TextOf(manifest[r].release, f) \in Versions \cup {"same", "generated"}
      BY <1>2, VersionTexts
    <3>2. "template" \notin Versions \cup {"same", "generated"}
      BY ReleasesAssumption
    <3>3. QED
      BY <1>5, <1>11, <3>1, <3>2 DEF ProposedText
  <2>5. f \in Proposed(w) /\ disk[f] = RecordedText(f)
    BY <1>5, <1>6, <1>8, <2>2
  <2>6. Classify(w, f) = "upstream_changed_local_unmodified"
    BY <1>4, <1>9, <1>10, <2>2, <2>3, <2>4, <2>5 DEF Classify
  <2>7. QED
    BY <1>11, <2>6
<1>12. CASE f \notin AddonWorkflows
  <2>1. Classify(w, f) \in Quiet
    BY <1>4, <1>5, <1>6, <1>7, <1>8, <1>9, <1>10, <1>12 DEF Classify, Quiet
  <2>2. QED
    BY <1>12, <2>1
<1>13. QED
  BY <1>11, <1>12

\* With the secret in the fuzzing workflow the doctor always has an error: it does not
\* know the step that holds it.
LEMMA FuzzingWithSecretIsRefused ==
    ASSUME NEW v \in Releases, Untouched(v),
           Addons \cap answers \subseteq Profiles, {"api-fuzzing", "authentication"} \subseteq answers
    PROVE  DoctorErrors
<1> DEFINE fuzzing == <<"api-fuzzing", "addon">>
<1>1. "api-fuzzing" \in Addons /\ "api-fuzzing" \in Profiles
  BY DEF Addons
<1>2. PICK q \in Manifested : q[1] = "api-fuzzing"
  BY <1>1 DEF Profiles
<1>3. q \in Requests /\ manifest[q].release \in Releases
  BY DEF Manifested
<1>4. q[2] # "support"
  BY <1>2, <1>3 DEF Requests
<1>5. Workflow("api-fuzzing") \in Shipped[manifest[q].release][q]
  BY <1>2, <1>3, <1>4, ShippedBy
<1>6. Workflow("api-fuzzing") \in Tracked
  BY <1>5 DEF Declared, Tracked
<1>7. RegularFile(Workflow("api-fuzzing"))
  BY <1>6, UntouchedFacts DEF RegularFile, Damages
<1>8. SecretProblem("api-fuzzing")
  BY <1>7 DEF SecretProblem
<1>9. QED
  BY <1>1, <1>8, UntouchedLacksNothing DEF DoctorErrors

\* With any other answers it has none.
LEMMA UntouchedIsHealthy ==
    ASSUME NEW v \in Releases, Untouched(v),
           Addons \cap answers \subseteq Profiles, ~({"api-fuzzing", "authentication"} \subseteq answers)
    PROVE  ~DoctorErrors
<1>1. /\ \A q \in Manifested : q \in Requests /\ (q \in Later /\ q[2] = "addon" => q[1] \in answers)
      /\ \A f \in Tracked : disk[f] \notin {"absent"} \cup Damages
  BY UntouchedFacts
<1>2. \A addon \in Addons : addon \in Profiles => <<addon, "addon">> \in Manifested
  BY <1>1 DEF Profiles, Requests, Addons
<1>3. \A addon \in Addons : (addon \in Profiles) <=> addon \in answers
  <2>1. \A addon \in Addons : <<addon, "addon">> \in Later
    BY DEF Later
  <2>2. \A addon \in Addons : <<addon, "addon">> \in Manifested => addon \in answers
    BY <1>1, <2>1
  <2>3. QED
    BY <1>2, <2>2
<1>4. ASSUME NEW addon \in Addons PROVE ~SecretProblem(addon)
  <2> SUFFICES ASSUME RegularFile(Workflow(addon)), SecretProblem(addon) PROVE FALSE
    BY DEF SecretProblem
  <2>1. Workflow(addon) \in Workflows /\ disk[Workflow(addon)] # "absent"
    BY DEF Workflows, RegularFile
  <2>2. PICK q \in Manifested : Workflow(addon) = Workflow(q[1]) /\ Workflow(addon) \in Declared(q)
    BY <2>1, WhoIsThere DEF Untouched
  <2>3. q[1] = addon
    BY <2>2, FileKinds
  <2>4. addon \in Profiles /\ addon \in answers /\ <<addon, "addon">> \in Manifested
    BY <1>2, <1>3, <2>3 DEF Profiles
  <2>5. disk[Workflow(addon)] # "unsafe"
    BY <1>1, <2>2 DEF Tracked, Damages
  <2>6. addon \in secrets <=> "authentication" \in answers
    BY <2>4 DEF Untouched, Grown
  <2>7. "authentication" \in answers => addon # "api-fuzzing" /\ disk[Authentication] = "generated"
    BY <2>4, UntouchedLacksNothing
  <2>8. QED
    BY <2>5, <2>6, <2>7 DEF SecretProblem
<1>5. ASSUME NEW f \in Workflows PROVE disk[f] \notin {"old pin", "old action"}
  <2>1. CASE disk[f] = "absent"
    BY <2>1
  <2>2. CASE disk[f] # "absent"
    <3>1. f \in Tracked
      BY <2>2, WhoIsThere DEF Untouched, Tracked
    <3>2. QED
      BY <1>1, <3>1 DEF Damages
  <2>3. QED
    BY <2>1, <2>2
<1>6. ASSUME NEW addon \in Configured \cap Profiles
      PROVE  disk[Configuration(addon)] \notin {"absent", "malformed"}
  <2>1. <<addon, "addon">> \in Manifested /\ addon \in Configured
    BY <1>2 DEF Configured, Addons
  <2>2. <<addon, "addon">> \in Current
    BY <2>1 DEF Untouched
  <2>3. Configuration(addon) \in Declared(<<addon, "addon">>)
    <3> DEFINE r == <<addon, "addon">>
    <3>1. /\ Declared(r) = Entries(manifest[r].release, r, manifest[r].bearer)
          /\ manifest[r].bearer \in BOOLEAN
      BY <2>2, DeclaredEntries DEF Untouched
    <3>2. r \in Requests /\ r[1] \in Configured
      BY <1>1, <2>1
    <3>3. QED
      BY <3>1, <3>2, RenderedBy DEF Entries
  <2>4. Configuration(addon) \in Tracked
    BY <2>1, <2>3 DEF Tracked
  <2>5. QED
    BY <1>1, <2>4 DEF Damages
<1>7. disk[Verification] = "absent"
  BY WhoIsThere DEF Untouched
<1>8. Errors = {} /\ inventories
  BY UntouchedIsValid DEF Untouched
<1>9. /\ CapabilitiesLoad /\ disk[Thresholds] # "malformed"
      /\ ~("authentication" \in answers /\ ~AuthenticationLoads)
  BY UntouchedLacksNothing
<1>10. QED
  BY <1>3, <1>4, <1>5, <1>6, <1>7, <1>8, <1>9 DEF DoctorErrors

\* What init wrote, in any order of requests and with any answers, is accepted by
\* the verifier, the upgrade planner and the doctor, but for the planner's word on the
\* workflows of add-ons and the doctor's on fuzzing with a secret.
THEOREM UntouchedIsAcceptedHolds == Spec => []UntouchedIsAccepted
<1>1. TypeOK /\ Pristine => UntouchedIsAccepted
  <2> SUFFICES ASSUME TypeOK, Pristine, mishaps = 0, Manifested # {}, Manifested = Current,
                      NEW v \in Releases, InstalledVersions = {Version[v]}, InstalledSources = {Source[v]}
               PROVE  /\ Status = "valid"
                      /\ \A w \in Bundles : Version[w] \in InstalledVersions =>
                            /\ PlanExit(w) # 2
                            /\ \A f \in Planned(w) : IF f \in AddonWorkflows
                                   THEN Classify(w, f) = "upstream_changed_local_unmodified"
                                   ELSE Classify(w, f) \in Quiet
                      /\ Addons \cap answers \subseteq Profiles =>
                            (DoctorErrors <=> {"api-fuzzing", "authentication"} \subseteq answers)
    BY DEF UntouchedIsAccepted
  <2>1. Untouched(v)
    BY DEF Pristine, Untouched
  <2>2. Status = "valid" /\ inventories
    BY <2>1, UntouchedIsValid DEF Untouched
  <2>3. Plannable
    BY <2>2 DEF Plannable
  <2>4. ASSUME NEW w \in Bundles PROVE PlanExit(w) # 2
    BY <2>2, <2>3 DEF PlanExit
  <2>5. ASSUME NEW w \in Bundles, Version[w] \in InstalledVersions,
               NEW f \in Planned(w)
        PROVE  IF f \in AddonWorkflows THEN Classify(w, f) = "upstream_changed_local_unmodified"
                                       ELSE Classify(w, f) \in Quiet
    BY <2>1, <2>5, UntouchedNeedsNoUpgrade
  <2>6. ASSUME Addons \cap answers \subseteq Profiles
        PROVE  DoctorErrors <=> {"api-fuzzing", "authentication"} \subseteq answers
    BY <2>1, <2>6, UntouchedIsHealthy, FuzzingWithSecretIsRefused
  <2>7. QED
    BY <2>2, <2>4, <2>5, <2>6
<1>2. QED
  BY <1>1, InstallationTyping, PristineInvariant, PTL

-----------------------------------------------------------------------------
(* A command that was killed is noticed.                                    *)

\* A killed command that came to its manifest lacks a file that comes after it, and
\* such a file is only written together with a manifest.  One that did not come to it
\* left answers that nothing installed fits, or a stage that is still to come.
Noticeable == touched = {} =>
    /\ \A q \in cut \cap Manifested :
          \/ Bases \subseteq Profiles
          \/ \E f \in Declared(q) : disk[f] = "absent" /\ Place[ManifestFile] < Place[f]
    /\ \A q \in cut \ Manifested :
          /\ q[2] = "addon" => q[1] \in answers
          /\ q = <<"standard", "workflow">> => <<"standard", "support">> \in Manifested
          /\ q = <<"standard", "support">> =>
                disk[Authentication] = "generated" /\ "authentication" \notin answers
    /\ disk[Baseline("standard")] # "absent" => <<"standard", "support">> \in Manifested
    /\ disk[Capabilities] = "absent" => answers = {}
    /\ Catalog \in Files /\ disk[Catalog] # "absent" => First \cap Manifested # {}

\* What only one first stage writes, or any of them, and what is in all of them.
LEMMA WhoWrites ==
    ASSUME NEW v \in Releases, NEW request \in Requests, NEW bearer \in BOOLEAN
    PROVE  /\ Catalog \in Entries(v, request, bearer) => request \in First
           /\ Baseline("standard") \in Entries(v, request, bearer) => request = <<"standard", "support">>
           /\ Authentication \in Entries(v, request, bearer) => bearer
           /\ Capabilities \in Entries(v, request, bearer) <=> request[2] \in {"all", "support"}
           /\ Capabilities \in Entries(v, request, bearer) /\ bearer =>
                Authentication \in Entries(v, request, bearer)
<1> DEFINE support == <<"standard", "support">>
<1>1. request[1] \in Bases \cup Addons
  BY DEF Requests, Bases
<1>2. \A f : f \in Entries(v, request, bearer) <=>
        \/ request[2] \in {"all", "support"} /\ f \in Common[v] \cup {Capabilities}
        \/ request[2] \in {"all", "support"} /\ bearer /\ f = Authentication
        \/ request[2] # "workflow" /\ f \in Support[request[1]]
        \/ request[2] # "support" /\ f = Workflow(request[1])
        \/ request[1] \in Configured /\ f = Configuration(request[1])
  BY ShippedBy, RenderedBy DEF Entries
<1>3. Catalog[1] = "common" /\ Baseline("standard")[1] = "baseline"
  BY DEF Catalog, Baseline
<1>4. request[2] \in {"all", "support"} <=> request \in First
  BY DEF Requests, First
<1>5. Catalog \in Entries(v, request, bearer) => request \in First
  BY <1>1, <1>2, <1>3, <1>4, FileKinds
<1>6. Baseline("standard") \in Entries(v, request, bearer) => request = support
  <2>1. SUFFICES ASSUME Baseline("standard") \in Entries(v, request, bearer) PROVE request = support
    OBVIOUS
  <2>2. request[2] # "workflow" /\ Baseline("standard") \in Support[request[1]]
    BY <1>1, <1>2, <1>3, <2>1, FileKinds
  <2>3. Baseline("standard") \in Baselines
    BY DEF Baselines, Bases
  <2>4. Baseline("standard") = Baseline(request[1])
    BY <1>1, <2>2, <2>3, ReleasesAssumption
  <2>5. request[1] = "standard"
    BY <2>4 DEF Baseline
  <2>6. QED
    BY <2>2, <2>5 DEF Requests, Addons
<1>7. /\ Capabilities \in Entries(v, request, bearer) <=> request[2] \in {"all", "support"}
      /\ Authentication \in Entries(v, request, bearer) <=> bearer /\ request[2] \in {"all", "support"}
  BY <1>1, <1>2, FileKinds DEF Capabilities, Authentication
<1>8. QED
  BY <1>5, <1>6, <1>7

LEMMA InitiallyNoticeable == Init => Noticeable
<1> SUFFICES ASSUME Init PROVE Noticeable
  OBVIOUS
<1> DEFINE minimal == <<"minimal", "all">>
<1>1. cut = {} /\ answers = {} /\ Baseline("standard") \in Files
  BY DEF Init, Files, Baselines, Bases
<1>2. CASE disk = [f \in Files |-> "absent"] /\ manifest = [request \in Requests |-> NoManifest]
  BY <1>1, <1>2 DEF Noticeable
<1>3. ASSUME NEW v \in Legacy,
             disk = [f \in Files |-> IF f \in Shipped[v][minimal] THEN TextOf(v, f) ELSE "absent"],
             manifest = [[request \in Requests |-> NoManifest] EXCEPT ![minimal].release = v]
      PROVE  Noticeable
  <2>1. v \in Releases /\ minimal \in Requests /\ minimal \in First
    BY ReleasesAssumption DEF Requests, First
  <2>2. minimal \in Manifested
    BY <1>3, <2>1 DEF Manifested, NoManifest
  <2>3. Baseline("standard") \notin Shipped[v][minimal]
    BY <2>1, WhoWrites DEF Entries
  <2>4. QED
    BY <1>1, <1>3, <2>1, <2>2, <2>3 DEF Noticeable
<1>4. QED
  BY <1>2, <1>3 DEF Init

\* What a command writes, and what it leaves as it was.
LEMMA WrittenEntries ==
    ASSUME TypeOK, NEW v \in Releases, NEW request \in Requests, NEW a \in AnswersOf(request),
           NEW entries \in SUBSET Plan(v, request, "authentication" \in a), Write(v, request, a, entries)
    PROVE  /\ request \notin Manifested
           /\ Manifested' = Manifested \cup (IF ManifestFile \in entries THEN {request} ELSE {})
           /\ \A q \in Manifested : Declared(q)' = Declared(q)
           /\ \A f \in entries \ {ManifestFile} :
                 /\ f \in Entries(v, request, "authentication" \in a) /\ f \in Files
                 /\ disk[f] = "absent" /\ disk'[f] = TextOf(v, f) /\ disk'[f] # "absent"
           /\ \A f \in Files \ entries : disk'[f] = disk[f]
<1> DEFINE bearer == "authentication" \in a
<1>1. bearer \in BOOLEAN /\ entries \ {ManifestFile} \subseteq Entries(v, request, bearer)
  BY DEF Plan, Entries
<1>2. manifest[request] = NoManifest /\ NoManifest.release \notin Releases
  BY ReleasesAssumption DEF Write, NoConflict, NoManifest
<1>3. request \notin Manifested
  BY <1>2 DEF Manifested
<1>4. \A q \in Requests : manifest'[q] = IF q = request /\ ManifestFile \in entries
                                         THEN [release |-> v, bearer |-> bearer] ELSE manifest[q]
  BY DEF Write, TypeOK
<1>5. Manifested' = Manifested \cup (IF ManifestFile \in entries THEN {request} ELSE {})
  BY <1>2, <1>4 DEF Manifested
<1>6. \A q \in Manifested : Declared(q)' = Declared(q)
  <2>1. \A q \in Manifested : manifest'[q] = manifest[q]
    BY <1>3, <1>4 DEF Manifested
  <2>2. QED
    BY <2>1 DEF Declared
<1>7. ASSUME NEW f \in entries \ {ManifestFile}
      PROVE  /\ f \in Entries(v, request, bearer) /\ f \in Files
             /\ disk[f] = "absent" /\ disk'[f] = TextOf(v, f) /\ disk'[f] # "absent"
  <2>1. f \in Entries(v, request, bearer) /\ f \in Files
    BY <1>1, EntriesAreFiles
  <2>2. disk[f] = "absent"
    BY DEF Write, NoConflict
  <2>3. disk'[f] = TextOf(v, f)
    BY <2>1 DEF Write
  <2>4. QED
    BY <2>1, <2>2, <2>3, VersionTexts
<1>8. \A f \in Files \ entries : disk'[f] = disk[f]
  BY DEF Write
<1>9. QED
  BY <1>3, <1>5, <1>6, <1>7, <1>8

\* A command, killed or not, that wrote what comes after its manifest wrote that as
\* well.
Prefix(entries) ==
    \A f \in entries : Place[ManifestFile] < Place[f] => ManifestFile \in entries

LEMMA DeclaredAreEntries ==
    ASSUME TypeOK, NEW q \in Manifested, NEW f \in Declared(q)
    PROVE  /\ manifest[q].release \in Releases /\ f \in Files
           /\ \E b \in BOOLEAN : f \in Entries(manifest[q].release, q, b)
<1>1. q \in Requests /\ manifest[q].release \in Releases
  BY DEF Manifested
<1>2. f \in Shipped[manifest[q].release][q] \/ f \in Rendered[q][manifest[q].bearer]
  BY DEF Declared
<1>3. manifest[q].bearer \in BOOLEAN
  <2>1. manifest[q] \in Manifests /\ manifest[q] \notin {NoManifest, BadManifest}
    BY <1>1, ReleasesAssumption DEF TypeOK, NoManifest, BadManifest
  <2>2. QED
    BY <2>1 DEF Manifests
<1>4. f \in Entries(manifest[q].release, q, manifest[q].bearer)
  BY <1>2 DEF Entries
<1>5. QED
  BY <1>1, <1>3, <1>4, EntriesAreFiles

\* A command that goes through its plan in order, to the end or not, leaves a
\* repository in which it will be noticed.
LEMMA WriteNoticeable ==
    ASSUME TypeOK, Noticeable, touched = {},
           NEW v \in Releases \ Legacy, NEW request \in Requests, NEW a \in AnswersOf(request),
           NEW entries \in SUBSET Plan(v, request, "authentication" \in a), Write(v, request, a, entries),
           Prefix(entries), entries # {},
           \A q \in cut' : q \in cut \/ q = request,
           request \in cut' /\ ManifestFile \in entries =>
                \E f \in Plan(v, request, "authentication" \in a) :
                    f \notin entries /\ Place[ManifestFile] < Place[f]
    PROVE  Noticeable'
<1> DEFINE bearer == "authentication" \in a
           support == <<"standard", "support">>
<1>1. bearer \in BOOLEAN /\ v \in Releases
  OBVIOUS
<1>2. /\ request \notin Manifested
      /\ Manifested' = Manifested \cup (IF ManifestFile \in entries THEN {request} ELSE {})
      /\ \A q \in Manifested : Declared(q)' = Declared(q)
      /\ \A f \in entries \ {ManifestFile} :
            /\ f \in Entries(v, request, bearer) /\ f \in Files
            /\ disk[f] = "absent" /\ disk'[f] = TextOf(v, f) /\ disk'[f] # "absent"
      /\ \A f \in Files \ entries : disk'[f] = disk[f]
  BY WrittenEntries
<1>3. \A f \in Entries(v, request, bearer) : f \in Files /\ f # ManifestFile /\ disk[f] = "absent"
  <2>1. Entries(v, request, bearer) \subseteq Files /\ ManifestFile \notin Files
    BY <1>1, EntriesAreFiles, FileKindsOfAll
  <2>2. QED
    BY <2>1 DEF Write, NoConflict, Plan, Entries
<1>4. ManifestFile \notin Files /\ {Baseline("standard"), Capabilities, Authentication} \subseteq Files
  BY FileKindsOfAll DEF Files, Baselines, Bases, Generated
<1>5. ASSUME NEW q \in cut' \cap Manifested'
      PROVE  \/ (Bases \subseteq Profiles)'
             \/ \E f \in Declared(q)' : disk'[f] = "absent" /\ Place[ManifestFile] < Place[f]
  <2>1. CASE q = request
    <3>1. ManifestFile \in entries
      BY <1>2, <2>1
    <3>2. PICK f \in Plan(v, request, bearer) : f \notin entries /\ Place[ManifestFile] < Place[f]
      BY <2>1, <3>1
    <3>3. f \in Entries(v, request, bearer)
      BY <3>1, <3>2 DEF Plan, Entries
    <3>4. manifest'[request] = [release |-> v, bearer |-> bearer]
      BY <3>1 DEF Write, TypeOK
    <3>5. Declared(request)' = Entries(v, request, bearer)
      BY <3>4 DEF Declared, Entries
    <3>6. QED
      BY <1>2, <1>3, <2>1, <3>2, <3>3, <3>5
  <2>2. CASE q # request
    <3>1. q \in cut \cap Manifested /\ q \in Requests
      BY <1>2, <2>2 DEF Manifested
    <3>2. CASE Bases \subseteq Profiles
      BY <1>2, <3>2 DEF Profiles
    <3>3. ASSUME NEW f \in Declared(q), disk[f] = "absent", Place[ManifestFile] < Place[f]
          PROVE  \/ (Bases \subseteq Profiles)'
                 \/ \E g \in Declared(q)' : disk'[g] = "absent" /\ Place[ManifestFile] < Place[g]
      <4>1. manifest[q].release \in Releases /\ f \in Files
            /\ \E b \in BOOLEAN : f \in Entries(manifest[q].release, q, b)
        BY <3>1, <3>3, DeclaredAreEntries
      <4>2. CASE f \notin entries
        BY <1>2, <3>1, <3>3, <4>1, <4>2
      <4>3. CASE f \in entries
        <5>1. ManifestFile \in entries /\ f \in Entries(v, request, bearer)
          BY <1>2, <1>4, <3>3, <4>1, <4>3 DEF Prefix
        <5>2. q \notin Later
          <6>1. ASSUME q \in Later PROVE FALSE
            <7>1. Own(q) \cap Entries(v, request, bearer) = {}
              BY <1>1, <2>2, <6>1, OwnIsApart
            <7>2. f \in Own(q)
              BY <4>1, <6>1, LaterEntries
            <7>3. QED
              BY <5>1, <7>1, <7>2
          <6>2. QED
            BY <6>1
        <5>3. request \notin Later
          <6>1. ASSUME request \in Later PROVE FALSE
            <7>1. f \in Own(request)
              BY <1>1, <5>1, <6>1, LaterEntries
            <7>2. \A b \in BOOLEAN : Own(request) \cap Entries(manifest[q].release, q, b) = {}
              BY <2>2, <3>1, <4>1, <6>1, OwnIsApart
            <7>3. QED
              BY <4>1, <7>1, <7>2
          <6>2. QED
            BY <6>1
        <5>4. {q, request} = First
          BY <2>2, <3>1, <5>2, <5>3, RequestKinds DEF First
        <5>5. First \subseteq Manifested'
          BY <1>2, <3>1, <5>1, <5>4
        <5>6. QED
          BY <5>5 DEF First, Bases, Profiles
      <4>4. QED
        BY <4>2, <4>3
    <3>4. QED
      BY <3>1, <3>2, <3>3 DEF Noticeable
  <2>3. QED
    BY <2>1, <2>2

\* The answers only change when they are written, together with a manifest.
<1>6. /\ Capabilities \in entries => ManifestFile \in entries /\ answers = {}
      /\ Capabilities \notin entries => answers' = answers
      /\ disk'[Capabilities] = "absent" => disk[Capabilities] = "absent" /\ Capabilities \notin entries
  <2>1. Capabilities # ManifestFile
    BY <1>4
  <2>2. Capabilities \in entries => disk[Capabilities] = "absent" /\ disk'[Capabilities] # "absent"
    BY <1>2, <2>1
  <2>3. Capabilities \in entries => ManifestFile \in entries
    BY PlaceAssumption DEF Prefix
  <2>4. QED
    BY <1>2, <1>4, <2>2, <2>3 DEF Write, Noticeable
<1>7. ASSUME NEW q \in cut' \ Manifested', q[2] = "addon" PROVE q[1] \in answers'
  <2>1. CASE q = request
    <3>1. CapabilitiesLoad /\ q[1] \in answers
      BY <1>7, <2>1 DEF Write, Prerequisites
    <3>2. Capabilities \notin entries
      BY <1>2, <1>4, <3>1 DEF CapabilitiesLoad, RegularFile
    <3>3. QED
      BY <1>6, <3>1, <3>2
  <2>2. CASE q # request
    BY <1>2, <1>6, <1>7, <2>2 DEF Noticeable
  <2>3. QED
    BY <2>1, <2>2
<1>8. ASSUME <<"standard", "workflow">> \in cut' \ Manifested' PROVE support \in Manifested'
  <2>1. CASE request = <<"standard", "workflow">>
    <3>1. \A f \in Support["standard"] : RegularFile(f)
      BY <2>1 DEF Write, Prerequisites
    <3>2. Baseline("standard") \in Support["standard"]
      BY ReleasesAssumption DEF Bases
    <3>3. QED
      BY <1>2, <3>1, <3>2 DEF RegularFile, Noticeable
  <2>2. CASE request # <<"standard", "workflow">>
    BY <1>2, <1>8, <2>2 DEF Noticeable
  <2>3. QED
    BY <2>1, <2>2
<1>9. ASSUME support \in cut' \ Manifested'
      PROVE  disk'[Authentication] = "generated" /\ "authentication" \notin answers'
  <2>1. CASE request = support
    <3>1. ManifestFile \notin entries /\ request \in Requests /\ request[1] = "standard" /\ request[2] = "support"
      BY <1>2, <1>9, <2>1
    <3>2. \A f \in Common[v] \cup Support["standard"] \cup {Capabilities} : f \notin entries
      BY <1>1, <3>1, PlaceAssumption DEF Prefix
    <3>3. Entries(v, request, bearer) \subseteq Common[v] \cup Support["standard"] \cup {Capabilities, Authentication}
      <4>1. "standard" \notin Configured
        BY DEF Configured
      <4>2. Shipped[v][request] = Common[v] \cup Support["standard"]
        BY <1>1, <3>1, ShippedBy
      <4>3. Rendered[request][bearer] \subseteq {Capabilities, Authentication}
        <5>1. Rendered[request][bearer] =
                UNION { IF request[2] \in {"all", "support"} THEN {Capabilities} ELSE {},
                        IF request[2] \in {"all", "support"} /\ bearer THEN {Authentication} ELSE {},
                        IF request[1] \in Configured THEN {Configuration(request[1])} ELSE {} }
          BY <1>1, <3>1, RenderedBy
        <5>2. request[1] \notin Configured
          BY <3>1, <4>1
        <5> HIDE DEF bearer
        <5>3. QED
          BY <5>1, <5>2
      <4>4. QED
        BY <4>2, <4>3 DEF Entries
    <3>4. Authentication \in entries
      BY <1>2, <3>1, <3>2, <3>3
    <3>5. disk'[Authentication] = "generated"
      BY <1>2, <1>4, <3>4 DEF TextOf, Generated
    <3>6. disk[Capabilities] = "absent" /\ Capabilities \notin entries
      BY <1>1, <1>3, <3>1, <3>2, WhoWrites
    <3>7. QED
      BY <1>6, <3>5, <3>6 DEF Noticeable
  <2>2. CASE request # support
    <3>1. disk[Authentication] = "generated" /\ "authentication" \notin answers
      BY <1>2, <1>9, <2>2 DEF Noticeable
    <3>2. Authentication \notin entries /\ Authentication \notin Entries(v, request, bearer)
      BY <1>2, <1>3, <1>4, <3>1
    <3>3. disk'[Authentication] = "generated"
      BY <1>2, <1>4, <3>1, <3>2
    <3>4. Capabilities \in entries => ~bearer
      BY <1>1, <1>2, <1>4, <3>2, WhoWrites
    <3>5. "authentication" \notin answers'
      BY <3>1, <3>4 DEF Write
    <3>6. QED
      BY <3>3, <3>5
  <2>3. QED
    BY <2>1, <2>2
<1>10. disk'[Baseline("standard")] # "absent" => support \in Manifested'
  <2>1. SUFFICES ASSUME disk[Baseline("standard")] = "absent", disk'[Baseline("standard")] # "absent"
                 PROVE  support \in Manifested'
    BY <1>2 DEF Noticeable
  <2>2. Baseline("standard") \in entries
    BY <1>2, <1>4, <2>1
  <2>3. Baseline("standard") \in Support["standard"]
    BY ReleasesAssumption DEF Bases
  <2>4. ManifestFile \in entries
    BY <2>2, <2>3, PlaceAssumption DEF Prefix
  <2>5. request = support
    BY <1>1, <1>2, <1>4, <2>2, WhoWrites
  <2>6. QED
    BY <1>2, <2>4, <2>5
<1>11. Catalog \in Files /\ disk'[Catalog] # "absent" => First \cap Manifested' # {}
  <2>1. SUFFICES ASSUME Catalog \in Files, disk[Catalog] = "absent", disk'[Catalog] # "absent"
                 PROVE  First \cap Manifested' # {}
    BY <1>2 DEF Noticeable
  <2>2. Catalog \in entries
    BY <1>2, <2>1
  <2>3. Catalog \in UNION {Common[w] : w \in Releases}
    BY CatalogAssumption
  <2>4. ManifestFile \in entries
    BY <2>2, <2>3, PlaceAssumption DEF Prefix
  <2>5. request \in First
    BY <1>1, <1>2, <1>4, <2>1, <2>2, WhoWrites
  <2>6. QED
    BY <1>2, <2>4, <2>5
<1>12. QED
  BY <1>5, <1>6, <1>7, <1>8, <1>9, <1>10, <1>11 DEF Noticeable

\* A killed command wrote the beginning of its plan, and not all of it.
LEMMA KilledInOrder ==
    ASSUME NEW v \in Releases, NEW request \in Requests, Killed(v, request)
    PROVE  \E a \in AnswersOf(request) : \E entries \in SUBSET Plan(v, request, "authentication" \in a) :
              /\ Prefix(entries) /\ Write(v, request, a, entries) /\ entries # {}
              /\ ManifestFile \in entries => \E f \in Plan(v, request, "authentication" \in a) :
                                                f \notin entries /\ Place[ManifestFile] < Place[f]
<1>1. PICK a \in AnswersOf(request) : \E f \in Plan(v, request, "authentication" \in a) :
        LET written == {g \in Plan(v, request, "authentication" \in a) : Place[g] < Place[f]} IN
        written # {} /\ Write(v, request, a, written)
  BY DEF Killed
<1> DEFINE plan == Plan(v, request, "authentication" \in a)
<1>2. PICK f \in plan : LET written == {g \in plan : Place[g] < Place[f]} IN
        written # {} /\ Write(v, request, a, written)
  BY <1>1
<1> DEFINE written == {g \in plan : Place[g] < Place[f]}
<1>3. written # {} /\ Write(v, request, a, written) /\ written \in SUBSET plan
  BY <1>2
<1>4. ManifestFile \in plan /\ \A g \in plan : Place[g] \in Nat
  <2>1. ("authentication" \in a) \in BOOLEAN
    OBVIOUS
  <2>2. Entries(v, request, "authentication" \in a) \subseteq Files
    BY <2>1, EntriesAreFiles
  <2>3. plan \subseteq Files \cup {ManifestFile} /\ ManifestFile \in plan
    BY <2>2 DEF Plan, Entries
  <2>4. QED
    BY <2>3, ReleasesAssumption
<1>5. Prefix(written)
  BY <1>4 DEF Prefix
<1>6. ManifestFile \in written => f \notin written /\ Place[ManifestFile] < Place[f]
  BY <1>4
<1> HIDE DEF written
<1>7. QED
  BY <1>2, <1>3, <1>5, <1>6

LEMMA StepNoticeable == TypeOK /\ Noticeable /\ [Next]_vars => Noticeable'
<1> SUFFICES ASSUME TypeOK, Noticeable, [Next]_vars, touched' = {} PROVE Noticeable'
  BY DEF Noticeable
<1>1. ASSUME NEW v \in Releases, NEW request \in Requests, Initialise(v, request) PROVE Noticeable'
  <2>1. PICK a \in AnswersOf(request) : Write(v, request, a, Plan(v, request, "authentication" \in a))
    BY <1>1 DEF Initialise
  <2> DEFINE plan == Plan(v, request, "authentication" \in a)
  <2>2. v \notin Legacy /\ touched = {} /\ cut' = cut \ {request}
    BY <1>1, <2>1 DEF Initialise, Write
  <2>3. Prefix(plan) /\ plan # {}
    BY DEF Prefix, Plan
  <2>4. QED
    BY <2>1, <2>2, <2>3, WriteNoticeable
<1>2. ASSUME NEW v \in Releases, NEW request \in Requests, Killed(v, request) PROVE Noticeable'
  <2>1. PICK a \in AnswersOf(request) : \E entries \in SUBSET Plan(v, request, "authentication" \in a) :
          /\ Prefix(entries) /\ Write(v, request, a, entries) /\ entries # {}
          /\ ManifestFile \in entries => \E f \in Plan(v, request, "authentication" \in a) :
                                            f \notin entries /\ Place[ManifestFile] < Place[f]
    BY <1>2, KilledInOrder
  <2>2. PICK entries \in SUBSET Plan(v, request, "authentication" \in a) :
          /\ Prefix(entries) /\ Write(v, request, a, entries) /\ entries # {}
          /\ ManifestFile \in entries => \E f \in Plan(v, request, "authentication" \in a) :
                                            f \notin entries /\ Place[ManifestFile] < Place[f]
    BY <2>1
  <2>3. v \notin Legacy /\ touched = {} /\ cut' = cut \cup {request}
    BY <1>2, <2>2 DEF Killed, Write
  <2>4. QED
    BY <2>2, <2>3, WriteNoticeable
<1>3. ASSUME User PROVE Noticeable'
  <2>1. UserDamagesInventory
    BY <1>3 DEF User, UserEdits, UserAnswers, UserAdopts, UserDamagesManifest
  <2>2. UNCHANGED <<disk, manifest, answers, cut, touched>>
    BY <2>1 DEF UserDamagesInventory
  <2>3. Manifested' = Manifested /\ Profiles' = Profiles /\ \A q : Declared(q)' = Declared(q)
    BY <2>2 DEF Manifested, Profiles, Declared
  <2>4. QED
    BY <2>2, <2>3 DEF Noticeable
<1>4. CASE UNCHANGED vars
  <2>1. Manifested' = Manifested /\ Profiles' = Profiles /\ \A q : Declared(q)' = Declared(q)
    BY <1>4 DEF vars, Manifested, Profiles, Declared
  <2>2. QED
    BY <1>4, <2>1 DEF vars, Noticeable
<1>5. QED
  BY <1>1, <1>2, <1>3, <1>4 DEF Next

LEMMA VerifierContent ==
    ASSUME VerifyExit = 0 PROVE Status = "valid"
<1> DEFINE status == Status
<1>1. VerifyExit =
        CASE ~inventories -> 2
          [] inventories /\ status = "valid" -> 0
          [] inventories /\ status \in {"valid_with_local_changes", "unverifiable_legacy_installation"} -> 1
          [] OTHER -> 2
  BY DEF VerifyExit
<1> HIDE DEF status
<1>2. status = "valid"
  BY <1>1
<1>3. QED
  BY <1>2 DEF status

\* A killed initialisation is noticed by the verifier or by the doctor, however
\* often commands are killed and whatever is initialised around it.
THEOREM InterruptionIsNoticedHolds == Spec => []InterruptionIsNoticed
<1>1. TypeOK /\ Noticeable => InterruptionIsNoticed
  <2> SUFFICES ASSUME TypeOK, Noticeable, touched = {}, VerifyExit = 0, DoctorExit = 0, NEW q \in cut,
                      ~(cut = {<<"minimal", "all">>} /\ "minimal" \notin Profiles /\ "standard" \in Profiles)
               PROVE  FALSE
    BY DEF InterruptionIsNoticed
  <2>1. Status = "valid" /\ ~DoctorErrors /\ ~DoctorWarnings
    BY VerifierContent DEF DoctorExit
  <2>2. /\ Manifested # {} /\ ~Competing
        /\ \A r \in Manifested : \A f \in Declared(r) : disk[f] # "absent"
        /\ RegularFile(Catalog) /\ CapabilitiesLoad
        /\ "authentication" \in answers <=> AuthenticationLoads
    BY <2>1, ValidFacts, ValidAnswers
  <2>3. cut \cap Manifested = {}
    BY <2>2 DEF Noticeable, Competing
  <2>4. ASSUME NEW addon \in Addons PROVE <<addon, "addon">> \notin cut
    <3>1. SUFFICES ASSUME <<addon, "addon">> \in cut PROVE FALSE
      OBVIOUS
    <3>2. addon \in answers /\ <<addon, "addon">> \notin Manifested
      BY <2>3, <3>1 DEF Noticeable
    <3>3. addon \in Profiles
      BY <2>1, <2>2, <3>2 DEF DoctorErrors
    <3>4. QED
      BY <3>2, <3>3 DEF Profiles, Manifested, Requests, Addons
  <2>5. <<"standard", "workflow">> \notin cut
    <3>1. SUFFICES ASSUME <<"standard", "workflow">> \in cut PROVE FALSE
      OBVIOUS
    <3>2. <<"standard", "support">> \in Manifested /\ <<"standard", "workflow">> \notin Manifested
      BY <2>3, <3>1 DEF Noticeable
    <3>3. "minimal" \in Profiles
      BY <2>1, <3>2 DEF DoctorWarnings, StandardPending
    <3>4. QED
      BY <2>2, <3>2, <3>3 DEF Competing, Profiles, Bases
  <2>6. <<"standard", "support">> \notin cut
    BY <2>2, <2>3 DEF Noticeable, AuthenticationLoads, RegularFile
  <2>7. cut = {<<"minimal", "all">>}
    BY <2>4, <2>5, <2>6 DEF TypeOK, Requests
  <2>8. <<"minimal", "all">> \notin Manifested
    BY <2>3, <2>7
  <2>9. "minimal" \notin Profiles
    BY <2>8 DEF Profiles, Manifested, Requests, Addons
  <2>10. PICK r \in Manifested : r \in First
    <3>1. Catalog \in Files
      <4>1. PICK r \in Manifested : TRUE
        BY <2>2
      <4>2. manifest[r].release \in Releases
        BY DEF Manifested
      <4>3. QED
        BY <4>2, CatalogAssumption DEF Files
    <3>2. QED
      BY <2>2, <3>1 DEF Noticeable, RegularFile
  <2>11. "standard" \in Profiles
    BY <2>8, <2>10 DEF First, Profiles
  <2>12. QED
    BY <2>7, <2>9, <2>11
<1>2. Spec => []Noticeable
  BY InitiallyNoticeable, StepNoticeable, InstallationTyping, PTL DEF Spec
<1>3. QED
  BY <1>1, <1>2, InstallationTyping, PTL

-----------------------------------------------------------------------------
(* What the planner offers to add.                                          *)

\* A common file that is there is recorded: a command comes to its manifest before it
\* comes to them.  Or the user put it there, or removed the manifest.
CommonIsRecorded ==
    \A v \in Releases : \A f \in Common[v] :
        disk[f] # "absent" => f \in Tracked \/ touched \cap {f, ManifestFile} # {}

LEMMA InitiallyRecorded == Init => CommonIsRecorded
<1> SUFFICES ASSUME Init, NEW v \in Releases, NEW f \in Common[v], disk[f] # "absent" PROVE f \in Tracked
  BY DEF CommonIsRecorded
<1> DEFINE minimal == <<"minimal", "all">>
<1>1. f \in Files
  BY DEF Files
<1>2. PICK w \in Legacy :
        /\ disk = [g \in Files |-> IF g \in Shipped[w][minimal] THEN TextOf(w, g) ELSE "absent"]
        /\ manifest = [[request \in Requests |-> NoManifest] EXCEPT ![minimal].release = w]
  BY <1>1 DEF Init
<1>3. w \in Releases /\ minimal \in Requests
  BY ReleasesAssumption DEF Requests
<1>4. manifest[minimal].release = w
  BY <1>2, <1>3 DEF NoManifest
<1>5. f \in Shipped[w][minimal]
  BY <1>1, <1>2
<1>6. QED
  BY <1>3, <1>4, <1>5 DEF Tracked, Manifested, Declared

LEMMA WriteRecords ==
    ASSUME TypeOK, CommonIsRecorded,
           NEW v \in Releases \ Legacy, NEW request \in Requests, NEW a \in AnswersOf(request),
           NEW entries \in SUBSET Plan(v, request, "authentication" \in a), Write(v, request, a, entries),
           Prefix(entries)
    PROVE  CommonIsRecorded'
<1> DEFINE bearer == "authentication" \in a
<1> SUFFICES ASSUME NEW w \in Releases, NEW f \in Common[w], disk'[f] # "absent"
             PROVE  f \in Tracked' \/ touched' \cap {f, ManifestFile} # {}
  BY DEF CommonIsRecorded
<1>1. /\ Manifested' = Manifested \cup (IF ManifestFile \in entries THEN {request} ELSE {})
      /\ \A q \in Manifested : Declared(q)' = Declared(q)
      /\ \A g \in entries \ {ManifestFile} : g \in Entries(v, request, bearer)
      /\ \A g \in Files \ entries : disk'[g] = disk[g]
  BY WrittenEntries
<1>2. f \in Files /\ f # ManifestFile
  BY FileKindsOfAll DEF Files
<1>3. CASE f \in entries
  <2>1. ManifestFile \in entries
    BY <1>3, PlaceAssumption DEF Prefix
  <2>2. manifest'[request] = [release |-> v, bearer |-> bearer]
    BY <2>1 DEF Write, TypeOK
  <2>3. Declared(request)' = Entries(v, request, bearer)
    BY <2>2 DEF Declared, Entries
  <2>4. f \in Declared(request)' /\ request \in Manifested'
    BY <1>1, <1>2, <1>3, <2>1, <2>3
  <2>5. QED
    BY <2>4 DEF Tracked
<1>4. CASE f \notin entries
  <2>1. disk[f] # "absent"
    BY <1>1, <1>2, <1>4
  <2>2. f \in Tracked \/ touched \cap {f, ManifestFile} # {}
    BY <2>1 DEF CommonIsRecorded
  <2>3. f \in Tracked => f \in Tracked'
    BY <1>1 DEF Tracked
  <2>4. touched' = touched
    BY DEF Write
  <2>5. QED
    BY <2>2, <2>3, <2>4
<1>5. QED
  BY <1>3, <1>4

LEMMA StepRecords == TypeOK /\ CommonIsRecorded /\ [Next]_vars => CommonIsRecorded'
<1> SUFFICES ASSUME TypeOK, CommonIsRecorded, [Next]_vars PROVE CommonIsRecorded'
  OBVIOUS
<1>1. ASSUME NEW v \in Releases, NEW request \in Requests, Initialise(v, request) PROVE CommonIsRecorded'
  <2>1. PICK a \in AnswersOf(request) : Write(v, request, a, Plan(v, request, "authentication" \in a))
    BY <1>1 DEF Initialise
  <2>2. v \notin Legacy /\ Prefix(Plan(v, request, "authentication" \in a))
    BY <1>1 DEF Initialise, Prefix, Plan
  <2>3. QED
    BY <2>1, <2>2, WriteRecords
<1>2. ASSUME NEW v \in Releases, NEW request \in Requests, Killed(v, request) PROVE CommonIsRecorded'
  <2>1. PICK a \in AnswersOf(request) : \E entries \in SUBSET Plan(v, request, "authentication" \in a) :
          Prefix(entries) /\ Write(v, request, a, entries)
    BY <1>2, KilledInOrder
  <2>2. v \notin Legacy
    BY <1>2 DEF Killed
  <2>3. QED
    BY <2>1, <2>2, WriteRecords
<1>3. ASSUME NEW v \in Releases, NEW f \in Common[v], disk'[f] # "absent", User
      PROVE  f \in Tracked' \/ touched' \cap {f, ManifestFile} # {}
  <2>1. touched \subseteq touched'
    BY <1>3 DEF User, UserEdits, UserAnswers, UserDamagesInventory, UserAdopts, UserDamagesManifest
  <2>2. f # Capabilities
    BY FileKinds DEF Capabilities
  <2>3. disk'[f] = disk[f] \/ f \in touched'
    <3>1. ASSUME NEW g, NEW text, disk' = [disk EXCEPT ![g] = text], g # f PROVE disk'[f] = disk[f]
      <4>1. f \in Files
        BY DEF Files
      <4>2. QED
        BY <3>1, <4>1 DEF TypeOK
    <3>2. ASSUME NEW g \in Files, UserEdits(g) PROVE disk'[f] = disk[f] \/ f \in touched'
      BY <3>1, <3>2 DEF UserEdits
    <3>3. CASE UserAnswers
      BY <2>2, <3>1, <3>3 DEF UserAnswers
    <3>4. ASSUME NEW w \in Releases, NEW g \in Files, UserAdopts(w, g)
          PROVE  disk'[f] = disk[f] \/ f \in touched'
      BY <3>1, <3>4 DEF UserAdopts
    <3>5. QED
      BY <1>3, <3>2, <3>3, <3>4 DEF User, UserDamagesInventory, UserDamagesManifest
  <2>4. manifest' = manifest \/ ManifestFile \in touched'
    BY <1>3 DEF User, UserEdits, UserAnswers, UserDamagesInventory, UserAdopts, UserDamagesManifest
  <2>5. manifest' = manifest => Tracked' = Tracked
    BY DEF Tracked, Manifested, Declared
  <2>6. QED
    BY <1>3, <2>1, <2>3, <2>4, <2>5 DEF CommonIsRecorded
<1>4. CASE UNCHANGED vars
  <2>1. Tracked' = Tracked
    BY <1>4 DEF vars, Tracked, Manifested, Declared
  <2>2. QED
    BY <1>4, <2>1 DEF vars, CommonIsRecorded
<1>5. QED
  BY <1>1, <1>2, <1>3, <1>4 DEF Next, CommonIsRecorded

\* What is offered is a common file of the other release.
LEMMA OfferedIsCommon ==
    ASSUME NEW v \in Releases, NEW f \in Planned(v), Classify(v, f) = "add"
    PROVE  f \in Common[v] \ Tracked
<1>1. f \notin Tracked /\ f # Verification
  BY DEF Classify
<1>2. PICK r \in Manifested : f \in Shipped[v][r]
  BY <1>1 DEF Planned, Proposed
<1>3. r \in Requests /\ manifest[r].release \in Releases
  BY DEF Manifested
<1>4. f \notin Shipped[manifest[r].release][r]
  BY <1>1, <1>3 DEF Tracked, Declared
<1>5. f \in Common[v]
  BY <1>2, <1>3, <1>4, ShippedBy
<1>6. QED
  BY <1>1, <1>5

\* What the planner offers to add is not there, however many commands were killed,
\* unless the user put it there or removed the manifest that recorded it.
THEOREM OfferedIsFreeHolds == Spec => []OfferedIsFree
<1>1. CommonIsRecorded => OfferedIsFree
  <2> SUFFICES ASSUME CommonIsRecorded, NEW v \in Bundles, NEW f \in Planned(v),
                      disk[f] # "absent", Classify(v, f) = "add"
               PROVE  touched \cap {f, ManifestFile} # {}
    BY DEF OfferedIsFree
  <2>1. v \in Releases
    BY DEF Bundles
  <2>2. f \in Common[v] \ Tracked
    BY <2>1, OfferedIsCommon
  <2>3. QED
    BY <2>1, <2>2 DEF CommonIsRecorded
<1>2. Spec => []CommonIsRecorded
  BY InitiallyRecorded, StepRecords, InstallationTyping, PTL DEF Spec
<1>3. QED
  BY <1>1, <1>2, PTL

\* The commands that judge an installation complain about what init wrote in two known
\* cases only, never take a recorded file that a user changed for it, and offer to add
\* a file that is there only where the user put it or removed its record.
THEOREM ReviewIsHonestHolds == Spec => []ReviewIsHonest
<1>1. ReviewIsHonest <=> UntouchedIsAccepted /\ UserTextIsSeen /\ OfferedIsFree
  BY DEF ReviewIsHonest
<1>2. QED
  BY <1>1, UntouchedIsAcceptedHolds, UserTextIsSeenHolds, OfferedIsFreeHolds, PTL

===============================================================================
