----------------------------- MODULE VerifiedCache -----------------------------
(***************************************************************************)
(* The two caches of a managed scan: the runtime that the skill's          *)
(* bootstrap_scan.py downloads and starts, and the scanners that the       *)
(* started `vibesec scan` (or scripts/install_profile_tools.py) downloads  *)
(* with scripts/vibesec/toolchain.py.  Both are filled in a private        *)
(* staging directory, published by one rename and validated before use.    *)
(* Nothing is locked: any number of commands may fill one cache at once,   *)
(* any call may fail and any command may be killed.                        *)
(***************************************************************************)
EXTENDS Naturals, Sequences, FiniteSets, Functions

CONSTANTS
    Procs,      \* commands that may run at the same time
    Tools,      \* the scanners of the profile, in the order of PROFILE_TOOLS
    Metadata,   \* config/tools.json of each checkout: what it expects of each scanner
    Verifier,   \* the tool that checks signatures (cosign)
    Artifacts,  \* what a download may bring
    NoEntry,    \* nothing is at the path
    MaxFaults   \* bound on kills and on changes made by other hands

Members == [name: STRING, inside: BOOLEAN, type: {"file", "directory", "link"},
            size: {"empty", "fits", "huge"}, listed: BOOLEAN]

\* The release pinned in runtime.json, or a bundle the caller vouches for: the
\* checkouts that commands run from, each with tools of its own.
Sources == {"release", "local"}
\* A digest stands for the version it belongs to.
Asset == [digest: STRING, archive: {"binary", "tar.gz"}, signed: BOOLEAN]

ASSUME ArtifactsAssumption ==
    \A artifact \in Artifacts :
        /\ artifact.host \in {"reviewed", "other"} /\ artifact.length \in {"fits", "huge"}
        /\ artifact.digest \in {"expected", "other"} /\ artifact.signed \in BOOLEAN
        /\ artifact.members \in Seq(Members)

ASSUME ToolsAssumption ==
    /\ Tools \in Seq(STRING) /\ Tools # <<>> /\ IsInjective(Tools)
    /\ {"files", "record"} \cap Range(Tools) = {}
    /\ Metadata \in [Sources -> [Range(Tools) -> Asset]]
    /\ Verifier \in Range(Tools)
    /\ MaxFaults \in Nat

VARIABLES
    cache,      \* what is published under each key
    parents,    \* the directories above each key exist
    staging,    \* the private directory of each command
    litter,     \* keys beside which an ownerless staging directory lies
    proc,       \* the commands
    outcome,    \* how the last command of each slot ended
    faults,     \* kills and foreign changes so far
    leftover    \* a kill or a failed removal left a staging directory

vars == <<cache, parents, staging, litter, proc, outcome, faults, leftover>>

Kinds == {"runtime", "tools"}
\* What is fetched for a key, in order; "record" is the marker or manifest.
Fetched(k) == IF k = "runtime" THEN <<"files">> ELSE Tools
Parts(k) == Range(Fetched(k)) \cup {"record"}
Contents == {"absent", "genuine", "altered"}

Entry(k) == [source: Sources, part: [Parts(k) -> Contents], extra: BOOLEAN, touched: BOOLEAN]
Stage(k) == [part: [Parts(k) -> Contents]]
EmptyStage(k) == [part |-> [x \in Parts(k) |-> "absent"]]

ASSUME NoEntryAssumption == \A k \in Kinds : NoEntry \notin Entry(k) \cup Stage(k)

Commands == {"bootstrap", "scan", "reuse", "tools"}
Pcs == {"idle", "inspect", "look", "check", "prepare", "mkdir", "fetch", "record", "publish",
        "verify", "abandon", "launch", "scan"}
Processes == [pc: Pcs, kind: Kinds, source: Sources,
              next: 1..(Len(Tools) + 1), why: {"none", "refused", "conflict", "failed"}]
IdleProcess == [pc |-> "idle", kind |-> "tools", source |-> "release",
                next |-> 1, why |-> "none"]
Outcomes == {"none", "ran", "refused", "conflict", "failed"}

Init ==
    /\ cache = [k \in Kinds |-> NoEntry]
    /\ parents = [k \in Kinds |-> FALSE]
    /\ staging = [p \in Procs |-> NoEntry]
    /\ litter = {}
    /\ proc = [p \in Procs |-> IdleProcess]
    /\ outcome = [p \in Procs |-> "none"]
    /\ faults = 0 /\ leftover = FALSE

Idle(p) == proc[p].pc = "idle"
At(p, pc) == proc[p].pc = pc
Kind(p) == proc[p].kind
Source(p) == proc[p].source

Goto(p, pc) == proc' = [proc EXCEPT ![p].pc = pc] /\ UNCHANGED <<outcome, faults, leftover>>
Finish(p, how) ==
    /\ proc' = [proc EXCEPT ![p] = IdleProcess]
    /\ outcome' = [outcome EXCEPT ![p] = how]
    /\ UNCHANGED <<faults, leftover>>

\* An error ends the command at once, or by way of the `except` clause.
Fail(p, why) ==
    IF staging[p] = NoEntry
    THEN Finish(p, why)
    ELSE /\ proc' = [proc EXCEPT ![p].pc = "abandon", ![p].why = why]
         /\ UNCHANGED <<outcome, faults, leftover>>

-----------------------------------------------------------------------------
(* What validation accepts.                                                 *)

\* _validate_cached_runtime: the marker names the wanted digest, every file of
\* the manifest is unchanged, and there is no file besides.
ValidRuntime(e, source) ==
    /\ e # NoEntry
    /\ e.source = source
    /\ \A x \in Parts("runtime") : e.part[x] = "genuine"
    /\ ~e.extra

\* The scanners of one checkout are those that another expects.
SameTools(source, other) ==
    \A x \in Range(Tools) : Metadata[source][x].digest = Metadata[other][x].digest

\* validate_tool_cache: the manifest is of this version, platform and profile,
\* bin/ holds its executables and no other, each is the file the manifest
\* records, and came in the artifact that this checkout expects.
ValidTools(e, source) ==
    /\ e # NoEntry
    /\ \A x \in Parts("tools") : e.part[x] = "genuine"
    /\ ~e.extra
    /\ SameTools(e.source, source)

\* Mutation: the manifest is compared with the executables and not with the
\* metadata of the checkout that runs.
ValidForAny(k, e, source) ==
    IF k = "runtime" THEN ValidRuntime(e, source) ELSE e # NoEntry /\ ValidTools(e, e.source)

Valid(k, e, source) == IF k = "runtime" THEN ValidRuntime(e, source) ELSE ValidTools(e, source)

-----------------------------------------------------------------------------
(* What is downloaded: its host and length, its digest, its signature, and  *)
(* the members of its archive.                                              *)

\* _download and _download_https: from a reviewed host and within the limit.
Arrives(artifact) == artifact.host = "reviewed" /\ artifact.length = "fits"

\* _verified_entries: regular files at unique canonical paths within the size
\* limits, and exactly those of the manifest, with its digests and modes.
BundleVerifies(members) ==
    /\ members # <<>>
    /\ \A i \in DOMAIN members :
         /\ members[i].inside /\ members[i].type = "file"
         /\ members[i].size # "huge" /\ members[i].listed
    /\ \A i, j \in DOMAIN members : members[i].name = members[j].name => i = j

\* extract_executable: no unsafe path and no special member anywhere, and one
\* regular file of that name, which is neither empty nor too large.
ExtractsSafely(members, name) ==
    LET candidates == {i \in DOMAIN members : members[i].name = name} IN
    /\ \A i \in DOMAIN members : members[i].inside /\ members[i].type # "link"
    /\ Cardinality(candidates) = 1
    /\ \A i \in candidates : members[i].type = "file" /\ members[i].size = "fits"

\* _extract: a release that is the executable itself is copied.
Extracts(artifact, asset) ==
    asset.archive = "binary" \/ ExtractsSafely(artifact.members, "executable")

\* What verify-blob says: an altered verifier may say anything.
Verdicts(p, artifact) ==
    IF staging[p].part[Verifier] = "altered" THEN BOOLEAN ELSE {artifact.signed}

\* What an artifact is, whatever of it was checked: the reviewed one, the one
\* its publisher signed, and one that holds no more than it should.
IsBundle(artifact) == artifact.digest = "expected" /\ BundleVerifies(artifact.members)
IsTool(artifact, asset) ==
    /\ artifact.digest = "expected"
    /\ asset.signed => artifact.signed
    /\ Extracts(artifact, asset)

-----------------------------------------------------------------------------
(* The start of a command.                                                  *)

\* The skill's bootstrap, `vibesec scan --install-tools`, `vibesec scan
\* --cache-dir`, and install_profile_tools.py, each of either checkout.
Begin(p, command, source) ==
    /\ Idle(p)
    /\ proc' = [proc EXCEPT ![p] =
         [IdleProcess EXCEPT !.source = source,
            !.kind = IF command = "bootstrap" THEN "runtime" ELSE "tools",
            !.pc = CASE command = "bootstrap" -> "look"
                     [] command = "reuse" -> "check"
                     [] OTHER -> "inspect"]]
    /\ outcome' = [outcome EXCEPT ![p] = "none"]
    /\ UNCHANGED <<cache, parents, staging, litter, faults, leftover>>

\* inspect_profile_cache, for the disclosure only: the installer looks again.
Inspect(p) ==
    /\ At(p, "inspect")
    /\ IF cache["tools"] = NoEntry \/ Valid("tools", cache["tools"], Source(p))
       THEN Goto(p, "look")
       ELSE Fail(p, "refused")
    /\ UNCHANGED <<cache, parents, staging, litter>>

\* The destination exists, or it has to be made.
Look(p) ==
    /\ At(p, "look")
    /\ Goto(p, IF cache[Kind(p)] # NoEntry THEN "check" ELSE "prepare")
    /\ UNCHANGED <<cache, parents, staging, litter>>

\* Where a command goes once its entry is validated.
Adopt(p) == Goto(p, IF Kind(p) = "runtime" THEN "launch" ELSE "scan")

\* An entry is validated, and never repaired.
Check(p) ==
    /\ At(p, "check")
    /\ IF Valid(Kind(p), cache[Kind(p)], Source(p)) THEN Adopt(p) ELSE Fail(p, "refused")
    /\ UNCHANGED <<cache, parents, staging, litter>>

-----------------------------------------------------------------------------
(* The installation.                                                        *)

Prepare(p) ==
    /\ At(p, "prepare")
    /\ IF parents[Kind(p)]
       THEN /\ staging' = [staging EXCEPT ![p] = EmptyStage(Kind(p))]
            /\ Goto(p, "fetch")
       ELSE /\ Goto(p, "mkdir")
            /\ UNCHANGED staging
    /\ UNCHANGED <<cache, parents, litter>>

\* mkdir does not tolerate a directory that appeared since it was missed.
MakeParents(p) ==
    /\ At(p, "mkdir")
    /\ IF parents[Kind(p)] THEN Fail(p, "conflict") ELSE Goto(p, "prepare")
    /\ parents' = [parents EXCEPT ![Kind(p)] = TRUE]
    /\ UNCHANGED <<cache, staging, litter>>

Lay(p, x, genuine) ==
    /\ staging' = [staging EXCEPT ![p].part[x] = IF genuine THEN "genuine" ELSE "altered"]
    /\ proc' = [proc EXCEPT ![p].next = @ + 1,
                  ![p].pc = IF proc[p].next = Len(Fetched(Kind(p))) THEN "record" ELSE @]
    /\ UNCHANGED <<outcome, faults, leftover>>

\* The bundle is compared with the expected digest, verified and unpacked.
FetchBundle(p) ==
    /\ At(p, "fetch") /\ Kind(p) = "runtime"
    /\ \E artifact \in Artifacts :
         IF /\ Arrives(artifact) /\ artifact.digest = "expected"
            /\ BundleVerifies(artifact.members)
         THEN Lay(p, "files", IsBundle(artifact))
         ELSE Fail(p, "failed") /\ UNCHANGED staging
    /\ UNCHANGED <<cache, parents, litter>>

\* Mutation: a signed tool is not compared with its digest, as if the signature
\* were enough.
FetchToolTrustingSignature(p) ==
    LET x == Tools[proc[p].next]
        asset == Metadata[Source(p)][x]
    IN
    /\ At(p, "fetch") /\ Kind(p) = "tools"
    /\ \E artifact \in Artifacts : \E verdict \in Verdicts(p, artifact) :
         IF /\ Arrives(artifact) /\ Extracts(artifact, asset)
            /\ IF asset.signed THEN staging[p].part[Verifier] # "absent" /\ verdict
                               ELSE artifact.digest = "expected"
         THEN Lay(p, x, IsTool(artifact, asset))
         ELSE Fail(p, "failed") /\ UNCHANGED staging
    /\ UNCHANGED <<cache, parents, litter>>

\* A tool is downloaded, compared with the reviewed digest, extracted and, if
\* it is signed, checked with the verifier, which must be installed already.
FetchTool(p) ==
    LET x == Tools[proc[p].next]
        asset == Metadata[Source(p)][x]
    IN
    /\ At(p, "fetch") /\ Kind(p) = "tools"
    /\ \E artifact \in Artifacts : \E verdict \in Verdicts(p, artifact) :
         IF /\ Arrives(artifact) /\ artifact.digest = "expected" /\ Extracts(artifact, asset)
            /\ asset.signed => staging[p].part[Verifier] # "absent" /\ verdict
         THEN Lay(p, x, IsTool(artifact, asset))
         ELSE Fail(p, "failed") /\ UNCHANGED staging
    /\ UNCHANGED <<cache, parents, litter>>

Record(p) ==
    /\ At(p, "record")
    /\ staging' = [staging EXCEPT ![p].part["record"] = "genuine"]
    /\ Goto(p, "publish")
    /\ UNCHANGED <<cache, parents, litter>>

Published(p) == [source |-> Source(p), part |-> staging[p].part, extra |-> FALSE, touched |-> FALSE]

\* Mutation: what is published already is replaced.
PublishOver(p) ==
    /\ At(p, "publish")
    /\ cache' = [cache EXCEPT ![Kind(p)] = Published(p)]
    /\ staging' = [staging EXCEPT ![p] = NoEntry]
    /\ Goto(p, "verify")
    /\ UNCHANGED <<parents, litter>>

\* os.replace does not replace a directory that holds something.
Publish(p) ==
    /\ At(p, "publish")
    /\ IF cache[Kind(p)] = NoEntry
       THEN /\ cache' = [cache EXCEPT ![Kind(p)] = Published(p)]
            /\ staging' = [staging EXCEPT ![p] = NoEntry]
            /\ Goto(p, "verify")
       ELSE /\ Fail(p, "conflict")
            /\ UNCHANGED <<cache, staging>>
    /\ UNCHANGED <<parents, litter>>

\* The published entry is validated in place; it stays if it is refused.
Verify(p) ==
    /\ At(p, "verify")
    /\ IF Valid(Kind(p), cache[Kind(p)], Source(p)) THEN Adopt(p) ELSE Fail(p, "refused")
    /\ UNCHANGED <<cache, parents, staging, litter>>

\* Mutation: the staging directory is forgotten.
AbandonForgotten(p) ==
    /\ At(p, "abandon")
    /\ staging' = [staging EXCEPT ![p] = NoEntry]
    /\ litter' = litter \cup {Kind(p)}
    /\ proc' = [proc EXCEPT ![p] = IdleProcess]
    /\ outcome' = [outcome EXCEPT ![p] = proc[p].why]
    /\ UNCHANGED <<cache, parents, faults, leftover>>

\* shutil.rmtree(staging, ignore_errors=True).
Abandon(p) ==
    /\ At(p, "abandon")
    /\ staging' = [staging EXCEPT ![p] = NoEntry]
    /\ \E removed \in BOOLEAN :
         /\ litter' = IF removed THEN litter ELSE litter \cup {Kind(p)}
         /\ leftover' = (leftover \/ ~removed)
    /\ proc' = [proc EXCEPT ![p] = IdleProcess]
    /\ outcome' = [outcome EXCEPT ![p] = proc[p].why]
    /\ UNCHANGED <<cache, parents, faults>>

\* Any call of an installation may fail, its reads and its rename included.
CallFails(p) ==
    /\ proc[p].pc \in {"inspect", "look", "check", "prepare", "mkdir", "fetch", "record",
                       "publish", "verify", "launch"}
    /\ Fail(p, "failed")
    /\ UNCHANGED <<cache, parents, staging, litter>>

-----------------------------------------------------------------------------
(* The use of the caches.                                                   *)

\* The bootstrap starts `vibesec scan --install-tools` from the cached
\* runtime.  Python writes __pycache__ beside the modules it imports, unless
\* the environment says otherwise.
Launch(p) ==
    /\ At(p, "launch")
    /\ cache["runtime"] # NoEntry
    /\ \E bytecode \in BOOLEAN :
         cache' = [cache EXCEPT !["runtime"].extra = @ \/ bytecode]
    /\ proc' = [proc EXCEPT ![p].kind = "tools", ![p].pc = "inspect", ![p].next = 1]
    /\ UNCHANGED <<parents, staging, litter, outcome, faults, leftover>>

\* The scanners have run, or the path of the scanners is printed.
Scan(p) ==
    /\ At(p, "scan")
    /\ Finish(p, "ran")
    /\ UNCHANGED <<cache, parents, staging, litter>>

-----------------------------------------------------------------------------
(* The environment.                                                         *)

\* A kill of the bootstrap that spares the scan it started shows as a scan
\* that goes on.
Kill(p) ==
    /\ ~Idle(p) /\ faults < MaxFaults
    /\ faults' = faults + 1
    /\ litter' = IF staging[p] = NoEntry THEN litter ELSE litter \cup {Kind(p)}
    /\ leftover' = (leftover \/ staging[p] # NoEntry)
    /\ staging' = [staging EXCEPT ![p] = NoEntry]
    /\ proc' = [proc EXCEPT ![p] = IdleProcess]
    /\ UNCHANGED <<cache, parents, outcome>>

\* Another hand changes, deletes or adds a file.
Touch(k) ==
    /\ cache[k] # NoEntry /\ faults < MaxFaults
    /\ faults' = faults + 1
    /\ \/ \E x \in Parts(k), content \in {"absent", "altered"} :
             cache' = [cache EXCEPT ![k].part[x] = content, ![k].touched = TRUE]
       \/ cache' = [cache EXCEPT ![k].extra = TRUE, ![k].touched = TRUE]
    /\ UNCHANGED <<parents, staging, litter, proc, outcome, leftover>>

\* "When no VibeSec Guardian process is using it", the user removes a cache.
Clear(k) ==
    /\ \A p \in Procs : Idle(p)
    /\ cache[k] # NoEntry \/ k \in litter
    /\ cache' = [cache EXCEPT ![k] = NoEntry]
    /\ litter' = litter \ {k}
    /\ \E all \in BOOLEAN : parents' = [parents EXCEPT ![k] = @ /\ ~all]
    /\ UNCHANGED <<staging, proc, outcome, faults, leftover>>

Command(p) ==
    \/ \E command \in Commands, source \in Sources : Begin(p, command, source)
    \/ Inspect(p) \/ Look(p) \/ Check(p)
    \/ Prepare(p) \/ MakeParents(p) \/ FetchBundle(p) \/ FetchTool(p) \/ Record(p)
    \/ Publish(p) \/ Verify(p) \/ Abandon(p) \/ CallFails(p)
    \/ Launch(p) \/ Scan(p)

Environment == (\E p \in Procs : Kill(p)) \/ (\E k \in Kinds : Touch(k) \/ Clear(k))

Next == (\E p \in Procs : Command(p)) \/ Environment

Spec == Init /\ [][Next]_vars

-----------------------------------------------------------------------------
(* What must hold.                                                          *)

\* Types of the caches, the staging directories and the commands.
TypeOK ==
    /\ DOMAIN cache = Kinds
    /\ \A k \in Kinds : cache[k] \in Entry(k) \cup {NoEntry}
    /\ parents \in [Kinds -> BOOLEAN]
    /\ DOMAIN staging = Procs
    /\ \A p \in Procs : staging[p] \in Stage(Kind(p)) \cup {NoEntry}
    /\ litter \subseteq Kinds
    /\ proc \in [Procs -> Processes]
    /\ outcome \in [Procs -> Outcomes]
    /\ faults \in 0..MaxFaults
    /\ leftover \in BOOLEAN

\* "Atomically publish each exact tool" (docs/local-execution.md): whatever
\* fails, is killed or runs at the same time, a published entry that no other
\* hand touched is complete, and each part of it is what the checkout that
\* installed it asked for: of the reviewed digest, out of a sound archive and,
\* where it is signed, signed by its publisher as a verifier found that is
\* itself the reviewed one.
PublishedIsGenuine ==
    \A k \in Kinds :
        cache[k] # NoEntry /\ ~cache[k].touched =>
            \A x \in Parts(k) : cache[k].part[x] = "genuine"

Serves(k, e, source) == IF k = "runtime" THEN e.source = source ELSE SameTools(e.source, source)

\* A command runs what it asked for and what validation saw, although commands
\* of the release and of a local bundle, whose tools may differ, share both
\* caches: the entry behind a started runtime is of the wanted release or
\* bundle, that behind a scan has the scanners that the checkout of the scan
\* expects, and either is unchanged unless another hand touched it.
RunsWhatItValidated ==
    \A p \in Procs :
        proc[p].pc \in {"launch", "scan"} =>
            LET e == cache[Kind(p)] IN
            /\ e # NoEntry
            /\ Serves(Kind(p), e, Source(p))
            /\ ~e.touched => \A x \in Parts(Kind(p)) : e.part[x] = "genuine"

\* No command changes or removes what is published: an entry keeps its origin
\* and its files until another hand touches it, so that a scanner is never
\* swapped while a scan of another terminal uses it.
PublishedStays ==
    [][\A k \in Kinds :
         cache[k] # NoEntry /\ faults' = faults /\ (\E p \in Procs : ~Idle(p)) =>
             /\ cache'[k] # NoEntry
             /\ cache'[k].source = cache[k].source
             /\ cache'[k].part = cache[k].part]_vars

\* A failed installation takes its staging directory back; what lies around
\* was left by a kill or by a removal that failed.
FailureLeavesNoStaging ==
    /\ litter # {} => leftover
    /\ \A p \in Procs : staging[p] # NoEntry =>
           proc[p].pc \in {"fetch", "record", "publish", "abandon"}

\* What docs/threat-model.md, docs/architecture.md and the tests say of the
\* bootstrap: it "rehashes the complete cached runtime before reuse".  A
\* runtime that no other hand touched and that was asked for is reused.
RuntimeIsReused ==
    [][\A p \in Procs :
         At(p, "check") /\ Kind(p) = "runtime" /\ outcome'[p] = "refused" =>
             cache["runtime"].touched \/ cache["runtime"].source # proc[p].source]_vars
=============================================================================
