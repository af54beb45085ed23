# VibeSec Guardian in TLA+

VibeSec Guardian is a Python and shell harness that is copied into a repository, runs security scanners over it,
reduces what they report to a small set of documents, and turns these into an exit code that a CI job obeys. Most of
its code is text processing. What is hard in it is the rest: commands that rewrite shared files without a lock,
multi-step operations with hand-written rollbacks, scripts that own Docker containers they must remove on every path,
an incremental merge of findings that must not join what contradicts itself, caches that several commands fill at
once, installations that are built up in stages and judged by three different commands, and a chain of exit codes in
which a failure must never read as "clean". This directory models those parts, checks them with TLC and proves what
matters most about them with TLAPS.

Source paths below are relative to `src/`; `vibesec/x.py` is short for `scripts/vibesec/x.py`.

## Inventory

| Part | State it keeps | Operations | Interacts with | What must hold |
|---|---|---|---|---|
| **Extension store** (`vibesec/extensions.py`, `scripts/manage_extensions.py`) | `.vibesec/extensions.json`, one directory per id and version, parked directories during removal | install, remove, enable, disable, verify, run an adapter and publish what it returns | its own other invocations, through the files; the adapter, which nobody trusts | recorded content is never lost or replaced; an adapter is launched only when verified; a failed command leaves nothing half done; what stands in the results directory was earned |
| **Agent guidance** (`vibesec/agents.py`, `scripts/manage_agents.py`) | `.vibesec/agents.json`, one instruction file per adapter, a tombstone during removal | install, enable, disable, remove, and read-only commands | the user, who edits the same files | a command never destroys the user's text, and is all or nothing |
| **Finding correlation** (`vibesec/finding_intelligence.py`, `policy.py`) | in memory: union-find forest, members per component, decisions; two documents | validate, build, render, validate again, judge | reads normalized documents, its groups are read by the policy gate | the groups partition the findings, are held together by evidence, never join colliding fingerprints, and hide nothing from the gate |
| **Isolated runtime scans** (`scripts/run_dast_baseline.py`, `run_api_security_baseline.py`, `run_api_fuzzing.py`, and what they read with: `openapi.py`, `dast.py`, `api_security.py`, `api_fuzzing.py`) | Docker network and containers, private directory, published artifacts | one invocation: configure, start, wait, scan, evaluate, clean up, publish | the Docker daemon; the CI job or the comparison that reads exit code and artifacts | nothing outlives a run that claims success; `ran` is earned; exit code and artifacts agree; no evidence is lost between report and exit code; the script ends |
| **Profile scans** (`vibesec`, `run_standard_profile.py`, `run_minimal_profile.sh`, `policy_gate.py` and the writers) | the results directory | scan, for two profiles | scanners, policy gate, command line; successive scans share the directory | a verdict belongs to its artifacts and to no failure; exit 0 means complete |
| **Repository initialisation** (`init_vibesec.py`) | files and directories of the target repository | preflight, create-only write, rollback | the user's files | creates or leaves alone, rolls back only what it created |
| **Tool and runtime caches** (`vibesec/toolchain.py`, the skill's `bootstrap_scan.py`) | `cache/tools/<version>/<platform>/<profile>`, `cache/runtime/<version>` | validate, stage, publish, validate again | other installers on the machine; profile scans run what is in them | only a verified entry is used |
| **Authenticated comparison** (`vibesec/authenticated.py`) | two result directories, one combined | combine | two invocations of one runtime script | no violation or failure of either run disappears |
| **Installation verification, upgrades, doctor** (`vibesec/installation.py`, `plan_vibesec_upgrade.py`, `vibesec_doctor.py`, with the plans of `init_vibesec.py` and `catalog.py`) | one manifest per profile stage and add-on, the files these declare | initialise (in stages, from several releases), verify, plan an upgrade, diagnose | initialisations, kills and the user write what the three commands judge | what init wrote is accepted, what was cut short or edited is noticed, and a user's text is never taken for a release's |
| **Detection, capabilities, portability** | none | read a tree, answer | choose what a scan runs | deterministic and total |
| **Normalizers, strict JSON, policy details, SBOM, OSV database** | none | one document in, one out | called by the scans | refuse what is malformed |
| **Bundles, releases, supply chain; self-scan, repository validation; accountability** | files in CI | sequential scripts | CI | compare with fixed inventories |

## Modules

| Module | Models | Uses |
|---|---|---|
| `ExtensionRegistry` | what a maintainer is promised: an abstract registry with one entry per extension | |
| `ExtensionStore` | the extension store, call by call | `INSTANCE`s the registry and implements it |
| `ExtensionAdapter` | the run of an adapter from its launch to the published artifacts, beside the commands of the store | extends `ExtensionStore` |
| `AgentGuidance` | the writing operations of `vibesec agents`, call by call, and the user | |
| `VerifiedCache` | the runtime cache and the scanner cache, and the commands that fill and use them | |
| `FindingCorrelation` | `build`: candidates, correlation rules, union-find merge, publication | |
| `FindingDocuments` | what surrounds it: validated reports, priorities, documents, their validator, the gate | extends `FindingCorrelation` |
| `IsolatedRuntime` | one invocation of a runtime script together with the Docker daemon | |
| `ApiSchema` | an OpenAPI document, as validator, index and injection plan read it | |
| `RuntimeEvidence` | from a scanner's report to findings and an exit code | extends `ApiSchema` |
| `AuthenticatedComparison` | two runs of one script combined into one result | |
| `RuntimeResults` | the composition of the four | extends `IsolatedRuntime`, `RuntimeEvidence`, `AuthenticatedComparison` |
| `ProfileScan` | successive `vibesec scan`s of both profiles into one directory | |
| `InitWriter` | `vibesec init --write`: preflight, create-only links, rollback; and the user | |
| `Installation` | the life of an installation: initialisations, kills, and what a user does | takes an `InitWriter` run as one step |
| `InstallationReview` | verifier, upgrade planner and doctor on each of its states | extends `Installation` |
| `MC...` | the instances TLC checks | |
| `...Proofs` | theorems and their proofs | |

### ExtensionStore

`inventory`, `dirs` and `tombs` are the three things on disk. Each command is a process with a program counter (`pc`),
the slot (id, version) it works on and the inventory it read (`snap`): the code reads the inventory once and writes
the whole document computed from that copy, and so does the model. One action is one observable file-system call with
the tests that precede it, so that two commands interleave as two invocations do. `Serialised` selects what may
overlap: `TRUE` gives the use that the documentation shows, `FALSE` what the missing lock permits. `Faults` names what
may go wrong: a rename, a write or a purge raises `OSError`, the rollback of a failed write fails as well ("undo"),
the inventory is refused, the process dies, somebody edits installed content. A rollback has two ways to fail and
nobody is told of either: `rmtree(ignore_errors=True)` leaves all of the published directory or a part of it
(`InstallRollbackFails`), and the rename back from the parking place is refused, or finds the place taken
(`RemoveRollbackFails`). `struck` and `parked` are history variables that no action reads: the slots that a crash, a
refusal or a second failure left in the middle of a change, and those that a removal has moved.

The code's `except OSError` around publishing does not catch the `ExtensionError` of `validate_inventory`, so
`InstallRefused` leaves the directory behind while `InstallRollback` deletes it.

### ExtensionAdapter

What `ExtensionStore` leaves out of `run`: its `RunLaunch` ends with the launch and `RunRefused` with an error before
it. Here the launch puts the command into `stage` "running", and `run` holds what the manifest declares and, once it
is accepted, what the adapter did. An *execution* is all that the harness can tell of an adapter process: how it
ended, its exit code, its response, the files it left, and whether reading `normalized.json` succeeds. `AdapterFails`,
`AdapterToolError`, `OutputRefused`, `AdapterUncaught` and `OutputStaged` are the five ways in which `execute_adapter`
goes on from there, with the exit code each ends in, `adapter_run_status` included (`ExitCode`). `AdapterUncaught` is
a list or an object where the code looks a value up in a set (`coverage`, a member of `artifacts`, an identifier in a
finding): the `TypeError` passes every `except`, and the interpreter ends with status 1, without a document and with
nothing published. `report` keeps it apart from an earned 1 as `Traceback`; `ExitStatus` is what a caller sees of
both. The private directory of a run has a fresh name, so that reading, checking and copying is one step; `Publish` is
the rename to the results directory, which was tested before the launch and may have appeared since: a rename onto an
empty directory succeeds, and one onto a directory with files fails. `Interrupt` is Ctrl-C and the kill.

### AgentGuidance

The same shape for instruction files, with the differences that matter: the file is user-editable, so `UserEdit` may
write, link or delete it at any moment; `os.link` never replaces (`InstallCreate`), while `os.replace` takes whatever
is at the path *now* (`RemovePark`); the inventory is read up to twice per command (`InstallPlan` and `InstallLoad`,
`RemoveVerify` and `RemoveLoad`). What should undo a failed command may fail too: the unlink of the new file
(`InstallRollbackFails`), the rename back from the tombstone (`RemoveRollbackFails`), and the unlink of the temporary
name after the link, outside the `try` that would take the file back (`InstallCreateStrands`). `touched`, `edited`,
`left` and `solo` are history, kept to say whose text was lost to what and what such a failure left (`Settled`). The
digests are abstracted to four kinds of content: nothing, the rendered guidance, text of the user, a link.

### VerifiedCache

Two keys, `"runtime"` and `"tools"`, each with a published entry or none. An entry is where it came from and, for
every part, whether it is absent, genuine or altered; `extra` says that there are files the manifest does not know.
The commands are the skill's bootstrap (which goes on to be a scan when it has started the runtime), a scan, one that
only reuses, and the installer of tools, each run from one of two checkouts: the pinned release, or a bundle the
caller vouches for. Either has a `config/tools.json` of its own (`Metadata`), which fixes digest, kind of archive and
signature of every tool, so that `ValidTools` compares an entry with the metadata of the checkout that *runs* and not
with that which filled it (`SameTools`). They share the protocol and the model shares the actions: look the entry up,
check it, create the parents, make a private staging directory, fetch each part, record, publish by one rename,
validate what is published. What a download brings is a member of `Artifacts` and the checks (`Arrives`,
`BundleVerifies`, `Extracts`) are translated on that abstraction. What an artifact *is* is said apart from what was
checked of it: a tool is genuine if it is the reviewed file, its archive holds no more than it should, and its
publisher did sign it where the metadata asks for that (`IsTool`, `IsBundle`); the signature is checked with a
verifier that was itself fetched, and one that was altered may say anything (`Verdicts`). `CallFails` stands for an
`OSError` anywhere, `Kill` for a process that dies, `Touch` and `Clear` for other hands. `os.replace` does not replace
a directory that holds something, so that the loser of a race fails in `Publish`.

### FindingCorrelation and FindingDocuments

A finding is a record of the fields that correlation compares. Candidate pairs are taken in sorted order, and the walk
to the two roots is one action per step of `root()`, path halving included, because `component_members` is kept beside
the forest and the published groups are read from the forest: the model shows that the two never drift apart. Findings
are any function from `1..N` to `Inputs`.

`DocumentSpec` starts one step earlier, with `reports` that may be refused, one by one or for their number (`given`,
`MaxFindings`), and ends one step later, with the documents. A finding is referred to by a digest of where it was read
and of its fingerprint (`Reference`), and two documents that go by the same profile and artifact can give one digest
twice; an explicit `null` for the last line is not an absent one (`Null`). Its `Correlate` is a step of
`FindingCorrelation`; `Refuse` and `Render` change no variable of that module but `pc`, and that only to `"failed"`.
`Valid` is the independent validator, which works out scanners, keys, priority and reasons again from the provenance,
and not from what `build` did; that the two agree is part of `FailureIsExplained`. A digest is the set it is the
digest of.

### IsolatedRuntime

The three scripts share their skeleton; where they differ the guards name the `runner`. Every `docker` call is a
client with a deadline: it may succeed, be refused, or be given up while the daemon has already acted, will still act
(`late`), or never will (`Unconfirmed`). `expected` stands for the `created_*` flags the finally block consults.
SIGINT may arrive at any step. A readiness probe whose client fails is only "not ready": its container has no name and
no flag, so that nobody removes it if `--rm` did not (`StrayProbes`). The content of reports and plans is reduced to
"validated" or not. The daemon's own two actions are external.

### ApiSchema, RuntimeEvidence, AuthenticatedComparison, RuntimeResults

What `IsolatedRuntime` reduces to "validated" is made explicit by operators: a report is a sequence of alerts, events
or requests, and `ZapNormalized`, `SchemathesisNormalized` and their like refuse it as a whole or give the findings
that `Violations` judges. The injection launcher is modelled as well, so that what it writes can be compared with what
the reader accepts. Three programs read the OpenAPI document independently (the validator, the index, the launcher's
plan), and `ApiSchema` has one operator for each. The plan is a set of operations, for nothing depends on their order;
the order of the places within one, of which the launcher only tries the first few, is the `turn` of each place.
`LaunchesOf` says what the settings of an installed fuzzing configuration lead to.

`Combined` is the decision table of `combine_result_directories`. `RuntimeResults` puts an invocation of
`IsolatedRuntime`, in any state it can end in, beside every other result that a second one could have. The properties
about operators quantify over reports and schemas; they are checked once, in the initial state, and it is the exit
codes that tie them to the transitions. What the target does with the requests of the launcher is any function in the
theorem; the run takes the functions that note at most two requests, or all in the same way (`Reactions`).

### ProfileScan

`store` maps each known artifact to the number of the scan that wrote it (0: not there), which is what is needed to
talk about artifacts of different scans in one directory. Both profiles are modelled in the order in which their
scripts write. A scanner may be skipped, run (with or without what the policy forbids), fail, or write what does not
validate. Every write may fail in the way its caller handles: `SystemExit(3)`, an exception nobody catches (status 1),
or the failure path of the shell script. A scan may be killed anywhere and is followed by another one, possibly of the
other profile. The program its script was waiting for may outlive it (`orphans`): the thirty-minute limit of the
command line (`vibesec:39`) ends its direct child only, and what a scanner or writer has not written yet (`Unwritten`)
it writes at any later time (`OrphanWrites`), also into the directory of the next scan. The number `Stray` marks an
artifact that came so, or that the `rm -f` of the Minimal script failed to remove (`ClearIgnored`): either way it
belongs to an earlier scan than the clearing that should have ended it. `CliCode` is the last link: the command line
maps what is outside the contract 0..3 to 2.

### InitWriter

`node` says for each path which inode is there and who wrote it, `dirs` who made each directory. An initialisation is
a record with its place in the plan and the local variables of `write_plan`: `todo` (missing_parents), `temp`, `files`
(created_files with the recorded identity) and `made` (created_dirs). The link and the stat that records its identity
are two actions, and so are the stat and the unlink of the rollback; what others write in between is remembered in
`raced`. Inode numbers come from a pool and are used again once free, because the code relies on them. `Raise` is an
exception on its way to the handler, with the exit code it will end in; `cut` marks an exception that finds something
made and not yet recorded, or that ends the handler itself, or a directory that the handler could not remove
(`DirectoryStays`: the error is ignored and the loop goes on). An interrupt may come after the last call and before
the `try` is left (`EntryInterrupted`). Names that the file system may not tell apart have one `Key`, files and
directories alike. All initialisations write one `Plan`: two different plans that overlap are not explored. Dry runs,
which only read, are left out.

### Installation and InstallationReview

Sequences of whole initialisations. `disk` says for each file whose text it has: that of a version, one generated from
answers, one that all versions share, or what a user made of it; `manifest` holds the installation manifest of each
stage. `Write` takes a beginning of the plan in the order of `Place` (sorted paths), so that `Initialise` and `Killed`
are one operation with two choices of entries. That an initialisation is all or nothing unless it is killed is what
`init` shows of `InitWriter`. `Prerequisites` is what each later stage is checked against: not the manifests but the
files that it needs, which is why it can be fooled. The add-ons and the capability answers follow the rules of
`capabilities.py` (`Consistent`, `CapabilitiesLoad`).

The verifier derives its status from words in its messages ("conflict", "without", "missing"); a message is therefore
reduced to the word it contains, file names included (`Naming`). `Classify` is the planner's rule for one file, and
`DoctorErrors` what the doctor finds wrong with the installation.

## Runs

| Run | Instance | Shows |
|---|---|---|
| `store_serial` | one command at a time, 2 ids, 2 versions, inventory limit 2, all faults | `RegisteredContentSurvives`, `LaunchIsVerified`, `DamageIsConfined`, and that the store implements `ExtensionRegistry` (`ImplementsRegistry`), through any sequence of commands, crashes and failures |
| `store_shared` | 2 overlapping commands, 2 ids, 1 version, failing renames, writes and rollbacks, hand edits; adapters that do at most one thing wrong, one results directory for all runs | `OnlyRemovalLosesContent`, `NeverOverwritten`, `ResultsAreEarned` |
| `cache` | 2 commands of every kind from 2 checkouts, 3 tools (an archive, the verifier, and a signed executable of which the checkouts expect different versions), 7 artifacts, every call may fail, 2 kills or foreign changes | `PublishedIsGenuine`, `RunsWhatItValidated`, `FailureLeavesNoStaging`, `PublishedStays` |
| `cache_reuse` | 1 command after another, no fault | **violation** of `RuntimeIsReused` |
| `agents_overlap` | 2 commands that overlap or follow each other, 2 adapters, 1 edit or 1 kill | `CommandsAreAtomic`, `LossIsExplained` |
| `agents_removal` | 1 command, 1 edit | **violation** of `RemovalRefusesModified` |
| `correlation` | all choices of 5 reports out of 9, one of which is refused and one has `null` for its last line; from one document, or two of them with one reference; as many as the limit allows, or one more | partition, evidence, collisions kept apart, groups as large as collisions allow, `FailureIsExplained`, `JoiningNeverHides`, and termination |
| `runtime` | all runners and modes, 2 probes; the comparison with every other run; all reports of up to 2 alerts or 3 events, all schemas of up to 3 operations, all settings, 7 policies | `OnlyToolFailuresLeaveThings`, `RanIsEvidenced`, `ExitIsPublished`, `Ends`; `ComparisonIsHonest`, `FlagsAreEarned`; `EvidenceReachesVerdict` |
| `runtime_cleanup` | the same scripts, 1 probe | **violation** of `CleanupFailureIsToolFailure` |
| `scan` | 2 scans, 3 Standard and 2 Minimal scanners, programs that outlive their scan | `VerdictIsEarned`, `OneScanPerDirectory`, `SuccessIsComplete`, `ReportAgreesWithResult` |
| `init` | 2 overlapping initialisations, 2 planned files, 2 nested directories, a file and its directory whose names differ from the planned ones in case only, 4 inodes, 1 step of the user | `SuccessIsComplete`, `FailureLeavesNothing`, `LossIsExplained` |
| `installation` | 4 releases: one with manifests of the first schema, an old and a new bundle, a source tree; all answers; 1 kill or step of the user | `ValidIsIntact`, `ValidCanGrow`, `ReviewIsHonest` (that is, `UntouchedIsAccepted`, `UserTextIsSeen` and `OfferedIsFree`), `InterruptionIsNoticed`, `InitKeepsValid` |

Each property of a passing run is accompanied, in `PROJECT.json`, by a mutation of a mapped definition that breaks it.

### Bounds, and why they are enough

* *Store.* Two ids and two versions give a second record to lose, a second version of the same id and a full inventory
  (limit 2); the number of commands is unbounded. Symmetry is over ids, versions and processes, none of which the
  specification compares. The proofs cover every size.
* *Adapters.* Two runs give the race for one results directory. A manifest declares `normalized.json` and perhaps a
  second artifact, so that returning what is not declared is possible. The executions are a clean one and those that
  deviate in one point, one for each check and one for each place where a value cannot be hashed; what is wrong in two
  points is refused by the first check that sees it. `VIEW` leaves out which failure a command reported, which no
  property of the run reads, but for a traceback.
* *Agents.* Two adapters suffice for a lost update of the other's record; two overlapping commands for every pair of
  windows; `MaxEvents` bounds kills and edits together, and only these. `LossIsExplained` needs one text to lose, and
  `CommandsAreAtomic` says nothing of a command that was killed or overlapped, so that one event before it is what
  matters. `SoloView` may identify states that differ in kills and edits with the same sum, because only the sum is
  bounded, and forget `edited` and `left` once commands have overlapped or were killed, because only
  `CommandsAreAtomic` reads them and it is silent from then on.
* *Caches.* Two commands give every race for an entry; more only lose it in the same way. The three tools are one that
  is extracted, one that checks signatures and one whose signature is checked; that the checkouts agree on two of them
  and not on the third is enough for an entry that one of them must refuse. There is an artifact for every way in
  which a download is refused or slips past one check. `MaxFaults` bounds kills and foreign changes, not failing
  calls: two are a kill and what a later hand does to its remains. `VIEW` leaves out `outcome` and `why`, which no
  property of the run reads and no guard depends on. The proofs cover every size.
* *Correlation.* Seven of the nine inputs were chosen to agree, collide and chain in every bucket (file, package,
  route, fingerprint), and to differ in all that the priority and the gate look at. Five findings are enough for two
  groups of two, a bridge, and a collision across it. `MaxPairs` is below the number of pairs, and `MaxMembers` below
  `N`, so that both limits are hit, and `MaxFindings` is `N` itself, so that one finding more is too many.
  `DocumentView` reduces where findings were read to whether two references are the same.
* *Runtime.* A second probe is the first that follows a wait; more repeat it. The longest mode has two launches.
  Reports have up to two alerts or three events, which is enough for a repetition, an order and the limit
  `MaxFindings` of 2, which alerts with two instances and a target that fails everywhere exceed; two noted requests
  can share a finding or not. The proofs need none of these bounds. The schemas break each rule of the validator, and
  three operations in two path items are enough for identifiers and spellings of a method that meet within an item and
  across items.
* *Installations.* Scripts, documents and schemas, which the code treats alike, are one file per stage, and one file
  each stands for every rule that names a file. Any sequence of initialisations is explored, since each stage is
  written once; `MaxMishaps` of 1 means that each state shows what *one* kill or change does, which is what the
  properties speak of.
* *Initialisation.* Two files give an entry to fail after one that succeeded, nested directories an order to undo them
  in, the twin names a conflict with a file and with a parent; the second initialisation is the other that races, or
  that reuses an inode. One step of the user is enough to edit in place, replace, delete (so that the number is free)
  or block; `MaxEdits` bounds it.
* *Scans.* `OneScanPerDirectory` relates two scans; a third would find the directory of the second. The three Standard
  scanners are one of each kind: the writer of an artifact, one that always runs, and one that is skipped for want of
  an image; the two of Minimal are the one that may fail in silence and one that is skipped when there is nothing to
  read. The code treats the others like one of these, and the proofs cover any list. `MaxScans` bounds the scans; an
  orphan of the first that writes during the second is the case that matters.

### Deadlock and fairness

`CHECK_DEADLOCK FALSE` stands where the system stops by itself: the correlation and the runtime scripts end, and
agents, initialisations, installations and scans exhaust their bounds. The runs of the store and of the caches check
for deadlock.

`FairSpec` of `IsolatedRuntime` assumes weak fairness of the script's own steps only: `main()` is sequential, and
every call it waits for has a timeout. Nothing is assumed of the daemon: `Ends` does not need `late` things to arrive
or containers to be removed. `DocumentSpec` assumes that the one thread of `build` goes on.

## Theorems

All of these hold for every value of the constants that satisfies the named assumptions (`StoreAssumption`,
`AdapterAssumption`, `BoundsAssumption`, `CorrelationAssumption`, `ReportsAssumption`, `RunnersAssumption`,
`MaxProbesAssumption`, `MaxOperationsAssumption`, `LimitsAssumption`, `EvidenceAssumption`, `ToolsAssumption` (one in
`ProfileScan` and one in `VerifiedCache`), `ScansAssumption`, `PlanAssumption`, `TreeAssumption`, `NamesAssumption`,
`ArtifactsAssumption`, `NoEntryAssumption`, `ReleasesAssumption`, `PlaceAssumption`, `CatalogAssumption`).

* **ExtensionStoreProofs.** In four parts.
  * *Overlapping commands.* `TypeCorrect`, and `OnlyRemovalLosesContentHolds` for any number of them. The property
    alone is not inductive, for a copy of the inventory read earlier may be written at any time, and a rollback
    deletes what its command published. `PublicationInv` strengthens it: every record, in the inventory and in every
    copy a command holds, points at a slot that is safe (a removal has moved it, or it is there and no command is
    between publishing and recording it), and a command in that stage is the only one at its slot.
    `NeverOverwrittenHolds` is an action property and needs no more than the types.
  * *One command at a time.* `SerialInv` says that at most one command is active, what it knows at each stage
    (`Stage`), that slots it is not changing are settled (directory there exactly if recorded, nothing parked) or
    struck, and that recorded content is kept. `RegisteredContentSurvivesHolds`, `LaunchIsVerifiedHolds` and
    `DamageIsConfinedHolds` follow. A failure that is met by a second one while it is undone strikes its slot, as a
    crash does: what the theorem then still says is that no other failure leaves a changed store, and that none leaves
    one at any other slot.
  * *Refinement.* `StoreImplementsRegistry`: under `Serialised` every step is a step of `ExtensionRegistry` under
    `View`, or a stutter. A removal maps to `Withdraw` and then `Forget` (or `Restore`).
  * *Adapters.* `AdapterKeepsStore`: every behaviour of `AdapterSpec` is one of `Spec`, so that all of the above holds
    beside running adapters. `AdapterInv` carries what a run has earned from the check of its output to its report
    (`RunInv`); it needs that a results directory with files in it is never replaced, so that what one run published
    still stands when it reports. `AdapterTypeCorrect` and `ResultsAreEarnedHolds` follow; the latter does not say
    that exit status 1 is earned, but that it is either earned or a traceback's, and that a traceback has published
    nothing.
* **AgentGuidanceProofs.** `TypeCorrect`. `LossInv` says that a command that is about to delete or replace a text of
  the user either is a removal of an adapter recorded as disabled, or has been witnessed by a change of the user or of
  another command since it looked (`Witnessed`); from it `LossIsExplainedHolds`, for any number of overlapping
  commands, adapters, edits and kills. For `CommandsAreAtomicHolds`, `SoloInv` says that as long as no command was
  killed or overlapped, record and file of an adapter agree, or are as the second failure of a command left them
  (`Settled`), unless the user edited it or the one command at work has changed the file and not yet the record
  (`Alone`: what that command knows at each of its steps). That `Settled` is kept means that what was left is neither
  mended nor made worse: the guidance is still there, in its place or as a tombstone.
* **VerifiedCacheProofs.** The whole run `cache`, for any number of commands, tools and faults and any artifacts.
  `CacheInv` says how far each command has filled its staging directory (`Staged`: before the record, all parts up to
  the next are genuine), which is what makes the published entry genuine; and that the entry behind a started command
  is there and is the wanted one (`Backed`): the wanted runtime, or the scanners that the checkout which runs expects,
  whichever checkout installed them. A tool is genuine only if its signature was, which is why `Staged` also says that
  nothing altered, and so no altered verifier, is ever in a staging directory; and it says that a command has a
  staging directory only while it installs, without which a bootstrap that turns into a scan would change the kind of
  what it staged. `PublishedIsGenuineHolds`, `RunsWhatItValidatedHolds`, `FailureLeavesNoStagingHolds` and, as an
  action property, `PublishedStaysHolds` follow.
* **FindingCorrelationProofs.** `CorrelationInvariant` relates forest, members and decisions: `members` of a root are
  exactly the findings whose walk ends there, the kept components are connected by decisions and free of collisions.
  `GroupsArePartitionHolds`, `CollisionsStayApartHolds`, `GroupsAreEvidencedHolds`, `DecisionsAreKeptHolds` and
  `SeparationIsExplainedHolds` follow, for any number of findings and any limits, of `Spec` and of `DocumentSpec`:
  `Refuse` and `Render` keep the invariant. `FailureIsExplainedHolds` is the argument that the independent validator
  finds what `build` put there, for any number of findings up to the limit, unless two of them have one reference, and
  that `build` fails for no reason but those it names, of which two are inputs that its checks accept: the provenance
  of a group is valid, its scanners are as many as its members name, and what is listed are the findings and their
  groups and nothing else. `JoiningNeverHidesHolds` compares the priority of a group with that which each of its
  members would have alone: every part of the sum can only grow with the set of members (`RaisedGrows`), and so the
  tier does (`TierGrows`), but for the two exceptions.
* **IsolatedRuntimeProofs.** `RuntimeInvariant` says, step by step, that as long as the result may still be other than
  a tool failure, all that Docker holds or will hold is covered by `expected` and the removals still to come, but for
  the container of a probe that failed before another one succeeded (`StrayProbes`); a tool that fails is a
  `ScanFailed`, and its container has a flag. `OnlyToolFailuresLeaveThingsHolds`, `RanIsEvidencedHolds` and
  `ExitIsPublishedHolds` follow. `ComparisonIsHonestHolds` adds that an invocation, in whatever state it ends, is a
  run the decision table may be given (`Comparable`), and goes through the table for each pair of states
  (`HonestPair`). `ScriptIsBounded` is the part of `Ends` that needs no fairness: `StepsLeft`, a bound on the way
  ahead, decreases with every step of the script, the readiness loop and the removals included, and no step of the
  daemon changes it; it is never above 22 + 3 * `MaxProbes`. It needs that the clock of the readiness loop stands
  still before it and is looked at in every round (`ProbesBounded`). The last two theorems are about what the
  operators compute, for reports, documents and policies of every size. They assume that lists are lists, that the
  payload families are finite, and that the document a report is read with was accepted (`EvidenceAssumption`), as it
  is before a scan is launched.
  * *Loops.* The induction theorems of the library take the property as an operator, which the provers cannot
    instantiate. `LeastNatural`, `BoundedInduction` and `PrimitiveRecursion` take the set of numbers that have it
    instead, and come from well-foundedness of `<`. With them, `ObservingExists` and `ObservedFacts` show that the
    loop of `correlate_findings` is well defined and what it leaves after n findings, and `FlattenSeqFacts` that
    flattening keeps exactly the elements. A list made of a finite set holds each element once (`SetToSeqFacts`).
  * `FlagsAreEarnedHolds` says exactly what a comparison claims (`CorrelatedFacts`). Of the failures of a check on an
    operation only the last is kept, so that no key of a Schemathesis report comes twice (`EngineFoundFacts`), and a
    finding is said of the runs that gave it. Those of a ZAP report may, and a key that one run gives twice is said of
    both (`Claimed`), which no reader of the result can tell from the truth.
  * `EvidenceReachesVerdictHolds`: whether a report is refused, how many findings it has and whether one is enforced
    is brought down to the set of its events, which is the same for the reversed report (`EngineJudged`,
    `ReverseFacts`). A fingerprint determines the severity, so that merging by fingerprint loses nothing
    (`MergedFacts`); distinct findings of an injection run have distinct fingerprints, so that the limit counts
    weaknesses (`InjectionFoundCounted`). `IndexFacts` relates the index to the document, and identifiers that are
    unique in it make the three readers agree (`SchemaShared`) and keep the settings (`SettingsKept`).
* **ProfileScanProofs.** `ScanInvariant` says for each phase whose artifacts the directory holds (`Owned`), that the
  result is written last (`ResultLast`), what has been produced (`Produced`), what coverage, listed errors and gate
  say of each other (`Recorded`), how the exit codes relate to the result (`Ended`), and that a scan has at most one
  orphan, and none while it runs (`Orphaned`). `VerdictIsEarnedHolds`, `OneScanPerDirectoryHolds`,
  `SuccessIsCompleteHolds` and `ReportAgreesWithResultHolds` follow, for any lists of scanners and any number of
  scans.
* **InitWriterProofs.** `InitInvariant`, for any plan, tree of directories and number of initialisations. `FileInv`
  says for each initialisation what its place in the code implies (`Place`: `created_files` is a prefix of the plan),
  that what it recorded is what it linked but for a race (`Identified`), that unless the user was there its links are
  still in place (`Held`), and that nothing came beside the plan (`Beside`). `DirInv` says that the rollback will find
  all of its own (`Owned`, `MadeComplete`, `Made`: outer directories before inner ones), and that whatever is in a
  directory it made is its own or the directory is shared (`FilesShared`, `TemporariesShared`, `DirectoriesShared`).
  The last three are needed because a directory is left where it is when it is not empty (`NotEmptyShared`).
  `SuccessIsCompleteHolds`, `FailureLeavesNothingHolds` and `LossIsExplainedHolds` follow.
* **InstallationProofs.** For any releases, whatever they ship, and any number of kills and changes. What the plans of
  different requests share is settled by lemmas about the operators: what each ships (`ShippedBy`, `LaterEntries`),
  and that what a later request adds is in no other plan (`OwnIsApart`).
  * `ValidIsIntactHolds` needs the types only: it unfolds what the status "valid" excludes (`ValidFacts`,
    `ValidAnswers`).
  * `ValidCanGrowHolds` needs `Traceable`: whatever is found where a later request would write was put there by that
    request or by the user. `InitKeepsValidHolds` shows for every check of the verifier that it is passed again after
    one more request.
  * `ReviewIsHonestHolds` needs, for what nobody touched, the invariant `Pristine`: all manifests are well-formed,
    there is at most one first request and its answers still stand, each later one builds on what is there (`Grown`),
    and what they declare is on disk, and nothing else (`Recorded`). That the user's text is seen holds for every
    state. `OfferedIsFreeHolds` needs `CommonIsRecorded`: a file of the common part is on disk only if a manifest
    declares it, which is so after a kill as well because the manifest comes before these files in the plan
    (`PlaceAssumption`).
  * `InterruptionIsNoticedHolds` needs the order in which a plan is written, `PlaceAssumption`. `Noticeable` says that
    a killed command that came to its manifest still lacks a file that comes after it, since such a file is only ever
    written together with a manifest; and that one that did not come to it left an add-on that the answers ask for, a
    Standard profile without its workflow, or an authentication file that the answers do not ask for.

## Only model-checked

Everything that the runs check, but for the following, is a theorem as well.

* `Ends` of both specifications: liveness under fairness is out of the prover's reach. Of the runtime script
  `ScriptIsBounded` shows that it cannot go on for ever; that it is never stuck before its end, a statement about what
  is enabled, is left to TLC.
* The three violations.

## Findings

The three violations are behaviours of the code that disagree with a sentence of its own documentation:

1. **`cache_reuse`** The bootstrap demands that the cached runtime holds exactly the files of its manifest, and then
   runs `vibesec scan` from there, where Python writes `__pycache__`. The second bootstrap refuses the cache.
   `docs/local-execution.md`: "Later runs revalidate the complete manifest ... before reusing the cache."
2. **`agents_removal`** `verify_adapters` reports `disabled` before it compares digests and `remove_adapter` accepts
   `disabled`: install, disable, edit, remove deletes the edited file. `docs/agent-installation.md`: "Removal refuses
   modified or conflicting files."
3. **`runtime_cleanup`** A removal that times out, or a private directory that cannot be deleted, leaves `main()` from
   inside its finally block with exit status 1 (policy violation), no artifacts, and the remaining removals undone.
   `docs/dast-threat-model.md`: "A cleanup failure changes the result to a tool failure."

### Observations

Behaviour met while modelling that the models contain, mostly as an exception a property names, and that no run is
spent on.

*Extensions and caches*

* An installation that the inventory refuses (more than 128 records) has already published its directory; the rollback
  only handles `OSError` (`vibesec/extensions.py:312`). The directory stays and the next attempt is refused because
  the destination exists. The same is left by a rollback that cannot delete what it published (`:315`).
* An adapter that returns a list or an object where the harness looks a value up in a set
  (`vibesec/extensions.py:451`, `:461`, `:535`) ends `run` with a traceback and exit status 1.
  `docs/extension-authoring.md:28` gives 1 to findings; only the missing document tells them apart. Part of
  `ResultsAreEarned`.
* The harness publishes exactly what an adapter returns. `normalized.json` is always read and validated, but an
  adapter that ends with 0 or 1 and returns no artifacts leaves an empty results directory, which a run that was
  launched before may replace.
* An entry of a cache that was refused is never repaired: someone has to remove it. A kill leaves its staging
  directory for ever. The loser of a race for the parents or for the rename ends with an error (4 for the bootstrap, 3
  for a scan, 2 for the installer), although the entry it wanted is there.
* A checkout compares the digests of a cached tool with its own metadata, and not what these ask for besides: a tool
  that the release does not take for signed and a local bundle does, with one digest, is not checked again. In the
  model a digest stands for its version and `SameTools` for the comparison.

*Agent guidance*

* A command that fails twice leaves a file without a record or a record whose file is parked, and no command mends
  either: install finds the destination taken, and remove and enable find the file missing (`CommandsAreAtomic`).

*Scans and findings*

* A gitleaks that ends with status 1 and writes no report counts, in the Minimal profile, as ran without findings
  (`run_minimal_profile.sh:59-60`), and the scan may end with 0. `docs/security-validation-policy.md:13` says of
  failures "never zero findings and never clean". `VerdictIsEarned` names this scanner and this profile as the exact
  exception.
* `docs/v1-interface-reference.md:11` promises that stale output is removed. The command line ends only its direct
  child after thirty minutes (`vibesec:39`), so that a scanner or a writer which goes on puts its artifact among those
  of the next scan, and the Minimal script ignores an `rm -f` that fails (`run_minimal_profile.sh:12-19`).
  `OneScanPerDirectory` and `SuccessIsComplete` name these two and show that there is no third way; a policy that was
  read from an orphan's findings is the second exception of `VerdictIsEarned`.
* Two inputs pass the checks of `build` and fail it later: findings of two documents of one profile and artifact, at
  one index and with one fingerprint, have one reference, which the independent validator refuses
  (`vibesec/finding_intelligence.py:155`, `:461`), and an explicit `null` for the last line raises a `TypeError` where
  two places are compared (`:135`, `:193`). `FailureIsExplained` names both.
* One suppressed member makes a whole group informational. Known exploitation *sets* the score to 4, so that a
  baselined group can fall from critical to high where other evidence adds up to more
  (`docs/finding-intelligence.md:16` says that it "can raise"). Both are exceptions of `JoiningNeverHides`.
* The validator of the two documents accepts a priority entry that is listed twice.

*Runtime scripts*

* `docs/api-fuzzing.md` says that an installed configuration may lower the ceilings. `run_api_fuzzing.py:103` uses
  only `mode` and `safe_methods_only` of it and passes the trusted configuration on: lowered values are validated and
  then ignored.
* The injection launcher passes over parameters behind a `$ref` and methods that are not in lower case, without a word
  in the result. Two spellings of one method share an entry of the index, and the last one wins. A run with no request
  at all is `ran`.
* A comparison says that a ZAP finding was observed by both runs when one run alone repeats its key
  (`vibesec/authenticated.py:172`), where `docs/authenticated-security-testing.md:17` speaks of what matches between
  the two runs. `FlagsAreEarned` states it as it is. The two observations of one weakness always collide on their
  authentication context, so that correlation keeps them apart.
* A readiness probe whose client fails is taken for "not ready" (`run_dast_baseline.py:219-227`), although its
  container may be there and stay: no cleanup knows of it (`docs/authenticated-security-threat-model.md:15` says that
  the containers of the run are removed). If it still runs, `docker network rm` fails and the result is a tool
  failure; one that has ended and was not removed may be left beside a result of 0, 1 or 3. The exception of
  `OnlyToolFailuresLeaveThings`.
* `--authentication-mode bearer` on the command line is inherited by the unauthenticated run as well, which is then
  not configured: the comparison is a tool error.

*Installations*

* The doctor rejects what init writes exactly when authentication and fuzzing are both asked for:
  `vibesec_doctor.py:121` (with `:130-148`) does not know the name of the step that holds the secret.
  `docs/authenticated-security-testing.md:3` describes authenticated API fuzzing as a supported combination. A part of
  `UntouchedIsAccepted`.
* The planner compares the workflow of an add-on, which init generates from a template, with the template, and so
  calls it changed upstream in an upgrade to the version that is installed. A part of `UntouchedIsAccepted`.
* The planner offers a file as safe to add without looking whether one is there: a file of the user at a path that the
  new release adds is listed in `files_safe_to_add` (`plan_vibesec_upgrade.py:91-92`, `:124`, `:135`). The one
  exception of `OfferedIsFree`, beside a manifest that the user removed.
* `docs/installation-verification.md:9` says that an add-on must coexist with exactly one base profile. The verifier
  refuses two (`Competing`) and does not ask for one: an add-on whose base profile lost its manifests stays valid.
  `ValidIsIntact` is silent on it.
* The upgrade from workflows of Node 20 is planned for and then refused, because "missing" makes the status partial
  (`plan_vibesec_upgrade.py:35` and `:196`, `vibesec/installation.py:313`). A file named
  `resolve-merge-conflicts.json` that is missing makes the status a conflict, through its name. `partial` is also the
  status for comments and malformed capability manifests.
* The planner's exit code for success cannot occur for an installation that it accepts. A malformed inventory ends it
  with an uncaught `ValueError`. `remove_candidate` is given whatever the local text.
* The Minimal profile, killed before its manifest, leaves a workflow that nobody reports once the Standard profile is
  installed: an exception of `InterruptionIsNoticed`. (After an initialisation from a bundle the doctor warns in any
  case until the verification of its download is recorded, so that the source tree is the release on which the
  property says most.) A manifest that is deleted leaves the rest valid. The configuration left by an API add-on that
  was killed lets fuzzing be initialised on top of it, and the verifier then says conflict.

## Not modelled, and why

* *Inside modelled parts.* The fields of an extension's manifest and the files of its source directory; the plan of an
  upgrade of extensions; the secret handling of the comparison (names, redaction, byte filter); the bounds in the DAST
  and API configurations and the generated ZAP plan; the command lines of scanners and the evaluation of single
  findings by the gate; the doctor's checks of the host, of variables and images; the strict reading of
  `config/tools.json`; the compatibility directory of `install_profile_tools.py:24`, which two installers would share
  under one temporary name. All but the last are functions on documents, with one rule per field.
* *Two scans of one repository at once.* They share a results directory and nothing serialises them, so nothing holds
  that would be worth stating.
* *Detection, portability, normalizers, SBOM, OSV database.* One document or tree in, one out, and no state;
  `ProfileScan` and `IsolatedRuntime` take every answer they may give. Normalized findings begin in
  `FindingDocuments`, and what capabilities demand of each other is in `Installation`.
* *Bundles, releases, supply chain, self-scan, repository validation, accountability.* Sequential scripts that CI runs
  over fixed inventories. What they could get wrong is the content of the inventories.
* *Skills, templates, rules, documentation.* Text.

## Plan

1. That `InitWriter` implements one step of `Installation`, which is now said in words.
2. The upgrade plan of extensions and `collect_source` (`vibesec/extensions.py`).
3. The choice of paths for Checkov in `run_standard_profile.py`, and the registry of payloads that `api_fuzzing.py`
   checks.
