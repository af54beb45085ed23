---------------------------- MODULE IsolatedRuntime ----------------------------
(***************************************************************************)
(* One invocation of a runtime add-on: run_dast_baseline.py,               *)
(* run_api_security_baseline.py or run_api_fuzzing.py.  Each starts a      *)
(* digest-pinned target on an internal Docker network of its own, waits    *)
(* for it, launches one or two scanner containers against it, evaluates    *)
(* their validated reports, removes what it created and publishes its      *)
(* artifacts.  Every `docker` command is a client process with a deadline: *)
(* it may succeed, be refused, or be given up while the daemon has already *)
(* acted, will still act, or never acts.                                   *)
(***************************************************************************)
EXTENDS Naturals, Sequences

CONSTANTS
    Runners,    \* the scripts considered, among AllRunners
    MaxProbes   \* readiness probes that fit before the startup deadline

AllRunners == {"dast", "api", "fuzzing"}

ASSUME RunnersAssumption == Runners \subseteq AllRunners
ASSUME MaxProbesAssumption == MaxProbes \in Nat

VARIABLES
    runner,       \* which script this is
    todo,         \* scanner launches still to do, in order
    step,         \* where main() is
    docker,       \* what the daemon holds of this invocation
    late,         \* what the daemon will still create for a client that gave up
    expected,     \* what the script knows it has to remove
    private,      \* what is on disk under the private temporary directory
    probes,       \* readiness probes made
    validated,    \* scanner launches whose report was normalised
    outcome,      \* final_code
    raised,       \* exit status of an exception on its way out of main()
    cleanup,      \* removals the finally block still has to try
    failed,       \* cleanup_failed
    state,        \* coverage state about to be published
    coverage,     \* coverage state published by this invocation
    policy,       \* exit_code in the policy-result.json of this invocation
    exit          \* exit status of the process

world == <<docker, late, expected, private>>
progress == <<todo, probes, validated>>
verdict == <<outcome, raised, cleanup, failed>>
artifacts == <<state, coverage, policy>>
vars == <<runner, step, world, progress, verdict, artifacts, exit>>

Unset == 99             \* no exit status: nothing published, nothing raised
Interrupted == 130      \* exit status of a Python process on SIGINT
Codes == 0..3
Statuses == Codes \cup {Interrupted, Unset}

States == {"ran", "not_configured", "not_applicable", "tool_error"}
NoState == "none"

\* The only runner with two scanners launches them under two names.
Scanners(r) == IF r = "fuzzing" THEN {"scanner", "injection"} ELSE {"scanner"}
Containers == {"target", "probe", "scanner", "injection"}
Things == Containers \cup {"network"}

\* Launches per configured mode: contract or fuzz, injection, combined.
Modes(r) ==
    IF r = "fuzzing" THEN {<<"scanner">>, <<"injection">>, <<"scanner", "injection">>}
                     ELSE {<<"scanner">>}

\* Every probe and every Schemathesis container runs with --rm; ZAP does not.
RemovesItself(c) == c = "probe" \/ (c \in {"scanner", "injection"} /\ runner # "dast")

CleanupOrder(r) ==
    IF r = "fuzzing" THEN <<"scanner", "injection", "target", "network">>
                     ELSE <<"scanner", "target", "network">>

TrySteps == {"pull", "user", "network", "target", "probe", "inspect", "wait",
             "workspace", "scan", "normalize", "evaluate"}
PublishSteps == {"decline", "reject", "publish"}
Steps == TrySteps \cup PublishSteps
         \cup {"configure", "docker", "discard", "cleanup", "exited"}

Init ==
    /\ runner \in Runners
    /\ todo \in Modes(runner)
    /\ step = "configure"
    /\ docker = {} /\ late = {} /\ expected = {} /\ private = {}
    /\ probes = 0 /\ validated = {}
    /\ outcome = 2 /\ raised = Unset /\ cleanup = <<>> /\ failed = FALSE
    /\ state = NoState /\ coverage = NoState /\ policy = Unset
    /\ exit = Unset

-----------------------------------------------------------------------------
(* Before Docker is touched.                                                *)

Exit(status) == step' = "exited" /\ exit' = status

Prepare(next, code, s) ==
    /\ step' = next /\ outcome' = code /\ state' = s
    /\ UNCHANGED <<runner, world, progress, raised, cleanup, failed, coverage, policy, exit>>

\* Capabilities, events, a missing image or a missing secret excuse the run.
Decline ==
    /\ step = "configure"
    /\ \E s \in {"not_applicable", "not_configured"} : Prepare("decline", 0, s)

Reject == step = "configure" /\ Prepare("reject", 3, "tool_error")

\* The fuzzing script reads its own configuration before any handler is in place.
ConfigUnreadable ==
    /\ step = "configure" /\ runner = "fuzzing"
    /\ Exit(1)
    /\ UNCHANGED <<runner, world, progress, verdict, artifacts>>

Accept == step = "configure" /\ Prepare("docker", 2, NoState)

DockerMissing == step = "docker" /\ Prepare("publish", 2, "tool_error")

DockerFound == step = "docker" /\ Prepare("pull", 2, NoState)

-----------------------------------------------------------------------------
(* Inside the try block.  An exception leads to the finally block.          *)

Goto(s) == step' = s /\ UNCHANGED outcome
Fail(code) == step' = "discard" /\ outcome' = code

\* A client that was refused or gave up says nothing about what the daemon did.
Unconfirmed(thing) ==
    \/ UNCHANGED <<docker, late>>
    \/ docker' = docker \cup {thing} /\ UNCHANGED late
    \/ late' = late \cup {thing} /\ UNCHANGED docker

PullImages ==
    /\ step = "pull"
    /\ Goto("user") \/ Fail(2)
    /\ UNCHANGED <<runner, world, progress, raised, cleanup, failed, artifacts, exit>>

\* A root or unspecified user is refused as an invalid target.
InspectUser ==
    /\ step = "user"
    /\ Goto("network") \/ Fail(2) \/ Fail(3)
    /\ UNCHANGED <<runner, world, progress, raised, cleanup, failed, artifacts, exit>>

CreateNetwork ==
    /\ step = "network"
    /\ \/ /\ docker' = docker \cup {"network"} /\ UNCHANGED late
          /\ expected' = expected \cup {"network"}
          /\ Goto("target")
       \/ Unconfirmed("network") /\ UNCHANGED expected /\ Fail(2)
    /\ UNCHANGED <<runner, private, progress, raised, cleanup, failed, artifacts, exit>>

\* Mutation: created_target is never set.
StartTargetUnmarked ==
    /\ step = "target"
    /\ \/ docker' = docker \cup {"target"} /\ UNCHANGED late /\ Goto("probe")
       \/ Unconfirmed("target") /\ Fail(2)
    /\ UNCHANGED <<runner, expected, private, progress, raised, cleanup, failed, artifacts, exit>>

StartTarget ==
    /\ step = "target"
    /\ \/ /\ docker' = docker \cup {"target"} /\ UNCHANGED late
          /\ expected' = expected \cup {"target"}
          /\ Goto("probe")
       \/ Unconfirmed("target") /\ UNCHANGED expected /\ Fail(2)
    /\ UNCHANGED <<runner, private, progress, raised, cleanup, failed, artifacts, exit>>

\* Mutation: every probe starts a new deadline.
ProbeRestartsClock ==
    /\ step = "probe"
    /\ UNCHANGED probes
    /\ \/ UNCHANGED <<docker, late>> /\ Goto("workspace")
       \/ Unconfirmed("probe") /\ (Goto("inspect") \/ Fail(2))
    /\ UNCHANGED <<runner, expected, private, todo, validated, raised, cleanup, failed,
                   artifacts, exit>>

\* A probe that succeeds has removed its container.  Any other status only
\* means "not ready": it may be that of the target's answer or of a client
\* that could not tell what became of its container.  Probes have no name and
\* no flag, no removal mentions them.
Probe ==
    /\ step = "probe"
    /\ probes' = probes + 1
    /\ \/ UNCHANGED <<docker, late>> /\ Goto("workspace")
       \/ Unconfirmed("probe") /\ (Goto("inspect") \/ Fail(2))
    /\ UNCHANGED <<runner, expected, private, todo, validated, raised, cleanup, failed,
                   artifacts, exit>>

InspectTarget ==
    /\ step = "inspect"
    /\ Goto("wait") \/ Fail(2)
    /\ UNCHANGED <<runner, world, progress, raised, cleanup, failed, artifacts, exit>>

Wait ==
    /\ step = "wait"
    /\ (probes < MaxProbes /\ Goto("probe")) \/ Fail(2)
    /\ UNCHANGED <<runner, world, progress, raised, cleanup, failed, artifacts, exit>>

\* The ZAP plan is written with the directory, the injection plan per launch.
Workspace == {"directory"} \cup (IF runner = "dast" THEN {"plan"} ELSE {})
LaunchInputs(scanner) == IF scanner = "injection" THEN {"plan"} ELSE {}

PrepareWorkspace ==
    /\ step = "workspace"
    /\ \/ private' = Workspace /\ Goto("scan")
       \/ private' \in SUBSET Workspace /\ Fail(2)
       \/ private' \in SUBSET Workspace /\ runner # "fuzzing" /\ Fail(3)
    /\ UNCHANGED <<runner, docker, late, expected, progress, raised, cleanup, failed,
                   artifacts, exit>>

\* The flags of the first two scripts stay up once a scanner was attempted;
\* the fuzzing script lowers its flag when the client returns.
ScanReturned(scanner) ==
    /\ docker' = IF RemovesItself(scanner) THEN docker ELSE docker \cup {scanner}
    /\ expected' = IF runner = "fuzzing" THEN expected ELSE expected \cup {scanner}
    /\ UNCHANGED late

\* A status that is none of the scanner's is one of the docker client.
ScanFailed(scanner) ==
    /\ Unconfirmed(scanner)
    /\ expected' = IF runner = "fuzzing" THEN expected ELSE expected \cup {scanner}

ScanGivenUp(scanner) ==
    /\ Unconfirmed(scanner)
    /\ expected' = expected \cup {scanner}

\* A command that VibeSec itself refuses to build starts nothing; in the
\* fuzzing script the flag is up already.
ScanRefused(scanner) ==
    /\ UNCHANGED <<docker, late>>
    /\ expected' = IF runner = "fuzzing" THEN expected \cup {scanner} ELSE expected

RunScanner ==
    /\ step = "scan"
    /\ LET launched == private \cup LaunchInputs(Head(todo)) IN
       \/ ScanReturned(Head(todo)) /\ private' = launched \cup {"report"} /\ Goto("normalize")
       \/ /\ \/ ScanReturned(Head(todo)) \/ ScanFailed(Head(todo)) \/ ScanGivenUp(Head(todo))
          /\ private' \in {private, launched, launched \cup {"report"}}
          /\ Fail(2)
       \/ ScanRefused(Head(todo)) /\ private' = launched /\ Fail(3)
    /\ UNCHANGED <<runner, progress, raised, cleanup, failed, artifacts, exit>>

\* Mutation: findings are evaluated after the first report of a combined run.
NormalizeFirstOnly ==
    /\ step = "normalize"
    /\ \/ /\ private' = private \ (IF runner = "dast" THEN {"report", "plan"} ELSE {"report"})
          /\ validated' = validated \cup {Head(todo)}
          /\ todo' = Tail(todo)
          /\ Goto("evaluate")
       \/ /\ UNCHANGED <<private, validated, todo>>
          /\ Fail(2) \/ Fail(3)
    /\ UNCHANGED <<runner, docker, late, expected, probes, raised, cleanup, failed,
                   artifacts, exit>>

Normalize ==
    /\ step = "normalize"
    /\ \/ /\ private' = private \ (IF runner = "dast" THEN {"report", "plan"} ELSE {"report"})
          /\ validated' = validated \cup {Head(todo)}
          /\ todo' = Tail(todo)
          /\ Goto(IF Tail(todo) = <<>> THEN "evaluate" ELSE "scan")
       \/ /\ UNCHANGED <<private, validated, todo>>
          /\ Fail(2) \/ Fail(3)
    /\ UNCHANGED <<runner, docker, late, expected, probes, raised, cleanup, failed,
                   artifacts, exit>>

\* Policy files are only read when findings are enforced.  That they cannot be
\* read is a failure of the runtime; what is wrong with their content (a
\* ValueError or a KeyError) is caught by no handler.
Evaluate ==
    /\ step = "evaluate"
    /\ step' = "discard"
    /\ \/ outcome' \in {0, 1, 2} /\ UNCHANGED raised
       \/ runner = "fuzzing" /\ outcome' = 3 /\ UNCHANGED raised
       \/ raised' = 1 /\ UNCHANGED outcome
    /\ UNCHANGED <<runner, world, progress, cleanup, failed, artifacts, exit>>

\* SIGINT reaches the script in the middle of the call the step makes.
InterruptTry ==
    /\ step \in TrySteps
    /\ raised' = Interrupted /\ step' = "discard"
    /\ CASE step = "scan" -> ScanGivenUp(Head(todo))
         [] step \in {"network", "target", "probe"} -> Unconfirmed(step) /\ UNCHANGED expected
         [] OTHER -> UNCHANGED <<docker, late, expected>>
    /\ UNCHANGED <<runner, private, progress, outcome, cleanup, failed, artifacts, exit>>

-----------------------------------------------------------------------------
(* The finally block and the publication.                                   *)

\* The workspace goes first.  An OSError here leaves main() at once.
Discard ==
    /\ step = "discard"
    /\ \/ private' = {} /\ step' = "cleanup" /\ cleanup' = CleanupOrder(runner) /\ UNCHANGED exit
       \/ /\ private # {} /\ private' \in (SUBSET private) \ {{}}
          /\ Exit(1) /\ UNCHANGED cleanup
    /\ UNCHANGED <<runner, docker, late, expected, progress, outcome, raised, failed, artifacts>>

\* Each removal is tried; only a refusal the flags care about is a failure.
\* The daemon may refuse any of them, as it does a network that is in use.
RemoveNext ==
    /\ step = "cleanup" /\ cleanup # <<>>
    /\ cleanup' = Tail(cleanup)
    /\ \/ docker' = docker \ {Head(cleanup)} /\ UNCHANGED failed
       \/ failed' = (failed \/ Head(cleanup) \in expected) /\ UNCHANGED docker
    /\ UNCHANGED <<runner, step, late, expected, private, progress, outcome, raised,
                   artifacts, exit>>

\* A removal that outlives its 30 seconds raises out of the finally block.
RemoveTimesOut ==
    /\ step = "cleanup" /\ cleanup # <<>>
    /\ docker' \in {docker, docker \ {Head(cleanup)}}
    /\ Exit(1)
    /\ UNCHANGED <<runner, late, expected, private, progress, verdict, artifacts>>

CleanedUp ==
    /\ step = "cleanup" /\ cleanup = <<>>
    /\ outcome' = IF failed THEN 2 ELSE outcome
    /\ IF raised = Unset
       THEN /\ step' = "publish" /\ UNCHANGED exit
            /\ state' = IF outcome' \in {0, 1} THEN "ran" ELSE "tool_error"
       ELSE Exit(raised) /\ UNCHANGED state
    /\ UNCHANGED <<runner, world, progress, raised, cleanup, failed, coverage, policy>>

Publish ==
    /\ step \in PublishSteps
    /\ coverage' = state /\ policy' = outcome
    /\ Exit(outcome)
    /\ UNCHANGED <<runner, world, progress, verdict, state>>

\* Mutation: every failure to publish is swallowed, as one of a rejected run is.
PublishFailsQuietly ==
    /\ step \in PublishSteps
    /\ \/ UNCHANGED <<coverage, policy>>
       \/ coverage' = state /\ UNCHANGED policy
    /\ Exit(outcome)
    /\ UNCHANGED <<runner, world, progress, verdict, state>>

\* The documents are written one after the other, coverage before policy.  A
\* failure is a configuration error while the run is being declined, is
\* swallowed while one is being reported, and otherwise leaves main().
PublishFails ==
    /\ step \in PublishSteps
    /\ \/ UNCHANGED <<coverage, policy>>
       \/ coverage' = state /\ UNCHANGED policy
       \/ coverage' = state /\ policy' = outcome
    /\ CASE step = "decline" ->
              /\ step' = "reject" /\ outcome' = 3 /\ state' = "tool_error"
              /\ UNCHANGED exit
         [] step = "reject" -> Exit(3) /\ UNCHANGED <<outcome, state>>
         [] step = "publish" -> Exit(1) /\ UNCHANGED <<outcome, state>>
    /\ UNCHANGED <<runner, world, progress, raised, cleanup, failed>>

InterruptEnd ==
    /\ step \in {"configure", "docker", "discard", "cleanup"} \cup PublishSteps
    /\ Exit(Interrupted)
    /\ UNCHANGED <<runner, world, progress, verdict, artifacts>>

-----------------------------------------------------------------------------
(* The daemon.                                                              *)

CreatedLate ==
    /\ \E thing \in late : docker' = docker \cup {thing} /\ late' = late \ {thing}
    /\ UNCHANGED <<runner, step, expected, private, progress, verdict, artifacts, exit>>

ContainerRemovesItself ==
    /\ \E c \in docker : RemovesItself(c) /\ docker' = docker \ {c}
    /\ UNCHANGED <<runner, step, late, expected, private, progress, verdict, artifacts, exit>>

Daemon == CreatedLate \/ ContainerRemovesItself

Script ==
    \/ Decline \/ Reject \/ ConfigUnreadable \/ Accept \/ DockerMissing \/ DockerFound
    \/ PullImages \/ InspectUser \/ CreateNetwork \/ StartTarget
    \/ Probe \/ InspectTarget \/ Wait
    \/ PrepareWorkspace \/ RunScanner \/ Normalize \/ Evaluate \/ InterruptTry
    \/ Discard \/ RemoveNext \/ RemoveTimesOut \/ CleanedUp
    \/ Publish \/ PublishFails \/ InterruptEnd

Next == Script \/ Daemon

Spec == Init /\ [][Next]_vars

\* main() is sequential and every client it waits for has a deadline.
FairSpec == Spec /\ WF_vars(Script)

-----------------------------------------------------------------------------
(* What must hold.                                                          *)

LaunchQueues == {<<>>, <<"scanner">>, <<"injection">>, <<"scanner", "injection">>}
RemovalQueues ==
    {<<>>, <<"network">>, <<"target", "network">>, <<"injection", "target", "network">>,
     <<"scanner", "target", "network">>, <<"scanner", "injection", "target", "network">>}

\* Every variable keeps to its range (the locals of main() and their values).
TypeOK ==
    /\ runner \in Runners
    /\ todo \in LaunchQueues
    /\ step \in Steps
    /\ docker \subseteq Things /\ late \subseteq Things /\ expected \subseteq Things
    /\ private \subseteq {"directory", "plan", "report"}
    /\ probes \in Nat
    /\ validated \subseteq {"scanner", "injection"}
    /\ outcome \in Codes
    /\ raised \in {1, Interrupted, Unset}
    /\ cleanup \in RemovalQueues
    /\ failed \in BOOLEAN
    /\ state \in States \cup {NoState} /\ coverage \in States \cup {NoState}
    /\ policy \in Codes \cup {Unset}
    /\ exit \in Statuses

\* What a probe before the last one may have left: the cleanup of the script
\* does not know of it (docs/authenticated-security-threat-model.md:15 says
\* that it removes the containers of the run).
StrayProbes == IF probes > 1 THEN {"probe"} ELSE {}

\* An invocation that publishes anything but a tool failure leaves nothing
\* behind, no network, target or scanner, none the daemon will still create,
\* and no private file, except for the container of a probe that was refused
\* before another one succeeded.  Otherwise the cleanup flags and the error
\* codes of main() cover every way a client can fail to confirm what the
\* daemon did.
OnlyToolFailuresLeaveThings ==
    policy \in Codes \ {2} => docker \cup late \subseteq StrayProbes /\ private = {}

\* Coverage "ran" is only published when every launch of the configured mode
\* was made against a ready target and its report was validated, and nothing
\* was raised on the way.
RanIsEvidenced ==
    coverage = "ran" =>
        /\ validated \in {{"scanner"}, {"injection"}, {"scanner", "injection"}}
        /\ todo = <<>>
        /\ probes > 0
        /\ raised = Unset

\* A process that ends with 0 (clean or excused) or 2 (tool failure) has
\* published artifacts that say the same; 1 and 3 are the codes under which a
\* caller may find none.  Coverage and code are a pair the comparison of two
\* runs accepts.
ExitIsPublished ==
    exit \in {0, 2} =>
        /\ policy = exit
        /\ exit = 0 => coverage \in {"ran", "not_configured", "not_applicable"}
        /\ exit = 2 => coverage = "tool_error"

\* The script always ends, whatever Docker and the target do.
Ends == <>(step = "exited")

\* What docs/dast-threat-model.md says of cleanup: "A cleanup failure changes
\* the result to a tool failure."  If something the script knew it had to
\* remove outlives it, its exit status is 2.
CleanupFailureIsToolFailure ==
    step = "exited" /\ exit # Interrupted /\ expected \cap docker # {} => exit = 2
=============================================================================
