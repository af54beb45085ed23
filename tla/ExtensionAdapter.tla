---------------------------- MODULE ExtensionAdapter ----------------------------
(***************************************************************************)
(* scripts/vibesec/extensions.py, execute_adapter from the launch on, and  *)
(* the exit code of scripts/manage_extensions.py run.  The commands of     *)
(* ExtensionStore go on beside it.                                         *)
(*                                                                         *)
(* The adapter is a process nobody trusts: it ends with any exit code,     *)
(* late, or with too much output, writes any response, and leaves any      *)
(* files in a private directory.  What survives the checks is copied to a  *)
(* staging directory and renamed to the results directory the caller       *)
(* named; here all runs name the same one.  The private directories have   *)
(* fresh names, so checking and copying is one step.                       *)
(***************************************************************************)
EXTENDS ExtensionStore

CONSTANTS
    ArtifactNames,      \* names of files an adapter may declare or return
    NormalizedJson,     \* the name every manifest must declare
    Executions,         \* what an adapter process may do, see AllExecutions
    NoRun,              \* a command without an adapter run
    NoResults           \* the results directory does not exist

Profiles == {"minimal", "standard"}

\* Identity, kind, entrypoint, capabilities and permissions are `wellFormed`.
ValidManifest(manifest) ==
    /\ manifest.wellFormed
    /\ manifest.profiles # {}
    /\ NormalizedJson \in manifest.artifacts

Manifests ==
    {manifest \in [wellFormed : BOOLEAN, profiles : SUBSET Profiles,
                   artifacts : SUBSET ArtifactNames] : ValidManifest(manifest)}

ExitCodes == 0 .. 3
CleanStates == {"ran", "not_applicable", "not_configured"}

\* A killed or crashed process has an exit code of its own: 139 stands for
\* them.  A response that is not the expected JSON is "malformed".  JSON also
\* has values that cannot be looked up in a Python set.
Responses ==
    [form : {"expected", "malformed", "unhashable_coverage", "unhashable_artifacts"},
     exit_code : ExitCodes \cup {139},
     coverage : CleanStates \cup {"tool_error", "clean"},
     normalized_findings_path : {"null", "normalized.json", "other"},
     artifacts : SUBSET ArtifactNames]

\* `written` are the bounded regular files left behind; `findings` is what
\* reading normalized.json gives, whether or not it is returned.
AllExecutions ==
    [ended : {"in_time", "timeout", "oversized"},
     returncode : ExitCodes \cup {139},
     response : Responses,
     written : SUBSET ArtifactNames,
     findings : {"accepted", "refused", "unhashable"}]

\* A run whose output passed the checks.
Accepted == [declared : SUBSET ArtifactNames, execution : Executions]

ASSUME AdapterAssumption ==
    /\ NormalizedJson \in ArtifactNames
    /\ Executions \subseteq AllExecutions
    /\ NoResults \notin Accepted

VARIABLES
    stage,      \* where the run of each command stands
    run,        \* artifacts its manifest declares; what its adapter did, once
                \* that is accepted
    report,     \* what the last run of each command reported
    results     \* the results directory: the run whose staging became it

adapterVars == <<stage, run, report, results>>
allVars == <<vars, adapterVars>>

Interrupted == 4
NoReport == 5        \* not an exit code: still running, or killed
Traceback == 6       \* an exception nobody catches: the interpreter exits
                     \* with 1 and the run prints no document

AdapterTypeOK ==
    /\ TypeOK
    /\ stage \in [Procs -> {"none", "running", "staged", "published"}]
    /\ run \in [Procs -> {NoRun} \cup [declared : SUBSET ArtifactNames] \cup Accepted]
    /\ report \in [Procs -> ExitCodes \cup {NoReport, Interrupted, Traceback}]
    /\ results \in {NoResults} \cup Accepted

AdapterInit ==
    /\ Init
    /\ stage = [p \in Procs |-> "none"]
    /\ run = [p \in Procs |-> NoRun]
    /\ report = [p \in Procs |-> NoReport]
    /\ results = NoResults

-------------------------------------------------------------------------------
(* The checks on what the adapter did *)

\* The checks in their order: the exit code, the coverage and the path, the
\* list of artifacts.
ExitPreserved(execution) ==
    /\ execution.response.form # "malformed"
    /\ execution.response.exit_code = execution.returncode
    /\ execution.returncode \in ExitCodes

CoverageValid(execution) ==
    LET response == execution.response IN
    /\ response.form # "unhashable_coverage"
    /\ response.coverage \in CleanStates \cup {"tool_error"}
    /\ response.coverage = "tool_error" <=> execution.returncode \in {2, 3}
    /\ response.normalized_findings_path \in {"null", "normalized.json"}

ValidResponse(execution, declared) ==
    /\ ExitPreserved(execution)
    /\ CoverageValid(execution)
    /\ execution.response.form # "unhashable_artifacts"
    /\ execution.response.artifacts \subseteq declared

\* The first check that fails does not refuse: it raises TypeError.
ResponseRaises(execution) ==
    /\ execution.ended = "in_time"
    /\ ExitPreserved(execution)
    /\ \/ execution.response.form = "unhashable_coverage"
       \/ execution.response.form = "unhashable_artifacts" /\ CoverageValid(execution)

Understood(execution, declared) ==
    execution.ended = "in_time" /\ ValidResponse(execution, declared)

\* normalized.json is read and validated even when it is not returned.
OutputSound(execution) ==
    /\ execution.response.artifacts \subseteq execution.written
    /\ execution.findings = "accepted"

\* The files are looked at first.
FindingsRaise(execution) ==
    /\ execution.response.artifacts \subseteq execution.written
    /\ execution.findings = "unhashable"

\* adapter_run_status refuses an exit code that contradicts the coverage.
ExitCode(execution) ==
    IF execution.returncode \in {0, 1} <=> execution.response.coverage \in CleanStates
      THEN execution.returncode
      ELSE 3

-------------------------------------------------------------------------------
(* One run *)

\* The process ends with an exit code.
Report(p, code) ==
    /\ stage' = [stage EXCEPT ![p] = "none"]
    /\ report' = [report EXCEPT ![p] = code]

Forget(p) == run' = [run EXCEPT ![p] = NoRun]

Launch(p) ==
    /\ RunLaunch(p)
    /\ results = NoResults
    /\ stage' = [stage EXCEPT ![p] = "running"]
    /\ \E manifest \in Manifests, profile \in Profiles :
          /\ profile \in manifest.profiles
          /\ run' = [run EXCEPT ![p] = [declared |-> manifest.artifacts]]
    /\ report' = [report EXCEPT ![p] = NoReport]
    /\ UNCHANGED results

LaunchRefused(p) ==
    /\ RunRefused(p)
    /\ \/ dirs[slot[p]] = "absent"
       \/ results # NoResults
       \/ \E manifest \in Manifests, profile \in Profiles : profile \notin manifest.profiles
    /\ Report(p, 3)
    /\ Forget(p)
    /\ UNCHANGED results

\* _adapter_failure: too late, too much output, or not a valid response.
AdapterFails(p) ==
    /\ stage[p] = "running"
    /\ \E execution \in Executions :
          ~Understood(execution, run[p].declared) /\ ~ResponseRaises(execution)
    /\ Report(p, 2)
    /\ Forget(p)
    /\ UNCHANGED <<vars, results>>

AdapterToolError(p) ==
    /\ stage[p] = "running"
    /\ \E execution \in Executions :
          /\ Understood(execution, run[p].declared)
          /\ execution.response.coverage = "tool_error"
          /\ Report(p, ExitCode(execution))
    /\ Forget(p)
    /\ UNCHANGED <<vars, results>>

\* A file is missing or unsafe, or the findings violate the schema, leak a
\* bearer value or are too many: ExtensionError.
OutputRefused(p) ==
    /\ stage[p] = "running"
    /\ \E execution \in Executions :
          /\ Understood(execution, run[p].declared)
          /\ execution.response.coverage # "tool_error"
          /\ ~OutputSound(execution) /\ ~FindingsRaise(execution)
    /\ Report(p, 3)
    /\ Forget(p)
    /\ UNCHANGED <<vars, results>>

\* A value in the response or in a finding is a list or an object where the
\* code looks it up in a set: nobody catches the TypeError.
AdapterUncaught(p) ==
    /\ stage[p] = "running"
    /\ \E execution \in Executions :
          \/ ResponseRaises(execution)
          \/ /\ Understood(execution, run[p].declared)
             /\ execution.response.coverage # "tool_error"
             /\ FindingsRaise(execution)
    /\ Report(p, Traceback)
    /\ Forget(p)
    /\ UNCHANGED <<vars, results>>

OutputStaged(p) ==
    /\ stage[p] = "running"
    /\ \E execution \in Executions :
          /\ Understood(execution, run[p].declared)
          /\ execution.response.coverage # "tool_error"
          /\ OutputSound(execution)
          /\ run' = [run EXCEPT ![p] =
                        [declared |-> run[p].declared, execution |-> execution]]
    /\ stage' = [stage EXCEPT ![p] = "staged"]
    /\ UNCHANGED <<vars, report, results>>

\* Mutation: the files are copied into whatever directory stands there.
PublishInto(p) ==
    /\ stage[p] = "staged"
    /\ results' = run[p]
    /\ stage' = [stage EXCEPT ![p] = "published"]
    /\ UNCHANGED <<vars, run, report>>

\* The files in the results directory.
Published == IF results = NoResults THEN {} ELSE results.execution.response.artifacts

\* os.replace(staging, results): the destination was tested before the
\* launch.  A directory that has appeared since stops the rename, unless it
\* is empty.
Publish(p) ==
    /\ stage[p] = "staged"
    /\ Published = {}
    /\ results' = run[p]
    /\ stage' = [stage EXCEPT ![p] = "published"]
    /\ UNCHANGED <<vars, run, report>>

PublishFails(p) ==
    /\ stage[p] = "staged"
    /\ Published # {} \/ "publish" \in Faults
    /\ Report(p, 3)
    /\ Forget(p)
    /\ UNCHANGED <<vars, results>>

ReportRun(p) ==
    /\ stage[p] = "published"
    /\ Report(p, ExitCode(run[p].execution))
    /\ UNCHANGED <<vars, run, results>>

\* Ctrl-C is reported with an exit code of its own; a kill reports nothing.
Interrupt(p) ==
    /\ stage[p] # "none"
    /\ \E code \in {Interrupted, NoReport} : Report(p, code)
    /\ Forget(p)
    /\ UNCHANGED <<vars, results>>

\* The steps of every other command, and of a run before the launch.
StoreStep(p) ==
    /\ stage[p] = "none"
    /\ \/ InstallNext(p) \/ RemoveNext(p) \/ SetEnabledNext(p) \/ Crash(p)
       \/ (\E s \in Slots : RunLoad(p, s)) \/ RunVerify(p) \/ RunDescribe(p)
    /\ report' = [report EXCEPT ![p] = NoReport]
    /\ Forget(p)
    /\ UNCHANGED <<stage, results>>

AdapterNext ==
    \/ \E p \in Procs :
          \/ StoreStep(p)
          \/ Launch(p) \/ LaunchRefused(p)
          \/ AdapterFails(p) \/ AdapterToolError(p) \/ AdapterUncaught(p)
          \/ OutputRefused(p) \/ OutputStaged(p)
          \/ Publish(p) \/ PublishFails(p) \/ ReportRun(p)
          \/ Interrupt(p)
    \/ \E s \in Slots : Modify(s) /\ UNCHANGED adapterVars

AdapterSpec == AdapterInit /\ [][AdapterNext]_allVars

-------------------------------------------------------------------------------
(* Properties *)

\* Declared files of an adapter that ended in time with exit code 0 or 1, said
\* so itself, and whose findings were accepted.
Earned(accepted) ==
    LET execution == accepted.execution IN
    /\ execution.ended = "in_time"
    /\ execution.returncode \in {0, 1}
    /\ execution.response.exit_code = execution.returncode
    /\ execution.response.coverage \in CleanStates
    /\ execution.response.artifacts \subseteq execution.written \cap accepted.declared
    /\ execution.findings = "accepted"

\* The exit status of the process says less than its report.
ExitStatus(p) == IF report[p] = Traceback THEN 1 ELSE report[p]

\* Whatever other runs and commands with the same results directory did
\* before, meanwhile or since: what stands in it was earned, and when a run
\* has reported 0 or 1, its adapter ended with that code and the files it
\* returned are there.  Status 0 always comes with a report.  Status 1 alone
\* does not tell findings from a run that broke off, which has published
\* nothing: whoever reads it has to ask for the document as well.
ResultsAreEarned ==
    /\ results # NoResults => Earned(results)
    /\ \A p \in Procs :
          \/ ExitStatus(p) \notin {0, 1}
          \/ ExitStatus(p) = 1 /\ report[p] = Traceback /\ run[p] = NoRun
          \/ /\ run[p].execution.returncode = ExitStatus(p)
             /\ run[p].execution.response.artifacts # {} => results = run[p]
=================================================================================
