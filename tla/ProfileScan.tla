------------------------------ MODULE ProfileScan ------------------------------
(***************************************************************************)
(* One `vibesec scan` after another into the same results directory        *)
(* (vibesec, scripts/run_standard_profile.py, scripts/run_minimal_profile  *)
(* .sh and the writers and the policy gate they run): clearing what the    *)
(* last scan left, the scanners, the artifacts in the order they are       *)
(* written, the gate, and the exit code.  A scanner may fail or write what *)
(* does not validate, every write may fail, and a scan may be killed,      *)
(* which need not end the program its script was waiting for.              *)
(***************************************************************************)
EXTENDS Naturals, Sequences, FiniteSets

CONSTANTS
    StandardTools,  \* scanners of the Standard profile, in the order they run
    MinimalTools,   \* scanners of the Minimal profile
    MaxScans        \* bound on the scans

ASSUME ToolsAssumption ==
    \A tools \in {StandardTools, MinimalTools} :
       /\ tools \in Seq(STRING)
       /\ \A i, j \in DOMAIN tools : tools[i] = tools[j] => i = j
ASSUME ScansAssumption == MaxScans \in Nat

VARIABLES
    scan,       \* number of the scan, and what it runs
    profile,
    pc, at,     \* where the script is, and in which file or scanner of a list
    store,      \* results directory: the scan that wrote each artifact, 0, or Stray
    orphans,    \* programs that outlived the script they ran for
    verdict,    \* exit code in policy-result.json
    listed,     \* scanners with a tool error in normalized.json
    coverage,   \* state recorded for each scanner
    failed,     \* scanners that failed, recorded or not
    violating,  \* a scanner reported what the policy forbids
    malformed,  \* a scanner wrote what does not validate
    gate,       \* exit code of policy_gate.py
    exit,       \* exit code of the script
    reported    \* exit code of `vibesec scan`

scanners == <<coverage, failed, violating, malformed>>
outcome == <<gate, exit, reported>>
vars == <<scan, profile, pc, at, store, orphans, verdict, listed, scanners, outcome>>

Pass == 0
Violation == 1
ToolError == 2
InvalidInput == 3
Contract == {Pass, Violation, ToolError, InvalidInput}
OutsideContract == 4  \* a signal, or what no script of the harness returns
NoCode == 5
Codes == Contract \cup {OutsideContract, NoCode}

\* An artifact of an earlier scan, left or written after a later one had
\* cleared it.
Stray == MaxScans + 1

Profiles == {"standard", "minimal"}
Tools(pr) == IF pr = "standard" THEN StandardTools ELSE MinimalTools
ToolSet(pr) == {Tools(pr)[i] : i \in DOMAIN Tools(pr)}

States == {"unrecorded", "ran", "not_applicable", "not_configured", "tool_error"}
Finished == {"ran", "not_applicable", "not_configured"}
AlwaysApplies == {"trivy", "gitleaks"}

KnownOutputs(pr) ==
    IF pr = "standard"
    THEN <<"normalized", "coverage", "inventory", "report", "result", "groups", "priority", "sbom">>
    ELSE <<"normalized", "report", "coverage", "result", "inventory", "groups", "priority", "sbom">>
Outputs == {"normalized", "coverage", "inventory", "report", "result", "groups", "priority", "sbom"}

StandardWrites == <<"normalized", "coverage", "groups", "priority">>
FailureWrites == <<"coverage", "normalized", "result", "report">>

\* What a reader of a clean scan may count on.
Mandatory(pr) ==
    {"normalized", "coverage", "report", "result"}
        \cup IF pr = "standard" THEN {"inventory", "groups", "priority"} ELSE {}

Pcs == {"idle", "start", "clear", "inventory", "tools", "check", "write", "gate", "report",
        "result", "normalize", "append", "coverage", "failure", "ended"}

Errors == {t \in DOMAIN coverage : coverage[t] = "tool_error"}

Init ==
    /\ scan = 0 /\ profile \in Profiles /\ pc = "idle" /\ at = 1
    /\ store = [o \in Outputs |-> 0]
    /\ orphans = {} /\ verdict = NoCode /\ listed = {}
    /\ coverage = [t \in ToolSet(profile) |-> "unrecorded"]
    /\ failed = {} /\ violating = FALSE /\ malformed = FALSE
    /\ gate = NoCode /\ exit = NoCode /\ reported = NoCode

At(p) == pc = p
Standard == profile = "standard"
Minimal == profile = "minimal"

Goto(p) == pc' = p /\ at' = 1 /\ UNCHANGED <<scan, profile, orphans>>
GotoNext == pc' = pc /\ at' = at + 1 /\ UNCHANGED <<scan, profile, orphans>>
Exit(code) == Goto("ended") /\ exit' = code /\ UNCHANGED <<gate, reported>>

Files == <<store, verdict, listed>>
Written(o) == [store EXCEPT ![o] = scan]

-----------------------------------------------------------------------------
(* Starting, and clearing the results directory.                            *)

Begin ==
    /\ At("idle") /\ scan < MaxScans
    /\ scan' = scan + 1
    /\ profile' \in Profiles
    /\ pc' = "start" /\ at' = 1
    /\ coverage' = [t \in ToolSet(profile') |-> "unrecorded"]
    /\ failed' = {} /\ violating' = FALSE /\ malformed' = FALSE
    /\ gate' = NoCode /\ exit' = NoCode /\ reported' = NoCode
    /\ UNCHANGED <<Files, orphans>>

Configured ==
    /\ At("start")
    /\ Goto("clear")
    /\ UNCHANGED <<Files, scanners, outcome>>

\* Before anything is cleared.
ConfigurationInvalid ==
    /\ At("start") /\ Standard
    /\ Exit(InvalidInput)
    /\ UNCHANGED <<Files, scanners>>

Clear ==
    /\ At("clear")
    /\ at <= Len(KnownOutputs(profile))
    /\ store' = [store EXCEPT ![KnownOutputs(profile)[at]] = 0]
    /\ GotoNext
    /\ UNCHANGED <<verdict, listed, scanners, outcome>>

\* rm -f fails on one artifact, and the Minimal script goes on.
ClearIgnored ==
    /\ At("clear") /\ Minimal
    /\ at <= Len(KnownOutputs(profile))
    /\ LET o == KnownOutputs(profile)[at] IN
       /\ store[o] # 0
       /\ store' = [store EXCEPT ![o] = Stray]
    /\ GotoNext
    /\ UNCHANGED <<verdict, listed, scanners, outcome>>

ClearFails ==
    /\ At("clear") /\ Standard
    /\ Exit(InvalidInput)
    /\ UNCHANGED <<Files, scanners>>

\* Mutation: only the artifacts this scan is sure to write are cleared.
ClearedEarly ==
    /\ At("clear")
    /\ at > 4
    /\ Goto(IF Standard THEN "inventory" ELSE "tools")
    /\ UNCHANGED <<Files, scanners, outcome>>

Cleared ==
    /\ At("clear")
    /\ at > Len(KnownOutputs(profile))
    /\ Goto(IF Standard THEN "inventory" ELSE "tools")
    /\ UNCHANGED <<Files, scanners, outcome>>

\* Detection may refuse the repository, and the scanners' runtime may not be
\* prepared.
Inventory ==
    /\ At("inventory")
    /\ \/ Exit(InvalidInput) /\ store' \in {store, Written("inventory")}
       \/ Goto("tools") /\ store' = Written("inventory") /\ UNCHANGED outcome
    /\ UNCHANGED <<verdict, listed, scanners>>

-----------------------------------------------------------------------------
(* The scanners, one after the other.                                       *)

Scanning(t) == At("tools") /\ at \in DOMAIN Tools(profile) /\ t = Tools(profile)[at]
Record(t, state) == coverage' = [coverage EXCEPT ![t] = state] /\ GotoNext

\* No artifact of its kind in the repository, or no image to scan.
ToolSkipped(t, state) ==
    /\ Scanning(t)
    /\ t \notin AlwaysApplies
    /\ state = "not_configured" => t = "trivy-image"
    /\ Record(t, state)
    /\ UNCHANGED <<Files, failed, violating, malformed, outcome>>

ToolRan(t) ==
    /\ Scanning(t)
    /\ Record(t, "ran")
    /\ violating' \in {violating, TRUE}
    /\ store' = IF t = "syft" THEN Written("sbom") ELSE store
    /\ UNCHANGED <<verdict, listed, failed, malformed, outcome>>

ToolFails(t) ==
    /\ Scanning(t)
    /\ failed' = failed \cup {t}
    /\ Record(t, "tool_error")
    /\ UNCHANGED <<Files, violating, malformed, outcome>>

\* Standard normalizes at once, Minimal all together at the end.
ToolMalformed(t) ==
    /\ Scanning(t)
    /\ failed' = failed \cup {t}
    /\ malformed' = TRUE
    /\ Record(t, IF Standard THEN "tool_error" ELSE "ran")
    /\ UNCHANGED <<Files, violating, outcome>>

\* Status 1 without a report counts as no leaks.
GitleaksSilent(t) ==
    /\ Scanning(t) /\ Minimal /\ t = "gitleaks"
    /\ failed' = failed \cup {t}
    /\ Record(t, "ran")
    /\ UNCHANGED <<Files, violating, malformed, outcome>>

ImageInvalid(t) ==
    /\ Scanning(t) /\ Standard /\ t = "trivy-image"
    /\ Exit(InvalidInput)
    /\ UNCHANGED <<Files, scanners>>

ToolsDone ==
    /\ At("tools") /\ at > Len(Tools(profile))
    /\ Goto(IF Standard THEN "check" ELSE "normalize")
    /\ UNCHANGED <<Files, scanners, outcome>>

Scanner(t) ==
    \/ \E state \in {"not_applicable", "not_configured"} : ToolSkipped(t, state)
    \/ ToolRan(t) \/ ToolFails(t) \/ ToolMalformed(t) \/ GitleaksSilent(t) \/ ImageInvalid(t)

-----------------------------------------------------------------------------
(* Standard: validation of the whole, then the artifacts the gate reads.    *)

CheckFails ==
    /\ At("check")
    /\ Exit(InvalidInput)
    /\ UNCHANGED <<Files, scanners>>

\* validate_coverage wants every scanner, once.
CheckPasses ==
    /\ At("check")
    /\ \A t \in DOMAIN coverage : coverage[t] # "unrecorded"
    /\ Goto("write")
    /\ UNCHANGED <<Files, scanners, outcome>>

Write ==
    /\ At("write") /\ at <= Len(StandardWrites)
    /\ store' = Written(StandardWrites[at])
    /\ listed' = IF StandardWrites[at] = "normalized" THEN Errors ELSE listed
    /\ GotoNext
    /\ UNCHANGED <<verdict, scanners, outcome>>

AllWritten ==
    /\ At("write") /\ at > Len(StandardWrites)
    /\ Goto("gate")
    /\ UNCHANGED <<Files, scanners, outcome>>

\* An exception nobody catches, a full disk in most places.
Uncaught ==
    /\ Standard
    /\ pc \in {"start", "inventory", "tools", "check", "write", "report", "result"}
    /\ Exit(Violation)
    /\ UNCHANGED <<Files, scanners>>

-----------------------------------------------------------------------------
(* Minimal: every step is a program whose status the script looks at.       *)

Normalize ==
    /\ At("normalize")
    /\ ~malformed
    /\ store' = Written("normalized")
    /\ listed' = {}
    /\ Goto("append")
    /\ UNCHANGED <<verdict, scanners, outcome>>

\* Malformed output, or the file cannot be written.
NormalizeFails ==
    /\ At("normalize")
    /\ store' \in {store, Written("normalized")}
    /\ listed' = {}
    /\ Goto("failure")
    /\ UNCHANGED <<verdict, scanners, outcome>>

\* Mutation: the errors of the scanners are not appended.
AppendNothing ==
    /\ At("append")
    /\ listed' = {}
    /\ Goto("coverage")
    /\ UNCHANGED <<store, verdict, scanners, outcome>>

AppendErrors ==
    /\ At("append")
    /\ listed' = Errors
    /\ Goto("coverage")
    /\ UNCHANGED <<store, verdict, scanners, outcome>>

AppendFails ==
    /\ At("append")
    /\ Goto("failure")
    /\ UNCHANGED <<Files, scanners, outcome>>

\* Mutation: the script goes on without its coverage.
WriteCoverageOrNot ==
    /\ At("coverage")
    /\ store' \in {store, Written("coverage")}
    /\ Goto("gate")
    /\ UNCHANGED <<verdict, listed, scanners, outcome>>

WriteCoverage ==
    /\ At("coverage")
    /\ \/ Exit(InvalidInput) /\ UNCHANGED Files
       \/ /\ store' = Written("coverage")
          /\ Goto("gate")
          /\ UNCHANGED <<verdict, listed, outcome>>
    /\ UNCHANGED scanners

\* Each write of the failure path may fail in turn; whatever it read as done
\* becomes a tool error when its output did not normalize.
WriteFailure ==
    /\ At("failure") /\ at <= Len(FailureWrites)
    /\ LET o == FailureWrites[at] IN
       \/ UNCHANGED <<Files, coverage>>
       \/ /\ store' = Written(o)
          /\ verdict' = IF o = "result" THEN InvalidInput ELSE verdict
          /\ coverage' = IF o = "coverage"
                         THEN [t \in DOMAIN coverage |->
                                 IF coverage[t] = "ran" THEN "tool_error" ELSE coverage[t]]
                         ELSE coverage
          /\ UNCHANGED listed
    /\ GotoNext
    /\ UNCHANGED <<failed, violating, malformed, outcome>>

FailureWritten ==
    /\ At("failure") /\ at > Len(FailureWrites)
    /\ Exit(InvalidInput)
    /\ UNCHANGED <<Files, scanners>>

-----------------------------------------------------------------------------
(* policy_gate.py, and what the scripts make of its exit code.              *)

Decision == CASE listed # {} -> ToolError
              [] listed = {} /\ violating -> Violation
              [] OTHER -> Pass

GateReads == {"normalized"} \cup IF Standard THEN {"groups", "priority"} ELSE {}

\* Findings of an earlier scan may say anything.
GateDecides ==
    /\ At("gate")
    /\ \A o \in GateReads : store[o] # 0
    /\ gate' \in IF store["normalized"] = Stray THEN {Pass, Violation, ToolError} ELSE {Decision}
    /\ store' = Written("report")
    /\ Goto(IF Standard THEN "report" ELSE "result")
    /\ UNCHANGED <<verdict, listed, scanners, exit, reported>>

\* The configuration or the results are refused; or it ends with an exception
\* or a signal, with or without a report.
GateFails(code) ==
    /\ At("gate")
    /\ gate' = code
    /\ store' \in {store} \cup IF code = InvalidInput THEN {} ELSE {Written("report")}
    /\ Goto(IF Standard THEN "report" ELSE "result")
    /\ UNCHANGED <<verdict, listed, scanners, exit, reported>>

GateNotStarted ==
    /\ At("gate") /\ Standard
    /\ Exit(InvalidInput)
    /\ UNCHANGED <<Files, scanners>>

Gate == GateDecides \/ GateNotStarted
        \/ \E code \in {Violation, InvalidInput, OutsideContract} : GateFails(code)

AppendCoverage ==
    /\ At("report")
    /\ Goto("result")
    /\ UNCHANGED <<Files, scanners, outcome>>

\* Mutation: malformed input does not override the gate.
FinalStatusOfGate == gate

FinalStatus == IF malformed THEN InvalidInput ELSE gate

\* Minimal refuses to write what is outside the contract.
WriteResult ==
    /\ At("result")
    /\ LET code == IF Standard THEN FinalStatus ELSE gate IN
       /\ Minimal => code \in Contract
       /\ verdict' = code
       /\ store' = Written("result")
       /\ Exit(code)
    /\ UNCHANGED <<listed, scanners>>

WriteResultFails ==
    /\ At("result") /\ Minimal
    /\ Exit(InvalidInput)
    /\ UNCHANGED <<Files, scanners>>

-----------------------------------------------------------------------------
(* What `vibesec scan` makes of the script's exit.                          *)

\* Mutation: a code outside the contract is reduced to its last two bits.
CliCodeTruncated(code) == code % 4

CliCode(code) == IF code \in Contract THEN code ELSE ToolError

Report ==
    /\ At("ended")
    /\ reported' = CliCode(exit)
    /\ Goto("idle")
    /\ UNCHANGED <<Files, scanners, gate, exit>>

\* What the program the script is waiting for has yet to write: Syft and the
\* gate write artifacts themselves, and Minimal leaves every one to a program.
Unwritten ==
    {o \in Outputs :
        \/ o = "sbom" /\ Standard /\ Scanning("syft")
        \/ o = "normalized" /\ ((At("normalize") /\ ~malformed) \/ At("append"))
        \/ o = "coverage" /\ At("coverage")
        \/ o = "report" /\ At("gate")
        \/ o = "result" /\ Minimal /\ At("result") /\ gate \in Contract
        \/ At("failure") /\ at <= Len(FailureWrites) /\ o = FailureWrites[at]}

Child(o) == [scan |-> scan, output |-> o, code |-> IF At("result") THEN gate ELSE InvalidInput]

\* After thirty minutes the command line kills the script, and nothing else; or
\* the machine, or the user, kills both, and nothing is reported.
Killed ==
    /\ ~At("idle")
    /\ reported' \in {ToolError, NoCode}
    /\ exit' = NoCode
    /\ pc' = "idle" /\ at' = 1
    /\ orphans' \in {orphans} \cup {orphans \cup {Child(o)} : o \in Unwritten}
    /\ UNCHANGED <<scan, profile, Files, scanners, gate>>

\* At any time after, or never.
OrphanWrites(r) ==
    /\ orphans' = orphans \ {r}
    /\ store' = [store EXCEPT ![r.output] = IF r.scan = scan THEN scan ELSE Stray]
    /\ verdict' = IF r.output = "result" THEN r.code ELSE verdict
    /\ UNCHANGED <<scan, profile, pc, at, listed, scanners, outcome>>

Prepare == Begin \/ Configured \/ ConfigurationInvalid \/ Clear \/ ClearIgnored \/ ClearFails
           \/ Cleared \/ Inventory

RunTools == ToolsDone \/ \E t \in DOMAIN coverage : Scanner(t)

Publish == CheckFails \/ CheckPasses \/ Write \/ AllWritten \/ Uncaught
           \/ Normalize \/ NormalizeFails \/ AppendErrors \/ AppendFails
           \/ WriteCoverage \/ WriteFailure \/ FailureWritten

Finish == Gate \/ AppendCoverage \/ WriteResult \/ WriteResultFails \/ Report \/ Killed
          \/ \E r \in orphans : OrphanWrites(r)

Next == Prepare \/ RunTools \/ Publish \/ Finish

Spec == Init /\ [][Next]_vars

-----------------------------------------------------------------------------
(* What must hold.                                                          *)

\* Types of the results directory, the script's locals and the exit codes.
TypeOK ==
    /\ scan \in 0..MaxScans /\ profile \in Profiles /\ pc \in Pcs /\ at \in Nat
    /\ store \in [Outputs -> 0..Stray]
    /\ orphans \subseteq [scan : 0..MaxScans, output : Outputs, code : Contract]
    /\ verdict \in Codes /\ listed \in SUBSET (ToolSet("standard") \cup ToolSet("minimal"))
    /\ coverage \in [ToolSet(profile) -> States]
    /\ failed \subseteq ToolSet(profile)
    /\ violating \in BOOLEAN /\ malformed \in BOOLEAN
    /\ gate \in Codes /\ exit \in Codes
    /\ reported \in Contract \cup {NoCode}

\* This scan has published its policy-result.json.
Judged == scan > 0 /\ store["result"] = scan

\* A clean policy result means that every scanner of the profile was recorded
\* as finished, that none that ran reported what the policy forbids, and that
\* none failed; except for a Gitleaks that fails with status 1 and leaves no
\* report, which Minimal records as having run without findings, and except
\* when the findings the gate read were an orphan's of an earlier scan.
\* Output that does not validate makes every result an invalid input, in
\* Standard over the gate's own decision.
VerdictIsEarned ==
    Judged =>
        /\ malformed => verdict = InvalidInput
        /\ verdict = Pass /\ store["normalized"] # Stray =>
              /\ ~violating
              /\ \A t \in ToolSet(profile) : coverage[t] \in Finished
              /\ failed \subseteq IF Minimal THEN {"gitleaks"} ELSE {}

\* Whatever failed or was killed before, policy-result.json stands beside an
\* artifact of another scan only if a program that outlived its scan, or an
\* rm -f of the Minimal profile that failed, put one of the two there after a
\* later scan had cleared it.
OneScanPerDirectory ==
    store["result"] \notin {0, Stray} =>
        \A o \in Outputs : store[o] \in {0, store["result"], Stray}

\* `vibesec scan` returns 0 only over the complete artifacts of this very scan,
\* with a clean result among them; those an orphan of an earlier scan replaced
\* excepted.
SuccessIsComplete ==
    reported = Pass => /\ \A o \in Mandatory(profile) : store[o] \in {scan, Stray}
                       /\ verdict = Pass \/ store["result"] = Stray

\* The command line never says other than the policy result of the same scan,
\* unless the script was killed, or the gate by a signal, which
\* policy-result.json calls invalid input and the command line a tool error.
ReportAgreesWithResult ==
    Judged /\ reported # NoCode /\ exit # NoCode =>
        \/ reported = verdict
        \/ verdict = OutsideContract /\ reported = ToolError
=============================================================================
