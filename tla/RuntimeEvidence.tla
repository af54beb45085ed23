---------------------------- MODULE RuntimeEvidence ----------------------------
(***************************************************************************)
(* What the runtime add-ons make of a scanner's report: the ZAP report of  *)
(* run_dast_baseline.py, the Schemathesis events of                        *)
(* run_api_security_baseline.py, and the contract and injection evidence of*)
(* run_api_fuzzing.py, with the injection launcher that writes the latter. *)
(* A report is refused as a whole or yields findings, which the policy     *)
(* judges.  A finding is its fingerprint, its severity and the key under   *)
(* which the authenticated comparison looks for it; texts, addresses and   *)
(* sizes are reduced to whether they are acceptable.                       *)
(***************************************************************************)
EXTENDS ApiSchema

CONSTANTS
    MaxFindings,      \* maximum_normalized_findings
    MaxCandidates,    \* places of one kind the launcher tries in an operation
    Families          \* the reviewed payload families, with their locations

ASSUME LimitsAssumption ==
    /\ MaxFindings \in Nat
    /\ IsFiniteSet(DOMAIN Families)
    /\ \A f \in DOMAIN Families : IsFiniteSet(Families[f].locations)

Refusal == [accepted |-> FALSE, findings |-> <<>>]
Yield(found) ==
    IF Len(found) > MaxFindings THEN Refusal ELSE [accepted |-> TRUE, findings |-> found]

Rank == [low |-> 0, medium |-> 1, high |-> 2, critical |-> 3]

-----------------------------------------------------------------------------
(* policy.evaluate                                                          *)

Violations(found, p) ==
    {f \in found : /\ Rank[f.severity] >= Rank[p.minimum]
                   /\ f.print \notin p.suppressed
                   /\ \/ p.enforcement = "all"
                      \/ p.enforcement = "new" /\ f.print \notin p.baseline}

\* The exit code that a script derives from a report; a refused one is 3.
Judged(normalized, p) ==
    IF ~normalized.accepted THEN 3
    ELSE IF Violations(ToSet(normalized.findings), p) = {} THEN 0 ELSE 1

-----------------------------------------------------------------------------
(* ZAP: alerts with instances.  Only the anti-clickjacking rule is reviewed;*)
(* alerts of others are passed over unread.  The query of an instance's URL *)
(* is dropped, and every instance is a finding of its own.                  *)

ReviewedRule == "10020"

ZapFinding(alert, instance) ==
    LET place == <<instance.path, instance.method>> IN
    [print |-> <<"zap-baseline", alert.rule>> \o place,
     severity |-> alert.risk,
     key |-> <<"zap-baseline", alert.rule>> \o place \o <<"unknown">>]

AlertRefused(alert) ==
    /\ alert.rule = ReviewedRule
    /\ \/ alert.risk \notin DOMAIN Rank
       \/ Len(alert.instances) > MaxFindings
       \/ \E i \in DOMAIN alert.instances : alert.instances[i].escapes

ZapNormalized(report) ==
    IF \E i \in DOMAIN report : AlertRefused(report[i]) THEN Refusal
    ELSE LET found(alert) ==
                 IF alert.rule # ReviewedRule THEN <<>>
                 ELSE [i \in DOMAIN alert.instances |-> ZapFinding(alert, alert.instances[i])]
         IN Yield(FlattenSeq([i \in DOMAIN report |-> found(report[i])]))

-----------------------------------------------------------------------------
(* Schemathesis: a sequence of events; a check names its operation by method*)
(* and path template.                                                       *)

CheckSeverity ==
    [not_a_server_error |-> "high", status_code_conformance |-> "medium",
     content_type_conformance |-> "medium", response_schema_conformance |-> "high",
     negative_data_rejection |-> "medium", positive_data_acceptance |-> "medium"]

\* An event of no interest is passed over; any other must be as reviewed.
EventRefused(event, index) ==
    \/ event.type \in {"malformed", "error"}
    \/ event.type = "finished" /\ event.stop \notin {"completed", "failure_limit"}
    \/ event.type = "check" /\ event.operation \notin DOMAIN index
    \/ event.type = "check" /\ event.status = "failure" /\ event.check \notin DOMAIN CheckSeverity

Finished(events) == \E i \in DOMAIN events : events[i].type = "finished"

Failed(event) == event.type = "check" /\ event.status = "failure"

\* Repeated failures of a check on an operation are one finding, with the
\* response class of the last of them.
SchemathesisNormalized(events, index) ==
    IF ~Finished(events) \/ \E i \in DOMAIN events : EventRefused(events[i], index)
    THEN Refusal
    ELSE LET same(i, j) == events[i].check = events[j].check
                           /\ events[i].operation = events[j].operation
             last == {i \in DOMAIN events : /\ Failed(events[i])
                        /\ \A j \in i + 1 .. Len(events) : Failed(events[j]) => ~same(i, j)}
             finding(event) ==
                [print |-> <<"schemathesis", event.check, index[event.operation]>>,
                 severity |-> CheckSeverity[event.check],
                 key |-> <<"schemathesis", event.check, event.operation, event.class>>]
         IN Yield(SetToSeq({finding(events[i]) : i \in last}))

-----------------------------------------------------------------------------
(* What a repository may ask of active tests, .vibesec/api-fuzzing.json.    *)

FuzzingModes == {"contract", "fuzz", "injection", "combined"}

\* prohibited: stateful or authentication tests, raw bodies, own payloads, other
\* targets; within: every number is between one and its ceiling.
Settings == [mode: FuzzingModes, fuzzing: BOOLEAN, injection: BOOLEAN, safeOnly: BOOLEAN,
             mutating: BOOLEAN, prohibited: BOOLEAN, within: BOOLEAN]

DefaultSettings == [mode |-> "contract", fuzzing |-> FALSE, injection |-> FALSE, safeOnly |-> TRUE,
                    mutating |-> FALSE, prohibited |-> FALSE, within |-> TRUE]

\* Mutation: methods that are not safe need no opt-in of their own.
SettingsRefusedLoosely(s) ==
    \/ s.prohibited \/ ~s.within
    \/ s.mutating /\ s.safeOnly
    \/ s.mode \in {"fuzz", "combined"} /\ ~s.fuzzing
    \/ s.mode \in {"injection", "combined"} /\ ~s.injection
    \/ s.mode = "contract" /\ (s.fuzzing \/ s.injection)

SettingsRefused(s) ==
    \/ s.prohibited \/ ~s.within
    \/ s.mutating = s.safeOnly
    \/ s.mode \in {"fuzz", "combined"} /\ ~s.fuzzing
    \/ s.mode \in {"injection", "combined"} /\ ~s.injection
    \/ s.mode = "contract" /\ (s.fuzzing \/ s.injection)

\* The launches of a mode, as in IsolatedRuntime.
LaunchesOf(mode) ==
    (IF mode # "injection" THEN <<"scanner">> ELSE <<>>)
    \o (IF mode \in {"injection", "combined"} THEN <<"injection">> ELSE <<>>)

-----------------------------------------------------------------------------
(* The injection launcher: for each operation and family, requests that put *)
(* the payload in one place.                                                *)

Candidates(operation, location) ==
    {p.place : p \in {p \in operation.places : p.place.in = location /\ p.turn < MaxCandidates}}

Requests(operations, safeOnly) ==
    UNION {UNION {{[operation |-> o.id, family |-> f, place |-> c] :
                      c \in UNION {Candidates(o, l) : l \in Families[f].locations}} :
                  f \in DOMAIN Families} :
           o \in {o \in operations : safeOnly => o.verb \in SafeVerbs}}

Unreachable == {"request_timeout", "unexpected_connection_closure"}
Suspicious == {"controlled_5xx", "reflected_marker", "framework_error_pattern"}

\* What the launcher writes of the target's reactions, and its summary.
Launched(requests, reaction) ==
    [events |-> {[request |-> r, reason |-> reaction[r]] :
                    r \in {r \in requests : reaction[r] \in Suspicious \cup Unreachable}},
     summaries |-> 1]

DetectionReasons == {"controlled_5xx", "response_schema_violation", "status_code_violation",
    "reflected_marker", "framework_error_pattern", "request_timeout",
    "target_process_termination", "unexpected_connection_closure", "semantic_mismatch"}

InjectionEventRefused(event) ==
    \/ event.reason \notin DetectionReasons
    \/ event.request.family \notin DOMAIN Families
    \/ event.request.place.in \notin Families[event.request.family].locations

RuntimeFailures == Unreachable \cup {"target_process_termination"}

\* The name of the place is not part of the fingerprint.
InjectionFinding(event) ==
    LET r == event.request IN
    [print |-> <<"injection", r.operation, r.place.in, r.family, event.reason>>,
     severity |-> Families[r.family].severity,
     key |-> <<>>]

InjectionNormalized(report) ==
    IF report.summaries # 1 \/ \E e \in report.events : InjectionEventRefused(e) THEN Refusal
    ELSE Yield(SetToSeq({InjectionFinding(e) : e \in {e \in report.events :
                                                          e.reason \notin RuntimeFailures}}))

TimedOut(report) == \E e \in report.events : e.reason \in RuntimeFailures

\* Contract findings under the reasons of the active profile.
ReasonByCheck ==
    [not_a_server_error |-> "controlled_5xx", status_code_conformance |-> "status_code_violation",
     response_schema_conformance |-> "response_schema_violation",
     content_type_conformance |-> "semantic_mismatch",
     negative_data_rejection |-> "semantic_mismatch",
     positive_data_acceptance |-> "semantic_mismatch"]

Adapted(normalized, mode) ==
    LET adapt(f) == [f EXCEPT !.print = <<mode, f.print[3], ReasonByCheck[f.print[2]], f.print[2]>>]
    IN IF \E f \in ToSet(normalized.findings) : f.print[2] \notin DOMAIN ReasonByCheck
       THEN Refusal
       ELSE [normalized EXCEPT !.findings = [i \in DOMAIN @ |-> adapt(@[i])]]

\* The findings of a combined run, one per fingerprint.
Merged(first, second) ==
    LET all == ToSet(first.findings \o second.findings)
    IN Yield(SetToSeq({CHOOSE f \in all : f.print = p : p \in {f.print : f \in all}}))

\* Mutation: what was found before the target went away is judged.
FuzzingJudgedAnyway(contract, report, mode, p) ==
    LET adapted == Adapted(contract, mode) injection == InjectionNormalized(report) IN
    IF ~contract.accepted \/ ~adapted.accepted \/ ~injection.accepted THEN 3
    ELSE Judged(Merged(adapted, injection), p)

\* Exit code of a fuzzing run from its evidence; a target that could not be
\* reached is a runtime failure, whatever was found.
FuzzingJudged(contract, report, mode, p) ==
    LET adapted == Adapted(contract, mode) injection == InjectionNormalized(report) IN
    IF ~contract.accepted \/ ~adapted.accepted \/ ~injection.accepted THEN 3
    ELSE IF TimedOut(report) THEN 2
    ELSE Judged(Merged(adapted, injection), p)
=============================================================================
