----------------------------- MODULE RuntimeResults -----------------------------
(***************************************************************************)
(* From the reports of the scanners to the result of a runtime add-on: the *)
(* invocations of IsolatedRuntime, the evidence they judge, and the        *)
(* comparison that two of them are combined into.                          *)
(***************************************************************************)
EXTENDS IsolatedRuntime, RuntimeEvidence, AuthenticatedComparison

CONSTANTS
    ZapReports,       \* sequences of alerts
    EngineReports,    \* sequences of Schemathesis events
    Schema,           \* the OpenAPI document the reports are about
    OtherSchemas,     \* and others, which may be refused
    Policies          \* enforcement, minimum severity, baseline and suppressions

\* Lists are lists; the reports are about a document that was accepted.
ASSUME EvidenceAssumption ==
    /\ \A report \in ZapReports :
          /\ report \in Seq(ToSet(report))
          /\ \A i \in DOMAIN report : report[i].instances \in Seq(ToSet(report[i].instances))
    /\ \A events \in EngineReports : events \in Seq(ToSet(events))
    /\ \A schema \in OtherSchemas \cup {Schema} : WellFormed(schema)
    /\ ~SchemaRefused(Schema)

Index == OperationIndex(Schema)
Operations == InjectionPlan(Schema)

-----------------------------------------------------------------------------
(* Comparison                                                               *)

\* The invocation, as a run of the comparison: documents that are there may still
\* be incomplete if a later one could not be written.
Invocation(complete) ==
    [exit |-> exit, state |-> coverage, policy |-> policy, complete |-> complete]
Completeness ==
    IF coverage = NoState \/ policy = Unset THEN {FALSE}
    ELSE IF exit = policy THEN {TRUE} ELSE BOOLEAN

\* Every other run that meets its contract, and one that does not.
OtherRuns ==
    {[exit |-> e, state |-> s, policy |-> e, complete |-> TRUE] :
        e \in Codes, s \in States}
    \cup {[exit |-> 1, state |-> NoState, policy |-> Unset, complete |-> FALSE],
          [exit |-> Interrupted, state |-> NoState, policy |-> Unset, complete |-> FALSE]}

Clean(run) == run.exit = 0 /\ run.state = "ran"
Excused(run) == run.exit = 0 /\ run.state \in {"not_applicable", "not_configured"}

\* The result of two runs is no better than the runs are.
HonestResult(unauth, auth) ==
    LET result == Combined(unauth, auth)
        violated == {run \in {unauth, auth} : run.exit = 1 /\ run.policy = 1 /\ run.complete}
    IN /\ result.code = 0 /\ result.state = "ran" <=> Clean(unauth) /\ Clean(auth)
       /\ result.code = 1 => violated # {} /\ \A run \in {unauth, auth} : Clean(run) \/ run \in violated
       /\ result.code = 0 /\ violated # {} => Excused(auth) /\ result.state = auth.state
       /\ result.code = 0 => Included(unauth, auth) = Sides \/ Excused(auth)

\* A comparison never says more than its two runs, of which this invocation is
\* one, whichever: "ran" and exit 0 need two clean runs; exit 1 needs a run that
\* published a violation, and no run that failed, was interrupted or left its
\* artifacts half-written; a violation is lost only when the authenticated run
\* was excused, in which case the result is excused as well, not clean.
ComparisonIsHonest ==
    step = "exited" /\ runner \in {"dast", "api"} =>
        \A complete \in Completeness, other \in OtherRuns :
            /\ HonestResult(Invocation(complete), other)
            /\ HonestResult(other, Invocation(complete))

\* The findings of a report of either script, none if it is refused.
ZapFound(report) == ZapNormalized(report).findings
EngineFound(events) == SchemathesisNormalized(events, Index).findings

Keys(found) == {found[i].key : i \in DOMAIN found}
Repeated(found, key) == \E i, j \in DOMAIN found : i # j /\ found[i].key = key /\ found[j].key = key

EarnedBy(key, unauth, auth) ==
    {s \in Sides : key \in Keys(IF s = "authenticated" THEN auth ELSE unauth)}

\* What a comparison says of a key: a key that came up twice, in the two runs or
\* in one of them, is a duplicate.
Claimed(key, unauth, auth) ==
    IF Repeated(unauth, key) \/ Repeated(auth, key) THEN Sides ELSE EarnedBy(key, unauth, auth)

AllKeys(unauth, auth) == Keys(unauth) \cup Keys(auth)

\* No finding is lost in a comparison, and none is invented.  Two Schemathesis
\* runs are said to have observed exactly what each of them reported.  Two ZAP
\* runs are not: a finding is said to be observed by both if both reported it
\* and also if just one did, twice, as with two instances of an alert that differ
\* only in their query; it is said of one run exactly if that run reported it,
\* once, and the other did not.
FlagsAreEarned ==
    step = "configure" =>
    CASE runner = "dast" ->
            \A u, a \in ZapReports :
                LET unauth == ZapFound(u) auth == ZapFound(a) IN
                Correlated(unauth, auth) =
                    [key \in AllKeys(unauth, auth) |-> Claimed(key, unauth, auth)]
      [] runner = "api" ->
            \A u, a \in EngineReports :
                LET unauth == EngineFound(u) auth == EngineFound(a) IN
                Correlated(unauth, auth) =
                    [key \in AllKeys(unauth, auth) |-> EarnedBy(key, unauth, auth)]
      [] OTHER -> TRUE

-----------------------------------------------------------------------------
(* Evidence                                                                 *)

\* A weakness that the policy does not excuse.
Enforced(print, severity, p) ==
    /\ Rank[severity] >= Rank[p.minimum]
    /\ print \notin p.suppressed
    /\ p.enforcement = "all" \/ (p.enforcement = "new" /\ print \notin p.baseline)

\* What the target does with the requests: nothing of note, but for at most two, or
\* the same with all of them.
Notes == {"none"} \cup Suspicious \cup Unreachable
Reactions(requests) ==
    UNION {{[r \in requests |-> IF r \in R THEN f[r] ELSE "none"] : f \in [R -> Notes]} :
              R \in {R \in SUBSET requests : Cardinality(R) <= 2}}
    \cup {[r \in requests |-> note] : note \in Notes}

Escapes(alert) == \E i \in DOMAIN alert.instances : alert.instances[i].escapes
Oversized(found) == Len(found) > MaxFindings

ZapIsAccounted(report, p) ==
    LET code == Judged(ZapNormalized(report), p)
        reviewed == {i \in DOMAIN report : report[i].rule = ReviewedRule}
        wrong == \E i \in reviewed : report[i].risk \notin DOMAIN Rank \/ Escapes(report[i])
        enforced == \E i \in reviewed : \E j \in DOMAIN report[i].instances :
            LET seen == report[i].instances[j] IN
            Enforced(<<"zap-baseline", ReviewedRule, seen.path, seen.method>>, report[i].risk, p)
    IN /\ wrong => code = 3
       /\ ~wrong /\ code # 3 => (code = 1 <=> enforced)

EngineIsAccounted(events, p) ==
    LET code == Judged(SchemathesisNormalized(events, Index), p)
        accepted == /\ \E i \in DOMAIN events : events[i].type = "finished"
                    /\ \A i \in DOMAIN events : ~EventRefused(events[i], Index)
        enforced == \E i \in DOMAIN events :
            /\ Failed(events[i])
            /\ Enforced(<<"schemathesis", events[i].check, Index[events[i].operation]>>,
                        CheckSeverity[events[i].check], p)
    IN /\ ~accepted => code = 3
       /\ accepted /\ code # 3 => (code = 1 <=> enforced)
       /\ code = Judged(SchemathesisNormalized(Reverse(events), Index), p)

\* The launcher's evidence is always understood, whatever the target does, unless
\* it amounts to more findings than are accepted.
InjectionIsAccounted(events, safeOnly, p) ==
    LET requests == Requests(Operations, safeOnly)
        contract == SchemathesisNormalized(events, Index)
    IN \A reaction \in Reactions(requests) :
       LET report == Launched(requests, reaction)
           injection == InjectionNormalized(report)
           adapted == Adapted(contract, "combined")
           code == FuzzingJudged(contract, report, "combined", p)
           suspicious == {r \in requests : reaction[r] \in Suspicious}
           print(r) == InjectionFinding([request |-> r, reason |-> reaction[r]]).print
           unreached == \E r \in requests : reaction[r] \in Unreachable
           enforced ==
              \/ \E r \in suspicious : Enforced(print(r), Families[r.family].severity, p)
              \/ \E i \in DOMAIN events : Failed(events[i])
                    /\ LET e == events[i] IN
                       Enforced(<<"combined", Index[e.operation], ReasonByCheck[e.check], e.check>>,
                                CheckSeverity[e.check], p)
       IN contract.accepted =>
            /\ adapted.accepted
            /\ injection.accepted <=> Cardinality({print(r) : r \in suspicious}) <= MaxFindings
            /\ ~injection.accepted => code = 3
            /\ injection.accepted =>
                  /\ code = 2 <=> unreached
                  /\ code \in {0, 1} => (code = 1 <=> enforced)
                  /\ code = 3 => Oversized(adapted.findings \o injection.findings)

\* The spellings of a method compete for one name in the index.
Contested(schema, d) ==
    \E other \in Declared(schema) : other # d /\ Place(other.path, other.entry) = Place(d.path, d.entry)

\* What one reader of a schema takes for an operation, the others take for the
\* same one; only an operation that is not spelled in lower case goes untested,
\* and one whose method is spelled twice may go by the other's name.
SchemaIsShared(schema) ==
    LET index == OperationIndex(schema)
        declared == Declared(schema)
        plan == InjectionPlan(schema)
        local == schema.refs \subseteq {"local"} /\ schema.servers \subseteq {"target"}
    IN ~SchemaRefused(schema) =>
        /\ local /\ \A place \in DOMAIN index : place[1] # "TRACE"
        /\ ~PlanRefused(schema)
        /\ DOMAIN index = {Place(d.path, d.entry) : d \in declared}
        /\ \A d \in declared : \/ index[Place(d.path, d.entry)] = d.entry.id
                                \/ Contested(schema, d)
        /\ \A p, q \in DOMAIN index : index[p] = index[q] => p = q
        /\ \A d \in declared : \/ d.entry.method \notin PlannedMethods
                                \/ Planned(d.path, d.entry) \in plan
        /\ \A r \in Requests(plan, TRUE) :
              \E place \in DOMAIN index : place[1] \in SafeVerbs
                  /\ \E d \in declared : d.entry.id = r.operation /\ Place(d.path, d.entry) = place

\* An operation that may change the target is injected into only if the settings
\* opt in to both; what is launched is opted in to, and has a launch sequence.
SettingsAreKept(settings) ==
    LET launches == LaunchesOf(settings.mode)
        requests == IF "injection" \in ToSet(launches)
                    THEN Requests(Operations, settings.safeOnly) ELSE {}
    IN ~SettingsRefused(settings) =>
        /\ launches \in Modes("fuzzing")
        /\ "injection" \in ToSet(launches) => settings.injection
        /\ \A r \in requests : \A o \in Operations :
              o.id = r.operation /\ o.verb \notin SafeVerbs => settings.mutating /\ settings.injection

\* No evidence is lost on the way from a report to an exit code: a report is
\* refused (3) if anything in it is unreviewed, a target that went away is a
\* tool failure (2), and otherwise the code is 1 exactly if some reported
\* weakness, of any number that share a finding, is one the policy enforces.
\* The order of a report does not matter, and what the injection launcher can
\* write is never refused.  The schema that the report is read with, the plan and
\* the validation before it speak of the same operations, and the plan for safe
\* methods holds no other; settings that are accepted, the default among them,
\* never lead to a request that they do not opt in to.
EvidenceReachesVerdict ==
    step = "configure" =>
        /\ runner = "api" => \A schema \in OtherSchemas \cup {Schema} : SchemaIsShared(schema)
        /\ runner = "fuzzing" => /\ ~SettingsRefused(DefaultSettings)
                                 /\ \A settings \in Settings : SettingsAreKept(settings)
        /\ \A p \in Policies :
            CASE runner = "dast" -> \A report \in ZapReports : ZapIsAccounted(report, p)
              [] runner = "api" -> \A events \in EngineReports : EngineIsAccounted(events, p)
              [] runner = "fuzzing" ->
                    \A events \in EngineReports, safeOnly \in BOOLEAN :
                        InjectionIsAccounted(events, safeOnly, p)
=============================================================================
