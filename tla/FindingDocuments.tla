--------------------------- MODULE FindingDocuments ---------------------------
(***************************************************************************)
(* The rest of scripts/vibesec/finding_intelligence.py: the findings that  *)
(* scanners report are validated one by one and fail as a whole; the groups*)
(* of FindingCorrelation are given a priority and are written out as two   *)
(* documents, which build() has checked by the same independent validator  *)
(* that the policy gate uses; and evaluate_priority of policy.py judges the*)
(* groups.  A source reference is the digest of where a finding was read   *)
(* and of its fingerprint, a correlation key that of a set of references;  *)
(* the documents name a finding by its index, which its reference stands   *)
(* for as long as the references differ, and the validator asks for that.  *)
(* Nothing depends on the order of the groups, which is that of digests.   *)
(***************************************************************************)
EXTENDS FindingCorrelation

CONSTANTS
    Reports,            \* results of type "finding" that build() may be given
    Scanners,           \* KNOWN_SCANNERS
    FamilyByCwe,        \* FAMILY_BY_CWE and
    FamilyByCategory,   \* FAMILY_BY_CATEGORY
    MaxLine,            \* the largest line number
    MaxFindings,        \* MAX_FINDINGS, which is MAX_GROUPS as well
    Origins,            \* where the findings may come from: for each of them
                        \* the profile, the artifact and the index there
    Null,               \* a field that is there but null
    Baseline,           \* fingerprints of the baseline
    Suppressions,       \* fingerprints of active suppressions
    Controls,           \* enabled finding_intelligence controls of a policy
    NoDocuments         \* nothing has been built yet

VARIABLES
    reports,            \* what the scanners reported
    origins,            \* where each finding was read
    given,              \* how many findings there are in all, reports or more
    documents           \* finding-groups.json and prioritized-findings.json

documentVars == <<vars, reports, origins, given, documents>>

-------------------------------------------------------------------------------
(* _validate_finding *)

Severity == [low |-> 1, medium |-> 2, high |-> 3, critical |-> 4]
Confidences == {"unknown", "possible", "confirmed"}

\* FAMILY_BY_CWE goes before FAMILY_BY_CATEGORY.
Family(r) ==
    IF r.cwe \in DOMAIN FamilyByCwe THEN FamilyByCwe[r.cwe]
    ELSE IF r.category \in DOMAIN FamilyByCategory THEN FamilyByCategory[r.category]
    ELSE NoValue

Default(value, otherwise) == IF value = NoValue THEN otherwise ELSE value

\* item.get("end_line", line): only a field that is not there has a default.
LastLine(r) == IF r.last = Null THEN NoValue ELSE Default(r.last, r.first)

Reference(i) == <<origins[i], <<reports[i].tool, reports[i].print>>>>

Accepted(r) ==
    /\ r.tool \in Scanners
    /\ r.severity \in DOMAIN Severity /\ r.confidence \in Confidences
    /\ "malformed" \notin {r.print, r.cwe, r.method, r.path, r.context}
    /\ r.first # NoValue => r.first \in 1 .. MaxLine
    /\ LastLine(r) # NoValue => LastLine(r) \in Default(r.first, 1) .. MaxLine
    /\ r.place = "absolute" => r.path # NoValue
    /\ r.place # "outside"

Normalized(r) ==
    LET advisory == Default(r.advisory, r.rule) IN
    [print |-> <<r.tool, r.print>>,
     file |-> r.file, first |-> r.first, last |-> LastLine(r),
     family |-> Family(r), sink |-> Default(r.sink, Family(r)),
     dependency |-> IF r.package = NoValue THEN NoValue ELSE <<r.package, advisory>>,
     route |-> IF NoValue \in {r.method, r.path} THEN NoValue ELSE <<r.method, r.path, r.context>>,
     rest |-> <<r.rule, r.category, r.cwe, r.method, r.path, r.context, r.package, advisory, r.direct>>]

\* A suppression goes before the baseline.
State(r) ==
    IF r.print \in Suppressions THEN "suppressed"
    ELSE IF r.print \in Baseline THEN "baseline" ELSE "new"

ASSUME ReportsAssumption ==
    /\ {Normalized(r) : r \in Reports} \subseteq Inputs
    /\ MaxLine \in Nat /\ MaxFindings \in Nat /\ N <= MaxFindings
    /\ \A o \in Origins : DOMAIN o = Indices
    /\ \A c \in Controls : /\ c.minimum \in Nat /\ c.runtime \in BOOLEAN
                           /\ Default(c.scanners, 1) \in Nat

-------------------------------------------------------------------------------
(* _priority.  Tiers are 0 (informational) to 4 (critical).                 *)

One(condition) == IF condition THEN 1 ELSE 0
Reported(S) == {reports[i] : i \in S}
ScannersOf(S) == {r.tool : r \in Reported(S)}
States(S) == {State(r) : r \in Reported(S)}
ObservedAtRuntime(S) == \E r \in Reported(S) : r.runtime

Highest(S) == CHOOSE n \in {Severity[r.severity] : r \in Reported(S)} :
                  \A r \in Reported(S) : Severity[r.severity] <= n

\* The base tier and what raises it.
Raised(S) ==
    IF \E r \in Reported(S) : r.exploited THEN 4
    ELSE Highest(S) + One(Cardinality(ScannersOf(S)) > 1) + One(ObservedAtRuntime(S))
                    + One(\E r \in Reported(S) : r.reachable)

\* Mutation: one baselined member lowers the tier of its group.
ScoreLoweredByAny(S) ==
    IF "suppressed" \in States(S) THEN 0
    ELSE IF "baseline" \in States(S) THEN Raised(S) - 1 ELSE Raised(S)

\* One suppressed member silences its group, all baselined ones lower it.
Score(S) ==
    IF "suppressed" \in States(S) THEN 0
    ELSE IF States(S) = {"baseline"} THEN Raised(S) - 1 ELSE Raised(S)

Tier(S) == IF Score(S) > 4 THEN 4 ELSE Score(S)

\* The factors of the reasons that are given with a tier.
Reasons(S) ==
    LET R == Reported(S) IN
    {"normalized_severity", "confidence"}
    \cup {f \in {"confirmed_runtime"} : ObservedAtRuntime(S)}
    \cup {f \in {"reachable_sink"} : \E r \in R : r.reachable}
    \cup {f \in {"known_exploited"} : \E r \in R : r.exploited}
    \cup {f \in {"independent_scanners"} : Cardinality(ScannersOf(S)) > 1}
    \cup {f \in {"authenticated_only"} : \A r \in R : r.context = "authenticated"}
    \cup {f \in {"direct_dependency"} : \E r \in R : r.direct = TRUE}
    \cup {f \in {"suppression"} : "suppressed" \in States(S)}
    \cup {f \in {"baseline"} : States(S) = {"baseline"}}

-------------------------------------------------------------------------------
(* The documents                                                            *)

\* The first rule of _correlation that applies.
Rule(f, g) ==
    IF ScannerExact(f, g) THEN "scanner-exact"
    ELSE IF CodeLocation(f, g) THEN "code-location"
    ELSE IF Dependency(f, g) THEN "dependency" ELSE "runtime-route"

Rules == {"scanner-exact", "code-location", "dependency", "runtime-route", "singleton"}
Exact == {"scanner-exact", "dependency"}

RuleOf(d) == Rule(findings[d[1]], findings[d[2]])
Within(G) == {d \in decisions : d[1] \in G /\ d[2] \in G}

Because(d, rule, class) == [left |-> d[1], right |-> d[2], rule |-> rule, classification |-> class]

\* What joined the group, and the collisions that keep others away from it.
Evidence(G) ==
    {Because(d, RuleOf(d), IF RuleOf(d) \in Exact THEN "exact" ELSE "heuristic") : d \in Within(G)}
    \cup {Because(p, "scanner-fingerprint-collision", "none") :
             p \in {p \in Candidates : /\ Collides(findings[p[1]], findings[p[2]])
                                       /\ p[1] \in G \/ p[2] \in G}}

\* Mutation: a group without evidence has no provenance.
ProvenanceOfEvidence(G) == Evidence(G)

\* A group without evidence says so of its first member.
Provenance(G) ==
    LET first == CHOOSE i \in G : \A j \in G : i <= j
    IN IF Evidence(G) # {} THEN Evidence(G)
       ELSE {Because(<<first, NoValue>>, "singleton", "none")}

Group(G) ==
    LET applied == {RuleOf(d) : d \in Within(G)} IN
    [key |-> G, references |-> G, scanners |-> ScannersOf(G),
     rules |-> IF applied = {} THEN {"singleton"} ELSE applied,
     classification |-> IF applied = {} THEN "none"
                        ELSE IF applied \subseteq Exact THEN "exact" ELSE "heuristic",
     provenance |-> Provenance(G)]

Prioritized(G) ==
    [key |-> G, references |-> G, scanners |-> ScannersOf(G), runtime |-> ObservedAtRuntime(G),
     priority |-> Tier(G), reasons |-> Reasons(G)]

Rendered ==
    [keys |-> [i \in Indices |-> CHOOSE G \in Groups : i \in G],
     groups |-> {Group(G) : G \in Groups},
     prioritized |-> {Prioritized(G) : G \in Groups}]

\* validate_documents, for the groups and
GroupIsValid(g, keys) ==
    /\ g.rules # {} /\ g.rules \subseteq Rules
    /\ g.references # {} /\ g.references \subseteq Indices
    /\ g.scanners \subseteq Scanners /\ g.scanners = ScannersOf(g.references)
    /\ \A i \in g.references : keys[i] = g.key
    /\ Cardinality(g.provenance) \in 1 .. MaxPairs
    /\ \A because \in g.provenance :
          because.left \in Indices /\ because.right \in Indices \cup {NoValue}

\* for their priorities, which are worked out again from the findings.
PriorityIsValid(p, g) ==
    /\ p.references = g.references /\ p.scanners = g.scanners
    /\ p.runtime = ObservedAtRuntime(g.references)
    /\ p.priority = Tier(g.references) /\ p.reasons = Reasons(g.references)

ReferencesDiffer == \A i, j \in Indices : Reference(i) = Reference(j) => i = j

Valid(d) ==
    /\ ReferencesDiffer
    /\ {g.key : g \in d.groups} = {p.key : p \in d.prioritized}
    /\ \A g, h \in d.groups : g.key = h.key => g = h
    /\ \A g \in d.groups : GroupIsValid(g, d.keys)
    /\ \A i \in Indices : Cardinality({g \in d.groups : i \in g.references}) = 1
    /\ \A p \in d.prioritized, g \in d.groups : p.key = g.key => PriorityIsValid(p, g)

-------------------------------------------------------------------------------
DocumentInit ==
    /\ reports \in [Indices -> Reports]
    /\ findings = [i \in Indices |-> Normalized(reports[i])]
    /\ origins \in Origins
    /\ given \in {N, MaxFindings + 1}
    /\ Init
    /\ documents = NoDocuments

Reviewed == given <= MaxFindings /\ \A i \in Indices : Accepted(reports[i])

\* One finding that is not as reviewed, or one too many, fails the whole build.
Refuse ==
    /\ pc = "collect" /\ ~Reviewed
    /\ pc' = "failed"
    /\ UNCHANGED <<findings, todo, parent, members, decisions, pair, cur, leftRoot,
                   next, components, reports, origins, given, documents>>

Correlate ==
    /\ pc = "collect" => Reviewed
    /\ Next
    /\ UNCHANGED <<reports, origins, given, documents>>

Render ==
    /\ pc = "done" /\ documents = NoDocuments
    /\ IF Valid(Rendered)
         THEN documents' = Rendered /\ UNCHANGED pc
         ELSE pc' = "failed" /\ UNCHANGED documents
    /\ UNCHANGED <<findings, todo, parent, members, decisions, pair, cur, leftRoot,
                   next, components, reports, origins, given>>

DocumentNext == Refuse \/ Correlate \/ Render

DocumentSpec ==
    /\ DocumentInit /\ [][DocumentNext]_documentVars
    /\ WF_documentVars(DocumentNext)

-------------------------------------------------------------------------------
(* evaluate_priority *)

Violates(p, c) ==
    /\ p.priority >= c.minimum
    /\ Cardinality(p.scanners) >= Default(c.scanners, 1)
    /\ c.runtime => p.runtime

-------------------------------------------------------------------------------
(* Properties *)

\* A build fails because of what it was given: a finding that is not as
\* reviewed, too many of them, too many candidates or too large a group.  Two
\* inputs pass its checks and fail it later: two findings of one origin with
\* one fingerprint, which only the validator of the documents refuses, and a
\* location without an end that has to be compared.  Apart from these, its own
\* documents satisfy the validator, which works scanners, keys, priority and
\* reasons of every group out again.
FailureIsExplained ==
    pc = "failed" =>
        \/ given > MaxFindings \/ \E i \in Indices : ~Accepted(reports[i])
        \/ ~ReferencesDiffer
        \/ \E p \in Candidates : Raises(p)
        \/ Cardinality(Candidates) > MaxPairs
        \/ \E r \in Indices : Cardinality(components[r]) > MaxMembers

\* Correlation hides no finding from the policy: one that violates it as a
\* group of its own violates it together with others.  Two exceptions are in
\* the code: a suppressed member silences its group, and known exploitation
\* sets the tier to critical, from which a baseline then lowers it, where other
\* evidence may add up to more.
JoiningNeverHides ==
    documents # NoDocuments => \A p \in documents.prioritized, i \in Indices, c \in Controls :
        i \in p.references /\ Violates(Prioritized({i}), c) =>
            \/ Violates(p, c)
            \/ "suppressed" \in States(p.references)
            \/ /\ States(p.references) = {"baseline"}
               /\ \E r \in Reported(p.references) : r.exploited
===============================================================================
