-------------------------- MODULE MCFindingCorrelation --------------------------
(***************************************************************************)
(* Small instances of FindingCorrelation and FindingDocuments: a few       *)
(* findings that meet in every kind of bucket, agree, collide and link each*)
(* other into chains, with every kind of evidence for a priority, one that *)
(* is refused and one whose end line is null.                              *)
(***************************************************************************)
EXTENDS FindingDocuments, TLC

SomeFamilies == "CWE-89" :> "sql-injection"
SomeCategories == "sql-injection" :> "sql-injection"

\* A finding of static analysis; others differ from it in some fields.
Static(tool, print, line) ==
    [tool |-> tool, print |-> print, severity |-> "medium", confidence |-> "possible",
     rule |-> "rule", category |-> "sast", cwe |-> "CWE-89", sink |-> NoValue,
     file |-> "app.py", place |-> "inside", first |-> line, last |-> NoValue,
     package |-> NoValue, advisory |-> NoValue, direct |-> NoValue,
     method |-> NoValue, path |-> NoValue, context |-> "unknown",
     runtime |-> FALSE, reachable |-> FALSE, exploited |-> FALSE]

Located(r) == [r EXCEPT !.file = NoValue, !.first = NoValue]

\* Two code findings with one fingerprint, neighbours of a third and a fourth
\* line; two that link code to a package or a route; one without location and
\* one with an unknown severity.
SomeReports ==
    {Static("opengrep", "new", 1),
     [Static("opengrep", "new", 3) EXCEPT !.severity = "high", !.reachable = TRUE],
     [Static("checkov", "listed", 2) EXCEPT !.severity = "critical"],
     [Static("trivy", "old", 4) EXCEPT !.package = "pkg", !.exploited = TRUE],
     [Located(Static("osv-scanner", "old", 1)) EXCEPT !.package = "pkg", !.cwe = NoValue,
                                                   !.severity = "critical", !.direct = TRUE],
     [Static("zap-baseline", "seen", 3) EXCEPT !.method = "GET", !.path = "/", !.runtime = TRUE,
                                               !.cwe = NoValue, !.category = "sql-injection"],
     [Located(Static("schemathesis", "seen", 1)) EXCEPT !.method = "GET", !.path = "/",
                                               !.severity = "low", !.runtime = TRUE,
                                               !.context = "authenticated"],
     [Static("gitleaks", "open", 7) EXCEPT !.last = Null],
     [Static("opengrep", "new", 1) EXCEPT !.severity = "none"]}
\* All read in one document, or the first two at one index of two documents
\* that go by the same name.
SomeOrigins == {<<1, 2, 3, 4, 5>>, <<1, 1, 2, 3, 4>>}
SomeFindings == {Normalized(r) : r \in SomeReports}

SomeScanners == {r.tool : r \in SomeReports}
SomeControls == [minimum : {1, 3, 4}, scanners : {NoValue, 2}, runtime : BOOLEAN]

\* Of the origins it only matters whether two references are the same.
DocumentView == <<vars, reports, ReferencesDiffer, given, documents>>
=================================================================================
