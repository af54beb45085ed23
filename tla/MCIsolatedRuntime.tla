-------------------------- MODULE MCIsolatedRuntime --------------------------
(***************************************************************************)
(* All three runtime scripts, with room for a second readiness probe, and  *)
(* small reports: alerts that share a path or not, events that repeat,     *)
(* fail or refuse, a schema of two operations.                             *)
(***************************************************************************)
EXTENDS RuntimeResults, TLC

EveryRunner == AllRunners

Instance(path, query, escapes) == [path |-> path, query |-> query, method |-> "GET", escapes |-> escapes]
Alert(rule, risk, instances) == [rule |-> rule, risk |-> risk, instances |-> instances]
SomeAlerts ==
    {Alert("10020", "medium", <<Instance("/a", "x", FALSE)>>),
     Alert("10020", "medium", <<Instance("/a", "x", FALSE), Instance("/a", "y", FALSE)>>),
     Alert("10020", "high", <<Instance("/b", "x", FALSE)>>),
     Alert("10020", "medium", <<Instance("/b", "x", TRUE)>>),
     Alert("10020", "unreviewed", <<>>),
     Alert("10021", "unreviewed", <<Instance("/a", "x", TRUE)>>)}
SomeZapReports == UNION {[1..n -> SomeAlerts] : n \in 0..2}

Check(check, operation, status, class) ==
    [type |-> "check", check |-> check, operation |-> operation, status |-> status, class |-> class]
SomeEvents ==
    {[type |-> "finished", stop |-> "completed"], [type |-> "finished", stop |-> "interrupted"],
     [type |-> "error"], [type |-> "other"],
     Check("not_a_server_error", <<"GET", "/items">>, "failure", "5xx"),
     Check("status_code_conformance", <<"GET", "/items">>, "failure", "4xx"),
     Check("status_code_conformance", <<"GET", "/items">>, "failure", "5xx"),
     Check("unreviewed", <<"GET", "/items">>, "success", "2xx"),
     Check("unreviewed", <<"GET", "/items">>, "failure", "2xx"),
     Check("not_a_server_error", <<"DELETE", "/items">>, "success", "2xx")}
SomeEngineReports == UNION {[1..n -> SomeEvents] : n \in 0..2}
    \cup {<<a, b, [type |-> "finished", stop |-> "completed"]>> : a, b \in SomeEvents}

Field(in, name, text) == [in |-> in, name |-> name, text |-> text]
Entry(method, id, places) == [method |-> method, id |-> id, places |-> places]
PathItem(template, common, entries) ==
    [template |-> template, plain |-> TRUE, common |-> common, entries |-> entries]
Document(paths) ==
    [readable |-> TRUE, within |-> TRUE, version |-> "3.1", keys |-> {}, refs |-> {"local"},
     servers |-> {"target"}, paths |-> paths]
SomeSchema ==
    Document(<<PathItem("/items", <<Field("header", "trace", TRUE), Field("header", "authorization", TRUE)>>,
        <<Entry("get", "list", <<Field("query", "page", FALSE), Field("query", "filter", TRUE)>>),
          Entry("summary", "none", <<>>),
          Entry("post", "create", <<Field("body", "name", TRUE)>>)>>)>>)

SomeNames == [authorization |-> 1, filter |-> 2, name |-> 3, page |-> 4, trace |-> 5]
SomeEntries == {Entry(m, i, <<>>) : m \in {"get", "GET", "post", "trace", "summary"}, i \in {"a", "b", "none"}}
SomeItems == {e \in UNION {[1..n -> SomeEntries] : n \in 0..2} :
                  \A i, j \in DOMAIN e : e[i].method = e[j].method => i = j}
SomePaths == {<<PathItem("/a", <<Field("query", "filter", TRUE)>>, e)>> : e \in SomeItems}
    \cup {<<PathItem("/a", <<>>, e), PathItem("/b", <<>>, <<f>>)>> : e \in SomeItems, f \in SomeEntries}
SomeOtherSchemas ==
    {Document(paths) : paths \in SomePaths}
    \cup {[SomeSchema EXCEPT !.refs = {"local", "remote"}], [SomeSchema EXCEPT !.servers = {"elsewhere"}],
          [SomeSchema EXCEPT !.keys = {"callbacks"}], [SomeSchema EXCEPT !.version = "2.0"],
          [SomeSchema EXCEPT !.paths[1].plain = FALSE], [SomeSchema EXCEPT !.within = FALSE]}
SomeFamilies ==
    "sql-marker" :> [locations |-> {"body", "path", "query"}, severity |-> "high"]
    @@ "header-marker" :> [locations |-> {"header"}, severity |-> "medium"]

Listed == {<<"zap-baseline", "10020", "/a", "GET">>, <<"schemathesis", "not_a_server_error", "list">>,
           <<"injection", "list", "query", "sql-marker", "reflected_marker">>}
SomePolicies ==
    [enforcement : {"observe", "new", "all"}, minimum : {"medium", "high"},
     baseline : {Listed}, suppressed : {{}}]
    \cup [enforcement : {"all"}, minimum : {"low"}, baseline : {{}}, suppressed : {Listed}]
=============================================================================
