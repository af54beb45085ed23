--------------------------- MODULE MCExtensionAdapter ---------------------------
(***************************************************************************)
(* A small instance of ExtensionAdapter: two commands, two artifact names  *)
(* of which a manifest may declare one, and adapters that do everything    *)
(* right but for at most one thing.                                        *)
(***************************************************************************)
EXTENDS ExtensionAdapter, TLC

CONSTANT ReportTxt

NoLastingFault == {"publish", "write", "undo", "modify"}

Clean ==
    [ended |-> "in_time", returncode |-> 0,
     response |-> [form |-> "expected", exit_code |-> 0, coverage |-> "ran",
                   normalized_findings_path |-> "normalized.json",
                   artifacts |-> {NormalizedJson, ReportTxt}],
     written |-> {NormalizedJson, ReportTxt}, findings |-> "accepted"]

Exits(code, coverage) ==
    [Clean EXCEPT !.returncode = code, !.response.exit_code = code,
                  !.response.coverage = coverage]

Deviations ==
    {Clean,
     [Clean EXCEPT !.ended = "timeout"],
     [Clean EXCEPT !.returncode = 139],
     [Clean EXCEPT !.written = {}],
     [Clean EXCEPT !.findings = "refused"],
     [Clean EXCEPT !.findings = "unhashable"],
     [Clean EXCEPT !.response.form = "unhashable_coverage"],
     [Exits(2, "tool_error") EXCEPT !.response.form = "unhashable_artifacts"],
     [Exits(1, "ran") EXCEPT !.response.artifacts = {}],
     Exits(2, "ran"), Exits(2, "tool_error"), Exits(3, "tool_error")}

Symmetry == Permutations(Procs) \cup Permutations(Ids)

\* What the properties read: not which failure was reported, nor the outcomes.
AdapterView ==
    <<inventory, dirs, tombs, pc, slot, snap, parked, stage, run, results,
      [p \in Procs |-> IF report[p] \in {0, 1, Traceback} THEN report[p] ELSE 2]>>
=================================================================================
