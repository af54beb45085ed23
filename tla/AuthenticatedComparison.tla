------------------------- MODULE AuthenticatedComparison -------------------------
(***************************************************************************)
(* scripts/vibesec/authenticated.py, combine_result_directories, as the    *)
(* DAST and API scripts call it: in bearer mode a script runs itself twice,*)
(* without and with the secret, and publishes one result for both runs.    *)
(*                                                                         *)
(* A child is the exit status of its process, the coverage state and the   *)
(* policy exit code it published, and whether its six artifacts are all    *)
(* there and acceptable.  Its findings carry the key they are compared     *)
(* under; results of other types (of tool errors) are not compared.        *)
(***************************************************************************)
EXTENDS Naturals, Sequences

Sides == {"unauthenticated", "authenticated"}

\* What the exit status and the artifacts of one run may be together.
ExpectedExits ==
    [ran |-> {0, 1}, not_applicable |-> {0}, not_configured |-> {0}, tool_error |-> {2, 3}]

\* Mutation: only the policy's exit code is looked at.
ContractByPolicy(child) ==
    /\ child.complete
    /\ child.state \in DOMAIN ExpectedExits
    /\ child.policy \in ExpectedExits[child.state]

\* (The clean flag is derived from state and exit code on both sides.)
MeetsContract(child) ==
    /\ child.complete
    /\ child.exit \in 0..3
    /\ child.policy = child.exit
    /\ child.state \in DOMAIN ExpectedExits
    /\ child.exit \in ExpectedExits[child.state]

\* The combined state and exit code, when both runs meet the contract.
Worse(m, n) == IF m > n THEN m ELSE n

Verdict(unauth, auth) ==
    CASE auth.state = "ran" /\ unauth.state = "ran" ->
            [state |-> "ran", code |-> Worse(unauth.exit, auth.exit)]
      [] "tool_error" \in {auth.state, unauth.state} ->
            [state |-> "tool_error",
             code |-> IF 3 \in {unauth.exit, auth.exit} THEN 3 ELSE 2]
      [] auth.state = "ran" /\ unauth.state \notin {"ran", "tool_error"} ->
            [state |-> "tool_error", code |-> 3]
      [] auth.state \in {"not_applicable", "not_configured"} /\ unauth.state # "tool_error" ->
            [state |-> auth.state, code |-> 0]

\* Nothing is published for a pair that does not meet the contract.
Unpublished == [state |-> "none", code |-> 3]

Combined(unauth, auth) ==
    IF MeetsContract(unauth) /\ MeetsContract(auth) THEN Verdict(unauth, auth) ELSE Unpublished

\* Whose results the combined document holds.
Included(unauth, auth) ==
    IF auth.state \in {"not_applicable", "not_configured"} /\ unauth.state # "tool_error"
    THEN {"authenticated"} ELSE Sides

-----------------------------------------------------------------------------
(* correlate_findings: both runs' findings, the unauthenticated run first.  *)

\* Mutation: a repeated key changes nothing.
ObserveFirst(observed, side, finding) ==
    [key \in DOMAIN observed \cup {finding.key} |->
        IF key # finding.key \/ key \in DOMAIN observed THEN observed[key] ELSE {side}]

\* The first finding with a key is observed by its run; once the key is there, the
\* finding has been observed by both runs, whichever run repeats it.
Observe(observed, side, finding) ==
    [key \in DOMAIN observed \cup {finding.key} |->
        IF key # finding.key THEN observed[key]
        ELSE IF key \in DOMAIN observed THEN Sides ELSE {side}]

Nowhere == [key \in {} |-> {}]

\* After the findings of one run, by how many of them have been looked at.
Observed(before, side, found) ==
    LET observed[n \in 0..Len(found)] ==
            IF n = 0 THEN before ELSE Observe(observed[n - 1], side, found[n])
    IN observed[Len(found)]

\* The key of each published finding, and the runs it is said to be observed by.
Correlated(unauth, auth) ==
    Observed(Observed(Nowhere, "unauthenticated", unauth), "authenticated", auth)
=============================================================================
