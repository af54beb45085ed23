--------------------------- MODULE MCAgentGuidance ---------------------------
(***************************************************************************)
(* Two adapters, with a user at work: the commands of one terminal, which  *)
(* may be killed, or those of two that overlap.                            *)
(***************************************************************************)
EXTENDS AgentGuidance, TLC

\* Only their sum bounds edits and kills, and what was edited, or left behind, is
\* asked of commands that neither overlapped nor were killed.
SoloView ==
    <<disk, tomb, inventory, proc, touched, edits + crashes, solo,
      IF solo THEN <<edited, left>> ELSE <<>> >>

Symmetry == Permutations(Procs) \cup Permutations(Adapters)
=============================================================================
