---------------------------- MODULE MCExtensionStore ----------------------------
(***************************************************************************)
(* Small instances of ExtensionStore.                                      *)
(***************************************************************************)
EXTENDS ExtensionStore, TLC

AllFaults == FaultKinds

SlotSymmetry == Permutations(Ids) \cup Permutations(Versions)

\* What the properties of the serial run read: not the history of removals,
\* not the reported outcomes, and the slot of active commands only.
SerialView ==
    <<inventory, dirs, tombs, pc, snap, struck,
      [p \in {q \in Procs : pc[q] # "idle"} |-> slot[p]]>>
=================================================================================
