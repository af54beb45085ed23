-------------------------- MODULE ExtensionRegistry --------------------------
(***************************************************************************)
(* What a maintainer is promised by `vibesec extensions`: a registry that  *)
(* holds at most one version of an extension, in which an entry appears    *)
(* and disappears in one step, and whose content may be withdrawn for a    *)
(* while during a removal but is only given up together with the entry.    *)
(* The files, the inventory document and the order in which they are       *)
(* written belong to ExtensionStore, which implements this module.         *)
(***************************************************************************)
CONSTANTS Ids, Versions, NoRecord

VARIABLE registry       \* entry of each extension id, NoRecord when not installed

Entry == [version : Versions, enabled : BOOLEAN, content : {"available", "withdrawn"}]

Init == registry = [i \in Ids |-> NoRecord]

\* A new extension is enabled and its content is there from the start.
Install(i, v) ==
    /\ registry[i] = NoRecord
    /\ registry' = [registry EXCEPT ![i] =
            [version |-> v, enabled |-> TRUE, content |-> "available"]]

SetEnabled(i, e) ==
    /\ registry[i] # NoRecord
    /\ registry' = [registry EXCEPT ![i] =
            [version |-> registry[i].version, enabled |-> e,
             content |-> registry[i].content]]

\* A removal first withdraws the content; it then either gives it back or
\* forgets the entry.
Withdraw(i) ==
    /\ registry[i] # NoRecord
    /\ registry' = [registry EXCEPT ![i] =
            [version |-> registry[i].version, enabled |-> registry[i].enabled,
             content |-> "withdrawn"]]

Restore(i) ==
    /\ registry[i] # NoRecord
    /\ registry' = [registry EXCEPT ![i] =
            [version |-> registry[i].version, enabled |-> registry[i].enabled,
             content |-> "available"]]

Forget(i) ==
    /\ registry[i] # NoRecord
    /\ registry[i].content = "withdrawn"
    /\ registry' = [registry EXCEPT ![i] = NoRecord]

Next ==
    \E i \in Ids :
        \/ \E v \in Versions : Install(i, v)
        \/ \E e \in BOOLEAN : SetEnabled(i, e)
        \/ Withdraw(i)
        \/ Restore(i)
        \/ Forget(i)

Spec == Init /\ [][Next]_registry
==============================================================================
