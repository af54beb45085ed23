---------------------------- MODULE ExtensionStore ----------------------------
(***************************************************************************)
(* scripts/vibesec/extensions.py: the local extension store of a target    *)
(* repository.  Commands (processes) install, remove, enable, disable and  *)
(* run extensions; they share two things on disk and no lock:              *)
(*                                                                         *)
(*   inventory   .vibesec/extensions.json, replaced as a whole;            *)
(*   dirs        .vibesec/extensions/<id>/<version>/, the content;         *)
(*   tombs       .vibesec/extensions/<id>/.<version>.remove, where remove  *)
(*               parks the content before it rewrites the inventory.       *)
(*                                                                         *)
(* Every command reads the inventory once and later writes the whole       *)
(* document computed from that copy (snap).  A dry run changes nothing and *)
(* has no action.  Private staging directories have fresh names, are       *)
(* looked at by nobody, and are left out.                                  *)
(***************************************************************************)
EXTENDS Naturals, FiniteSets

CONSTANTS
    Procs,          \* command invocations that may overlap
    Ids,            \* extension ids
    Versions,       \* versions of an extension a source directory may carry
    NoRecord,       \* the inventory holds no record of an id
    MaxRecords,     \* inventory limit: 128 in the code
    Serialised,     \* TRUE: a command or a hand edit starts only when no
                    \* command is active (what the documentation shows);
                    \* FALSE: whatever the missing lock permits
    Faults          \* what may go wrong, see FaultKinds

Slots == Ids \X Versions
Record == [version : Versions, enabled : BOOLEAN]
Inventories == [Ids -> Record \cup {NoRecord}]
Content == {"absent", "intact", "modified"}

\* "publish", "write", "purge": the rename into place, the write of the
\* inventory, the deletion of the parked directory raises OSError.  "undo":
\* the rollback of a failed write fails as well.  "refuse": validate_inventory
\* refuses the new record itself.  "crash": the process dies.  "modify":
\* somebody edits installed content.
FaultKinds == {"publish", "write", "undo", "purge", "refuse", "crash", "modify"}

ASSUME StoreAssumption ==
    /\ NoRecord \notin Record
    /\ NoRecord \notin [version : Versions, enabled : BOOLEAN,
                        content : {"available", "withdrawn"}]
    /\ MaxRecords \in Nat
    /\ Serialised \in BOOLEAN
    /\ Faults \subseteq FaultKinds

VARIABLES inventory, dirs, tombs,
          pc,         \* where each command stands
          slot,       \* the <<id, version>> it works on
          snap,       \* the inventory it read
          outcome,    \* what its last command reported
          struck,     \* history: slots a command left in the middle of a change
          parked      \* history: slots a removal has moved aside

diskVars == <<inventory, dirs, tombs>>
historyVars == <<struck, parked>>
vars == <<inventory, dirs, tombs, pc, slot, snap, outcome, struck, parked>>

PCs == {"idle", "i_loaded", "i_clear", "i_published",
        "r_loaded", "r_parked", "r_recorded", "enable", "disable",
        "x_loaded", "x_verified", "x_described"}

TypeOK ==
    /\ inventory \in Inventories
    /\ dirs \in [Slots -> Content]
    /\ tombs \in [Slots -> Content]
    /\ pc \in [Procs -> PCs]
    /\ slot \in [Procs -> Slots]
    /\ snap \in [Procs -> Inventories]
    /\ outcome \in [Procs -> {"none", "ok", "error", "killed"}]
    /\ struck \subseteq Slots
    /\ parked \subseteq Slots

Installed(inv) == {i \in Ids : inv[i] # NoRecord}
SlotOf(inv, i) == <<i, inv[i].version>>

Init ==
    /\ inventory = [i \in Ids |-> NoRecord]
    /\ dirs = [s \in Slots |-> "absent"]
    /\ tombs = [s \in Slots |-> "absent"]
    /\ pc = [p \in Procs |-> "idle"]
    /\ slot \in [Procs -> Slots]
    /\ snap = [p \in Procs |-> inventory]
    /\ outcome = [p \in Procs |-> "none"]
    /\ struck = {}
    /\ parked = {}

MayStart(p) ==
    /\ pc[p] = "idle"
    /\ Serialised => \A q \in Procs : pc[q] = "idle"

\* A command reads the inventory and goes on with its copy.
Load(p, s, next) ==
    /\ MayStart(p)
    /\ pc' = [pc EXCEPT ![p] = next]
    /\ slot' = [slot EXCEPT ![p] = s]
    /\ snap' = [snap EXCEPT ![p] = inventory]
    /\ outcome' = [outcome EXCEPT ![p] = "none"]
    /\ UNCHANGED <<diskVars, historyVars>>

Goto(p, next) ==
    /\ pc' = [pc EXCEPT ![p] = next]
    /\ UNCHANGED <<slot, snap, outcome>>

Finish(p, result) ==
    /\ pc' = [pc EXCEPT ![p] = "idle"]
    /\ outcome' = [outcome EXCEPT ![p] = result]
    /\ snap' = [snap EXCEPT ![p] = [i \in Ids |-> NoRecord]]
    /\ UNCHANGED slot

-------------------------------------------------------------------------------
(* install_extension *)

\* Mutation: the id is not looked up in the inventory, only the destination
\* is tested, so a second version installs over the first.
InstallLoadByVersion(p, s) == Load(p, s, "i_loaded")

\* Refused when the id is already in the inventory, whatever its version.
InstallLoad(p, s) ==
    /\ inventory[s[1]] = NoRecord
    /\ Load(p, s, "i_loaded")

InstallCheckDestination(p) ==
    /\ pc[p] = "i_loaded"
    /\ IF dirs[slot[p]] = "absent" THEN Goto(p, "i_clear") ELSE Finish(p, "error")
    /\ UNCHANGED <<diskVars, historyVars>>

\* Mutation: files are copied straight into the destination.
InstallCopyInto(p) ==
    /\ pc[p] = "i_clear"
    /\ dirs' = [dirs EXCEPT ![slot[p]] = "intact"]
    /\ Goto(p, "i_published")
    /\ UNCHANGED <<inventory, tombs, historyVars>>

\* os.replace(temporary, destination): a rename onto a non-empty directory
\* fails, so what stands there is never replaced.
InstallPublish(p) ==
    /\ pc[p] = "i_clear"
    /\ dirs[slot[p]] = "absent"
    /\ dirs' = [dirs EXCEPT ![slot[p]] = "intact"]
    /\ Goto(p, "i_published")
    /\ UNCHANGED <<inventory, tombs, historyVars>>

\* Mutation: the clean-up does not ask whether this command published.
InstallPublishCleansUp(p) ==
    /\ pc[p] = "i_clear"
    /\ dirs[slot[p]] # "absent" \/ "publish" \in Faults
    /\ dirs' = [dirs EXCEPT ![slot[p]] = "absent"]
    /\ Finish(p, "error")
    /\ UNCHANGED <<inventory, tombs, historyVars>>

InstallPublishFails(p) ==
    /\ pc[p] = "i_clear"
    /\ dirs[slot[p]] # "absent" \/ "publish" \in Faults
    /\ Finish(p, "error")
    /\ UNCHANGED <<diskVars, historyVars>>

WithNewRecord(p) ==
    [snap[p] EXCEPT ![slot[p][1]] = [version |-> slot[p][2], enabled |-> TRUE]]

Fits(inv) == Cardinality(Installed(inv)) <= MaxRecords

InstallRecord(p) ==
    /\ pc[p] = "i_published"
    /\ Fits(WithNewRecord(p))
    /\ inventory' = WithNewRecord(p)
    /\ Finish(p, "ok")
    /\ UNCHANGED <<dirs, tombs, historyVars>>

\* validate_inventory(updated) raises ExtensionError, which the handler's
\* `except OSError` does not catch: the published directory stays.
InstallRefused(p) ==
    /\ pc[p] = "i_published"
    /\ ~Fits(WithNewRecord(p)) \/ "refuse" \in Faults
    /\ Finish(p, "error")
    /\ struck' = struck \cup {slot[p]}
    /\ UNCHANGED <<diskVars, parked>>

\* Mutation: the failed write of the inventory is not rolled back.
InstallNoRollback(p) ==
    /\ pc[p] = "i_published"
    /\ "write" \in Faults
    /\ Finish(p, "error")
    /\ UNCHANGED <<diskVars, historyVars>>

\* _atomic_write raises OSError: the published directory is deleted again.
InstallRollback(p) ==
    /\ pc[p] = "i_published"
    /\ "write" \in Faults
    /\ Fits(WithNewRecord(p))
    /\ dirs' = [dirs EXCEPT ![slot[p]] = "absent"]
    /\ Finish(p, "error")
    /\ UNCHANGED <<inventory, tombs, historyVars>>

\* rmtree(ignore_errors=True) deletes the published directory in part or not
\* at all, and nobody is told.
InstallRollbackFails(p) ==
    /\ pc[p] = "i_published"
    /\ {"write", "undo"} \subseteq Faults
    /\ Fits(WithNewRecord(p))
    /\ dirs[slot[p]] # "absent"
    /\ \E left \in {dirs[slot[p]], "modified"} : dirs' = [dirs EXCEPT ![slot[p]] = left]
    /\ Finish(p, "error")
    /\ struck' = struck \cup {slot[p]}
    /\ UNCHANGED <<inventory, tombs, parked>>

-------------------------------------------------------------------------------
(* remove_extension *)

RemoveLoad(p, i) ==
    /\ i \in Installed(inventory)
    /\ Load(p, SlotOf(inventory, i), "r_loaded")

\* Mutation: the content is deleted at once instead of being parked.
RemoveDeleteFirst(p) ==
    /\ pc[p] = "r_loaded"
    /\ dirs[slot[p]] # "absent"
    /\ dirs' = [dirs EXCEPT ![slot[p]] = "absent"]
    /\ parked' = parked \cup {slot[p]}
    /\ Goto(p, "r_parked")
    /\ UNCHANGED <<inventory, tombs, struck>>

RemovePark(p) ==
    /\ pc[p] = "r_loaded"
    /\ dirs[slot[p]] # "absent"
    /\ tombs[slot[p]] = "absent"
    /\ tombs' = [tombs EXCEPT ![slot[p]] = dirs[slot[p]]]
    /\ dirs' = [dirs EXCEPT ![slot[p]] = "absent"]
    /\ Goto(p, "r_parked")
    /\ parked' = parked \cup {slot[p]}
    /\ UNCHANGED <<inventory, struck>>

\* "installed extension directory is missing" or "removal staging path
\* already exists"; the same when the rename itself meets either.
RemoveParkFails(p) ==
    /\ pc[p] = "r_loaded"
    /\ dirs[slot[p]] = "absent" \/ tombs[slot[p]] # "absent"
    /\ Finish(p, "error")
    /\ UNCHANGED <<diskVars, historyVars>>

WithoutRecord(p) == [snap[p] EXCEPT ![slot[p][1]] = NoRecord]

RemoveRecord(p) ==
    /\ pc[p] = "r_parked"
    /\ inventory' = WithoutRecord(p)
    /\ Goto(p, "r_recorded")
    /\ UNCHANGED <<dirs, tombs, historyVars>>

\* The write fails: the parked directory is renamed back.
RemoveRollback(p) ==
    /\ pc[p] = "r_parked"
    /\ "write" \in Faults
    /\ dirs[slot[p]] = "absent" /\ tombs[slot[p]] # "absent"
    /\ dirs' = [dirs EXCEPT ![slot[p]] = tombs[slot[p]]]
    /\ tombs' = [tombs EXCEPT ![slot[p]] = "absent"]
    /\ Finish(p, "error")
    /\ UNCHANGED <<inventory, historyVars>>

\* The rename back fails too: by itself, or since another command has taken
\* the place or the parked directory meanwhile.
RemoveRollbackFails(p) ==
    /\ pc[p] = "r_parked"
    /\ "write" \in Faults
    /\ dirs[slot[p]] # "absent" \/ tombs[slot[p]] = "absent" \/ "undo" \in Faults
    /\ Finish(p, "error")
    /\ struck' = struck \cup {slot[p]}
    /\ UNCHANGED <<diskVars, parked>>

RemovePurge(p) ==
    /\ pc[p] = "r_recorded"
    /\ tombs[slot[p]] # "absent"
    /\ tombs' = [tombs EXCEPT ![slot[p]] = "absent"]
    /\ Finish(p, "ok")
    /\ UNCHANGED <<inventory, dirs, historyVars>>

\* rmtree stops where it cannot go on.
RemovePurgeFails(p) ==
    /\ pc[p] = "r_recorded"
    /\ \/ tombs[slot[p]] = "absent" /\ UNCHANGED tombs
       \/ /\ tombs[slot[p]] # "absent" /\ "purge" \in Faults
          /\ \E left \in {tombs[slot[p]], "modified"} :
                tombs' = [tombs EXCEPT ![slot[p]] = left]
    /\ Finish(p, "error")
    /\ struck' = struck \cup {slot[p]}
    /\ UNCHANGED <<inventory, dirs, parked>>

-------------------------------------------------------------------------------
(* set_enabled: looks at the inventory only, never at the content *)

SetEnabledLoad(p, i, e) ==
    /\ i \in Installed(inventory)
    /\ Load(p, SlotOf(inventory, i), IF e THEN "enable" ELSE "disable")

SetEnabledWrite(p) ==
    /\ pc[p] \in {"enable", "disable"}
    /\ inventory' = [snap[p] EXCEPT ![slot[p][1]] =
            [version |-> slot[p][2], enabled |-> pc[p] = "enable"]]
    /\ Finish(p, "ok")
    /\ UNCHANGED <<dirs, tombs, historyVars>>

SetEnabledFails(p) ==
    /\ pc[p] \in {"enable", "disable"}
    /\ "write" \in Faults
    /\ Finish(p, "error")
    /\ UNCHANGED <<diskVars, historyVars>>

-------------------------------------------------------------------------------
(* execute_adapter: verify everything, read the record again, launch *)

RunLoad(p, s) == Load(p, s, "x_loaded")

\* Mutation: verification looks for the directories and not at the digests.
RunVerifyPresence(p) ==
    /\ pc[p] = "x_loaded"
    /\ IF \A i \in Installed(snap[p]) : dirs[SlotOf(snap[p], i)] # "absent"
         THEN Goto(p, "x_verified")
         ELSE Finish(p, "error")
    /\ UNCHANGED <<diskVars, historyVars>>

\* One missing or modified directory of any registered extension is enough.
RunVerify(p) ==
    /\ pc[p] = "x_loaded"
    /\ IF \A i \in Installed(snap[p]) : dirs[SlotOf(snap[p], i)] = "intact"
         THEN Goto(p, "x_verified")
         ELSE Finish(p, "error")
    /\ UNCHANGED <<diskVars, historyVars>>

\* describe_extension loads the inventory a second time.
RunDescribe(p) ==
    LET i == slot[p][1] IN
    /\ pc[p] = "x_verified"
    /\ IF i \in Installed(inventory) /\ inventory[i].enabled
         THEN /\ pc' = [pc EXCEPT ![p] = "x_described"]
              /\ slot' = [slot EXCEPT ![p] = SlotOf(inventory, i)]
              /\ UNCHANGED <<snap, outcome>>
         ELSE Finish(p, "error")
    /\ UNCHANGED <<diskVars, historyVars>>

\* The entrypoint is read from wherever the record points now.  What the
\* adapter does afterwards is the business of ExtensionAdapter.
RunLaunch(p) ==
    /\ pc[p] = "x_described"
    /\ dirs[slot[p]] # "absent"
    /\ Finish(p, "ok")
    /\ UNCHANGED <<diskVars, historyVars>>

\* The content is gone, the profile or the platform is not supported, or the
\* results directory exists.
RunRefused(p) ==
    /\ pc[p] = "x_described"
    /\ Finish(p, "error")
    /\ UNCHANGED <<diskVars, historyVars>>

-------------------------------------------------------------------------------
(* The environment *)

Crash(p) ==
    /\ "crash" \in Faults
    /\ pc[p] # "idle"
    /\ Finish(p, "killed")
    /\ struck' = IF pc[p] \in {"i_published", "r_parked", "r_recorded"}
                    THEN struck \cup {slot[p]} ELSE struck
    /\ UNCHANGED <<diskVars, parked>>

Modify(s) ==
    /\ "modify" \in Faults
    /\ Serialised => \A q \in Procs : pc[q] = "idle"
    /\ dirs[s] = "intact"
    /\ dirs' = [dirs EXCEPT ![s] = "modified"]
    /\ UNCHANGED <<inventory, tombs, pc, slot, snap, outcome,
                   historyVars>>

InstallNext(p) ==
    \/ \E s \in Slots : InstallLoad(p, s)
    \/ InstallCheckDestination(p)
    \/ InstallPublish(p)
    \/ InstallPublishFails(p)
    \/ InstallRecord(p)
    \/ InstallRefused(p)
    \/ InstallRollback(p)
    \/ InstallRollbackFails(p)

RemoveNext(p) ==
    \/ \E i \in Ids : RemoveLoad(p, i)
    \/ RemovePark(p)
    \/ RemoveParkFails(p)
    \/ RemoveRecord(p)
    \/ RemoveRollback(p)
    \/ RemoveRollbackFails(p)
    \/ RemovePurge(p)
    \/ RemovePurgeFails(p)

SetEnabledNext(p) ==
    \/ \E i \in Ids, e \in BOOLEAN : SetEnabledLoad(p, i, e)
    \/ SetEnabledWrite(p)
    \/ SetEnabledFails(p)

RunNext(p) ==
    \/ \E s \in Slots : RunLoad(p, s)
    \/ RunVerify(p)
    \/ RunDescribe(p)
    \/ RunLaunch(p)
    \/ RunRefused(p)

Next ==
    \/ \E p \in Procs : InstallNext(p) \/ RemoveNext(p) \/ SetEnabledNext(p)
                        \/ RunNext(p) \/ Crash(p)
    \/ \E s \in Slots : Modify(s)

Spec == Init /\ [][Next]_vars

-------------------------------------------------------------------------------
(* Properties *)

AtRest == \A p \in Procs : pc[p] = "idle"

Recorded(inv) == {SlotOf(inv, i) : i \in Installed(inv)}

\* A directory the inventory points at is missing only if some removal has
\* moved it aside: no interleaving of installs, rollbacks, enables and runs
\* deletes or forgets to create recorded content.
OnlyRemovalLosesContent ==
    \A s \in Recorded(inventory) : s \in parked \/ dirs[s] # "absent"

\* One command at a time, even with crashes and failing writes: what the
\* inventory records still exists, in its place or parked next to it.
RegisteredContentSurvives ==
    Serialised => \A s \in Recorded(inventory) :
                      dirs[s] # "absent" \/ tombs[s] # "absent"

\* One command at a time: when an adapter is about to be launched, it is
\* registered and enabled and the content of every registered extension is
\* what was installed, however many crashes and failures came before.
LaunchIsVerified ==
    Serialised => \A p \in Procs : pc[p] = "x_described" =>
        /\ slot[p] \in Recorded(inventory)
        /\ inventory[slot[p][1]].enabled
        /\ \A s \in Recorded(inventory) : dirs[s] = "intact"

\* One command at a time: between commands inventory and directories agree
\* and nothing is left parked, except for slots at which a command died
\* inside its change, was refused after publishing, could not purge, or met
\* a failure while it undid one: no other failure that a command reports
\* leaves a changed store, and none leaves one elsewhere than at its slot.
DamageIsConfined ==
    Serialised /\ AtRest => \A s \in Slots \ struck :
        /\ dirs[s] # "absent" <=> s \in Recorded(inventory)
        /\ tombs[s] = "absent"

\* Whatever commands overlap: installed content is never replaced in place.
\* It stays, is edited by hand, or goes away, in part if the install that is
\* undoing itself cannot delete more.
NeverOverwritten ==
    [][\A s \in Slots : dirs[s] # "absent" =>
            \/ dirs'[s] \in {dirs[s], "absent"}
            \/ /\ dirs[s] = "intact" /\ dirs'[s] = "modified"
               /\ Modify(s) \/ \E p \in Procs : slot[p] = s /\ InstallRollbackFails(p)]_vars

\* The store as a maintainer sees it.  The inventory alone says what is
\* installed; content that is not in its place is withdrawn.
View == [i \in Ids |->
    IF inventory[i] = NoRecord THEN NoRecord
    ELSE [version |-> inventory[i].version, enabled |-> inventory[i].enabled,
          content |-> IF dirs[SlotOf(inventory, i)] = "absent"
                        THEN "withdrawn" ELSE "available"]]

Registry == INSTANCE ExtensionRegistry WITH registry <- View

\* One command at a time, with every fault: each step of the store is a step
\* of the promised registry or changes nothing a maintainer can see.
ImplementsRegistry == Registry!Spec
===============================================================================
