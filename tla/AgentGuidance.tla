----------------------------- MODULE AgentGuidance -----------------------------
(***************************************************************************)
(* `vibesec agents install | enable | disable | remove --write`            *)
(* (scripts/vibesec/agents.py): one instruction file per adapter, which    *)
(* its user may edit at any time, and one inventory that all commands      *)
(* rewrite as a whole.  No command takes a lock, so every file-system call *)
(* is a step of its own; a write may fail, and a command may be killed.    *)
(***************************************************************************)
EXTENDS Naturals, FiniteSets

CONSTANTS
    Adapters,   \* the built-in adapters
    Procs,      \* commands that may run at the same time
    MaxEvents   \* bound on the edits of the user and the kills

ASSUME BoundsAssumption == MaxEvents \in Nat

VARIABLES
    disk,       \* what is at the output path of each adapter
    tomb,       \* what is at its `.name.vibesec-remove` path
    inventory,  \* .vibesec/agents.json
    proc,       \* the commands
    touched,    \* adapters whose path the user, or the rollback of another
                \* command, wrote while each command has been running
    edited,     \* adapters the user ever edited
    edits, crashes,
    left,       \* what a command that could not undo itself left of an adapter
    solo        \* no command was killed or overlapped another so far

history == <<touched, edited, edits, crashes, left, solo>>
vars == <<disk, tomb, inventory, proc, history>>

\* A path holds nothing, the rendered guidance, text of the user or a link.
Texts == {"absent", "guidance", "user", "link"}
Entries == {"unrecorded", "enabled", "disabled"}
Inventories == [Adapters -> Entries]
EmptyInventory == [a \in Adapters |-> "unrecorded"]

Pcs == {"idle", "install_load", "install_create", "install_record", "install_rollback",
        "toggle_write", "remove_load", "remove_check", "remove_park", "remove_record",
        "remove_rollback", "remove_purge", "clean_load", "clean_unlink"}

\* A command: where it is, its adapter, the inventory it read, and the state
\* it found (a removal) or will record (enable and disable).
Processes == [pc: Pcs, adapter: Adapters \cup {"none"}, snap: Inventories,
              status: {"valid", "enabled", "disabled"}]

IdleProcess == [pc |-> "idle", adapter |-> "none", snap |-> EmptyInventory, status |-> "valid"]

Init ==
    /\ disk \in [Adapters -> {"absent", "user"}]
    /\ tomb = [a \in Adapters |-> "absent"]
    /\ inventory = EmptyInventory
    /\ proc = [p \in Procs |-> IdleProcess]
    /\ touched = [p \in Procs |-> {}]
    /\ edited = {a \in Adapters : disk[a] = "user"}
    /\ left = [a \in Adapters |-> "nothing"]
    /\ edits = 0 /\ crashes = 0 /\ solo = TRUE

Idle(p) == proc[p].pc = "idle"
At(p, pc) == proc[p].pc = pc
Goto(p, pc) == proc' = [proc EXCEPT ![p].pc = pc] /\ UNCHANGED history
Leave(p, paths) ==
    /\ proc' = [proc EXCEPT ![p] = IdleProcess]
    /\ touched' = [q \in Procs |-> IF q = p \/ proc[q].pc = "idle" THEN {}
                                   ELSE touched[q] \cup paths]
    /\ UNCHANGED <<edited, edits, crashes, solo>>
FinishTouching(p, paths) == Leave(p, paths) /\ UNCHANGED left
Finish(p) == FinishTouching(p, {})

\* The last call of a command that undoes itself, or tidies up, is refused.
FinishLeaving(p, what) ==
    Leave(p, {}) /\ left' = [left EXCEPT ![proc[p].adapter] = what]

\* The first look of a command starts the window in which edits go unseen.
Begin(p, entry) ==
    /\ Idle(p)
    /\ proc' = [proc EXCEPT ![p] = entry]
    /\ solo' = (solo /\ \A q \in Procs : Idle(q))
    /\ UNCHANGED <<disk, tomb, inventory, touched, edited, edits, crashes, left>>

-----------------------------------------------------------------------------
(* install_adapter                                                          *)

InstallPlan(p, a) ==
    /\ inventory[a] = "unrecorded"
    /\ disk[a] = "absent"
    /\ Begin(p, [IdleProcess EXCEPT !.pc = "install_load", !.adapter = a])

\* The inventory that is written back is read again, after the plan.
InstallLoad(p) ==
    /\ At(p, "install_load")
    /\ proc' = [proc EXCEPT ![p].pc = "install_create", ![p].snap = inventory]
    /\ UNCHANGED <<disk, tomb, inventory, history>>

\* Mutation: the file is replaced, as the inventory is.
InstallReplace(p) ==
    LET a == proc[p].adapter IN
    /\ At(p, "install_create")
    /\ disk' = [disk EXCEPT ![a] = "guidance"]
    /\ Goto(p, "install_record")
    /\ UNCHANGED <<tomb, inventory>>

\* os.link never replaces what appeared at the path since the plan.
InstallCreate(p) ==
    LET a == proc[p].adapter IN
    /\ At(p, "install_create")
    /\ disk[a] = "absent"
    /\ disk' = [disk EXCEPT ![a] = "guidance"]
    /\ Goto(p, "install_record")
    /\ UNCHANGED <<tomb, inventory>>

\* It appeared, or the file system refused it, or the inventory before it.
InstallCreateFails(p) ==
    /\ At(p, "install_load") \/ At(p, "install_create")
    /\ Finish(p)
    /\ UNCHANGED <<disk, tomb, inventory>>

\* The file is linked, but its temporary name cannot be unlinked: the handler
\* that would take the file back is not entered yet.
InstallCreateStrands(p) ==
    LET a == proc[p].adapter IN
    /\ At(p, "install_create")
    /\ disk[a] = "absent"
    /\ disk' = [disk EXCEPT ![a] = "guidance"]
    /\ FinishLeaving(p, "file")
    /\ UNCHANGED <<tomb, inventory>>

\* A second record of one adapter does not validate.
InstallRecord(p) ==
    LET a == proc[p].adapter IN
    /\ At(p, "install_record")
    /\ proc[p].snap[a] = "unrecorded"
    /\ inventory' = [proc[p].snap EXCEPT ![a] = "enabled"]
    /\ Finish(p)
    /\ UNCHANGED <<disk, tomb>>

InstallRecordFails(p) ==
    /\ At(p, "install_record")
    /\ Goto(p, "install_rollback")
    /\ UNCHANGED <<disk, tomb, inventory>>

\* Whatever is at the path is unlinked.
InstallRollback(p) ==
    /\ At(p, "install_rollback")
    /\ disk' = [disk EXCEPT ![proc[p].adapter] = "absent"]
    /\ Finish(p)
    /\ UNCHANGED <<tomb, inventory>>

InstallRollbackFails(p) ==
    /\ At(p, "install_rollback")
    /\ disk[proc[p].adapter] # "absent"
    /\ FinishLeaving(p, "file")
    /\ UNCHANGED <<disk, tomb, inventory>>

-----------------------------------------------------------------------------
(* set_enabled                                                              *)

ToggleLoad(p, a, entry) ==
    /\ inventory[a] # "unrecorded"
    /\ Begin(p, [IdleProcess EXCEPT !.pc = "toggle_write", !.adapter = a, !.snap = inventory,
                                  !.status = entry])

ToggleWrite(p) ==
    /\ At(p, "toggle_write")
    /\ inventory' \in {inventory, [proc[p].snap EXCEPT ![proc[p].adapter] = proc[p].status]}
    /\ Finish(p)
    /\ UNCHANGED <<disk, tomb>>

-----------------------------------------------------------------------------
(* verify_adapters and remove_adapter                                       *)

\* Mutation: a modified file counts as valid.
VerifiedByPresence(a) ==
    CASE inventory[a] = "disabled" -> "disabled"
      [] inventory[a] = "enabled" /\ disk[a] = "absent" -> "missing"
      [] inventory[a] = "enabled" /\ disk[a] # "absent" -> "valid"
      [] OTHER -> "not installed"

\* A disabled adapter is reported as such before its file is looked at.
Verified(a) ==
    CASE inventory[a] = "disabled" -> "disabled"
      [] inventory[a] = "enabled" /\ disk[a] = "absent" -> "missing"
      [] inventory[a] = "enabled" /\ disk[a] = "link" -> "conflicting"
      [] inventory[a] = "enabled" /\ disk[a] = "user" -> "modified"
      [] inventory[a] = "enabled" /\ disk[a] = "guidance" -> "valid"
      [] OTHER -> "not installed"

RemoveVerify(p, a) ==
    /\ Verified(a) \in {"valid", "disabled"}
    /\ Begin(p, [IdleProcess EXCEPT !.pc = "remove_load", !.adapter = a, !.status = Verified(a)])

RemoveLoad(p) ==
    /\ At(p, "remove_load")
    /\ proc' = [proc EXCEPT ![p].pc = "remove_check", ![p].snap = inventory]
    /\ UNCHANGED <<disk, tomb, inventory, history>>

RemoveCheck(p) ==
    /\ At(p, "remove_check")
    /\ IF tomb[proc[p].adapter] = "absent" THEN Goto(p, "remove_park") ELSE Finish(p)
    /\ UNCHANGED <<disk, tomb, inventory>>

\* os.replace takes what is at the path now, over what is at the tombstone.
RemovePark(p) ==
    LET a == proc[p].adapter IN
    /\ At(p, "remove_park")
    /\ disk[a] # "absent"
    /\ tomb' = [tomb EXCEPT ![a] = disk[a]]
    /\ disk' = [disk EXCEPT ![a] = "absent"]
    /\ Goto(p, "remove_record")
    /\ UNCHANGED inventory

RemoveParkFails(p) ==
    /\ At(p, "remove_load") \/ At(p, "remove_park")
    /\ Finish(p)
    /\ UNCHANGED <<disk, tomb, inventory>>

RemoveRecord(p) ==
    /\ At(p, "remove_record")
    /\ inventory' = [proc[p].snap EXCEPT ![proc[p].adapter] = "unrecorded"]
    /\ Goto(p, "remove_purge")
    /\ UNCHANGED <<disk, tomb>>

RemoveRecordFails(p) ==
    /\ At(p, "remove_record")
    /\ Goto(p, "remove_rollback")
    /\ UNCHANGED <<disk, tomb, inventory>>

\* Mutation: the rollback is forgotten.
RemoveRollbackForgotten(p) ==
    /\ At(p, "remove_rollback")
    /\ Finish(p)
    /\ UNCHANGED <<disk, tomb, inventory>>

\* The tombstone goes back over what is at the path now, if it is still there.
RemoveRollback(p) ==
    LET a == proc[p].adapter IN
    /\ At(p, "remove_rollback")
    /\ IF tomb[a] = "absent"
       THEN UNCHANGED <<disk, tomb>>
       ELSE /\ disk' = [disk EXCEPT ![a] = tomb[a]]
            /\ tomb' = [tomb EXCEPT ![a] = "absent"]
    /\ FinishTouching(p, {a})
    /\ UNCHANGED inventory

\* It cannot be put back.
RemoveRollbackFails(p) ==
    /\ At(p, "remove_rollback")
    /\ tomb[proc[p].adapter] # "absent"
    /\ FinishLeaving(p, "record")
    /\ UNCHANGED <<disk, tomb, inventory>>

RemovePurge(p) ==
    LET a == proc[p].adapter IN
    /\ At(p, "remove_purge")
    /\ tomb[a] # "absent"
    /\ tomb' = [tomb EXCEPT ![a] = "absent"]
    /\ Goto(p, "clean_load")
    /\ UNCHANGED <<disk, inventory>>

RemovePurgeFails(p) ==
    /\ At(p, "remove_purge")
    /\ Finish(p)
    /\ UNCHANGED <<disk, tomb, inventory>>

\* An empty inventory is unlinked, if it was empty a moment ago.
CleanLoad(p) ==
    /\ At(p, "clean_load")
    /\ IF inventory = EmptyInventory THEN Goto(p, "clean_unlink") ELSE Finish(p)
    /\ UNCHANGED <<disk, tomb, inventory>>

CleanUnlink(p) ==
    /\ At(p, "clean_unlink")
    /\ inventory' \in {inventory, EmptyInventory}
    /\ Finish(p)
    /\ UNCHANGED <<disk, tomb>>

-----------------------------------------------------------------------------
(* The environment.                                                         *)

Crash(p) ==
    /\ ~Idle(p) /\ edits + crashes < MaxEvents
    /\ crashes' = crashes + 1
    /\ solo' = FALSE
    /\ proc' = [proc EXCEPT ![p] = IdleProcess]
    /\ touched' = [touched EXCEPT ![p] = {}]
    /\ UNCHANGED <<disk, tomb, inventory, edited, edits, left>>

\* The user writes, links or deletes an instruction file.
UserEdit(a, text) ==
    /\ edits + crashes < MaxEvents
    /\ disk[a] # text
    /\ disk' = [disk EXCEPT ![a] = text]
    /\ edits' = edits + 1
    /\ edited' = edited \cup {a}
    /\ touched' = [p \in Procs |-> IF Idle(p) THEN {} ELSE touched[p] \cup {a}]
    /\ UNCHANGED <<tomb, inventory, proc, crashes, left, solo>>

Install(p) ==
    \/ \E a \in Adapters : InstallPlan(p, a)
    \/ InstallLoad(p) \/ InstallCreate(p) \/ InstallCreateFails(p) \/ InstallCreateStrands(p)
    \/ InstallRecord(p) \/ InstallRecordFails(p) \/ InstallRollback(p) \/ InstallRollbackFails(p)

Toggle(p) ==
    \/ \E a \in Adapters, entry \in {"enabled", "disabled"} : ToggleLoad(p, a, entry)
    \/ ToggleWrite(p)

Remove(p) ==
    \/ \E a \in Adapters : RemoveVerify(p, a)
    \/ RemoveLoad(p) \/ RemoveCheck(p) \/ RemovePark(p) \/ RemoveParkFails(p)
    \/ RemoveRecord(p) \/ RemoveRecordFails(p) \/ RemoveRollback(p) \/ RemoveRollbackFails(p)
    \/ RemovePurge(p) \/ RemovePurgeFails(p) \/ CleanLoad(p) \/ CleanUnlink(p)

Command(p) == Install(p) \/ Toggle(p) \/ Remove(p)

User == \E a \in Adapters, text \in {"user", "link", "absent"} : UserEdit(a, text)

Next == (\E p \in Procs : Command(p) \/ Crash(p)) \/ User

Spec == Init /\ [][Next]_vars

-----------------------------------------------------------------------------
(* What must hold.                                                          *)

\* Types of the stored files, the inventory and the running commands.
TypeOK ==
    /\ disk \in [Adapters -> Texts]
    /\ tomb \in [Adapters -> Texts]
    /\ inventory \in Inventories
    /\ proc \in [Procs -> Processes]
    /\ touched \in [Procs -> SUBSET Adapters]
    /\ edited \subseteq Adapters
    /\ edits \in 0..MaxEvents /\ crashes \in 0..MaxEvents
    /\ left \in [Adapters -> {"nothing", "file", "record"}]
    /\ solo \in BOOLEAN

\* The user's text for an adapter is somewhere, the tombstone included.
UserText(a) == disk[a] = "user" \/ tomb[a] = "user"

\* The removal of an adapter whose file was not looked at, for it was disabled.
RemovesUnread(p, a) == proc[p].adapter = a /\ proc[p].status = "disabled"
                       /\ proc[p].pc \in {"remove_park", "remove_record", "remove_rollback",
                                          "remove_purge"}

\* An install never creates its file over text of the user (`_atomic_create`
\* links, it does not replace).  The user's text is lost only to a removal or a
\* rollback under which it came to the path, or to the removal of a disabled
\* adapter (`verify_adapters` compares digests), whatever fails or overlaps.
LossIsExplained ==
    [][edits' = edits =>
         \A a \in Adapters : UserText(a) /\ ~UserText(a)' =>
             \E p \in Procs : /\ proc'[p] # proc[p]
                              /\ proc[p].pc # "install_create"
                              /\ a \in touched[p] \/ RemovesUnread(p, a)]_vars

\* An adapter the user never edited is recorded exactly if its guidance is in
\* place.  If an install could not undo itself, the file is there without a
\* record; if a removal could not, the record is there and the file parked.
Settled(a) ==
    /\ left[a] = "nothing" =>
          IF inventory[a] = "unrecorded" THEN disk[a] = "absent" ELSE disk[a] = "guidance"
    /\ left[a] = "file" => inventory[a] = "unrecorded" /\ disk[a] = "guidance"
    /\ left[a] = "record" =>
          inventory[a] # "unrecorded" /\ disk[a] = "absent" /\ tomb[a] = "guidance"

\* Commands that neither overlap nor are killed are all or nothing as long as one
\* call of theirs fails, whichever.  When the call that should undo a failed
\* command fails as well, or `_atomic_create` fails at its temporary file, what
\* remains is known, and no later command mends it, adds to it or loses the
\* guidance: it takes the user's hand.
CommandsAreAtomic ==
    solo /\ (\A p \in Procs : Idle(p)) => \A a \in Adapters \ edited : Settled(a)

\* What docs/agent-installation.md says: "Removal refuses modified or
\* conflicting files."  A removal that goes ahead has seen the guidance.
RemovalRefusesModified ==
    [][\A p \in Procs :
         Idle(p) /\ proc'[p].pc = "remove_load" => disk[proc'[p].adapter] = "guidance"]_vars
=============================================================================
