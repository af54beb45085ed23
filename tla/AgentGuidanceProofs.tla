-------------------------- MODULE AgentGuidanceProofs --------------------------
(***************************************************************************)
(* What holds of the agent commands for any number of commands and         *)
(* adapters and any bound on edits and kills.  Two invariants: `LossInv`,  *)
(* of commands that overlap in every way, says where text at a path came   *)
(* from; `SoloInv`, of commands that follow each other, says how far the   *)
(* one that runs has come.                                                 *)
(***************************************************************************)
EXTENDS AgentGuidance, TLAPS

Removing == {"remove_load", "remove_check", "remove_park", "remove_record", "remove_rollback",
             "remove_purge"}
Parking == {"remove_park", "remove_record", "remove_rollback", "remove_purge"}

\* What stands at the path of an adapter that is being installed, or removed
\* after its file was compared, is the guidance, or came there under the command.
Witnessed(p) ==
    LET a == proc[p].adapter IN
    /\ proc[p].pc # "idle" => a \in Adapters
    /\ proc[p].pc = "toggle_write" => proc[p].status \in {"enabled", "disabled"}
    /\ proc[p].pc \in Removing => proc[p].status \in {"valid", "disabled"}
    /\ proc[p].pc \in {"install_record", "install_rollback"} /\ disk[a] = "user" => a \in touched[p]
    /\ proc[p].pc \in Removing /\ proc[p].status = "valid" =>
         /\ disk[a] = "user" => a \in touched[p]
         /\ proc[p].pc \in Parking /\ tomb[a] = "user" => a \in touched[p]

LossInv == TypeOK /\ \A p \in Procs : Witnessed(p)

-----------------------------------------------------------------------------
\* Every state has its type.
LEMMA InitialTyping == Init => TypeOK /\ LossInv
<1> SUFFICES ASSUME Init PROVE TypeOK /\ LossInv
  OBVIOUS
<1>1. IdleProcess \in Processes /\ EmptyInventory \in Inventories
  BY DEF IdleProcess, Processes, EmptyInventory, Inventories, Entries, Pcs
<1>2. TypeOK
  BY <1>1, BoundsAssumption DEF Init, TypeOK, Texts
<1>3. QED
  BY <1>2 DEF LossInv, Init, Witnessed, IdleProcess, Removing

\* A command that moves to another well-typed state keeps the type of the
\* processes and of what was touched.
LEMMA Leaves ==
    ASSUME TypeOK, NEW p \in Procs, NEW paths \in SUBSET Adapters, Leave(p, paths)
    PROVE  /\ proc' \in [Procs -> Processes] /\ touched' \in [Procs -> SUBSET Adapters]
           /\ edited' = edited /\ edits' = edits /\ crashes' = crashes /\ solo' = solo
           /\ proc'[p] = IdleProcess /\ touched'[p] = {}
           /\ \A q \in Procs \ {p} : proc'[q] = proc[q]
           /\ \A q \in Procs \ {p} : ~Idle(q) => touched'[q] = touched[q] \cup paths
<1>1. IdleProcess \in Processes
  BY DEF IdleProcess, Processes, EmptyInventory, Inventories, Entries, Pcs
<1>2. QED
  BY <1>1 DEF TypeOK, Leave, Idle

LEMMA Finishes ==
    ASSUME TypeOK, NEW p \in Procs, NEW paths \in SUBSET Adapters, FinishTouching(p, paths)
    PROVE  /\ proc' \in [Procs -> Processes] /\ touched' \in [Procs -> SUBSET Adapters]
           /\ edited' = edited /\ edits' = edits /\ crashes' = crashes /\ solo' = solo
           /\ left' = left
           /\ proc'[p] = IdleProcess /\ touched'[p] = {}
           /\ \A q \in Procs \ {p} : proc'[q] = proc[q]
           /\ \A q \in Procs \ {p} : ~Idle(q) => touched'[q] = touched[q] \cup paths
  BY Leaves DEF FinishTouching

LEMMA FinishesLeaving ==
    ASSUME TypeOK, NEW p \in Procs, proc[p].adapter \in Adapters,
           NEW what \in {"nothing", "file", "record"}, FinishLeaving(p, what)
    PROVE  /\ proc' \in [Procs -> Processes] /\ touched' \in [Procs -> SUBSET Adapters]
           /\ edited' = edited /\ edits' = edits /\ crashes' = crashes /\ solo' = solo
           /\ left' \in [Adapters -> {"nothing", "file", "record"}]
           /\ left'[proc[p].adapter] = what
           /\ \A b \in Adapters \ {proc[p].adapter} : left'[b] = left[b]
           /\ proc'[p] = IdleProcess /\ touched'[p] = {}
           /\ \A q \in Procs \ {p} : proc'[q] = proc[q]
           /\ \A q \in Procs \ {p} : ~Idle(q) => touched'[q] = touched[q]
<1>1. Leave(p, {}) /\ {} \in SUBSET Adapters
  BY DEF FinishLeaving
<1>2. QED
  <2>1. /\ left' = [left EXCEPT ![proc[p].adapter] = what]
        /\ left \in [Adapters -> {"nothing", "file", "record"}]
    BY DEF FinishLeaving, TypeOK
  <2>2. \A q \in Procs \ {p} : ~Idle(q) => touched'[q] = touched[q]
    <3>1. \A q \in Procs \ {p} : ~Idle(q) => touched'[q] = touched[q] \cup {}
      BY <1>1, Leaves
    <3>2. \A q \in Procs : touched[q] \cup {} = touched[q]
      OBVIOUS
    <3>3. QED
      BY <3>1, <3>2
  <2>3. QED
    BY <1>1, <2>1, <2>2, Leaves

LEMMA Goes ==
    ASSUME TypeOK, NEW p \in Procs, NEW pc \in Pcs, Goto(p, pc)
    PROVE  /\ proc' \in [Procs -> Processes] /\ touched' = touched
           /\ edited' = edited /\ edits' = edits /\ crashes' = crashes /\ solo' = solo
           /\ left' = left
           /\ proc'[p] = [proc[p] EXCEPT !.pc = pc]
           /\ proc'[p].pc = pc /\ proc'[p].adapter = proc[p].adapter
           /\ proc'[p].snap = proc[p].snap /\ proc'[p].status = proc[p].status
           /\ \A q \in Procs \ {p} : proc'[q] = proc[q]
  BY DEF TypeOK, Goto, history, Processes

LEMMA Begins ==
    ASSUME TypeOK, NEW p \in Procs, NEW entry \in Processes, Begin(p, entry)
    PROVE  /\ proc' \in [Procs -> Processes] /\ proc'[p] = entry
           /\ \A q \in Procs \ {p} : proc'[q] = proc[q]
           /\ solo' \in BOOLEAN
           /\ UNCHANGED <<disk, tomb, inventory, touched, edited, edits, crashes, left>>
  BY DEF TypeOK, Begin

-----------------------------------------------------------------------------
(* The text of the user.                                                    *)

\* What `LossIsExplained` asks of a step.
Explained ==
    edits' = edits =>
        \A a \in Adapters : UserText(a) /\ ~UserText(a)' =>
            \E p \in Procs : /\ proc'[p] # proc[p]
                             /\ proc[p].pc # "install_create"
                             /\ a \in touched[p] \/ RemovesUnread(p, a)

\* A step of p keeps the invariant if it does for p: text of the user reaches
\* a tombstone only from its path, and a path only under the other commands.
LEMMA OthersStay ==
    ASSUME LossInv, TypeOK', NEW p \in Procs, Witnessed(p)',
           \A q \in Procs \ {p} : proc'[q] = proc[q],
           \A q \in Procs \ {p} : ~Idle(q) => touched[q] \subseteq touched'[q],
           \A a \in Adapters : disk'[a] = "user" =>
               \/ disk[a] = "user"
               \/ \A q \in Procs \ {p} : ~Idle(q) => a \in touched'[q],
           \A a \in Adapters : tomb'[a] = "user" => tomb[a] = "user" \/ disk[a] = "user"
    PROVE  LossInv'
<1>1. ASSUME NEW q \in Procs \ {p}, ~Idle(q) PROVE Witnessed(q)'
  <2> DEFINE a == proc[q].adapter
  <2>1. /\ proc'[q] = proc[q] /\ a \in Adapters /\ touched[q] \subseteq touched'[q]
        /\ Witnessed(q)
    BY <1>1 DEF LossInv, Witnessed, Idle
  <2>2. disk'[a] = "user" => disk[a] = "user" \/ a \in touched'[q]
    BY <1>1, <2>1
  <2>3. tomb'[a] = "user" => tomb[a] = "user" \/ disk[a] = "user"
    BY <2>1
  <2>4. /\ proc[q].pc \in Removing => proc[q].status \in {"valid", "disabled"}
        /\ proc[q].pc = "toggle_write" => proc[q].status \in {"enabled", "disabled"}
    BY <2>1 DEF Witnessed
  <2>5. proc[q].pc \in {"install_record", "install_rollback"} /\ disk'[a] = "user" => a \in touched'[q]
    BY <2>1, <2>2 DEF Witnessed
  <2>6. ASSUME proc[q].pc \in Removing, proc[q].status = "valid"
        PROVE  /\ disk'[a] = "user" => a \in touched'[q]
               /\ proc[q].pc \in Parking /\ tomb'[a] = "user" => a \in touched'[q]
    BY <2>1, <2>2, <2>3, <2>6 DEF Witnessed
  <2>7. QED
    BY <2>1, <2>4, <2>5, <2>6 DEF Witnessed
<1>2. ASSUME NEW q \in Procs \ {p}, Idle(q) PROVE Witnessed(q)'
  BY <1>2 DEF Witnessed, Idle, Removing
<1>3. QED
  BY <1>1, <1>2 DEF LossInv

\* A step that leaves every file where it is loses nothing.
LEMMA NothingLost == ASSUME UNCHANGED <<disk, tomb>> PROVE Explained
  BY DEF Explained, UserText

\* A command that ends and leaves its files alone, whatever it did to the inventory.
LEMMA Ends ==
    ASSUME LossInv, NEW p \in Procs, Finish(p), UNCHANGED <<disk, tomb>>, inventory' \in Inventories
    PROVE  LossInv' /\ Explained
<1>1. TypeOK' /\ proc'[p] = IdleProcess
  BY Finishes DEF LossInv, TypeOK, Finish
<1>2. Witnessed(p)'
  BY <1>1 DEF Witnessed, IdleProcess, Removing
<1>3. LossInv'
  BY <1>1, <1>2, OthersStay, Finishes DEF LossInv, Finish
<1>4. QED
  BY <1>3, NothingLost

\* A command that ends with its last call refused.
LEMMA EndsLeaving ==
    ASSUME LossInv, NEW p \in Procs, ~Idle(p), NEW what \in {"nothing", "file", "record"},
           FinishLeaving(p, what), UNCHANGED <<disk, tomb, inventory>>
    PROVE  LossInv' /\ Explained
<1>0. TypeOK /\ proc[p].adapter \in Adapters
  BY DEF LossInv, Witnessed, Idle
<1>1. TypeOK' /\ proc'[p] = IdleProcess
  BY <1>0, FinishesLeaving DEF TypeOK
<1>2. Witnessed(p)'
  BY <1>1 DEF Witnessed, IdleProcess, Removing
<1>3. LossInv'
  BY <1>0, <1>1, <1>2, OthersStay, FinishesLeaving
<1>4. QED
  BY <1>3, NothingLost

\* A command that goes on and leaves its files alone, but to no step at which
\* it should know more of them.
LEMMA GoesOn ==
    ASSUME LossInv, NEW p \in Procs, NEW pc \in Pcs, Goto(p, pc), ~Idle(p),
           UNCHANGED <<disk, tomb>>, inventory' \in Inventories,
           pc # "toggle_write", pc \in Removing => proc[p].pc \in Removing,
           pc \in Parking => proc[p].pc \in Parking \/ tomb[proc[p].adapter] # "user",
           pc \in {"install_record", "install_rollback"} =>
               proc[p].pc \in {"install_record", "install_rollback"}
    PROVE  LossInv' /\ Explained
<1>1. TypeOK'
  BY Goes DEF LossInv, TypeOK
<1>2. Witnessed(p)'
  BY Goes DEF LossInv, Witnessed, Parking, Idle
<1>3. LossInv'
  BY <1>1, <1>2, OthersStay, Goes DEF LossInv
<1>4. QED
  BY <1>3, NothingLost

\* A command that starts: what it verified is not text of the user.
LEMMA Starts ==
    ASSUME LossInv, NEW p \in Procs, NEW entry \in Processes, Begin(p, entry),
           entry.adapter \in Adapters,
           entry.pc \notin {"install_record", "install_rollback"} \cup Parking,
           entry.pc = "toggle_write" => entry.status \in {"enabled", "disabled"},
           entry.pc \in Removing => /\ entry.status \in {"valid", "disabled"}
                                    /\ entry.status = "valid" => disk[entry.adapter] # "user"
    PROVE  LossInv' /\ Explained
<1>1. TypeOK'
  BY Begins DEF LossInv, TypeOK
<1>2. Witnessed(p)'
  BY Begins DEF LossInv, Witnessed
<1>3. LossInv'
  BY <1>1, <1>2, OthersStay, Begins DEF LossInv
<1>4. QED
  BY <1>3, NothingLost, Begins DEF LossInv

LEMMA InstallLoss ==
    ASSUME LossInv, NEW p \in Procs, Install(p)
    PROVE  LossInv' /\ Explained
<1> DEFINE a == proc[p].adapter
<1>0. TypeOK /\ Witnessed(p) /\ proc[p] \in Processes /\ inventory \in Inventories
  BY DEF LossInv, TypeOK
<1>1. ASSUME NEW b \in Adapters, InstallPlan(p, b) PROVE LossInv' /\ Explained
  <2> DEFINE entry == [IdleProcess EXCEPT !.pc = "install_load", !.adapter = b]
  <2>1. /\ entry \in Processes /\ entry.adapter = b /\ entry.pc = "install_load"
    BY DEF IdleProcess, Processes, EmptyInventory, Inventories, Entries, Pcs
  <2>2. Begin(p, entry)
    BY <1>1 DEF InstallPlan
  <2>3. QED
    BY <2>1, <2>2, Starts DEF Removing, Parking
<1>2. ASSUME InstallLoad(p) PROVE LossInv' /\ Explained
  <2>1. /\ proc' \in [Procs -> Processes] /\ proc'[p].pc = "install_create"
        /\ proc'[p].adapter = a
        /\ \A q \in Procs \ {p} : proc'[q] = proc[q]
    BY <1>0, <1>2 DEF InstallLoad, TypeOK, Processes, Pcs
  <2>2. TypeOK'
    BY <1>0, <1>2, <2>1 DEF InstallLoad, TypeOK, history
  <2>3. Witnessed(p)'
    BY <1>0, <1>2, <2>1 DEF InstallLoad, At, Witnessed, Removing
  <2>4. QED
    BY <1>2, <2>1, <2>2, <2>3, OthersStay, NothingLost DEF InstallLoad, history
<1>3. ASSUME InstallCreate(p) PROVE LossInv' /\ Explained
  <2>1. /\ proc[p].pc = "install_create" /\ a \in Adapters /\ disk[a] = "absent"
        /\ Goto(p, "install_record") /\ "install_record" \in Pcs
    BY <1>0, <1>3 DEF InstallCreate, At, Witnessed, Pcs
  <2>2. /\ disk' \in [Adapters -> Texts] /\ disk'[a] = "guidance"
        /\ \A b \in Adapters : disk'[b] = "user" <=> disk[b] = "user"
    BY <1>0, <1>3, <2>1 DEF InstallCreate, TypeOK, Texts
  <2>3. TypeOK'
    BY <1>0, <1>3, <2>1, <2>2, Goes DEF InstallCreate, TypeOK
  <2>4. Witnessed(p)'
    BY <1>0, <2>1, <2>2, Goes DEF Witnessed, Removing
  <2>5. LossInv'
    BY <1>0, <1>3, <2>1, <2>2, <2>3, <2>4, Goes, OthersStay DEF InstallCreate
  <2>6. Explained
    BY <1>3, <2>2 DEF InstallCreate, Explained, UserText
  <2>7. QED
    BY <2>5, <2>6
<1>4. ASSUME InstallCreateFails(p) PROVE LossInv' /\ Explained
  BY <1>0, <1>4, Ends DEF InstallCreateFails
<1>5. ASSUME InstallRecord(p) PROVE LossInv' /\ Explained
  <2>1. inventory' \in Inventories
    BY <1>0, <1>5 DEF InstallRecord, Inventories, Entries, Processes
  <2>2. QED
    BY <1>5, <2>1, Ends DEF InstallRecord
<1>6. ASSUME InstallRecordFails(p) PROVE LossInv' /\ Explained
  BY <1>0, <1>6, GoesOn DEF InstallRecordFails, At, Idle, Pcs, Removing, Parking
<1>7. ASSUME InstallRollback(p) PROVE LossInv' /\ Explained
  <2>1. /\ proc[p].pc = "install_rollback" /\ a \in Adapters /\ Finish(p)
        /\ disk[a] = "user" => a \in touched[p]
    BY <1>0, <1>7 DEF InstallRollback, At, Witnessed
  <2>2. /\ disk' \in [Adapters -> Texts] /\ disk'[a] = "absent"
        /\ \A b \in Adapters \ {a} : disk'[b] = disk[b]
    BY <1>0, <1>7, <2>1 DEF InstallRollback, TypeOK, Texts
  <2>3. TypeOK' /\ proc'[p] = IdleProcess
    BY <1>0, <1>7, <2>1, <2>2, Finishes DEF InstallRollback, TypeOK, Finish
  <2>4. Witnessed(p)'
    BY <2>3 DEF Witnessed, IdleProcess, Removing
  <2>5. LossInv'
    BY <1>0, <1>7, <2>1, <2>2, <2>3, <2>4, Finishes, OthersStay DEF InstallRollback, Finish
  <2>6. Explained
    <3>1. proc'[p] # proc[p]
      BY <2>1, <2>3 DEF IdleProcess
    <3>2. QED
      BY <1>7, <2>1, <2>2, <3>1 DEF InstallRollback, Explained, UserText
  <2>7. QED
    BY <2>5, <2>6
<1>8. ASSUME InstallCreateStrands(p) PROVE LossInv' /\ Explained
  <2>1. /\ proc[p].pc = "install_create" /\ a \in Adapters /\ disk[a] = "absent"
        /\ FinishLeaving(p, "file") /\ tomb' = tomb /\ inventory' = inventory
    BY <1>0, <1>8 DEF InstallCreateStrands, At, Witnessed
  <2>2. /\ disk' \in [Adapters -> Texts] /\ disk'[a] = "guidance"
        /\ \A b \in Adapters : disk'[b] = "user" <=> disk[b] = "user"
    BY <1>0, <1>8, <2>1 DEF InstallCreateStrands, TypeOK, Texts
  <2>3. TypeOK' /\ proc'[p] = IdleProcess
    BY <1>0, <2>1, <2>2, FinishesLeaving DEF TypeOK
  <2>4. Witnessed(p)'
    BY <2>3 DEF Witnessed, IdleProcess, Removing
  <2>5. LossInv'
    BY <1>0, <2>1, <2>2, <2>3, <2>4, FinishesLeaving, OthersStay
  <2>6. Explained
    BY <2>1, <2>2 DEF Explained, UserText
  <2>7. QED
    BY <2>5, <2>6
<1>9. ASSUME InstallRollbackFails(p) PROVE LossInv' /\ Explained
  BY <1>9, EndsLeaving DEF InstallRollbackFails, At, Idle
<1>10. QED
  BY <1>1, <1>2, <1>3, <1>4, <1>5, <1>6, <1>7, <1>8, <1>9 DEF Install

LEMMA ToggleLoss ==
    ASSUME LossInv, NEW p \in Procs, Toggle(p)
    PROVE  LossInv' /\ Explained
<1>0. TypeOK /\ proc[p] \in Processes /\ inventory \in Inventories
  BY DEF LossInv, TypeOK
<1>1. ASSUME NEW a \in Adapters, NEW e \in {"enabled", "disabled"}, ToggleLoad(p, a, e)
      PROVE LossInv' /\ Explained
  <2> DEFINE entry == [IdleProcess EXCEPT !.pc = "toggle_write", !.adapter = a,
                                          !.snap = inventory, !.status = e]
  <2>1. entry \in Processes /\ entry.adapter = a /\ entry.pc = "toggle_write" /\ entry.status = e
    BY <1>0 DEF IdleProcess, Processes, Pcs
  <2>2. Begin(p, entry)
    BY <1>1 DEF ToggleLoad
  <2>3. QED
    BY <2>1, <2>2, Starts DEF Removing, Parking
<1>2. ASSUME ToggleWrite(p) PROVE LossInv' /\ Explained
  <2>1. inventory' \in Inventories
    BY <1>0, <1>2 DEF ToggleWrite, At, LossInv, Witnessed, Inventories, Entries, Processes
  <2>2. QED
    BY <1>2, <2>1, Ends DEF ToggleWrite
<1>3. QED
  BY <1>1, <1>2 DEF Toggle

LEMMA RemoveStartLoss ==
    ASSUME LossInv, NEW p \in Procs, NEW a \in Adapters, RemoveVerify(p, a)
    PROVE  LossInv' /\ Explained
<1> DEFINE entry == [IdleProcess EXCEPT !.pc = "remove_load", !.adapter = a,
                                        !.status = Verified(a)]
<1>1. /\ Verified(a) \in {"valid", "disabled"}
      /\ Verified(a) = "valid" => disk[a] # "user"
  BY DEF RemoveVerify, Verified
<1>2. /\ entry \in Processes /\ entry.adapter = a /\ entry.pc = "remove_load"
      /\ entry.status = Verified(a)
  BY <1>1 DEF IdleProcess, Processes, EmptyInventory, Inventories, Entries, Pcs
<1>3. Begin(p, entry)
  BY DEF RemoveVerify
<1>4. QED
  BY <1>1, <1>2, <1>3, Starts DEF Parking

\* What a removal moves to the tombstone is text of the user only if it came
\* to the path under it, or its digest was never compared.
LEMMA RemoveParkLoss ==
    ASSUME LossInv, NEW p \in Procs, RemovePark(p)
    PROVE  LossInv' /\ Explained
<1> DEFINE a == proc[p].adapter
<1>0. TypeOK /\ Witnessed(p) /\ proc[p] \in Processes
  BY DEF LossInv, TypeOK
<1>1. /\ proc[p].pc = "remove_park" /\ a \in Adapters /\ disk[a] # "absent"
      /\ Goto(p, "remove_record") /\ "remove_record" \in Pcs
  BY <1>0 DEF RemovePark, At, Witnessed, Pcs
<1>2. /\ disk' \in [Adapters -> Texts] /\ tomb' \in [Adapters -> Texts]
      /\ disk'[a] = "absent" /\ tomb'[a] = disk[a]
      /\ \A b \in Adapters \ {a} : disk'[b] = disk[b] /\ tomb'[b] = tomb[b]
  BY <1>0, <1>1 DEF RemovePark, TypeOK, Texts
<1>3. TypeOK'
  BY <1>0, <1>1, <1>2, Goes DEF RemovePark, TypeOK
<1>4. Witnessed(p)'
  BY <1>0, <1>1, <1>2, Goes DEF Witnessed, Removing, Parking
<1>5. LossInv'
  <2>1. /\ \A q \in Procs \ {p} : proc'[q] = proc[q]
        /\ \A q \in Procs \ {p} : touched'[q] = touched[q]
    BY <1>0, <1>1, Goes
  <2>2. /\ \A b \in Adapters : disk'[b] = "user" => disk[b] = "user"
        /\ \A b \in Adapters : tomb'[b] = "user" => tomb[b] = "user" \/ disk[b] = "user"
    BY <1>2
  <2>3. QED
    BY <1>3, <1>4, <2>1, <2>2, OthersStay
<1>6. Explained
  <2> SUFFICES ASSUME NEW b \in Adapters, UserText(b), ~UserText(b)'
               PROVE  /\ proc'[p] # proc[p] /\ proc[p].pc # "install_create"
                      /\ b \in touched[p] \/ RemovesUnread(p, b)
    BY DEF Explained
  <2>1. b = a /\ tomb[a] = "user"
    BY <1>1, <1>2 DEF UserText
  <2>2. a \in touched[p] \/ RemovesUnread(p, a)
    BY <1>0, <1>1, <2>1 DEF Witnessed, Removing, Parking, RemovesUnread
  <2>3. proc'[p] # proc[p]
    BY <1>0, <1>1, Goes
  <2>4. QED
    BY <1>1, <2>1, <2>2, <2>3
<1>7. QED
  BY <1>5, <1>6

LEMMA RemoveRollbackLoss ==
    ASSUME LossInv, NEW p \in Procs, RemoveRollback(p)
    PROVE  LossInv' /\ Explained
<1> DEFINE a == proc[p].adapter
<1>0. TypeOK /\ Witnessed(p) /\ proc[p] \in Processes
  BY DEF LossInv, TypeOK
<1>1. /\ proc[p].pc = "remove_rollback" /\ a \in Adapters
      /\ FinishTouching(p, {a}) /\ {a} \in SUBSET Adapters
      /\ inventory' = inventory
  BY <1>0 DEF RemoveRollback, At, Witnessed
<1>2. /\ disk' \in [Adapters -> Texts] /\ tomb' \in [Adapters -> Texts]
      /\ disk'[a] = (IF tomb[a] = "absent" THEN disk[a] ELSE tomb[a])
      /\ tomb'[a] = "absent"
      /\ \A b \in Adapters \ {a} : disk'[b] = disk[b] /\ tomb'[b] = tomb[b]
  BY <1>0, <1>1 DEF RemoveRollback, TypeOK, Texts
<1>3. TypeOK' /\ proc'[p] = IdleProcess
  BY <1>0, <1>1, <1>2, Finishes DEF TypeOK
<1>4. Witnessed(p)'
  BY <1>3 DEF Witnessed, IdleProcess, Removing
<1>5. LossInv'
  <2>1. /\ \A q \in Procs \ {p} : proc'[q] = proc[q]
        /\ \A q \in Procs \ {p} : ~Idle(q) => touched'[q] = touched[q] \cup {a}
    BY <1>0, <1>1, Finishes
  <2>2. \A b \in Adapters : disk'[b] = "user" =>
            disk[b] = "user" \/ \A q \in Procs \ {p} : ~Idle(q) => b \in touched'[q]
    BY <1>2, <2>1
  <2>3. QED
    BY <1>2, <1>3, <1>4, <2>1, <2>2, OthersStay
<1>6. Explained
  <2> SUFFICES ASSUME NEW b \in Adapters, UserText(b), ~UserText(b)'
               PROVE  /\ proc'[p] # proc[p] /\ proc[p].pc # "install_create"
                      /\ b \in touched[p] \/ RemovesUnread(p, b)
    BY DEF Explained
  <2>1. b = a /\ disk[a] = "user"
    BY <1>1, <1>2 DEF UserText
  <2>2. a \in touched[p] \/ RemovesUnread(p, a)
    BY <1>0, <1>1, <2>1 DEF Witnessed, Removing, RemovesUnread
  <2>3. proc'[p] # proc[p]
    BY <1>1, <1>3 DEF IdleProcess
  <2>4. QED
    BY <1>1, <2>1, <2>2, <2>3
<1>7. QED
  BY <1>5, <1>6

LEMMA RemovePurgeLoss ==
    ASSUME LossInv, NEW p \in Procs, RemovePurge(p)
    PROVE  LossInv' /\ Explained
<1> DEFINE a == proc[p].adapter
<1>0. TypeOK /\ Witnessed(p) /\ proc[p] \in Processes
  BY DEF LossInv, TypeOK
<1>1. /\ proc[p].pc = "remove_purge" /\ a \in Adapters
      /\ Goto(p, "clean_load") /\ "clean_load" \in Pcs
  BY <1>0 DEF RemovePurge, At, Witnessed, Pcs
<1>2. /\ tomb' \in [Adapters -> Texts] /\ tomb'[a] = "absent"
      /\ disk' = disk /\ inventory' = inventory
      /\ \A b \in Adapters \ {a} : tomb'[b] = tomb[b]
  BY <1>0, <1>1 DEF RemovePurge, TypeOK, Texts
<1>3. TypeOK'
  BY <1>0, <1>1, <1>2, Goes DEF TypeOK
<1>4. Witnessed(p)'
  BY <1>0, <1>1, <1>2, Goes DEF Witnessed, Removing
<1>5. LossInv'
  BY <1>0, <1>1, <1>2, <1>3, <1>4, Goes, OthersStay
<1>6. Explained
  <2> SUFFICES ASSUME NEW b \in Adapters, UserText(b), ~UserText(b)'
               PROVE  /\ proc'[p] # proc[p] /\ proc[p].pc # "install_create"
                      /\ b \in touched[p] \/ RemovesUnread(p, b)
    BY DEF Explained
  <2>1. b = a /\ tomb[a] = "user"
    BY <1>1, <1>2 DEF UserText
  <2>2. a \in touched[p] \/ RemovesUnread(p, a)
    BY <1>0, <1>1, <2>1 DEF Witnessed, Removing, Parking, RemovesUnread
  <2>3. proc'[p] # proc[p]
    BY <1>0, <1>1, Goes
  <2>4. QED
    BY <1>1, <2>1, <2>2, <2>3
<1>7. QED
  BY <1>5, <1>6

LEMMA RemoveLoss ==
    ASSUME LossInv, NEW p \in Procs, Remove(p)
    PROVE  LossInv' /\ Explained
<1>0. TypeOK /\ Witnessed(p) /\ proc[p] \in Processes /\ inventory \in Inventories
  BY DEF LossInv, TypeOK
<1>1. CASE \E a \in Adapters : RemoveVerify(p, a)
  BY <1>1, RemoveStartLoss
<1>2. ASSUME RemoveLoad(p) PROVE LossInv' /\ Explained
  <2>1. /\ proc' \in [Procs -> Processes] /\ proc'[p].pc = "remove_check"
        /\ proc'[p].adapter = proc[p].adapter /\ proc'[p].status = proc[p].status
        /\ \A q \in Procs \ {p} : proc'[q] = proc[q]
    BY <1>0, <1>2 DEF RemoveLoad, TypeOK, Processes, Pcs
  <2>2. TypeOK'
    BY <1>0, <1>2, <2>1 DEF RemoveLoad, TypeOK, history
  <2>3. Witnessed(p)'
    BY <1>0, <1>2, <2>1 DEF RemoveLoad, At, Witnessed, Removing, Parking, history
  <2>4. QED
    BY <1>2, <2>1, <2>2, <2>3, OthersStay, NothingLost DEF RemoveLoad, history
<1>3. ASSUME RemoveCheck(p) PROVE LossInv' /\ Explained
  <2>1. CASE tomb[proc[p].adapter] = "absent"
    BY <1>0, <1>3, <2>1, GoesOn DEF RemoveCheck, At, Idle, Pcs, Removing, Parking
  <2>2. CASE tomb[proc[p].adapter] # "absent"
    BY <1>0, <1>3, <2>2, Ends DEF RemoveCheck
  <2>3. QED
    BY <2>1, <2>2
<1>4. CASE RemovePark(p)
  BY <1>4, RemoveParkLoss
<1>5. CASE RemoveParkFails(p)
  BY <1>0, <1>5, Ends DEF RemoveParkFails
<1>6. CASE RemoveRecord(p)
  <2>1. inventory' \in Inventories
    BY <1>0, <1>6 DEF RemoveRecord, Inventories, Entries, Processes
  <2>2. QED
    BY <1>6, <2>1, GoesOn DEF RemoveRecord, At, Idle, Pcs, Removing, Parking
<1>7. CASE RemoveRecordFails(p)
  BY <1>0, <1>7, GoesOn DEF RemoveRecordFails, At, Idle, Pcs, Removing, Parking
<1>8. CASE RemoveRollback(p)
  BY <1>8, RemoveRollbackLoss
<1>9. CASE RemovePurge(p)
  BY <1>9, RemovePurgeLoss
<1>10. CASE RemovePurgeFails(p)
  BY <1>0, <1>10, Ends DEF RemovePurgeFails
<1>11. CASE CleanLoad(p)
  <2>1. CASE inventory = EmptyInventory
    BY <1>0, <1>11, <2>1, GoesOn DEF CleanLoad, At, Idle, Pcs, Removing, Parking
  <2>2. CASE inventory # EmptyInventory
    BY <1>0, <1>11, <2>2, Ends DEF CleanLoad
  <2>3. QED
    BY <2>1, <2>2
<1>12. CASE CleanUnlink(p)
  <2>1. inventory' \in Inventories
    BY <1>0, <1>12 DEF CleanUnlink, EmptyInventory, Inventories, Entries
  <2>2. QED
    BY <1>12, <2>1, Ends DEF CleanUnlink
<1>13. CASE RemoveRollbackFails(p)
  BY <1>13, EndsLeaving DEF RemoveRollbackFails, At, Idle
<1>14. QED
  BY <1>1, <1>2, <1>3, <1>4, <1>5, <1>6, <1>7, <1>8, <1>9, <1>10, <1>11, <1>12, <1>13 DEF Remove

\* A kill leaves every file where it is.
LEMMA CrashLoss ==
    ASSUME LossInv, NEW p \in Procs, Crash(p)
    PROVE  LossInv' /\ Explained
<1>1. IdleProcess \in Processes
  BY DEF IdleProcess, Processes, EmptyInventory, Inventories, Entries, Pcs
<1>2. /\ proc' \in [Procs -> Processes] /\ proc'[p] = IdleProcess
      /\ \A q \in Procs \ {p} : proc'[q] = proc[q] /\ touched'[q] = touched[q]
      /\ touched' \in [Procs -> SUBSET Adapters]
      /\ crashes' \in 0..MaxEvents /\ UNCHANGED <<disk, tomb, inventory, edited, edits>>
  BY <1>1, BoundsAssumption DEF Crash, LossInv, TypeOK
<1>3. TypeOK'
  BY <1>2 DEF Crash, LossInv, TypeOK
<1>4. Witnessed(p)'
  BY <1>2 DEF Witnessed, IdleProcess, Removing
<1>5. QED
  BY <1>2, <1>3, <1>4, OthersStay, NothingLost

\* An edit counts as one, and comes under every command that runs.
LEMMA UserLoss ==
    ASSUME LossInv, User
    PROVE  LossInv' /\ Explained
<1>0. PICK a \in Adapters, text \in {"user", "link", "absent"} : UserEdit(a, text)
  BY DEF User
<1>1. TypeOK
  BY DEF LossInv
<1>2. /\ disk' \in [Adapters -> Texts] /\ edits' = edits + 1 /\ edits' \in 0..MaxEvents
      /\ proc' = proc /\ tomb' = tomb /\ touched' \in [Procs -> SUBSET Adapters]
      /\ \A b \in Adapters \ {a} : disk'[b] = disk[b]
      /\ \A q \in Procs : ~Idle(q) => touched'[q] = touched[q] \cup {a}
  BY <1>0, <1>1, BoundsAssumption DEF UserEdit, TypeOK, Texts
<1>3. TypeOK'
  BY <1>0, <1>1, <1>2 DEF UserEdit, TypeOK
<1>4. ASSUME NEW q \in Procs PROVE Witnessed(q)'
  <2>1. CASE Idle(q)
    BY <1>2, <2>1 DEF Witnessed, Idle, Removing
  <2>2. CASE ~Idle(q)
    <3> DEFINE b == proc[q].adapter
    <3>1. /\ Witnessed(q) /\ b \in Adapters /\ touched'[q] = touched[q] \cup {a}
      BY <1>2, <2>2 DEF LossInv, Witnessed, Idle
    <3>2. disk'[b] = "user" => disk[b] = "user" \/ b \in touched'[q]
      BY <1>2, <3>1
    <3>3. QED
      BY <1>2, <3>1, <3>2 DEF Witnessed
  <2>3. QED
    BY <2>1, <2>2
<1>5. Explained
  BY <1>1, <1>2 DEF Explained, TypeOK
<1>6. QED
  BY <1>3, <1>4, <1>5 DEF LossInv

LEMMA StutterLoss ==
    ASSUME LossInv, UNCHANGED vars
    PROVE  LossInv' /\ Explained
<1>1. TypeOK'
  BY DEF LossInv, TypeOK, vars, history
<1>2. ASSUME NEW q \in Procs PROVE Witnessed(q)'
  BY DEF LossInv, Witnessed, vars, history
<1>3. QED
  BY <1>1, <1>2, NothingLost DEF LossInv, vars

LEMMA LossStep == LossInv /\ [Next]_vars => LossInv' /\ Explained
<1> SUFFICES ASSUME LossInv, [Next]_vars PROVE LossInv' /\ Explained
  OBVIOUS
<1>1. CASE \E p \in Procs : Command(p)
  BY <1>1, InstallLoss, ToggleLoss, RemoveLoss DEF Command
<1>2. CASE \E p \in Procs : Crash(p)
  BY <1>2, CrashLoss
<1>3. CASE User
  BY <1>3, UserLoss
<1>4. CASE UNCHANGED vars
  BY <1>4, StutterLoss
<1>5. QED
  BY <1>1, <1>2, <1>3, <1>4 DEF Next

LEMMA LossInvariant == Spec => []LossInv
<1>1. Init => LossInv
  BY InitialTyping
<1>2. QED
  BY <1>1, LossStep, PTL DEF Spec

\* Every reachable state of the commands has its type.
THEOREM TypeCorrect == Spec => []TypeOK
<1>1. LossInv => TypeOK
  BY DEF LossInv
<1>2. QED
  BY <1>1, LossInvariant, PTL

\* Text of the user at an instruction file is lost only to a removal or a
\* rollback under which it came there, or to the removal of a disabled adapter,
\* however the commands overlap, fail or are killed.
THEOREM LossIsExplainedHolds == Spec => LossIsExplained
<1> DEFINE Lost ==
        edits' = edits =>
            \A a \in Adapters : UserText(a) /\ ~UserText(a)' =>
                \E p \in Procs : /\ proc'[p] # proc[p]
                                 /\ proc[p].pc # "install_create"
                                 /\ a \in touched[p] \/ RemovesUnread(p, a)
<1>1. LossInv /\ [Next]_vars => Lost
  BY LossStep DEF Explained
<1>2. QED
  BY <1>1, LossInvariant, PTL DEF Spec, LossIsExplained

-----------------------------------------------------------------------------
(* Commands that follow each other.                                         *)

Installing == {"install_load", "install_create", "install_record", "install_rollback"}

\* Between its two writes a command has changed the file and not the record.
Changing == {"install_record", "install_rollback", "remove_record", "remove_rollback"}

\* What a command that is alone knows of the inventory, and of its adapter as
\* long as the user has not edited it.
Alone(p) ==
    LET a == proc[p].adapter  pc == proc[p].pc IN
    /\ pc \in {"install_create", "install_record", "install_rollback", "toggle_write",
               "remove_check", "remove_park", "remove_record", "remove_rollback"} =>
         proc[p].snap = inventory
    /\ pc \in Installing \cup {"remove_purge"} => inventory[a] = "unrecorded"
    /\ pc \in (Removing \ {"remove_purge"}) \cup {"toggle_write"} => inventory[a] # "unrecorded"
    /\ pc = "clean_unlink" => inventory = EmptyInventory
    /\ a \notin edited =>
         /\ pc \in {"install_load", "install_create"} => disk[a] = "absent"
         /\ pc \in {"install_record", "install_rollback"} => disk[a] = "guidance"
         /\ pc = "remove_park" => tomb[a] = "absent"
         /\ pc \in Changing => left[a] = "nothing"
         /\ pc \in {"remove_record", "remove_rollback"} => disk[a] = "absent" /\ tomb[a] = "guidance"
         /\ pc = "remove_purge" => disk[a] = "absent"

Changed(a) == \E p \in Procs : proc[p].pc \in Changing /\ proc[p].adapter = a

SoloInv == solo =>
    /\ \A p, q \in Procs : ~Idle(p) /\ ~Idle(q) => p = q
    /\ \A p \in Procs : Alone(p)
    /\ \A a \in Adapters \ edited : Changed(a) \/ Settled(a)

-----------------------------------------------------------------------------
\* An idle command claims nothing.
LEMMA IdleIsAlone == ASSUME NEW q, proc[q].pc = "idle" PROVE Alone(q)
  BY DEF Alone, Installing, Removing, Changing

\* When p runs alone, an adapter agrees with its record, but for the one p is changing.
LEMMA SoloAgreement ==
    ASSUME SoloInv, solo, NEW p \in Procs, ~Idle(p)
    PROVE  /\ Alone(p) /\ \A q \in Procs \ {p} : Idle(q)
           /\ \A a \in Adapters \ edited :
                  a # proc[p].adapter \/ proc[p].pc \notin Changing => Settled(a)
<1>1. Alone(p) /\ \A q \in Procs \ {p} : Idle(q)
  BY DEF SoloInv
<1>2. \A q \in Procs \ {p} : proc[q].pc \notin Changing
  BY <1>1 DEF Idle, Changing
<1>3. QED
  BY <1>1, <1>2 DEF SoloInv, Changed

\* A step of p that changes at most its adapter keeps the invariant.
LEMMA SoloMoves ==
    ASSUME SoloInv, solo, NEW p \in Procs, ~Idle(p), Alone(p)',
           edited' = edited, \A q \in Procs \ {p} : proc'[q] = proc[q],
           \A b \in Adapters \ {proc[p].adapter} :
               /\ disk'[b] = disk[b] /\ tomb'[b] = tomb[b]
               /\ inventory'[b] = inventory[b] /\ left'[b] = left[b],
           \A a \in Adapters \ edited : a = proc[p].adapter =>
               (proc'[p].pc \in Changing /\ proc'[p].adapter = a) \/ Settled(a)'
    PROVE  SoloInv'
<1>1. /\ \A q \in Procs \ {p} : Idle(q) /\ Idle(q)'
      /\ \A a \in Adapters \ edited : a # proc[p].adapter => Settled(a)
  BY SoloAgreement DEF Idle
<1>2. \A q \in Procs \ {p} : Alone(q)'
  BY <1>1 DEF Idle, Alone, Installing, Removing, Changing
<1>3. ASSUME NEW a \in Adapters \ edited PROVE Changed(a)' \/ Settled(a)'
  <2>1. CASE a = proc[p].adapter
    BY <2>1 DEF Changed
  <2>2. CASE a # proc[p].adapter
    BY <1>1, <2>2 DEF Settled
  <2>3. QED
    BY <2>1, <2>2
<1>4. QED
  BY <1>1, <1>2, <1>3 DEF SoloInv

\* A command that starts while no other runs.
LEMMA SoloStarts ==
    ASSUME TypeOK, SoloInv, solo', NEW p \in Procs, NEW entry \in Processes, Begin(p, entry),
           Alone(p)', entry.pc \notin Changing
    PROVE  SoloInv'
<1>1. /\ solo /\ \A q \in Procs : Idle(q)
      /\ proc'[p] = entry /\ \A q \in Procs \ {p} : proc'[q] = proc[q]
      /\ UNCHANGED <<disk, tomb, inventory, edited, left>>
  BY Begins DEF Begin
<1>2. \A q \in Procs \ {p} : Alone(q)' /\ Idle(q)'
  BY <1>1 DEF Idle, Alone, Installing, Removing, Changing
<1>3. \A a \in Adapters \ edited : Settled(a)
  BY <1>1 DEF SoloInv, Changed, Changing, Idle
<1>4. QED
  BY <1>1, <1>2, <1>3 DEF SoloInv, Settled

\* A command that ends where file and record agree, and changed at most its adapter.
LEMMA SoloEnds ==
    ASSUME TypeOK, SoloInv, solo, NEW p \in Procs, ~Idle(p),
           NEW paths \in SUBSET Adapters, FinishTouching(p, paths),
           \A b \in Adapters \ {proc[p].adapter} :
               /\ disk'[b] = disk[b] /\ tomb'[b] = tomb[b]
               /\ inventory'[b] = inventory[b],
           \A a \in Adapters \ edited : a = proc[p].adapter => Settled(a)'
    PROVE  SoloInv'
<1>1. /\ proc'[p] = IdleProcess /\ edited' = edited /\ left' = left
      /\ \A q \in Procs \ {p} : proc'[q] = proc[q]
  BY Finishes
<1>2. proc'[p].pc = "idle"
  BY <1>1 DEF IdleProcess
<1>3. Alone(p)'
  BY <1>2 DEF Alone, Installing, Removing, Changing
<1>4. QED
  BY <1>1, <1>3, SoloMoves

\* A command that ends without a further change, with no change half done.
LEMMA SoloStops ==
    ASSUME TypeOK, SoloInv, solo, NEW p \in Procs, ~Idle(p), proc[p].pc \notin Changing,
           Finish(p), UNCHANGED <<disk, tomb, inventory>>
    PROVE  SoloInv'
<1>0. left' = left
  BY DEF Finish, FinishTouching
<1>1. \A a \in Adapters \ edited : a = proc[p].adapter => Settled(a)'
  BY <1>0, SoloAgreement DEF Settled
<1>2. QED
  BY <1>1, SoloEnds DEF Finish

\* A command that goes on.
LEMMA SoloGoes ==
    ASSUME TypeOK, SoloInv, solo, NEW p \in Procs, ~Idle(p), NEW pc \in Pcs, Goto(p, pc),
           \A b \in Adapters \ {proc[p].adapter} :
               /\ disk'[b] = disk[b] /\ tomb'[b] = tomb[b]
               /\ inventory'[b] = inventory[b],
           Alone(p)',
           \A a \in Adapters \ edited : a = proc[p].adapter => pc \in Changing \/ Settled(a)'
    PROVE  SoloInv'
  BY SoloMoves, Goes

\* A command that could not undo itself left what it could not undo.
LEMMA SoloEndsLeaving ==
    ASSUME TypeOK, SoloInv, solo, NEW p \in Procs, ~Idle(p), proc[p].adapter \in Adapters,
           NEW what \in {"nothing", "file", "record"}, FinishLeaving(p, what),
           \A b \in Adapters \ {proc[p].adapter} :
               /\ disk'[b] = disk[b] /\ tomb'[b] = tomb[b]
               /\ inventory'[b] = inventory[b],
           \A a \in Adapters \ edited : a = proc[p].adapter => Settled(a)'
    PROVE  SoloInv'
<1>1. /\ proc'[p] = IdleProcess /\ edited' = edited
      /\ \A q \in Procs \ {p} : proc'[q] = proc[q]
      /\ \A b \in Adapters \ {proc[p].adapter} : left'[b] = left[b]
  BY FinishesLeaving
<1>2. proc'[p].pc = "idle"
  BY <1>1 DEF IdleProcess
<1>3. Alone(p)'
  BY <1>2 DEF Alone, Installing, Removing, Changing
<1>4. QED
  BY <1>1, <1>3, SoloMoves

LEMMA InstallSolo ==
    ASSUME LossInv, SoloInv, solo', NEW p \in Procs, Install(p)
    PROVE  SoloInv'
<1> DEFINE a == proc[p].adapter
<1>0. TypeOK /\ Witnessed(p) /\ proc[p] \in Processes
  BY DEF LossInv, TypeOK
<1>1. ASSUME NEW b \in Adapters, InstallPlan(p, b) PROVE SoloInv'
  <2> DEFINE entry == [IdleProcess EXCEPT !.pc = "install_load", !.adapter = b]
  <2>1. entry \in Processes /\ entry.adapter = b /\ entry.pc = "install_load"
    BY DEF IdleProcess, Processes, EmptyInventory, Inventories, Entries, Pcs
  <2>2. Begin(p, entry) /\ inventory[b] = "unrecorded" /\ disk[b] = "absent"
    BY <1>1 DEF InstallPlan
  <2>3. Alone(p)'
    BY <1>0, <2>1, <2>2, Begins DEF Alone, Installing, Removing, Changing
  <2>4. QED
    BY <1>0, <2>1, <2>2, <2>3, SoloStarts DEF Changing
<1>2. ASSUME InstallLoad(p) PROVE SoloInv'
  <2>1. /\ proc[p].pc = "install_load" /\ ~Idle(p) /\ solo
        /\ UNCHANGED <<disk, tomb, inventory, edited, left>>
    BY <1>2 DEF InstallLoad, At, Idle, history
  <2>2. /\ proc'[p].pc = "install_create" /\ proc'[p].snap = inventory /\ proc'[p].adapter = a
        /\ \A q \in Procs \ {p} : proc'[q] = proc[q]
    BY <1>0, <1>2 DEF InstallLoad, TypeOK, Processes
  <2>3. Alone(p) /\ \A b \in Adapters \ edited : Settled(b)
    BY <2>1, SoloAgreement DEF Changing
  <2>4. Alone(p)'
    BY <2>1, <2>2, <2>3 DEF Alone, Installing, Removing, Changing
  <2>5. QED
    BY <2>1, <2>2, <2>3, <2>4, SoloMoves DEF Settled
<1>3. ASSUME InstallCreate(p) PROVE SoloInv'
  <2>1. /\ proc[p].pc = "install_create" /\ ~Idle(p) /\ a \in Adapters
        /\ Goto(p, "install_record") /\ "install_record" \in Pcs
        /\ tomb' = tomb /\ inventory' = inventory
    BY <1>0, <1>3 DEF InstallCreate, At, Idle, Witnessed, Pcs
  <2>2. disk'[a] = "guidance" /\ \A b \in Adapters \ {a} : disk'[b] = disk[b]
    BY <1>0, <1>3, <2>1 DEF InstallCreate, TypeOK
  <2>3. solo /\ Alone(p) /\ \A b \in Adapters \ edited : Settled(b)
    BY <1>0, <2>1, Goes, SoloAgreement DEF Changing
  <2>4. Alone(p)'
    <3>1. /\ proc'[p].pc = "install_record" /\ proc'[p].adapter = a /\ left' = left
          /\ proc'[p].snap = proc[p].snap /\ edited' = edited
      BY <1>0, <2>1, Goes
    <3>2. /\ proc[p].snap = inventory /\ inventory[a] = "unrecorded"
          /\ a \notin edited => disk[a] = "absent"
      BY <2>1, <2>3 DEF Alone, Installing
    <3>3. a \notin edited => left[a] = "nothing"
      BY <1>0, <2>1, <2>3, <3>2 DEF Settled, TypeOK
    <3>4. QED
      BY <2>1, <2>2, <3>1, <3>2, <3>3 DEF Alone, Installing, Removing, Changing
  <2>5. QED
    BY <1>0, <2>1, <2>2, <2>3, <2>4, SoloGoes DEF Changing
<1>4. ASSUME InstallCreateFails(p) PROVE SoloInv'
  <2>1. solo
    BY <1>0, <1>4, Finishes DEF InstallCreateFails, Finish
  <2>2. QED
    BY <1>0, <1>4, <2>1, SoloStops DEF InstallCreateFails, At, Idle, Changing
<1>5. ASSUME InstallRecord(p) PROVE SoloInv'
  <2>1. /\ proc[p].pc = "install_record" /\ ~Idle(p) /\ a \in Adapters
        /\ Finish(p) /\ disk' = disk /\ tomb' = tomb
    BY <1>0, <1>5 DEF InstallRecord, At, Idle, Witnessed
  <2>2. solo /\ Alone(p) /\ left' = left
    BY <1>0, <2>1, Finishes, SoloAgreement DEF Finish
  <2>3. /\ proc[p].snap = inventory
        /\ a \notin edited => disk[a] = "guidance" /\ left[a] = "nothing"
    BY <2>1, <2>2 DEF Alone, Changing
  <2>4. inventory'[a] = "enabled" /\ \A b \in Adapters \ {a} : inventory'[b] = inventory[b]
    BY <1>0, <1>5, <2>1, <2>3 DEF InstallRecord, TypeOK, Inventories
  <2>5. \A b \in Adapters \ edited : b = a => Settled(b)'
    BY <2>1, <2>2, <2>3, <2>4 DEF Settled
  <2>6. QED
    BY <1>0, <2>1, <2>2, <2>4, <2>5, SoloEnds DEF Finish
<1>6. ASSUME InstallRecordFails(p) PROVE SoloInv'
  <2>1. /\ proc[p].pc = "install_record" /\ ~Idle(p)
        /\ Goto(p, "install_rollback") /\ "install_rollback" \in Pcs
        /\ UNCHANGED <<disk, tomb, inventory>>
    BY <1>6 DEF InstallRecordFails, At, Idle, Pcs
  <2>2. solo /\ Alone(p)
    BY <1>0, <2>1, Goes, SoloAgreement
  <2>3. Alone(p)'
    <3>1. /\ proc'[p].pc = "install_rollback" /\ proc'[p].adapter = a /\ left' = left
          /\ proc'[p].snap = proc[p].snap /\ edited' = edited
      BY <1>0, <2>1, Goes
    <3>2. QED
      BY <2>1, <2>2, <3>1 DEF Alone, Installing, Removing, Changing
  <2>4. QED
    BY <1>0, <2>1, <2>2, <2>3, SoloGoes DEF Changing
<1>7. ASSUME InstallRollback(p) PROVE SoloInv'
  <2>1. /\ proc[p].pc = "install_rollback" /\ ~Idle(p) /\ a \in Adapters
        /\ Finish(p) /\ inventory' = inventory /\ tomb' = tomb
    BY <1>0, <1>7 DEF InstallRollback, At, Idle, Witnessed
  <2>2. solo /\ Alone(p) /\ left' = left
    BY <1>0, <2>1, Finishes, SoloAgreement DEF Finish
  <2>3. disk'[a] = "absent" /\ \A b \in Adapters \ {a} : disk'[b] = disk[b]
    BY <1>0, <1>7, <2>1 DEF InstallRollback, TypeOK
  <2>4. \A b \in Adapters \ edited : b = a => Settled(b)'
    BY <2>1, <2>2, <2>3 DEF Settled, Alone, Installing, Changing
  <2>5. QED
    BY <1>0, <2>1, <2>2, <2>3, <2>4, SoloEnds DEF Finish
<1>8. ASSUME InstallCreateStrands(p) PROVE SoloInv'
  <2>1. /\ proc[p].pc = "install_create" /\ ~Idle(p) /\ a \in Adapters
        /\ FinishLeaving(p, "file") /\ tomb' = tomb /\ inventory' = inventory
    BY <1>0, <1>8 DEF InstallCreateStrands, At, Idle, Witnessed
  <2>2. disk'[a] = "guidance" /\ \A b \in Adapters \ {a} : disk'[b] = disk[b]
    BY <1>0, <1>8, <2>1 DEF InstallCreateStrands, TypeOK
  <2>3. solo /\ Alone(p) /\ left'[a] = "file"
    BY <1>0, <2>1, FinishesLeaving, SoloAgreement
  <2>4. \A b \in Adapters \ edited : b = a => Settled(b)'
    BY <2>1, <2>2, <2>3 DEF Settled, Alone, Installing
  <2>5. QED
    BY <1>0, <2>1, <2>2, <2>3, <2>4, SoloEndsLeaving
<1>9. ASSUME InstallRollbackFails(p) PROVE SoloInv'
  <2>1. /\ proc[p].pc = "install_rollback" /\ ~Idle(p) /\ a \in Adapters
        /\ FinishLeaving(p, "file") /\ UNCHANGED <<disk, tomb, inventory>>
    BY <1>0, <1>9 DEF InstallRollbackFails, At, Idle, Witnessed
  <2>2. solo /\ Alone(p) /\ left'[a] = "file"
    BY <1>0, <2>1, FinishesLeaving, SoloAgreement
  <2>3. \A b \in Adapters \ edited : b = a => Settled(b)'
    BY <2>1, <2>2 DEF Settled, Alone, Installing
  <2>4. QED
    BY <1>0, <2>1, <2>2, <2>3, SoloEndsLeaving
<1>10. QED
  BY <1>1, <1>2, <1>3, <1>4, <1>5, <1>6, <1>7, <1>8, <1>9 DEF Install

LEMMA ToggleSolo ==
    ASSUME LossInv, SoloInv, solo', NEW p \in Procs, Toggle(p)
    PROVE  SoloInv'
<1> DEFINE a == proc[p].adapter
<1>0. TypeOK /\ Witnessed(p) /\ proc[p] \in Processes /\ inventory \in Inventories
  BY DEF LossInv, TypeOK
<1>1. ASSUME NEW b \in Adapters, NEW e \in {"enabled", "disabled"}, ToggleLoad(p, b, e)
      PROVE SoloInv'
  <2> DEFINE entry == [IdleProcess EXCEPT !.pc = "toggle_write", !.adapter = b,
                                          !.snap = inventory, !.status = e]
  <2>1. /\ entry \in Processes /\ entry.adapter = b /\ entry.pc = "toggle_write"
        /\ entry.snap = inventory
    BY <1>0 DEF IdleProcess, Processes, Pcs
  <2>2. Begin(p, entry) /\ inventory[b] # "unrecorded"
    BY <1>1 DEF ToggleLoad
  <2>3. Alone(p)'
    BY <1>0, <2>1, <2>2, Begins DEF Alone, Installing, Removing, Changing
  <2>4. QED
    BY <1>0, <2>1, <2>2, <2>3, SoloStarts DEF Changing
<1>2. ASSUME ToggleWrite(p) PROVE SoloInv'
  <2>1. /\ proc[p].pc = "toggle_write" /\ ~Idle(p) /\ a \in Adapters
        /\ proc[p].status \in {"enabled", "disabled"}
        /\ Finish(p) /\ disk' = disk /\ tomb' = tomb
    BY <1>0, <1>2 DEF ToggleWrite, At, Idle, Witnessed
  <2>2. solo /\ Alone(p) /\ left' = left /\ \A b \in Adapters \ edited : Settled(b)
    BY <1>0, <2>1, Finishes, SoloAgreement DEF Finish, Changing
  <2>3. proc[p].snap = inventory /\ inventory[a] # "unrecorded"
    BY <2>1, <2>2 DEF Alone
  <2>4. inventory'[a] # "unrecorded" /\ \A b \in Adapters \ {a} : inventory'[b] = inventory[b]
    BY <1>0, <1>2, <2>1, <2>3 DEF ToggleWrite, Inventories
  <2>5. \A b \in Adapters \ edited : b = a => Settled(b)'
    BY <2>1, <2>2, <2>3, <2>4 DEF Settled
  <2>6. QED
    BY <1>0, <2>1, <2>2, <2>4, <2>5, SoloEnds DEF Finish
<1>3. QED
  BY <1>1, <1>2 DEF Toggle

\* The steps of a removal up to the one that moves the file.
LEMMA RemoveStartSolo ==
    ASSUME LossInv, SoloInv, solo', NEW p \in Procs,
           \/ \E b \in Adapters : RemoveVerify(p, b)
           \/ RemoveLoad(p) \/ RemoveCheck(p) \/ RemovePark(p) \/ RemoveParkFails(p)
    PROVE  SoloInv'
<1> DEFINE a == proc[p].adapter
<1>0. TypeOK /\ Witnessed(p) /\ proc[p] \in Processes
  BY DEF LossInv, TypeOK
<1>1. ASSUME NEW b \in Adapters, RemoveVerify(p, b) PROVE SoloInv'
  <2> DEFINE entry == [IdleProcess EXCEPT !.pc = "remove_load", !.adapter = b,
                                          !.status = Verified(b)]
  <2>1. Verified(b) \in {"valid", "disabled"} /\ inventory[b] # "unrecorded"
    BY <1>1 DEF RemoveVerify, Verified
  <2>2. entry \in Processes /\ entry.adapter = b /\ entry.pc = "remove_load"
    BY <2>1 DEF IdleProcess, Processes, EmptyInventory, Inventories, Entries, Pcs
  <2>3. Begin(p, entry)
    BY <1>1 DEF RemoveVerify
  <2>4. Alone(p)'
    BY <1>0, <2>1, <2>2, <2>3, Begins DEF Alone, Installing, Removing, Changing
  <2>5. QED
    BY <1>0, <2>2, <2>3, <2>4, SoloStarts DEF Changing
<1>2. ASSUME RemoveLoad(p) PROVE SoloInv'
  <2>1. /\ proc[p].pc = "remove_load" /\ ~Idle(p) /\ solo
        /\ UNCHANGED <<disk, tomb, inventory, edited, left>>
    BY <1>2 DEF RemoveLoad, At, Idle, history
  <2>2. /\ proc'[p].pc = "remove_check" /\ proc'[p].snap = inventory /\ proc'[p].adapter = a
        /\ \A q \in Procs \ {p} : proc'[q] = proc[q]
    BY <1>0, <1>2 DEF RemoveLoad, TypeOK, Processes
  <2>3. Alone(p) /\ \A b \in Adapters \ edited : Settled(b)
    BY <2>1, SoloAgreement DEF Changing
  <2>4. Alone(p)'
    BY <2>1, <2>2, <2>3 DEF Alone, Installing, Removing, Changing
  <2>5. QED
    BY <2>1, <2>2, <2>3, <2>4, SoloMoves DEF Settled
<1>3. ASSUME RemoveCheck(p) PROVE SoloInv'
  <2>1. /\ proc[p].pc = "remove_check" /\ ~Idle(p)
        /\ UNCHANGED <<disk, tomb, inventory>>
        /\ (Goto(p, "remove_park") /\ tomb[a] = "absent") \/ Finish(p)
        /\ "remove_park" \in Pcs
    BY <1>3 DEF RemoveCheck, At, Idle, Pcs
  <2>2. solo /\ Alone(p) /\ \A b \in Adapters \ edited : Settled(b)
    BY <1>0, <2>1, Goes, Finishes, SoloAgreement DEF Finish, Changing
  <2>3. CASE Goto(p, "remove_park") /\ tomb[a] = "absent"
    <3>0. /\ proc'[p].pc = "remove_park" /\ proc'[p].adapter = a /\ left' = left
          /\ proc'[p].snap = proc[p].snap /\ edited' = edited
      BY <1>0, <2>1, <2>3, Goes
    <3>1. Alone(p)'
      BY <2>1, <2>2, <2>3, <3>0 DEF Alone, Installing, Removing, Changing
    <3>2. QED
      BY <3>0, <1>0, <2>1, <2>2, <2>3, <3>1, SoloGoes DEF Settled
  <2>4. CASE Finish(p)
    BY <1>0, <2>1, <2>2, <2>4, SoloStops DEF Changing
  <2>5. QED
    BY <2>1, <2>3, <2>4
<1>4. ASSUME RemovePark(p) PROVE SoloInv'
  <2>1. /\ proc[p].pc = "remove_park" /\ ~Idle(p) /\ a \in Adapters
        /\ Goto(p, "remove_record") /\ "remove_record" \in Pcs
        /\ inventory' = inventory
    BY <1>0, <1>4 DEF RemovePark, At, Idle, Witnessed, Pcs
  <2>2. /\ disk'[a] = "absent" /\ tomb'[a] = disk[a]
        /\ \A b \in Adapters \ {a} : disk'[b] = disk[b] /\ tomb'[b] = tomb[b]
    BY <1>0, <1>4, <2>1 DEF RemovePark, TypeOK
  <2>3. solo /\ Alone(p) /\ \A b \in Adapters \ edited : Settled(b)
    BY <1>0, <2>1, Goes, SoloAgreement DEF Changing
  <2>4. a \notin edited => disk[a] = "guidance" /\ left[a] = "nothing"
    BY <1>0, <2>1, <2>3 DEF Alone, Removing, Settled, TypeOK
  <2>5. Alone(p)'
    <3>1. /\ proc'[p].pc = "remove_record" /\ proc'[p].adapter = a /\ left' = left
          /\ proc'[p].snap = proc[p].snap /\ edited' = edited
      BY <1>0, <2>1, Goes
    <3>2. proc[p].snap = inventory /\ inventory[a] # "unrecorded"
      BY <2>1, <2>3 DEF Alone, Removing
    <3>3. QED
      BY <2>1, <2>2, <2>4, <3>1, <3>2 DEF Alone, Installing, Removing, Changing
  <2>6. QED
    BY <1>0, <2>1, <2>2, <2>3, <2>5, SoloGoes DEF Changing
<1>5. ASSUME RemoveParkFails(p) PROVE SoloInv'
  <2>1. solo
    BY <1>0, <1>5, Finishes DEF RemoveParkFails, Finish
  <2>2. QED
    BY <1>0, <1>5, <2>1, SoloStops DEF RemoveParkFails, At, Idle, Changing
<1>6. QED
  BY <1>1, <1>2, <1>3, <1>4, <1>5

\* The steps of a removal from the moved file on.
LEMMA RemoveEndSolo ==
    ASSUME LossInv, SoloInv, solo', NEW p \in Procs,
           \/ RemoveRecord(p) \/ RemoveRecordFails(p) \/ RemoveRollback(p) \/ RemoveRollbackFails(p)
           \/ RemovePurge(p) \/ RemovePurgeFails(p) \/ CleanLoad(p) \/ CleanUnlink(p)
    PROVE  SoloInv'
<1> DEFINE a == proc[p].adapter
<1>0. TypeOK /\ Witnessed(p) /\ proc[p] \in Processes
  BY DEF LossInv, TypeOK
<1>1. ASSUME RemoveRecord(p) PROVE SoloInv'
  <2>1. /\ proc[p].pc = "remove_record" /\ ~Idle(p) /\ a \in Adapters
        /\ Goto(p, "remove_purge") /\ "remove_purge" \in Pcs
        /\ disk' = disk /\ tomb' = tomb
    BY <1>0, <1>1 DEF RemoveRecord, At, Idle, Witnessed, Pcs, Removing
  <2>2. solo /\ Alone(p)
    BY <1>0, <2>1, Goes, SoloAgreement
  <2>3. /\ proc[p].snap = inventory
        /\ a \notin edited => disk[a] = "absent" /\ left[a] = "nothing"
    BY <2>1, <2>2 DEF Alone, Changing
  <2>4. /\ inventory'[a] = "unrecorded"
        /\ \A b \in Adapters \ {a} : inventory'[b] = inventory[b]
    BY <1>0, <1>1, <2>1, <2>3 DEF RemoveRecord, TypeOK, Inventories
  <2>5. /\ proc'[p].pc = "remove_purge" /\ proc'[p].adapter = a /\ edited' = edited
        /\ left' = left
    BY <1>0, <2>1, Goes
  <2>6. Alone(p)'
    BY <2>1, <2>3, <2>4, <2>5 DEF Alone, Installing, Removing, Changing
  <2>7. \A b \in Adapters \ edited : b = a => Settled(b)'
    BY <2>1, <2>3, <2>4, <2>5 DEF Settled
  <2>8. QED
    BY <1>0, <2>1, <2>2, <2>4, <2>6, <2>7, SoloGoes
<1>2. ASSUME RemoveRecordFails(p) PROVE SoloInv'
  <2>1. /\ proc[p].pc = "remove_record" /\ ~Idle(p)
        /\ Goto(p, "remove_rollback") /\ "remove_rollback" \in Pcs
        /\ UNCHANGED <<disk, tomb, inventory>>
    BY <1>2 DEF RemoveRecordFails, At, Idle, Pcs
  <2>2. solo /\ Alone(p)
    BY <1>0, <2>1, Goes, SoloAgreement
  <2>3. /\ proc'[p].pc = "remove_rollback" /\ proc'[p].adapter = a /\ left' = left
        /\ proc'[p].snap = proc[p].snap /\ edited' = edited
    BY <1>0, <2>1, Goes
  <2>4. Alone(p)'
    BY <2>1, <2>2, <2>3 DEF Alone, Installing, Removing, Changing
  <2>5. QED
    BY <1>0, <2>1, <2>2, <2>4, SoloGoes DEF Changing
<1>3. ASSUME RemoveRollback(p) PROVE SoloInv'
  <2>1. /\ proc[p].pc = "remove_rollback" /\ ~Idle(p) /\ a \in Adapters
        /\ FinishTouching(p, {a}) /\ {a} \in SUBSET Adapters /\ inventory' = inventory
    BY <1>0, <1>3 DEF RemoveRollback, At, Idle, Witnessed
  <2>2. solo /\ Alone(p) /\ left' = left
    BY <1>0, <2>1, Finishes, SoloAgreement
  <2>3. /\ inventory[a] # "unrecorded"
        /\ a \notin edited => tomb[a] = "guidance" /\ left[a] = "nothing"
    BY <2>1, <2>2 DEF Alone, Removing, Changing
  <2>4. /\ tomb[a] = "guidance" => disk'[a] = "guidance"
        /\ \A b \in Adapters \ {a} : disk'[b] = disk[b] /\ tomb'[b] = tomb[b]
    BY <1>0, <1>3, <2>1 DEF RemoveRollback, TypeOK
  <2>5. \A b \in Adapters \ edited : b = a => Settled(b)'
    BY <2>1, <2>2, <2>3, <2>4 DEF Settled
  <2>6. QED
    BY <1>0, <2>1, <2>2, <2>4, <2>5, SoloEnds
<1>4. ASSUME RemovePurge(p) PROVE SoloInv'
  <2>1. /\ proc[p].pc = "remove_purge" /\ ~Idle(p)
        /\ Goto(p, "clean_load") /\ "clean_load" \in Pcs
        /\ disk' = disk /\ inventory' = inventory /\ a \in Adapters
    BY <1>0, <1>4 DEF RemovePurge, At, Idle, Pcs, Witnessed
  <2>2. solo /\ Alone(p) /\ left' = left /\ \A b \in Adapters \ edited : Settled(b)
    BY <1>0, <2>1, Goes, SoloAgreement DEF Changing
  <2>6. \A b \in Adapters \ {a} : tomb'[b] = tomb[b]
    BY <1>0, <1>4, <2>1 DEF RemovePurge, TypeOK
  <2>7. inventory[a] = "unrecorded"
    BY <2>1, <2>2 DEF Alone
  <2>3. proc'[p].pc = "clean_load"
    BY <1>0, <2>1, Goes
  <2>4. Alone(p)'
    BY <2>3 DEF Alone, Installing, Removing, Changing
  <2>5. QED
    BY <1>0, <2>1, <2>2, <2>4, <2>6, <2>7, SoloGoes DEF Settled
<1>5. ASSUME RemovePurgeFails(p) PROVE SoloInv'
  <2>1. solo
    BY <1>0, <1>5, Finishes DEF RemovePurgeFails, Finish
  <2>2. QED
    BY <1>0, <1>5, <2>1, SoloStops DEF RemovePurgeFails, At, Idle, Changing
<1>6. ASSUME CleanLoad(p) PROVE SoloInv'
  <2>1. /\ proc[p].pc = "clean_load" /\ ~Idle(p) /\ "clean_unlink" \in Pcs
        /\ UNCHANGED <<disk, tomb, inventory>>
        /\ (Goto(p, "clean_unlink") /\ inventory = EmptyInventory) \/ Finish(p)
    BY <1>6 DEF CleanLoad, At, Idle, Pcs
  <2>2. solo /\ \A b \in Adapters \ edited : Settled(b)
    BY <1>0, <2>1, Goes, Finishes, SoloAgreement DEF Finish, Changing
  <2>3. CASE Goto(p, "clean_unlink") /\ inventory = EmptyInventory
    <3>1. proc'[p].pc = "clean_unlink" /\ left' = left
      BY <1>0, <2>1, <2>3, Goes
    <3>2. Alone(p)'
      BY <2>1, <2>3, <3>1 DEF Alone, Installing, Removing, Changing, EmptyInventory
    <3>3. QED
      BY <1>0, <2>1, <2>2, <2>3, <3>1, <3>2, SoloGoes DEF Settled
  <2>4. CASE Finish(p)
    BY <1>0, <2>1, <2>2, <2>4, SoloStops DEF Changing
  <2>5. QED
    BY <2>1, <2>3, <2>4
<1>7. ASSUME CleanUnlink(p) PROVE SoloInv'
  <2>1. /\ proc[p].pc = "clean_unlink" /\ ~Idle(p) /\ Finish(p) /\ disk' = disk /\ tomb' = tomb
    BY <1>7 DEF CleanUnlink, At, Idle
  <2>2. solo /\ Alone(p)
    BY <1>0, <2>1, Finishes, SoloAgreement DEF Finish
  <2>3. inventory' = inventory
    BY <1>7, <2>1, <2>2 DEF CleanUnlink, Alone
  <2>4. QED
    BY <1>0, <2>1, <2>2, <2>3, SoloStops DEF Changing
<1>8. ASSUME RemoveRollbackFails(p) PROVE SoloInv'
  <2>1. /\ proc[p].pc = "remove_rollback" /\ ~Idle(p) /\ a \in Adapters
        /\ FinishLeaving(p, "record") /\ UNCHANGED <<disk, tomb, inventory>>
    BY <1>0, <1>8 DEF RemoveRollbackFails, At, Idle, Witnessed
  <2>2. solo /\ Alone(p) /\ left'[a] = "record"
    BY <1>0, <2>1, FinishesLeaving, SoloAgreement
  <2>3. \A b \in Adapters \ edited : b = a => Settled(b)'
    BY <2>1, <2>2 DEF Settled, Alone, Removing
  <2>4. QED
    BY <1>0, <2>1, <2>2, <2>3, SoloEndsLeaving
<1>9. QED
  BY <1>1, <1>2, <1>3, <1>4, <1>5, <1>6, <1>7, <1>8

\* An edit takes the adapter out of what the commands answer for.
LEMMA UserSolo ==
    ASSUME LossInv, SoloInv, solo', User
    PROVE  SoloInv'
<1>0. PICK a \in Adapters, text \in {"user", "link", "absent"} : UserEdit(a, text)
  BY DEF User
<1>1. /\ solo /\ UNCHANGED <<tomb, inventory, proc, left>> /\ edited' = edited \cup {a}
      /\ \A b \in Adapters \ {a} : disk'[b] = disk[b]
  BY <1>0 DEF UserEdit, LossInv, TypeOK
<1>2. ASSUME NEW q \in Procs PROVE Alone(q)'
  <2>1. Alone(q) /\ (~Idle(q) => proc[q].adapter \in Adapters)
    BY <1>1 DEF SoloInv, LossInv, Witnessed, Idle
  <2>2. CASE Idle(q)
    BY <1>1, <2>2 DEF Alone, Idle, Installing, Removing, Changing
  <2>3. CASE ~Idle(q)
    <3>1. proc[q].adapter \notin edited' => disk'[proc[q].adapter] = disk[proc[q].adapter]
      BY <1>1, <2>1, <2>3
    <3>2. QED
      BY <1>1, <2>1, <3>1 DEF Alone
  <2>4. QED
    BY <2>2, <2>3
<1>3. \A b \in Adapters \ edited' : Changed(b)' \/ Settled(b)'
  BY <1>1 DEF SoloInv, Changed, Settled
<1>4. QED
  BY <1>1, <1>2, <1>3 DEF SoloInv, Idle

LEMMA SoloStep == LossInv /\ SoloInv /\ [Next]_vars => SoloInv'
<1> SUFFICES ASSUME LossInv, SoloInv, [Next]_vars, solo' PROVE SoloInv'
  BY DEF SoloInv
<1>1. CASE \E p \in Procs : Command(p)
  BY <1>1, InstallSolo, ToggleSolo, RemoveStartSolo, RemoveEndSolo DEF Command, Remove
<1>2. CASE \E p \in Procs : Crash(p)
  BY <1>2 DEF Crash
<1>3. CASE User
  BY <1>3, UserSolo
<1>4. CASE UNCHANGED vars
  <2>1. UNCHANGED <<disk, tomb, inventory, proc, edited, left, solo>>
    BY <1>4 DEF vars, history
  <2>2. ASSUME NEW q \in Procs PROVE Alone(q)'
    BY <2>1 DEF SoloInv, Alone
  <2>3. QED
    BY <2>1, <2>2 DEF SoloInv, Idle, Changed, Settled
<1>5. QED
  BY <1>1, <1>2, <1>3, <1>4 DEF Next

\* Between commands that neither overlap nor are killed, an adapter the user
\* never edited is recorded exactly if its guidance is in place, whichever
\* of their writes failed.
THEOREM CommandsAreAtomicHolds == Spec => []CommandsAreAtomic
<1>1. Init => SoloInv
  BY DEF Init, SoloInv, Idle, IdleProcess, EmptyInventory, Alone, Installing, Removing,
         Changing, Settled
<1>2. SoloInv => CommandsAreAtomic
  BY DEF SoloInv, CommandsAreAtomic, Idle, Changed, Changing, Settled
<1>3. QED
  BY <1>1, <1>2, LossInvariant, SoloStep, PTL DEF Spec

=============================================================================
