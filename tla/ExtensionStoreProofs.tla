-------------------------- MODULE ExtensionStoreProofs --------------------------
(***************************************************************************)
(* Proofs about ExtensionStore for every set of commands, ids and versions:*)
(* what holds while any number of commands overlap; what survives crashes  *)
(* and failing writes when commands are used one at a time; that the store *)
(* then implements the registry of ExtensionRegistry; and about            *)
(* ExtensionAdapter, for every set of adapters: that it is the same store, *)
(* and that results are earned.                                            *)
(***************************************************************************)
EXTENDS ExtensionAdapter, TLAPS

\* A record of an inventory names a slot of the store.
LEMMA SlotOfType ==
    ASSUME NEW inv \in Inventories, NEW i \in Installed(inv)
    PROVE  i \in Ids /\ SlotOf(inv, i) \in Slots
BY DEF Inventories, Installed, SlotOf, Slots, Record

\* The type invariant holds in every reachable state: no interleaving of
\* commands writes a malformed inventory or directory state.
THEOREM TypeCorrect == Spec => []TypeOK
<1> USE DEF TypeOK, Slots, Record, Inventories, Content, PCs
<1>1. Init => TypeOK
  BY DEF Init
<1>2. TypeOK /\ [Next]_vars => TypeOK'
  <2> SUFFICES ASSUME TypeOK, [Next]_vars PROVE TypeOK'
    OBVIOUS
  <2> USE DEF diskVars, historyVars
  <2>1. ASSUME NEW p \in Procs, InstallNext(p) PROVE TypeOK'
    <3>1. ASSUME NEW s \in Slots, InstallLoad(p, s) PROVE TypeOK'
      BY <3>1 DEF InstallLoad, Load
    <3>2. CASE InstallCheckDestination(p)
      <4>1. CASE Goto(p, "i_clear")
        BY <3>2, <4>1 DEF InstallCheckDestination, Goto
      <4>2. CASE Finish(p, "error")
        BY <3>2, <4>2 DEF InstallCheckDestination, Finish
      <4>3. QED
        BY <3>2, <4>1, <4>2 DEF InstallCheckDestination
    <3>3. CASE InstallPublish(p)
      BY <3>3 DEF InstallPublish, Goto
    <3>4. CASE InstallPublishFails(p)
      BY <3>4 DEF InstallPublishFails, Finish
    <3>5. CASE InstallRecord(p)
      BY <3>5 DEF InstallRecord, WithNewRecord, Finish
    <3>6. CASE InstallRefused(p)
      BY <3>6 DEF InstallRefused, Finish
    <3>7. CASE InstallRollback(p)
      BY <3>7 DEF InstallRollback, Finish
    <3>8. CASE InstallRollbackFails(p)
      <4>1. \A left \in Content : [dirs EXCEPT ![slot[p]] = left] \in [Slots -> Content]
        OBVIOUS
      <4>2. dirs' \in [Slots -> Content]
        BY <3>8, <4>1 DEF InstallRollbackFails
      <4>3. QED
        BY <3>8, <4>2 DEF InstallRollbackFails, Finish
    <3>9. QED
      BY <2>1, <3>1, <3>2, <3>3, <3>4, <3>5, <3>6, <3>7, <3>8 DEF InstallNext
  <2>2. ASSUME NEW p \in Procs, RemoveNext(p) PROVE TypeOK'
    <3>1. ASSUME NEW i \in Ids, RemoveLoad(p, i) PROVE TypeOK'
      BY <3>1 DEF RemoveLoad, Load, Installed, SlotOf
    <3>2. CASE RemovePark(p)
      BY <3>2 DEF RemovePark, Goto
    <3>3. CASE RemoveParkFails(p)
      BY <3>3 DEF RemoveParkFails, Finish
    <3>4. CASE RemoveRecord(p)
      BY <3>4 DEF RemoveRecord, WithoutRecord, Goto
    <3>5. CASE RemoveRollback(p)
      BY <3>5 DEF RemoveRollback, Finish
    <3>6. CASE RemovePurge(p)
      BY <3>6 DEF RemovePurge, Finish
    <3>7. CASE RemovePurgeFails(p)
      <4>1. \A left \in Content : [tombs EXCEPT ![slot[p]] = left] \in [Slots -> Content]
        OBVIOUS
      <4>2. tombs' \in [Slots -> Content]
        BY <3>7, <4>1 DEF RemovePurgeFails
      <4>3. QED
        BY <3>7, <4>2 DEF RemovePurgeFails, Finish
    <3>8. CASE RemoveRollbackFails(p)
      BY <3>8 DEF RemoveRollbackFails, Finish
    <3>9. QED
      BY <2>2, <3>1, <3>2, <3>3, <3>4, <3>5, <3>6, <3>7, <3>8 DEF RemoveNext
  <2>3. ASSUME NEW p \in Procs, SetEnabledNext(p) PROVE TypeOK'
    <3>1. ASSUME NEW i \in Ids, NEW e \in BOOLEAN, SetEnabledLoad(p, i, e)
          PROVE  TypeOK'
      BY <3>1 DEF SetEnabledLoad, Load, Installed, SlotOf
    <3>2. CASE SetEnabledWrite(p)
      BY <3>2 DEF SetEnabledWrite, Finish
    <3>3. CASE SetEnabledFails(p)
      BY <3>3 DEF SetEnabledFails, Finish
    <3>4. QED
      BY <2>3, <3>1, <3>2, <3>3 DEF SetEnabledNext
  <2>4. ASSUME NEW p \in Procs, RunNext(p) PROVE TypeOK'
    <3>1. ASSUME NEW s \in Slots, RunLoad(p, s) PROVE TypeOK'
      BY <3>1 DEF RunLoad, Load
    <3>2. CASE RunVerify(p)
      <4>1. CASE Goto(p, "x_verified")
        BY <3>2, <4>1 DEF RunVerify, Goto
      <4>2. CASE Finish(p, "error")
        BY <3>2, <4>2 DEF RunVerify, Finish
      <4>3. QED
        BY <3>2, <4>1, <4>2 DEF RunVerify
    <3>3. CASE RunDescribe(p)
      <4>1. CASE slot[p][1] \in Installed(inventory) /\ inventory[slot[p][1]].enabled
        <5>1. SlotOf(inventory, slot[p][1]) \in Slots
          BY <4>1, SlotOfType
        <5>2. QED
          BY <3>3, <4>1, <5>1 DEF RunDescribe
      <4>2. CASE Finish(p, "error")
        BY <3>3, <4>2 DEF RunDescribe, Finish
      <4>3. QED
        BY <3>3, <4>1, <4>2 DEF RunDescribe
    <3>4. CASE RunLaunch(p) \/ RunRefused(p)
      <4>1. ASSUME NEW result \in {"ok", "error"}, Finish(p, result),
                   UNCHANGED <<diskVars, historyVars>>
            PROVE  TypeOK'
        BY <4>1 DEF Finish
      <4>2. QED
        BY <3>4, <4>1 DEF RunLaunch, RunRefused
    <3>5. QED
      BY <2>4, <3>1, <3>2, <3>3, <3>4 DEF RunNext
  <2>5. ASSUME NEW p \in Procs, Crash(p) PROVE TypeOK'
    BY <2>5 DEF Crash, Finish
  <2>6. ASSUME NEW s \in Slots, Modify(s) PROVE TypeOK'
    BY <2>6 DEF Modify
  <2>7. CASE UNCHANGED vars
    BY <2>7 DEF vars
  <2>8. QED
    BY <2>1, <2>2, <2>3, <2>4, <2>5, <2>6, <2>7 DEF Next
<1>3. QED
  BY <1>1, <1>2, PTL DEF Spec
-------------------------------------------------------------------------------
(***************************************************************************)
(* Overlapping commands.  Recorded content can only be lost by a removal:  *)
(* the only other step that deletes a directory is the rollback of an      *)
(* install, and the directory it deletes is in nobody's copy of the        *)
(* inventory.  Every copy counts, because any copy may be written back.    *)
(***************************************************************************)

Publishing(q, s) == pc[q] = "i_published" /\ slot[q] = s

\* Content of a slot that no rollback will touch.
Safe(s) ==
    \/ s \in parked
    \/ dirs[s] # "absent" /\ \A q \in Procs : ~Publishing(q, s)

\* A command that has published a slot is alone in that.
OwnPublication(q) ==
    pc[q] = "i_published" =>
        \/ slot[q] \in parked
        \/ /\ dirs[slot[q]] # "absent"
           /\ \A r \in Procs \ {q} : ~Publishing(r, slot[q])

SafeCopy(inv) == \A i \in Installed(inv) : Safe(SlotOf(inv, i))

SwitchesItsRecord(q) ==
    pc[q] \in {"enable", "disable"} =>
        /\ slot[q][1] \in Installed(snap[q])
        /\ slot[q] = SlotOf(snap[q], slot[q][1])

PublicationInv ==
    /\ TypeOK
    /\ SafeCopy(inventory)
    /\ \A q \in Procs : SafeCopy(snap[q]) /\ OwnPublication(q) /\ SwitchesItsRecord(q)

\* A step that leaves directories and removals alone, ends p's publication
\* if it had one, and gives p and the inventory only safe copies.
LEMMA QuietStep ==
    ASSUME PublicationInv, TypeOK', NEW p \in Procs,
           dirs' = dirs, parked' = parked,
           pc' = [pc EXCEPT ![p] = pc'[p]],
           slot' = [slot EXCEPT ![p] = slot'[p]],
           snap' = [snap EXCEPT ![p] = snap'[p]],
           pc'[p] # "i_published",
           SafeCopy(inventory'), SafeCopy(snap'[p]),
           SwitchesItsRecord(p)'
    PROVE  PublicationInv'
<1> USE DEF PublicationInv
<1>1. \A q \in Procs, s \in Slots : Publishing(q, s)' => Publishing(q, s)
  BY DEF Publishing, TypeOK
<1>2. \A s \in Slots : Safe(s) => Safe(s)'
  BY <1>1 DEF Safe
<1>3. SafeCopy(inventory)'
  BY <1>2, SlotOfType DEF SafeCopy, TypeOK, SlotOf, Installed
<1>4. ASSUME NEW q \in Procs PROVE SafeCopy(snap[q])'
  <2>1. CASE q = p
    <3>1. snap'[p] \in Inventories
      BY DEF TypeOK
    <3>2. QED
      BY <2>1, <3>1, <1>2, SlotOfType DEF SafeCopy, SlotOf, Installed
  <2>2. CASE q # p
    <3>1. snap'[q] = snap[q] /\ snap[q] \in Inventories
      BY <2>2 DEF TypeOK
    <3>2. QED
      BY <3>1, <1>2, SlotOfType DEF SafeCopy, SlotOf, Installed
  <2>3. QED
    BY <2>1, <2>2
<1>5. ASSUME NEW q \in Procs PROVE OwnPublication(q)'
  <2>1. CASE q = p
    BY <2>1 DEF OwnPublication
  <2>2. CASE q # p
    <3>1. pc'[q] = pc[q] /\ slot'[q] = slot[q] /\ slot[q] \in Slots
      BY <2>2 DEF TypeOK
    <3>2. QED
      BY <3>1, <1>1 DEF OwnPublication
  <2>3. QED
    BY <2>1, <2>2
<1>6. ASSUME NEW q \in Procs PROVE SwitchesItsRecord(q)'
  <2>1. CASE q # p
    BY <2>1 DEF SwitchesItsRecord, TypeOK
  <2>2. QED
    BY <2>1
<1>7. QED
  BY <1>3, <1>4, <1>5, <1>6

\* Copies that a command may go on with.
LEMMA Copies ==
    ASSUME PublicationInv, NEW p \in Procs
    PROVE  /\ SafeCopy(inventory) /\ SafeCopy(snap[p])
           /\ SafeCopy([i \in Ids |-> NoRecord])
           /\ SafeCopy(WithoutRecord(p))
<1>1. snap[p] \in Inventories /\ slot[p] \in Slots
  BY DEF PublicationInv, TypeOK
<1>2. \A i \in Installed(WithoutRecord(p)) :
         i \in Installed(snap[p]) /\ SlotOf(WithoutRecord(p), i) = SlotOf(snap[p], i)
  BY <1>1 DEF WithoutRecord, Installed, SlotOf, Inventories, Slots
<1>3. QED
  BY <1>2 DEF PublicationInv, SafeCopy, Installed

\* A command that ends, and one that starts, never breaks the invariant
\* unless it deletes or renames a directory.
LEMMA FinishStep ==
    ASSUME PublicationInv, TypeOK', NEW p \in Procs, NEW result,
           Finish(p, result), dirs' = dirs, parked' = parked,
           SafeCopy(inventory')
    PROVE  PublicationInv'
<1>1. /\ pc' = [pc EXCEPT ![p] = pc'[p]]
      /\ pc'[p] = "idle"
      /\ slot' = [slot EXCEPT ![p] = slot'[p]]
      /\ snap' = [snap EXCEPT ![p] = snap'[p]]
      /\ snap'[p] = [i \in Ids |-> NoRecord]
  BY DEF Finish, PublicationInv, TypeOK
<1>2. SafeCopy(snap'[p])
  BY <1>1, Copies
<1>3. SwitchesItsRecord(p)'
  BY <1>1 DEF SwitchesItsRecord
<1>4. QED
  BY <1>1, <1>2, <1>3, QuietStep

LEMMA GotoStep ==
    ASSUME PublicationInv, TypeOK', NEW p \in Procs,
           NEW next \in PCs \ {"i_published", "enable", "disable"},
           Goto(p, next), dirs' = dirs, parked' = parked,
           SafeCopy(inventory')
    PROVE  PublicationInv'
<1>1. /\ pc' = [pc EXCEPT ![p] = pc'[p]]
      /\ pc'[p] = next
      /\ slot' = [slot EXCEPT ![p] = slot'[p]]
      /\ snap' = [snap EXCEPT ![p] = snap'[p]]
      /\ snap'[p] = snap[p]
  BY DEF Goto, PublicationInv, TypeOK
<1>2. SafeCopy(snap'[p])
  BY <1>1, Copies
<1>3. SwitchesItsRecord(p)'
  BY <1>1 DEF SwitchesItsRecord
<1>4. QED
  BY <1>1, <1>2, <1>3, QuietStep

LEMMA LoadStep ==
    ASSUME PublicationInv, TypeOK', NEW p \in Procs, NEW s \in Slots,
           NEW next \in PCs \ {"i_published"}, Load(p, s, next),
           next \in {"enable", "disable"} =>
               s[1] \in Installed(inventory) /\ s = SlotOf(inventory, s[1])
    PROVE  PublicationInv'
<1>1. /\ pc' = [pc EXCEPT ![p] = pc'[p]]
      /\ pc'[p] = next
      /\ slot' = [slot EXCEPT ![p] = slot'[p]]
      /\ slot'[p] = s
      /\ snap' = [snap EXCEPT ![p] = snap'[p]]
      /\ snap'[p] = inventory
      /\ dirs' = dirs /\ parked' = parked /\ inventory' = inventory
  BY DEF Load, PublicationInv, TypeOK, diskVars, historyVars
<1>2. SafeCopy(snap'[p]) /\ SafeCopy(inventory')
  BY <1>1, Copies
<1>3. SwitchesItsRecord(p)'
  BY <1>1 DEF SwitchesItsRecord, Installed, SlotOf
<1>4. QED
  BY <1>1, <1>2, <1>3, QuietStep

\* Steps that change a directory leave copies and other commands alone.
LEMMA SafetyStep ==
    ASSUME PublicationInv, TypeOK',
           inventory' = inventory, snap' = snap \/ \E p \in Procs :
               snap' = [snap EXCEPT ![p] = [i \in Ids |-> NoRecord]],
           \A s \in Slots : Safe(s) => Safe(s)'
    PROVE  SafeCopy(inventory)' /\ \A q \in Procs : SafeCopy(snap[q])'
<1> USE DEF PublicationInv
<1>1. SafeCopy(inventory)'
  BY SlotOfType DEF SafeCopy, TypeOK, SlotOf, Installed
<1>2. ASSUME NEW q \in Procs PROVE SafeCopy(snap[q])'
  <2>1. CASE snap'[q] = snap[q]
    <3>1. snap[q] \in Inventories
      BY DEF TypeOK
    <3>2. QED
      BY <2>1, <3>1, SlotOfType DEF SafeCopy, SlotOf, Installed
  <2>2. CASE snap'[q] = [i \in Ids |-> NoRecord]
    BY <2>2 DEF SafeCopy, Installed
  <2>3. QED
    BY <2>1, <2>2 DEF TypeOK
<1>3. QED
  BY <1>1, <1>2

LEMMA PublishStep ==
    ASSUME PublicationInv, TypeOK', NEW p \in Procs, InstallPublish(p)
    PROVE  PublicationInv'
<1> USE DEF PublicationInv
<1>1. /\ pc[p] = "i_clear" /\ pc' = [pc EXCEPT ![p] = "i_published"]
      /\ slot' = slot /\ snap' = snap /\ inventory' = inventory /\ parked' = parked
      /\ slot[p] \in Slots /\ dirs[slot[p]] = "absent"
      /\ dirs' = [dirs EXCEPT ![slot[p]] = "intact"]
  BY DEF InstallPublish, Goto, historyVars, TypeOK
<1>2. \A q \in Procs, s \in Slots :
         Publishing(q, s)' => Publishing(q, s) \/ (q = p /\ s = slot[p])
  BY <1>1 DEF Publishing, TypeOK
<1>3. \A s \in Slots : Safe(s) => Safe(s)'
  BY <1>1, <1>2 DEF Safe, TypeOK
<1>4. SafeCopy(inventory)' /\ \A q \in Procs : SafeCopy(snap[q])'
  BY <1>1, <1>3, SafetyStep
<1>5. ASSUME NEW q \in Procs PROVE OwnPublication(q)'
  <2>1. CASE q = p
    <3>1. slot'[p] = slot[p] /\ dirs'[slot[p]] = "intact"
      BY <1>1 DEF TypeOK
    <3>2. ASSUME NEW r \in Procs \ {p}, Publishing(r, slot[p])
          PROVE  slot[p] \in parked
      BY <1>1, <3>2 DEF OwnPublication, Publishing
    <3>3. QED
      BY <1>1, <1>2, <2>1, <3>1, <3>2 DEF OwnPublication
  <2>2. CASE q # p
    <3>1. pc'[q] = pc[q] /\ slot'[q] = slot[q] /\ slot[q] \in Slots
      BY <1>1, <2>2 DEF TypeOK
    <3>2. QED
      BY <1>1, <1>2, <3>1, <2>2 DEF OwnPublication, TypeOK
  <2>3. QED
    BY <2>1, <2>2
<1>6. ASSUME NEW q \in Procs PROVE SwitchesItsRecord(q)'
  BY <1>1 DEF SwitchesItsRecord, TypeOK
<1>7. QED
  BY <1>4, <1>5, <1>6

LEMMA InstallRecordStep ==
    ASSUME PublicationInv, TypeOK', NEW p \in Procs, InstallRecord(p)
    PROVE  PublicationInv'
<1> USE DEF PublicationInv
<1>1. /\ pc[p] = "i_published" /\ pc' = [pc EXCEPT ![p] = "idle"]
      /\ slot' = slot /\ inventory' = WithNewRecord(p)
      /\ snap' = [snap EXCEPT ![p] = [i \in Ids |-> NoRecord]]
      /\ dirs' = dirs /\ parked' = parked
      /\ slot[p] \in Slots /\ snap[p] \in Inventories
  BY DEF InstallRecord, Finish, historyVars, TypeOK
<1>2. \A q \in Procs, s \in Slots :
         Publishing(q, s)' => Publishing(q, s) /\ q # p
  BY <1>1 DEF Publishing, TypeOK
<1>3. \A s \in Slots : Safe(s) => Safe(s)'
  BY <1>1, <1>2 DEF Safe
<1>4. ASSUME NEW s \in Slots, s = slot[p] PROVE Safe(s)'
  BY <1>1, <1>2, <1>4 DEF Safe, OwnPublication
<1>5. \A i \in Installed(inventory') :
         \/ SlotOf(inventory', i) = slot[p]
         \/ i \in Installed(snap[p]) /\ SlotOf(inventory', i) = SlotOf(snap[p], i)
  BY <1>1 DEF WithNewRecord, Installed, SlotOf, Inventories, Slots
<1>6. SafeCopy(inventory)'
  <2>1. inventory' \in Inventories
    BY DEF TypeOK
  <2>2. \A i \in Installed(snap[p]) : Safe(SlotOf(snap[p], i))
    BY DEF SafeCopy
  <2>3. ASSUME NEW i \in Installed(inventory')
        PROVE  \A s \in Slots : s = SlotOf(inventory', i) => Safe(s)'
    BY <1>3, <1>4, <1>5, <2>2
  <2>4. QED
    BY <2>1, <2>3, SlotOfType DEF SafeCopy
<1>7. ASSUME NEW q \in Procs PROVE SafeCopy(snap[q])'
  BY <1>1, <1>3, SlotOfType DEF SafeCopy, TypeOK, SlotOf, Installed
<1>8. ASSUME NEW q \in Procs PROVE OwnPublication(q)' /\ SwitchesItsRecord(q)'
  BY <1>1, <1>2 DEF OwnPublication, SwitchesItsRecord, TypeOK
<1>9. QED
  BY <1>6, <1>7, <1>8

LEMMA InstallRollbackStep ==
    ASSUME PublicationInv, TypeOK', NEW p \in Procs, InstallRollback(p)
    PROVE  PublicationInv'
<1> USE DEF PublicationInv
<1>1. /\ pc[p] = "i_published" /\ pc' = [pc EXCEPT ![p] = "idle"]
      /\ slot' = slot /\ inventory' = inventory
      /\ snap' = [snap EXCEPT ![p] = [i \in Ids |-> NoRecord]]
      /\ dirs' = [dirs EXCEPT ![slot[p]] = "absent"] /\ parked' = parked
      /\ slot[p] \in Slots
  BY DEF InstallRollback, Finish, historyVars, TypeOK
<1>2. \A q \in Procs, s \in Slots :
         Publishing(q, s)' => Publishing(q, s) /\ q # p
  BY <1>1 DEF Publishing, TypeOK
<1>3. \A s \in Slots : Safe(s) => Safe(s)'
  BY <1>1, <1>2 DEF Safe, Publishing, TypeOK
<1>4. SafeCopy(inventory)' /\ \A q \in Procs : SafeCopy(snap[q])'
  BY <1>1, <1>3, SafetyStep
<1>5. ASSUME NEW q \in Procs PROVE OwnPublication(q)'
  <2>1. CASE q # p /\ pc[q] = "i_published" /\ slot[q] \notin parked
    <3>1. pc'[q] = pc[q] /\ slot'[q] = slot[q] /\ slot[q] \in Slots
      BY <1>1, <2>1 DEF TypeOK
    <3>2. slot[q] # slot[p]
      BY <1>1, <2>1 DEF OwnPublication, Publishing
    <3>3. dirs'[slot[q]] = dirs[slot[q]]
      BY <1>1, <3>1, <3>2 DEF TypeOK
    <3>4. QED
      BY <1>2, <2>1, <3>1, <3>3 DEF OwnPublication
  <2>2. CASE q = p \/ pc[q] # "i_published" \/ slot[q] \in parked
    BY <1>1, <2>2 DEF OwnPublication, TypeOK
  <2>3. QED
    BY <2>1, <2>2
<1>6. ASSUME NEW q \in Procs PROVE SwitchesItsRecord(q)'
  BY <1>1 DEF SwitchesItsRecord, TypeOK
<1>7. QED
  BY <1>4, <1>5, <1>6

LEMMA ParkStep ==
    ASSUME PublicationInv, TypeOK', NEW p \in Procs, RemovePark(p)
    PROVE  PublicationInv'
<1> USE DEF PublicationInv
<1>1. /\ pc' = [pc EXCEPT ![p] = "r_parked"]
      /\ slot' = slot /\ snap' = snap /\ inventory' = inventory
      /\ dirs' = [dirs EXCEPT ![slot[p]] = "absent"]
      /\ parked' = parked \cup {slot[p]}
      /\ slot[p] \in Slots
  BY DEF RemovePark, Goto, TypeOK
<1>2. \A q \in Procs, s \in Slots : Publishing(q, s)' => Publishing(q, s)
  BY <1>1 DEF Publishing, TypeOK
<1>3. \A s \in Slots : Safe(s) => Safe(s)'
  BY <1>1, <1>2 DEF Safe, TypeOK
<1>4. SafeCopy(inventory)' /\ \A q \in Procs : SafeCopy(snap[q])'
  BY <1>1, <1>3, SafetyStep
<1>5. ASSUME NEW q \in Procs PROVE OwnPublication(q)' /\ SwitchesItsRecord(q)'
  BY <1>1, <1>2 DEF OwnPublication, SwitchesItsRecord, TypeOK
<1>6. QED
  BY <1>4, <1>5

\* A command that gives up and takes no directory away.
LEMMA KeepingStep ==
    ASSUME PublicationInv, TypeOK', NEW p \in Procs, Finish(p, "error"),
           UNCHANGED <<inventory, parked>>,
           \A s \in Slots : dirs[s] # "absent" => dirs'[s] # "absent"
    PROVE  PublicationInv'
<1> USE DEF PublicationInv
<1>1. /\ pc' = [pc EXCEPT ![p] = "idle"]
      /\ slot' = slot /\ inventory' = inventory
      /\ snap' = [snap EXCEPT ![p] = [i \in Ids |-> NoRecord]]
      /\ parked' = parked
  BY DEF Finish
<1>2. \A s \in Slots : dirs[s] # "absent" => dirs'[s] # "absent"
  OBVIOUS
<1>3. \A q \in Procs, s \in Slots : Publishing(q, s)' => Publishing(q, s)
  BY <1>1 DEF Publishing, TypeOK
<1>4. \A s \in Slots : Safe(s) => Safe(s)'
  BY <1>1, <1>2, <1>3 DEF Safe
<1>5. SafeCopy(inventory)' /\ \A q \in Procs : SafeCopy(snap[q])'
  BY <1>1, <1>4, SafetyStep
<1>6. ASSUME NEW q \in Procs PROVE OwnPublication(q)' /\ SwitchesItsRecord(q)'
  BY <1>1, <1>2, <1>3 DEF OwnPublication, SwitchesItsRecord, TypeOK
<1>7. QED
  BY <1>5, <1>6

LEMMA RollbackStep ==
    ASSUME PublicationInv, TypeOK', NEW p \in Procs,
           RemoveRollback(p) \/ RemoveRollbackFails(p) \/ InstallRollbackFails(p)
    PROVE  PublicationInv'
<1>1. slot[p] \in Slots /\ dirs \in [Slots -> Content]
  BY DEF PublicationInv, TypeOK
<1>2. CASE RemoveRollback(p)
  <2>1. \A s \in Slots : dirs[s] # "absent" => dirs'[s] # "absent"
    BY <1>1, <1>2 DEF RemoveRollback
  <2>2. QED
    BY <1>2, <2>1, KeepingStep DEF RemoveRollback, historyVars
<1>3. CASE RemoveRollbackFails(p)
  BY <1>3, KeepingStep DEF RemoveRollbackFails, diskVars
<1>4. CASE InstallRollbackFails(p)
  <2>1. PICK left \in {dirs[slot[p]], "modified"} : dirs' = [dirs EXCEPT ![slot[p]] = left]
    BY <1>4 DEF InstallRollbackFails
  <2>2. \A s \in Slots : dirs[s] # "absent" => dirs'[s] # "absent"
    BY <1>1, <2>1
  <2>3. QED
    BY <1>4, <2>2, KeepingStep DEF InstallRollbackFails
<1>5. QED
  BY <1>2, <1>3, <1>4

LEMMA ModifyStep ==
    ASSUME PublicationInv, TypeOK', NEW s \in Slots, Modify(s)
    PROVE  PublicationInv'
<1> USE DEF PublicationInv
<1>1. UNCHANGED <<inventory, tombs, pc, slot, snap, parked>>
  BY DEF Modify, historyVars
<1>2. \A t \in Slots : dirs[t] # "absent" => dirs'[t] # "absent"
  BY DEF Modify, TypeOK
<1>3. \A q \in Procs, t \in Slots : Publishing(q, t)' <=> Publishing(q, t)
  BY <1>1 DEF Publishing
<1>4. \A t \in Slots : Safe(t) => Safe(t)'
  BY <1>1, <1>2, <1>3 DEF Safe
<1>5. SafeCopy(inventory)' /\ \A q \in Procs : SafeCopy(snap[q])'
  BY <1>1, <1>4, SafetyStep
<1>6. ASSUME NEW q \in Procs PROVE OwnPublication(q)' /\ SwitchesItsRecord(q)'
  BY <1>1, <1>2, <1>3 DEF OwnPublication, SwitchesItsRecord, TypeOK
<1>7. QED
  BY <1>5, <1>6

\* Whatever commands overlap, fail or die: a directory the inventory points
\* at is missing only if a removal has moved it aside.
THEOREM OnlyRemovalLosesContentHolds == Spec => []OnlyRemovalLosesContent
<1>1. Init => PublicationInv
  BY DEF Init, PublicationInv, TypeOK, Slots, Inventories, Content, PCs, SafeCopy,
         Installed, OwnPublication, SwitchesItsRecord
<1>2. PublicationInv /\ TypeOK' /\ [Next]_vars => PublicationInv'
  <2> SUFFICES ASSUME PublicationInv, TypeOK', [Next]_vars PROVE PublicationInv'
    OBVIOUS
  <2> USE DEF diskVars, historyVars
  <2>1. ASSUME NEW p \in Procs, InstallNext(p) PROVE PublicationInv'
    <3>1. ASSUME NEW s \in Slots, InstallLoad(p, s) PROVE PublicationInv'
      BY <3>1, LoadStep DEF InstallLoad, PCs
    <3>2. CASE InstallCheckDestination(p)
      BY <3>2, Copies, GotoStep, FinishStep DEF InstallCheckDestination, PCs
    <3>3. CASE InstallPublishFails(p)
      BY <3>3, Copies, FinishStep DEF InstallPublishFails
    <3>4. CASE InstallRefused(p)
      BY <3>4, Copies, FinishStep DEF InstallRefused
    <3>5. QED
      BY <2>1, <3>1, <3>2, <3>3, <3>4, PublishStep, InstallRecordStep,
         InstallRollbackStep, RollbackStep DEF InstallNext
  <2>2. ASSUME NEW p \in Procs, RemoveNext(p) PROVE PublicationInv'
    <3>1. ASSUME NEW i \in Ids, RemoveLoad(p, i) PROVE PublicationInv'
      <4>1. SlotOf(inventory, i) \in Slots
        BY <3>1, SlotOfType DEF RemoveLoad, PublicationInv, TypeOK
      <4>2. QED
        BY <3>1, <4>1, LoadStep DEF RemoveLoad, PCs
    <3>2. CASE RemoveParkFails(p)
      BY <3>2, Copies, FinishStep DEF RemoveParkFails
    <3>3. CASE RemoveRecord(p)
      BY <3>3, Copies, GotoStep DEF RemoveRecord, PCs
    <3>4. CASE RemovePurge(p)
      BY <3>4, Copies, FinishStep DEF RemovePurge
    <3>5. CASE RemovePurgeFails(p)
      BY <3>5, Copies, FinishStep DEF RemovePurgeFails
    <3>6. QED
      BY <2>2, <3>1, <3>2, <3>3, <3>4, <3>5, ParkStep, RollbackStep
         DEF RemoveNext
  <2>3. ASSUME NEW p \in Procs, SetEnabledNext(p) PROVE PublicationInv'
    <3>1. ASSUME NEW i \in Ids, NEW e \in BOOLEAN, SetEnabledLoad(p, i, e)
          PROVE  PublicationInv'
      <4>1. SlotOf(inventory, i) \in Slots
        BY <3>1, SlotOfType DEF SetEnabledLoad, PublicationInv, TypeOK
      <4>2. i \in Installed(inventory) /\ SlotOf(inventory, i)[1] = i
        BY <3>1 DEF SetEnabledLoad, SlotOf
      <4>3. QED
        BY <3>1, <4>1, <4>2, LoadStep DEF SetEnabledLoad, PCs
    <3>2. CASE SetEnabledWrite(p)
      <4>1. snap[p] \in Inventories /\ slot[p] \in Slots
        BY DEF PublicationInv, TypeOK
      <4>2. \A i \in Installed(inventory') :
               i \in Installed(snap[p]) /\ SlotOf(inventory', i) = SlotOf(snap[p], i)
        BY <3>2, <4>1 DEF SetEnabledWrite, PublicationInv, SwitchesItsRecord,
           Installed, SlotOf, Inventories, Slots
      <4>3. SafeCopy(inventory')
        BY <4>2, Copies DEF SafeCopy
      <4>4. QED
        BY <3>2, <4>3, FinishStep DEF SetEnabledWrite
    <3>3. CASE SetEnabledFails(p)
      BY <3>3, Copies, FinishStep DEF SetEnabledFails
    <3>4. QED
      BY <2>3, <3>1, <3>2, <3>3 DEF SetEnabledNext
  <2>4. ASSUME NEW p \in Procs, RunNext(p) PROVE PublicationInv'
    <3>1. ASSUME NEW s \in Slots, RunLoad(p, s) PROVE PublicationInv'
      BY <3>1, LoadStep DEF RunLoad, PCs
    <3>2. CASE RunVerify(p)
      BY <3>2, Copies, GotoStep, FinishStep DEF RunVerify, PCs
    <3>3. CASE RunDescribe(p)
      <4>1. CASE Finish(p, "error")
        BY <3>3, <4>1, Copies, FinishStep DEF RunDescribe
      <4>2. CASE pc' = [pc EXCEPT ![p] = "x_described"] /\ UNCHANGED snap
                 /\ slot' = [slot EXCEPT ![p] = SlotOf(inventory, slot[p][1])]
        <5>1. /\ pc' = [pc EXCEPT ![p] = pc'[p]] /\ pc'[p] = "x_described"
              /\ slot' = [slot EXCEPT ![p] = slot'[p]]
              /\ snap' = [snap EXCEPT ![p] = snap'[p]] /\ snap'[p] = snap[p]
              /\ dirs' = dirs /\ parked' = parked /\ inventory' = inventory
          BY <3>3, <4>2 DEF RunDescribe, PublicationInv, TypeOK
        <5>2. SafeCopy(inventory') /\ SafeCopy(snap'[p]) /\ SwitchesItsRecord(p)'
          BY <5>1, Copies DEF SwitchesItsRecord
        <5>3. QED
          BY <5>1, <5>2, QuietStep
      <4>3. QED
        BY <3>3, <4>1, <4>2 DEF RunDescribe
    <3>4. CASE RunLaunch(p) \/ RunRefused(p)
      BY <3>4, Copies, FinishStep DEF RunLaunch, RunRefused
    <3>5. QED
      BY <2>4, <3>1, <3>2, <3>3, <3>4 DEF RunNext
  <2>5. ASSUME NEW p \in Procs, Crash(p) PROVE PublicationInv'
    BY <2>5, Copies, FinishStep DEF Crash
  <2>6. CASE UNCHANGED vars
    BY <2>6 DEF vars, PublicationInv, SafeCopy, Safe, Publishing, OwnPublication,
       SwitchesItsRecord, Installed, SlotOf
  <2>7. QED
    BY <2>1, <2>2, <2>3, <2>4, <2>5, <2>6, ModifyStep DEF Next
<1>3. PublicationInv => OnlyRemovalLosesContent
  BY DEF PublicationInv, SafeCopy, Safe, OnlyRemovalLosesContent, Recorded
<1>4. QED
  BY <1>1, <1>2, <1>3, TypeCorrect, PTL DEF Spec

\* Whatever commands overlap, fail or die: a directory is published where nothing
\* is, restored where nothing is, or taken away, in whole or in part, and never
\* written over.
THEOREM NeverOverwrittenHolds == Spec => NeverOverwritten
<1> DEFINE Never == \A s \in Slots : dirs[s] # "absent" =>
                       \/ dirs'[s] \in {dirs[s], "absent"}
                       \/ /\ dirs[s] = "intact" /\ dirs'[s] = "modified"
                          /\ Modify(s) \/ \E p \in Procs : slot[p] = s /\ InstallRollbackFails(p)
<1>1. TypeOK /\ [Next]_vars => Never
  <2> SUFFICES ASSUME TypeOK, [Next]_vars PROVE Never
    OBVIOUS
  <2> SUFFICES ASSUME NEW s \in Slots, dirs[s] # "absent"
               PROVE  \/ dirs'[s] \in {dirs[s], "absent"}
                      \/ /\ dirs[s] = "intact" /\ dirs'[s] = "modified"
                         /\ Modify(s) \/ \E p \in Procs : slot[p] = s /\ InstallRollbackFails(p)
    OBVIOUS
  <2> DEFINE Kept == dirs'[s] \in {dirs[s], "absent"}
             Spoilt == dirs[s] = "intact" /\ dirs'[s] = "modified"
  <2> USE DEF diskVars, TypeOK
  <2>1. ASSUME NEW p \in Procs, InstallNext(p), ~InstallRollbackFails(p) PROVE Kept
    BY <2>1 DEF InstallNext, InstallLoad, Load, InstallCheckDestination, InstallPublish,
                InstallPublishFails, InstallRecord, InstallRefused, InstallRollback
  <2>2. ASSUME NEW p \in Procs, RemoveNext(p) PROVE Kept
    BY <2>2 DEF RemoveNext, RemoveLoad, Load, RemovePark, RemoveParkFails, RemoveRecord,
                RemoveRollback, RemoveRollbackFails, RemovePurge, RemovePurgeFails
  \* Nothing else touches the directories.
  <2>3. ASSUME \/ \E p \in Procs : SetEnabledNext(p) \/ RunNext(p) \/ Crash(p)
               \/ UNCHANGED vars
        PROVE  dirs' = dirs
    BY <2>3 DEF SetEnabledNext, SetEnabledLoad, Load, SetEnabledWrite, SetEnabledFails, RunNext,
                RunLoad, RunVerify, RunDescribe, RunLaunch, RunRefused, Crash, vars
  <2>4. ASSUME NEW t \in Slots, Modify(t) PROVE Kept \/ (Spoilt /\ Modify(s))
    <3>1. CASE t = s
      BY <2>4, <3>1 DEF Modify
    <3>2. CASE t # s
      BY <2>4, <3>2 DEF Modify
    <3>3. QED
      BY <3>1, <3>2
  <2>5. ASSUME NEW p \in Procs, InstallRollbackFails(p) PROVE Kept \/ (Spoilt /\ slot[p] = s)
    <3>1. PICK left \in {dirs[slot[p]], "modified"} : dirs' = [dirs EXCEPT ![slot[p]] = left]
      BY <2>5 DEF InstallRollbackFails
    <3>2. dirs'[s] = dirs[s] \/ (slot[p] = s /\ dirs'[s] = "modified")
      <4>1. CASE s = slot[p]
        BY <3>1, <4>1
      <4>2. CASE s # slot[p]
        BY <3>1, <4>2
      <4>3. QED
        BY <4>1, <4>2
    <3>3. dirs[s] \in {"intact", "modified"}
      BY DEF Content
    <3>4. QED
      BY <3>2, <3>3
  <2>6. QED
    BY <2>1, <2>2, <2>3, <2>4, <2>5 DEF Next
<1>2. QED
  BY <1>1, TypeCorrect, PTL DEF Spec, NeverOverwritten

---------------------------------------------------------------------------------
(* Commands one at a time                                                  *)

Alone == \A p, q \in Procs : pc[p] # "idle" /\ pc[q] # "idle" => p = q

IsRecorded(s) == inventory[s[1]] # NoRecord /\ inventory[s[1]].version = s[2]

\* What an active command knows about the slot it works on.
Stage(p) ==
    /\ pc[p] \notin {"idle", "r_recorded"} => snap[p] = inventory
    /\ pc[p] \in {"i_loaded", "i_clear", "i_published", "r_recorded"} =>
           inventory[slot[p][1]] = NoRecord
    /\ pc[p] = "i_published" =>
           dirs[slot[p]] = "intact" /\ (slot[p] \in struck \/ tombs[slot[p]] = "absent")
    /\ pc[p] \in {"r_loaded", "r_parked", "enable", "disable", "x_described"} =>
           IsRecorded(slot[p])
    /\ pc[p] \in {"r_parked", "r_recorded"} =>
           dirs[slot[p]] = "absent" /\ tombs[slot[p]] # "absent"
    /\ pc[p] \in {"x_verified", "x_described"} =>
           \A s \in Slots : IsRecorded(s) => dirs[s] = "intact"
    /\ pc[p] = "x_described" => inventory[slot[p][1]].enabled

Between(s) ==
    \E p \in Procs : pc[p] \in {"i_published", "r_parked", "r_recorded"} /\ slot[p] = s

\* A slot nobody is changing and no command was cut short at.
Settled(s) ==
    \/ s \in struck
    \/ Between(s)
    \/ (dirs[s] # "absent" <=> IsRecorded(s)) /\ tombs[s] = "absent"

Kept(s) == IsRecorded(s) => dirs[s] # "absent" \/ tombs[s] # "absent"

SerialInv ==
    Serialised =>
        /\ Alone
        /\ \A p \in Procs : Stage(p)
        /\ \A s \in Slots : Settled(s) /\ Kept(s)

Changing == {"i_published", "r_parked", "r_recorded"}

\* With commands one at a time, a step of p need only be looked at for p.
LEMMA StepOfOne ==
    ASSUME TypeOK, Serialised, SerialInv, NEW p \in Procs,
           pc[p] # "idle" \/ MayStart(p),
           pc' = [pc EXCEPT ![p] = pc'[p]],
           Stage(p)',
           \A s \in Slots : Settled(s)' /\ Kept(s)'
    PROVE  SerialInv'
<1>1. \A q \in Procs \ {p} : pc[q] = "idle"
  BY DEF SerialInv, Alone, MayStart
<1>2. \A q \in Procs \ {p} : pc'[q] = "idle"
  BY <1>1 DEF TypeOK
<1>3. \A q \in Procs \ {p} : Stage(q)'
  BY <1>2 DEF Stage
<1>4. Alone'
  BY <1>2 DEF Alone
<1>5. QED
  BY <1>3, <1>4 DEF SerialInv

LEMMA BetweenIsHere ==
    ASSUME TypeOK, Serialised, SerialInv, NEW p \in Procs,
           pc[p] # "idle" \/ MayStart(p), NEW s \in Slots
    PROVE  Between(s) <=> pc[p] \in Changing /\ slot[p] = s
BY DEF SerialInv, Alone, MayStart, Between, Changing

\* A step that changes neither disk nor inventory, outside a change.
LEMMA ReadOnlyStep ==
    ASSUME TypeOK, Serialised, SerialInv, NEW p \in Procs,
           pc[p] # "idle" \/ MayStart(p),
           pc[p] \notin Changing,
           pc' = [pc EXCEPT ![p] = pc'[p]],
           UNCHANGED <<diskVars, struck>>,
           Stage(p)'
    PROVE  SerialInv'
<1>1. \A s \in Slots : ~Between(s)
  BY BetweenIsHere
<1>2. \A s \in Slots : Settled(s)' /\ Kept(s)'
  BY <1>1 DEF SerialInv, Settled, Kept, IsRecorded, diskVars
<1>3. QED
  BY <1>2, StepOfOne

LEMMA FinishReadOnly ==
    ASSUME TypeOK, Serialised, SerialInv, NEW p \in Procs, NEW result,
           pc[p] # "idle", pc[p] \notin Changing,
           Finish(p, result), UNCHANGED <<diskVars, struck>>
    PROVE  SerialInv'
<1>1. pc' = [pc EXCEPT ![p] = pc'[p]] /\ pc'[p] = "idle"
  BY DEF Finish, TypeOK
<1>2. Stage(p)'
  BY <1>1 DEF Stage
<1>3. QED
  BY <1>1, <1>2, ReadOnlyStep

\* Giving up in the middle of a change strikes the slot.  What the slot held
\* may be spoilt by then, but is not gone.
LEMMA FinishStruck ==
    ASSUME TypeOK, Serialised, SerialInv, NEW p \in Procs, NEW result,
           pc[p] \in Changing, Finish(p, result), inventory' = inventory,
           \A s \in Slots : dirs'[s] = "absent" <=> dirs[s] = "absent",
           \A s \in Slots : tombs'[s] = "absent" <=> tombs[s] = "absent",
           struck' = struck \cup {slot[p]}
    PROVE  SerialInv'
<1>1. pc' = [pc EXCEPT ![p] = pc'[p]] /\ pc'[p] = "idle" /\ pc[p] # "idle"
  BY DEF Finish, TypeOK, Changing
<1>2. Stage(p)'
  BY <1>1 DEF Stage
<1>3. \A s \in Slots : Between(s) => s = slot[p]
  BY <1>1, BetweenIsHere
<1>4. \A s \in Slots : Settled(s)' /\ Kept(s)'
  BY <1>3 DEF SerialInv, Settled, Kept, IsRecorded
<1>5. QED
  BY <1>1, <1>2, <1>4, StepOfOne

LEMMA LoadSerial ==
    ASSUME TypeOK, Serialised, SerialInv, NEW p \in Procs, NEW s \in Slots,
           NEW next \in PCs \ {"i_published", "r_parked", "r_recorded",
                               "x_verified", "x_described"},
           Load(p, s, next),
           next \in {"i_loaded", "i_clear"} => inventory[s[1]] = NoRecord,
           next \in {"r_loaded", "enable", "disable"} => IsRecorded(s)
    PROVE  SerialInv'
<1>1. /\ pc' = [pc EXCEPT ![p] = pc'[p]] /\ pc'[p] = next
      /\ slot'[p] = s /\ snap'[p] = inventory
      /\ UNCHANGED <<diskVars, struck>>
      /\ pc[p] \notin Changing /\ MayStart(p)
  BY DEF Load, TypeOK, historyVars, MayStart, Changing
<1>2. Stage(p)'
  BY <1>1 DEF Stage, diskVars, IsRecorded
<1>3. QED
  BY <1>1, <1>2, ReadOnlyStep

-------------------------------------------------------------------------------
(* The steps that change the disk or the inventory *)

\* Two slots of one id differ in their version.
LEMMA SlotEquality ==
    ASSUME NEW s \in Slots, NEW t \in Slots, s[1] = t[1], s[2] = t[2]
    PROVE  s = t
BY DEF Slots

\* Publishing fills a slot that was settled and empty.
LEMMA PublishSerial ==
    ASSUME TypeOK, Serialised, SerialInv, NEW p \in Procs, InstallPublish(p)
    PROVE  SerialInv'
<1>1. /\ pc[p] = "i_clear" /\ pc[p] # "idle" /\ pc' = [pc EXCEPT ![p] = pc'[p]]
      /\ pc'[p] = "i_published" /\ slot' = slot /\ slot[p] \in Slots
      /\ dirs' = [dirs EXCEPT ![slot[p]] = "intact"] /\ dirs[slot[p]] = "absent"
      /\ UNCHANGED <<snap, inventory, tombs, struck>>
  BY DEF InstallPublish, Goto, TypeOK, historyVars
<1>2. \A s \in Slots : ~Between(s)
  BY <1>1, BetweenIsHere DEF Changing
<1>3. dirs'[slot[p]] = "intact" /\ \A s \in Slots \ {slot[p]} : dirs'[s] = dirs[s]
  BY <1>1 DEF TypeOK
<1>4. Stage(p)'
  <2>1. Stage(p) /\ Settled(slot[p])
    BY <1>1 DEF SerialInv
  <2>2. QED
    BY <1>1, <1>2, <1>3, <2>1 DEF Stage, Settled
<1>5. \A s \in Slots : Settled(s)' /\ Kept(s)'
  BY <1>1, <1>2, <1>3 DEF SerialInv, Settled, Kept, IsRecorded, Between
<1>6. QED
  BY <1>1, <1>4, <1>5, StepOfOne

\* Recording what was published settles the slot.
LEMMA RecordSerial ==
    ASSUME TypeOK, Serialised, SerialInv, NEW p \in Procs, InstallRecord(p)
    PROVE  SerialInv'
<1>1. /\ pc[p] = "i_published" /\ pc[p] # "idle" /\ pc' = [pc EXCEPT ![p] = pc'[p]]
      /\ pc'[p] = "idle" /\ slot[p] \in Slots /\ slot[p][1] \in Ids
      /\ inventory' = WithNewRecord(p) /\ UNCHANGED <<dirs, tombs, struck>>
  BY DEF InstallRecord, Finish, TypeOK, historyVars, Slots
<1>2. Stage(p)
  BY DEF SerialInv
<1>3. /\ snap[p] = inventory /\ inventory[slot[p][1]] = NoRecord
      /\ dirs[slot[p]] = "intact" /\ (slot[p] \in struck \/ tombs[slot[p]] = "absent")
  BY <1>1, <1>2 DEF Stage
<1>4. \A s \in Slots : IsRecorded(s)' <=> s = slot[p] \/ IsRecorded(s)
  <2>1. inventory' = [inventory EXCEPT ![slot[p][1]] =
                        [version |-> slot[p][2], enabled |-> TRUE]]
    BY <1>1, <1>3 DEF WithNewRecord
  <2>2. [version |-> slot[p][2], enabled |-> TRUE] # NoRecord
    <3>1. [version |-> slot[p][2], enabled |-> TRUE] \in Record
      BY <1>1 DEF Slots, Record
    <3>2. QED
      BY <3>1, StoreAssumption
  <2>3. \A s \in Slots : s[1] = slot[p][1] => (IsRecorded(s)' <=> s = slot[p])
    BY <1>1, <2>1, <2>2, SlotEquality DEF TypeOK, Inventories, IsRecorded
  <2>4. \A s \in Slots : s[1] # slot[p][1] => (IsRecorded(s)' <=> IsRecorded(s))
    BY <2>1 DEF TypeOK, Inventories, IsRecorded
  <2>5. QED
    BY <1>3, <2>3, <2>4 DEF IsRecorded
<1>5. \A s \in Slots : Settled(s)' /\ Kept(s)'
  <2>1. \A s \in Slots : Between(s) => s = slot[p]
    BY <1>1, BetweenIsHere
  <2>2. QED
    BY <1>1, <1>3, <1>4, <2>1 DEF SerialInv, Settled, Kept
<1>6. Stage(p)'
  BY <1>1 DEF Stage
<1>7. QED
  BY <1>1, <1>5, <1>6, StepOfOne

\* Taking the published directory away again settles the slot as empty.
LEMMA InstallRollbackSerial ==
    ASSUME TypeOK, Serialised, SerialInv, NEW p \in Procs, InstallRollback(p)
    PROVE  SerialInv'
<1>1. /\ pc[p] = "i_published" /\ pc[p] # "idle" /\ pc' = [pc EXCEPT ![p] = pc'[p]]
      /\ pc'[p] = "idle" /\ slot[p] \in Slots
      /\ dirs' = [dirs EXCEPT ![slot[p]] = "absent"]
      /\ UNCHANGED <<inventory, tombs, struck>>
  BY DEF InstallRollback, Finish, TypeOK, historyVars
<1>2. /\ inventory[slot[p][1]] = NoRecord
      /\ slot[p] \in struck \/ tombs[slot[p]] = "absent"
  BY <1>1 DEF SerialInv, Stage
<1>3. dirs'[slot[p]] = "absent" /\ \A s \in Slots \ {slot[p]} : dirs'[s] = dirs[s]
  BY <1>1 DEF TypeOK
<1>4. \A s \in Slots : Settled(s)' /\ Kept(s)'
  <2>1. \A s \in Slots : Between(s) => s = slot[p]
    BY <1>1, BetweenIsHere
  <2>2. QED
    BY <1>1, <1>2, <1>3, <2>1 DEF SerialInv, Settled, Kept, IsRecorded
<1>5. Stage(p)'
  BY <1>1 DEF Stage
<1>6. QED
  BY <1>1, <1>4, <1>5, StepOfOne

\* Parking keeps the content, next to its place.
LEMMA ParkSerial ==
    ASSUME TypeOK, Serialised, SerialInv, NEW p \in Procs, RemovePark(p)
    PROVE  SerialInv'
<1>1. /\ pc[p] = "r_loaded" /\ pc[p] # "idle" /\ pc' = [pc EXCEPT ![p] = pc'[p]]
      /\ pc'[p] = "r_parked" /\ slot' = slot /\ slot[p] \in Slots
      /\ dirs[slot[p]] # "absent"
      /\ dirs' = [dirs EXCEPT ![slot[p]] = "absent"]
      /\ tombs' = [tombs EXCEPT ![slot[p]] = dirs[slot[p]]]
      /\ UNCHANGED <<inventory, snap, struck>>
  BY DEF RemovePark, Goto, TypeOK
<1>2. /\ dirs'[slot[p]] = "absent" /\ tombs'[slot[p]] # "absent"
      /\ \A s \in Slots \ {slot[p]} : dirs'[s] = dirs[s] /\ tombs'[s] = tombs[s]
  BY <1>1 DEF TypeOK
<1>3. Stage(p)'
  BY <1>1, <1>2 DEF SerialInv, Stage, IsRecorded
<1>4. \A s \in Slots : Settled(s)' /\ Kept(s)'
  <2>1. \A s \in Slots : ~Between(s)
    BY <1>1, BetweenIsHere DEF Changing
  <2>2. QED
    BY <1>1, <1>2, <2>1 DEF SerialInv, Settled, Kept, IsRecorded, Between
<1>5. QED
  BY <1>1, <1>3, <1>4, StepOfOne

\* Dropping the record leaves the parked content to be purged.
LEMMA DropSerial ==
    ASSUME TypeOK, Serialised, SerialInv, NEW p \in Procs, RemoveRecord(p)
    PROVE  SerialInv'
<1>1. /\ pc[p] = "r_parked" /\ pc[p] # "idle" /\ pc' = [pc EXCEPT ![p] = pc'[p]]
      /\ pc'[p] = "r_recorded" /\ slot' = slot /\ slot[p] \in Slots
      /\ slot[p][1] \in Ids
      /\ inventory' = WithoutRecord(p) /\ UNCHANGED <<dirs, tombs, snap, struck>>
  BY DEF RemoveRecord, Goto, TypeOK, historyVars, Slots
<1>2. /\ snap[p] = inventory /\ IsRecorded(slot[p])
      /\ dirs[slot[p]] = "absent" /\ tombs[slot[p]] # "absent"
  BY <1>1 DEF SerialInv, Stage
<1>3. inventory' = [inventory EXCEPT ![slot[p][1]] = NoRecord]
  BY <1>1, <1>2 DEF WithoutRecord
<1>4. /\ inventory'[slot[p][1]] = NoRecord
      /\ \A s \in Slots : IsRecorded(s)' <=> IsRecorded(s) /\ s # slot[p]
  BY <1>1, <1>2, <1>3, SlotEquality DEF TypeOK, Inventories, IsRecorded
<1>5. Stage(p)'
  BY <1>1, <1>2, <1>4 DEF Stage
<1>6. \A s \in Slots : Settled(s)' /\ Kept(s)'
  <2>1. \A s \in Slots : Between(s) => s = slot[p]
    BY <1>1, BetweenIsHere
  <2>2. \A s \in Slots : s = slot[p] => Between(s)'
    BY <1>1 DEF Between
  <2>3. \A s \in Slots \ {slot[p]} : Settled(s)' /\ Kept(s)'
    BY <1>1, <1>4, <2>1 DEF SerialInv, Settled, Kept
  <2>4. \A s \in Slots : s = slot[p] => Settled(s)' /\ Kept(s)'
    BY <1>1, <1>4, <2>2 DEF Settled, Kept
  <2>5. QED
    BY <2>3, <2>4
<1>7. QED
  BY <1>1, <1>5, <1>6, StepOfOne

\* The rollback of a removal puts back what was parked.
LEMMA RemoveRollbackSerial ==
    ASSUME TypeOK, Serialised, SerialInv, NEW p \in Procs, RemoveRollback(p)
    PROVE  SerialInv'
<1>1. /\ pc[p] = "r_parked" /\ pc[p] # "idle" /\ slot[p] \in Slots
      /\ pc' = [pc EXCEPT ![p] = pc'[p]] /\ pc'[p] = "idle"
      /\ UNCHANGED <<inventory, struck>>
  BY DEF RemoveRollback, Finish, TypeOK, historyVars
<1>2. /\ IsRecorded(slot[p]) /\ dirs[slot[p]] = "absent"
      /\ tombs[slot[p]] # "absent"
  BY <1>1 DEF SerialInv, Stage
<1>3. /\ dirs' = [dirs EXCEPT ![slot[p]] = tombs[slot[p]]]
      /\ tombs' = [tombs EXCEPT ![slot[p]] = "absent"]
  BY <1>2 DEF RemoveRollback
<1>4. /\ dirs'[slot[p]] # "absent" /\ tombs'[slot[p]] = "absent"
      /\ \A s \in Slots \ {slot[p]} : dirs'[s] = dirs[s] /\ tombs'[s] = tombs[s]
  BY <1>1, <1>2, <1>3 DEF TypeOK
<1>5. Stage(p)'
  BY <1>1 DEF Stage
<1>6. \A s \in Slots : Settled(s)' /\ Kept(s)'
  <2>1. \A s \in Slots : Between(s) => s = slot[p]
    BY <1>1, BetweenIsHere
  <2>2. QED
    BY <1>1, <1>2, <1>4, <2>1 DEF SerialInv, Settled, Kept, IsRecorded
<1>7. QED
  BY <1>1, <1>5, <1>6, StepOfOne

\* Deleting the parked directory ends the removal.
LEMMA PurgeSerial ==
    ASSUME TypeOK, Serialised, SerialInv, NEW p \in Procs, RemovePurge(p)
    PROVE  SerialInv'
<1>1. /\ pc[p] = "r_recorded" /\ pc[p] # "idle" /\ slot[p] \in Slots
      /\ pc' = [pc EXCEPT ![p] = pc'[p]] /\ pc'[p] = "idle"
      /\ tombs' = [tombs EXCEPT ![slot[p]] = "absent"]
      /\ UNCHANGED <<inventory, dirs, struck>>
  BY DEF RemovePurge, Finish, TypeOK, historyVars
<1>2. inventory[slot[p][1]] = NoRecord /\ dirs[slot[p]] = "absent"
  BY <1>1 DEF SerialInv, Stage
<1>3. /\ tombs'[slot[p]] = "absent"
      /\ \A s \in Slots \ {slot[p]} : tombs'[s] = tombs[s]
  BY <1>1 DEF TypeOK
<1>4. Stage(p)'
  BY <1>1 DEF Stage
<1>5. \A s \in Slots : Settled(s)' /\ Kept(s)'
  <2>1. \A s \in Slots : Between(s) => s = slot[p]
    BY <1>1, BetweenIsHere
  <2>2. QED
    BY <1>1, <1>2, <1>3, <2>1 DEF SerialInv, Settled, Kept, IsRecorded
<1>6. QED
  BY <1>1, <1>4, <1>5, StepOfOne

\* Enabling and disabling keep the version of the record.
LEMMA SetEnabledSerial ==
    ASSUME TypeOK, Serialised, SerialInv, NEW p \in Procs, SetEnabledWrite(p)
    PROVE  SerialInv'
<1>1. /\ pc[p] \in {"enable", "disable"} /\ pc[p] # "idle"
      /\ pc' = [pc EXCEPT ![p] = pc'[p]] /\ pc'[p] = "idle"
      /\ slot[p] \in Slots /\ slot[p][1] \in Ids
      /\ UNCHANGED <<dirs, tombs, struck>>
  BY DEF SetEnabledWrite, Finish, TypeOK, historyVars, Slots
<1>2. snap[p] = inventory /\ IsRecorded(slot[p])
  BY <1>1 DEF SerialInv, Stage
<1>3. /\ inventory' = [inventory EXCEPT ![slot[p][1]] =
                         [version |-> slot[p][2], enabled |-> pc[p] = "enable"]]
      /\ [version |-> slot[p][2], enabled |-> pc[p] = "enable"] # NoRecord
  <2>1. [version |-> slot[p][2], enabled |-> pc[p] = "enable"] \in Record
    BY <1>1 DEF Slots, Record
  <2>2. QED
    BY <1>2, <2>1, StoreAssumption DEF SetEnabledWrite
<1>4. \A s \in Slots : IsRecorded(s)' <=> IsRecorded(s)
  BY <1>1, <1>2, <1>3 DEF TypeOK, Inventories, IsRecorded
<1>5. Stage(p)'
  BY <1>1 DEF Stage
<1>6. \A s \in Slots : Settled(s)' /\ Kept(s)'
  <2>1. \A s \in Slots : ~Between(s)
    BY <1>1, BetweenIsHere DEF Changing
  <2>2. QED
    BY <1>1, <1>4, <2>1 DEF SerialInv, Settled, Kept
<1>7. QED
  BY <1>1, <1>5, <1>6, StepOfOne

\* A hand edit between commands changes what is there, not whether it is.
LEMMA ModifySerial ==
    ASSUME TypeOK, Serialised, SerialInv, NEW t \in Slots, Modify(t)
    PROVE  SerialInv'
<1>1. /\ \A q \in Procs : pc[q] = "idle"
      /\ dirs[t] = "intact" /\ dirs' = [dirs EXCEPT ![t] = "modified"]
      /\ UNCHANGED <<inventory, tombs, pc, slot, snap, struck>>
  BY DEF Modify, historyVars
<1>2. \A s \in Slots : dirs'[s] = "absent" <=> dirs[s] = "absent"
  BY <1>1 DEF TypeOK
<1>3. \A q \in Procs : Stage(q)'
  BY <1>1 DEF Stage
<1>4. \A s \in Slots : Settled(s)' /\ Kept(s)'
  BY <1>1, <1>2 DEF SerialInv, Settled, Kept, IsRecorded, Between
<1>5. QED
  BY <1>1, <1>3, <1>4 DEF SerialInv, Alone

\* What the properties call Recorded is what IsRecorded says.
LEMMA RecordedSlots ==
    ASSUME TypeOK
    PROVE  /\ \A s \in Slots : s \in Recorded(inventory) <=> IsRecorded(s)
           /\ Recorded(inventory) \subseteq Slots
<1>1. \A i \in Installed(inventory) : SlotOf(inventory, i) \in Slots
  BY SlotOfType DEF TypeOK
<1>2. QED
  BY <1>1 DEF Recorded, IsRecorded, Installed, SlotOf, Slots

\* A run goes on only with intact content of everything that is recorded.
LEMMA RunSerial ==
    ASSUME TypeOK, Serialised, SerialInv, NEW p \in Procs, RunNext(p)
    PROVE  SerialInv'
<1>1. ASSUME NEW s \in Slots, RunLoad(p, s) PROVE SerialInv'
  BY <1>1, LoadSerial DEF RunLoad, PCs
<1>2. CASE RunVerify(p)
  <2>1. pc[p] = "x_loaded" /\ pc[p] # "idle" /\ pc[p] \notin Changing
        /\ UNCHANGED <<diskVars, struck>>
    BY <1>2 DEF RunVerify, historyVars, Changing
  <2>2. CASE Finish(p, "error")
    BY <2>1, <2>2, FinishReadOnly
  <2>3. CASE ~Finish(p, "error")
    <3>1. /\ Goto(p, "x_verified")
          /\ \A i \in Installed(snap[p]) : dirs[SlotOf(snap[p], i)] = "intact"
      BY <1>2, <2>3 DEF RunVerify
    <3>2. snap[p] = inventory
      BY <2>1 DEF SerialInv, Stage
    <3>3. \A s \in Slots : IsRecorded(s) => dirs[s] = "intact"
      BY <3>1, <3>2, RecordedSlots DEF Recorded
    <3>4. /\ pc' = [pc EXCEPT ![p] = pc'[p]] /\ pc'[p] = "x_verified"
          /\ UNCHANGED <<slot, snap>>
      BY <3>1 DEF Goto, TypeOK
    <3>5. Stage(p)'
      BY <2>1, <3>2, <3>3, <3>4 DEF Stage, IsRecorded, diskVars
    <3>6. QED
      BY <2>1, <3>4, <3>5, ReadOnlyStep
  <2>4. QED
    BY <2>2, <2>3
<1>3. CASE RunDescribe(p)
  <2>1. pc[p] = "x_verified" /\ pc[p] # "idle" /\ pc[p] \notin Changing
        /\ UNCHANGED <<diskVars, struck>>
    BY <1>3 DEF RunDescribe, historyVars, Changing
  <2>2. CASE Finish(p, "error")
    BY <2>1, <2>2, FinishReadOnly
  <2>3. CASE ~Finish(p, "error")
    <3>1. /\ slot[p][1] \in Installed(inventory) /\ inventory[slot[p][1]].enabled
          /\ pc' = [pc EXCEPT ![p] = "x_described"]
          /\ slot' = [slot EXCEPT ![p] = SlotOf(inventory, slot[p][1])]
          /\ UNCHANGED <<snap, diskVars>>
      BY <1>3, <2>3 DEF RunDescribe
    <3>2. /\ pc' = [pc EXCEPT ![p] = pc'[p]] /\ pc'[p] = "x_described"
          /\ slot'[p][1] = slot[p][1]
          /\ slot'[p] \in Slots
      BY <3>1, SlotOfType DEF TypeOK, SlotOf
    <3>3. IsRecorded(slot'[p]) /\ inventory[slot'[p][1]].enabled
      BY <3>1, <3>2 DEF TypeOK, SlotOf, IsRecorded, Installed
    <3>4. Stage(p)
      BY DEF SerialInv
    <3>5. Stage(p)'
      BY <2>1, <3>1, <3>2, <3>3, <3>4 DEF Stage, IsRecorded, diskVars
    <3>6. QED
      BY <2>1, <3>2, <3>5, ReadOnlyStep
  <2>4. QED
    BY <2>2, <2>3
<1>4. CASE RunLaunch(p) \/ RunRefused(p)
  <2>1. \E result : Finish(p, result)
    BY <1>4 DEF RunLaunch, RunRefused
  <2>2. QED
    BY <1>4, <2>1, FinishReadOnly DEF RunLaunch, RunRefused, Changing, historyVars
<1>5. QED
  BY <1>1, <1>2, <1>3, <1>4 DEF RunNext

-------------------------------------------------------------------------------
(* The serial invariant and what follows from it *)

LEMMA InstallSerial ==
    ASSUME TypeOK, Serialised, SerialInv, NEW p \in Procs, InstallNext(p)
    PROVE  SerialInv'
<1>1. ASSUME NEW s \in Slots, InstallLoad(p, s) PROVE SerialInv'
  BY <1>1, LoadSerial DEF InstallLoad, PCs
<1>2. CASE InstallCheckDestination(p)
  <2>1. pc[p] = "i_loaded" /\ pc[p] # "idle" /\ pc[p] \notin Changing
        /\ UNCHANGED <<diskVars, struck>>
    BY <1>2 DEF InstallCheckDestination, historyVars, Changing
  <2>2. CASE Finish(p, "error")
    BY <2>1, <2>2, FinishReadOnly
  <2>3. CASE Goto(p, "i_clear")
    <3>1. /\ pc' = [pc EXCEPT ![p] = pc'[p]] /\ pc'[p] = "i_clear"
          /\ UNCHANGED <<slot, snap>>
      BY <2>3 DEF Goto, TypeOK
    <3>2. Stage(p)'
      BY <2>1, <3>1 DEF SerialInv, Stage, diskVars
    <3>3. QED
      BY <2>1, <3>1, <3>2, ReadOnlyStep
  <2>4. QED
    BY <1>2, <2>2, <2>3 DEF InstallCheckDestination
<1>3. CASE InstallPublishFails(p)
  BY <1>3, FinishReadOnly DEF InstallPublishFails, Changing, historyVars
<1>4. CASE InstallRefused(p)
  BY <1>4, FinishStruck DEF InstallRefused, Changing, diskVars
<1>5. CASE InstallRollbackFails(p)
  <2>1. PICK left \in {dirs[slot[p]], "modified"} : dirs' = [dirs EXCEPT ![slot[p]] = left]
    BY <1>5 DEF InstallRollbackFails
  <2>2. \A s \in Slots : dirs'[s] = "absent" <=> dirs[s] = "absent"
    BY <1>5, <2>1 DEF InstallRollbackFails, TypeOK
  <2>3. QED
    BY <1>5, <2>2, FinishStruck DEF InstallRollbackFails, Changing
<1>6. QED
  BY <1>1, <1>2, <1>3, <1>4, <1>5, PublishSerial, RecordSerial, InstallRollbackSerial
  DEF InstallNext

LEMMA RemoveSerial ==
    ASSUME TypeOK, Serialised, SerialInv, NEW p \in Procs, RemoveNext(p)
    PROVE  SerialInv'
<1>1. ASSUME NEW i \in Ids, RemoveLoad(p, i) PROVE SerialInv'
  <2>1. /\ SlotOf(inventory, i) \in Slots /\ IsRecorded(SlotOf(inventory, i))
        /\ Load(p, SlotOf(inventory, i), "r_loaded")
    BY <1>1, SlotOfType DEF RemoveLoad, TypeOK, SlotOf, IsRecorded, Installed
  <2>2. QED
    BY <2>1, LoadSerial DEF PCs
<1>2. CASE RemoveParkFails(p)
  BY <1>2, FinishReadOnly DEF RemoveParkFails, Changing, historyVars
<1>3. CASE RemovePurgeFails(p)
  <2>1. \A s \in Slots : tombs'[s] = "absent" <=> tombs[s] = "absent"
    <3>1. CASE tombs' = tombs
      BY <3>1
    <3>2. ASSUME tombs[slot[p]] # "absent", NEW left \in {tombs[slot[p]], "modified"},
                 tombs' = [tombs EXCEPT ![slot[p]] = left]
          PROVE  \A s \in Slots : tombs'[s] = "absent" <=> tombs[s] = "absent"
      BY <3>2 DEF TypeOK
    <3>3. QED
      BY <1>3, <3>1, <3>2 DEF RemovePurgeFails
  <2>2. QED
    BY <1>3, <2>1, FinishStruck DEF RemovePurgeFails, Changing
<1>4. CASE RemoveRollbackFails(p)
  BY <1>4, FinishStruck DEF RemoveRollbackFails, Changing, diskVars
<1>5. QED
  BY <1>1, <1>2, <1>3, <1>4, ParkSerial, DropSerial, RemoveRollbackSerial, PurgeSerial
  DEF RemoveNext

LEMMA SetEnabledNextSerial ==
    ASSUME TypeOK, Serialised, SerialInv, NEW p \in Procs, SetEnabledNext(p)
    PROVE  SerialInv'
<1>1. ASSUME NEW i \in Ids, NEW e \in BOOLEAN, SetEnabledLoad(p, i, e)
      PROVE  SerialInv'
  <2>1. SlotOf(inventory, i) \in Slots /\ IsRecorded(SlotOf(inventory, i))
    BY <1>1, SlotOfType DEF SetEnabledLoad, TypeOK, SlotOf, IsRecorded, Installed
  <2>2. \/ Load(p, SlotOf(inventory, i), "enable")
        \/ Load(p, SlotOf(inventory, i), "disable")
    BY <1>1 DEF SetEnabledLoad
  <2>3. QED
    BY <2>1, <2>2, LoadSerial DEF PCs
<1>2. CASE SetEnabledFails(p)
  BY <1>2, FinishReadOnly DEF SetEnabledFails, Changing, historyVars
<1>3. QED
  BY <1>1, <1>2, SetEnabledSerial DEF SetEnabledNext

LEMMA CrashSerial ==
    ASSUME TypeOK, Serialised, SerialInv, NEW p \in Procs, Crash(p)
    PROVE  SerialInv'
<1>1. CASE pc[p] \in Changing
  BY <1>1, FinishStruck DEF Crash, Changing, diskVars
<1>2. CASE pc[p] \notin Changing
  BY <1>2, FinishReadOnly DEF Crash, Changing
<1>3. QED
  BY <1>1, <1>2

\* One command at a time, each active command knows its slot and every other
\* slot is settled or struck.
THEOREM SerialInvariant == Spec => []SerialInv
<1>1. Init => SerialInv
  BY DEF Init, SerialInv, Alone, Stage, Settled, Kept, IsRecorded, Slots
<1>2. TypeOK /\ SerialInv /\ [Next]_vars => SerialInv'
  <2>1. CASE ~Serialised
    BY <2>1 DEF SerialInv
  <2>2. CASE Serialised
    <3>1. ASSUME TypeOK, SerialInv, Next PROVE SerialInv'
      BY <2>2, <3>1, InstallSerial, RemoveSerial, SetEnabledNextSerial, RunSerial,
         CrashSerial, ModifySerial DEF Next
    <3>2. ASSUME SerialInv, UNCHANGED vars PROVE SerialInv'
      BY <3>2 DEF SerialInv, Alone, Stage, Settled, Kept, IsRecorded, Between, vars
    <3>3. QED
      BY <3>1, <3>2
  <2>3. QED
    BY <2>1, <2>2
<1>3. QED
  BY <1>1, <1>2, TypeCorrect, PTL DEF Spec

\* One command at a time, whatever crashed or failed before: recorded content
\* exists, in its place or parked beside it.
THEOREM RegisteredContentSurvivesHolds == Spec => []RegisteredContentSurvives
<1>1. TypeOK /\ SerialInv => RegisteredContentSurvives
  BY RecordedSlots DEF SerialInv, Kept, RegisteredContentSurvives
<1>2. QED
  BY <1>1, SerialInvariant, TypeCorrect, PTL

\* One command at a time: an adapter about to be launched is recorded and
\* enabled, and all recorded content is intact.
THEOREM LaunchIsVerifiedHolds == Spec => []LaunchIsVerified
<1>1. TypeOK /\ SerialInv => LaunchIsVerified
  <2> SUFFICES ASSUME TypeOK, SerialInv, Serialised, NEW p \in Procs,
                      pc[p] = "x_described"
               PROVE  /\ slot[p] \in Recorded(inventory)
                      /\ inventory[slot[p][1]].enabled
                      /\ \A s \in Recorded(inventory) : dirs[s] = "intact"
    BY DEF LaunchIsVerified
  <2>1. slot[p] \in Slots /\ Stage(p)
    BY DEF TypeOK, SerialInv
  <2>2. QED
    BY <2>1, RecordedSlots DEF Stage
<1>2. QED
  BY <1>1, SerialInvariant, TypeCorrect, PTL

\* One command at a time: between commands the directories and the inventory
\* agree at every slot no command was cut short at.
THEOREM DamageIsConfinedHolds == Spec => []DamageIsConfined
<1>1. TypeOK /\ SerialInv => DamageIsConfined
  <2> SUFFICES ASSUME TypeOK, SerialInv, Serialised, AtRest,
                      NEW s \in Slots \ struck
               PROVE  /\ dirs[s] # "absent" <=> s \in Recorded(inventory)
                      /\ tombs[s] = "absent"
    BY DEF DamageIsConfined
  <2>1. Settled(s) /\ ~Between(s)
    BY DEF SerialInv, AtRest, Between
  <2>2. QED
    BY <2>1, RecordedSlots DEF Settled
<1>2. QED
  BY <1>1, SerialInvariant, TypeCorrect, PTL

---------------------------------------------------------------------------------
(* The refinement                                                          *)

\* What the inventory and the directories show of one id.
Shown(i) ==
    IF inventory[i] = NoRecord THEN NoRecord
    ELSE [version |-> inventory[i].version, enabled |-> inventory[i].enabled,
          content |-> IF dirs[SlotOf(inventory, i)] = "absent"
                        THEN "withdrawn" ELSE "available"]

\* A record shows: the entry of an installed id is no NoRecord.
LEMMA ShownEntry ==
    ASSUME TypeOK, NEW i \in Ids, inventory[i] # NoRecord
    PROVE  /\ View[i] # NoRecord
           /\ View[i] = [version |-> inventory[i].version,
                         enabled |-> inventory[i].enabled,
                         content |-> IF dirs[SlotOf(inventory, i)] = "absent"
                                       THEN "withdrawn" ELSE "available"]
           /\ View[i].version = inventory[i].version
           /\ View[i].enabled = inventory[i].enabled
           /\ View[i].content = IF dirs[SlotOf(inventory, i)] = "absent"
                                  THEN "withdrawn" ELSE "available"
<1>1. inventory[i] \in Record
  BY DEF TypeOK, Inventories
<1>2. View[i] = [version |-> inventory[i].version,
                 enabled |-> inventory[i].enabled,
                 content |-> IF dirs[SlotOf(inventory, i)] = "absent"
                               THEN "withdrawn" ELSE "available"]
  BY DEF View
<1>3. View[i] \in [version : Versions, enabled : BOOLEAN,
                   content : {"available", "withdrawn"}]
  BY <1>1, <1>2 DEF Record
<1>4. QED
  BY <1>1, <1>2, <1>3, StoreAssumption DEF Record

\* The entry of an id after a step, from its record after the step.
LEMMA NextEntry ==
    ASSUME NEW j \in Ids, NEW r, inventory'[j] = r, r # NoRecord
    PROVE  View'[j] = [version |-> r.version, enabled |-> r.enabled,
                       content |-> IF dirs'[<<j, r.version>>] = "absent"
                                     THEN "withdrawn" ELSE "available"]
BY DEF View, SlotOf

\* When one id is shown differently, the view changes there only.
LEMMA ViewChange ==
    ASSUME NEW j \in Ids, \A i \in Ids \ {j} : Shown(i)' = Shown(i)
    PROVE  View' = [View EXCEPT ![j] = View'[j]]
<1>1. View = [i \in Ids |-> Shown(i)] /\ View' = [i \in Ids |-> Shown(i)']
  BY DEF View, Shown
<1>2. QED
  BY <1>1

LEMMA ViewStutter ==
    ASSUME \A i \in Ids : Shown(i)' = Shown(i)
    PROVE  View' = View
<1>1. View = [i \in Ids |-> Shown(i)] /\ View' = [i \in Ids |-> Shown(i)']
  BY DEF View, Shown
<1>2. QED
  BY <1>1

\* Other slots than those of an id show nothing of it.
LEMMA ShownElsewhere ==
    ASSUME NEW i \in Ids, inventory'[i] = inventory[i],
           inventory[i] # NoRecord => dirs'[SlotOf(inventory, i)] = dirs[SlotOf(inventory, i)]
    PROVE  Shown(i)' = Shown(i)
BY DEF Shown, SlotOf

\* Publishing, rolling back and purging happen at slots nothing records.
LEMMA InstallRefines ==
    ASSUME TypeOK, Serialised, SerialInv, NEW p \in Procs, InstallNext(p)
    PROVE  [Registry!Next]_View
<1>1. ASSUME UNCHANGED diskVars PROVE [Registry!Next]_View
  BY <1>1, ShownElsewhere, ViewStutter DEF diskVars
<1>2. ASSUME pc[p] \in {"i_clear", "i_published"}, inventory' = inventory,
             \A s \in Slots \ {slot[p]} : dirs'[s] = dirs[s]
      PROVE  [Registry!Next]_View
  <2>1. inventory[slot[p][1]] = NoRecord
    BY <1>2 DEF SerialInv, Stage
  <2>2. ASSUME NEW i \in Ids PROVE Shown(i)' = Shown(i)
    <3>1. CASE inventory[i] = NoRecord
      BY <1>2, <3>1, ShownElsewhere
    <3>2. CASE inventory[i] # NoRecord
      <4>1. SlotOf(inventory, i) \in Slots \ {slot[p]}
        BY <2>1, <3>2, SlotOfType DEF TypeOK, Installed, SlotOf
      <4>2. QED
        BY <1>2, <4>1, ShownElsewhere
    <3>3. QED
      BY <3>1, <3>2
  <2>3. QED
    BY <2>2, ViewStutter
<1>3. CASE InstallPublish(p)
  BY <1>2, <1>3 DEF InstallPublish, TypeOK
<1>4. CASE InstallRollback(p)
  BY <1>2, <1>4 DEF InstallRollback, TypeOK
<1>7. CASE InstallRollbackFails(p)
  <2>1. PICK left : dirs' = [dirs EXCEPT ![slot[p]] = left]
    BY <1>7 DEF InstallRollbackFails
  <2>2. QED
    BY <1>2, <1>7, <2>1 DEF InstallRollbackFails, TypeOK
<1>5. CASE InstallRecord(p)
  <2>1. /\ slot[p] \in Slots /\ slot[p][1] \in Ids /\ slot[p][2] \in Versions
        /\ slot[p] = <<slot[p][1], slot[p][2]>>
    BY DEF TypeOK, Slots
  <2>2. /\ pc[p] = "i_published" /\ snap[p] = inventory /\ dirs' = dirs
        /\ inventory[slot[p][1]] = NoRecord /\ dirs[slot[p]] = "intact"
    BY <1>5 DEF InstallRecord, SerialInv, Stage
  <2>3. inventory' = [inventory EXCEPT ![slot[p][1]] =
                         [version |-> slot[p][2], enabled |-> TRUE]]
    BY <1>5, <2>2 DEF InstallRecord, WithNewRecord
  <2>4. \A i \in Ids \ {slot[p][1]} : Shown(i)' = Shown(i)
    BY <2>2, <2>3, ShownElsewhere DEF TypeOK, Inventories
  <2>5. [version |-> slot[p][2], enabled |-> TRUE] # NoRecord
    <3>1. [version |-> slot[p][2], enabled |-> TRUE] \in Record
      BY <2>1 DEF Record
    <3>2. QED
      BY <3>1, StoreAssumption
  <2>6. inventory'[slot[p][1]] = [version |-> slot[p][2], enabled |-> TRUE]
    BY <2>1, <2>3 DEF TypeOK, Inventories
  <2>7. View'[slot[p][1]] = [version |-> slot[p][2], enabled |-> TRUE,
                             content |-> "available"]
    <3> DEFINE j == slot[p][1]
               r == [version |-> slot[p][2], enabled |-> TRUE]
    <3>1. View'[j] = [version |-> r.version, enabled |-> r.enabled,
                      content |-> IF dirs'[<<j, r.version>>] = "absent"
                                    THEN "withdrawn" ELSE "available"]
      BY <2>1, <2>5, <2>6, NextEntry
    <3>2. <<j, r.version>> = slot[p] /\ dirs'[slot[p]] # "absent"
      BY <2>1, <2>2
    <3>3. QED
      BY <3>1, <3>2
  <2>8. View[slot[p][1]] = NoRecord
    BY <2>1, <2>2 DEF View
  <2>9. Registry!Install(slot[p][1], slot[p][2])
    BY <2>1, <2>4, <2>7, <2>8, ViewChange DEF Registry!Install
  <2>10. QED
    BY <2>1, <2>9 DEF Registry!Next
<1>6. QED
  BY <1>1, <1>3, <1>4, <1>5, <1>7 DEF InstallNext, InstallLoad, Load, InstallCheckDestination,
     InstallPublishFails, InstallRefused

\* A change of one record, shown under the same id, is one step of the view.
LEMMA OneRecord ==
    ASSUME TypeOK, NEW j \in Ids, UNCHANGED dirs, NEW r,
           inventory' = [inventory EXCEPT ![j] = r]
    PROVE  /\ inventory'[j] = r
           /\ View' = [View EXCEPT ![j] = View'[j]]
<1>1. inventory'[j] = r /\ \A i \in Ids \ {j} : inventory'[i] = inventory[i]
  BY DEF TypeOK, Inventories
<1>2. \A i \in Ids \ {j} : Shown(i)' = Shown(i)
  BY <1>1, ShownElsewhere
<1>3. QED
  BY <1>1, <1>2, ViewChange

\* A move of the content of a recorded slot is seen at its id only.
LEMMA OneSlot ==
    ASSUME TypeOK, NEW s \in Slots, IsRecorded(s), UNCHANGED inventory,
           \A t \in Slots \ {s} : dirs'[t] = dirs[t]
    PROVE  /\ s[1] \in Ids /\ inventory[s[1]] # NoRecord
           /\ SlotOf(inventory, s[1]) = s
           /\ View' = [View EXCEPT ![s[1]] = View'[s[1]]]
<1>1. s[1] \in Ids /\ inventory[s[1]] # NoRecord /\ SlotOf(inventory, s[1]) = s
  BY DEF IsRecorded, SlotOf, Slots
<1>2. ASSUME NEW i \in Ids \ {s[1]} PROVE Shown(i)' = Shown(i)
  <2>1. inventory[i] # NoRecord => SlotOf(inventory, i) \in Slots \ {s}
    BY SlotOfType DEF TypeOK, Installed, SlotOf
  <2>2. QED
    BY <2>1, ShownElsewhere
<1>3. QED
  BY <1>1, <1>2, ViewChange

\* Parking withdraws, a rollback restores, dropping the record forgets.
LEMMA RemoveRefines ==
    ASSUME TypeOK, Serialised, SerialInv, NEW p \in Procs, RemoveNext(p)
    PROVE  [Registry!Next]_View
<1>1. ASSUME UNCHANGED <<inventory, dirs>> PROVE [Registry!Next]_View
  BY <1>1, ShownElsewhere, ViewStutter
<1>2. slot[p] \in Slots /\ slot[p][1] \in Ids /\ Stage(p)
  BY DEF TypeOK, Slots, SerialInv
<1>3. CASE RemovePark(p)
  <2>1. /\ IsRecorded(slot[p]) /\ inventory' = inventory
        /\ dirs' = [dirs EXCEPT ![slot[p]] = "absent"]
    BY <1>2, <1>3 DEF RemovePark, Stage
  <2>2. dirs'[slot[p]] = "absent" /\ \A t \in Slots \ {slot[p]} : dirs'[t] = dirs[t]
    BY <1>2, <2>1 DEF TypeOK
  <2>3. /\ inventory[slot[p][1]] # NoRecord
        /\ SlotOf(inventory, slot[p][1]) = slot[p]
        /\ View' = [View EXCEPT ![slot[p][1]] = View'[slot[p][1]]]
    BY <1>2, <2>1, <2>2, OneSlot
  <2>4. View'[slot[p][1]] = [version |-> inventory[slot[p][1]].version,
                             enabled |-> inventory[slot[p][1]].enabled,
                             content |-> "withdrawn"]
    BY <1>2, <2>1, <2>2, <2>3 DEF View
  <2>5. /\ View[slot[p][1]] # NoRecord
        /\ View[slot[p][1]].version = inventory[slot[p][1]].version
        /\ View[slot[p][1]].enabled = inventory[slot[p][1]].enabled
    BY <1>2, <2>3, ShownEntry
  <2>6. Registry!Withdraw(slot[p][1])
    BY <2>3, <2>4, <2>5 DEF Registry!Withdraw
  <2>7. QED
    BY <1>2, <2>6 DEF Registry!Next
<1>4. CASE RemoveRollback(p)
  <2>1. /\ IsRecorded(slot[p]) /\ inventory' = inventory
        /\ dirs' = [dirs EXCEPT ![slot[p]] = tombs[slot[p]]]
        /\ tombs[slot[p]] # "absent"
    BY <1>2, <1>4 DEF RemoveRollback, Stage
  <2>2. /\ dirs'[slot[p]] # "absent"
        /\ \A t \in Slots \ {slot[p]} : dirs'[t] = dirs[t]
    BY <1>2, <2>1 DEF TypeOK
  <2>3. /\ inventory[slot[p][1]] # NoRecord
        /\ SlotOf(inventory, slot[p][1]) = slot[p]
        /\ View' = [View EXCEPT ![slot[p][1]] = View'[slot[p][1]]]
    BY <1>2, <2>1, <2>2, OneSlot
  <2>4. View'[slot[p][1]] = [version |-> inventory[slot[p][1]].version,
                             enabled |-> inventory[slot[p][1]].enabled,
                             content |-> "available"]
    BY <1>2, <2>1, <2>2, <2>3 DEF View
  <2>5. /\ View[slot[p][1]] # NoRecord
        /\ View[slot[p][1]].version = inventory[slot[p][1]].version
        /\ View[slot[p][1]].enabled = inventory[slot[p][1]].enabled
    BY <1>2, <2>3, ShownEntry
  <2>6. Registry!Restore(slot[p][1])
    BY <2>3, <2>4, <2>5 DEF Registry!Restore
  <2>7. QED
    BY <1>2, <2>6 DEF Registry!Next
<1>5. CASE RemoveRecord(p)
  <2>1. /\ IsRecorded(slot[p]) /\ dirs' = dirs /\ dirs[slot[p]] = "absent"
        /\ inventory' = [inventory EXCEPT ![slot[p][1]] = NoRecord]
    BY <1>2, <1>5 DEF RemoveRecord, WithoutRecord, Stage
  <2>2. /\ inventory'[slot[p][1]] = NoRecord
        /\ View' = [View EXCEPT ![slot[p][1]] = View'[slot[p][1]]]
    BY <1>2, <2>1, OneRecord
  <2>3. View'[slot[p][1]] = NoRecord
    BY <1>2, <2>2 DEF View
  <2>4. /\ View[slot[p][1]] # NoRecord
        /\ View[slot[p][1]].content = "withdrawn"
    <3>1. inventory[slot[p][1]] # NoRecord /\ SlotOf(inventory, slot[p][1]) = slot[p]
      BY <1>2, <2>1 DEF IsRecorded, SlotOf, Slots
    <3>2. QED
      BY <1>2, <2>1, <3>1, ShownEntry DEF SlotOf
  <2>5. Registry!Forget(slot[p][1])
    BY <2>2, <2>3, <2>4 DEF Registry!Forget
  <2>6. QED
    BY <1>2, <2>5 DEF Registry!Next
<1>6. QED
  BY <1>1, <1>3, <1>4, <1>5 DEF RemoveNext, RemoveLoad, Load, RemoveParkFails,
     RemoveRollbackFails, RemovePurge, RemovePurgeFails, diskVars

LEMMA SetEnabledRefines ==
    ASSUME TypeOK, Serialised, SerialInv, NEW p \in Procs, SetEnabledNext(p)
    PROVE  [Registry!Next]_View
<1>1. ASSUME UNCHANGED <<inventory, dirs>> PROVE [Registry!Next]_View
  BY <1>1, ShownElsewhere, ViewStutter
<1>2. CASE SetEnabledWrite(p)
  <2> DEFINE e == pc[p] = "enable"
             j == slot[p][1]
  <2>1. /\ j \in Ids /\ slot[p] \in Slots /\ IsRecorded(slot[p]) /\ dirs' = dirs
        /\ inventory' = [inventory EXCEPT ![j] = [version |-> slot[p][2], enabled |-> e]]
    BY <1>2 DEF SetEnabledWrite, SerialInv, Stage, TypeOK, Slots
  <2>2. /\ inventory'[j] = [version |-> slot[p][2], enabled |-> e]
        /\ View' = [View EXCEPT ![j] = View'[j]]
    BY <2>1, OneRecord
  <2>3. [version |-> slot[p][2], enabled |-> e] # NoRecord
    <3>1. [version |-> slot[p][2], enabled |-> e] \in Record
      BY <2>1 DEF Slots, Record
    <3>2. QED
      BY <3>1, StoreAssumption
  <2>4. /\ inventory[j] # NoRecord /\ inventory[j].version = slot[p][2]
        /\ SlotOf(inventory', j) = SlotOf(inventory, j)
    BY <2>1, <2>2 DEF IsRecorded, SlotOf
  <2>5. /\ View[j] # NoRecord
        /\ View'[j] = [version |-> View[j].version, enabled |-> e,
                       content |-> View[j].content]
    <3> DEFINE r == [version |-> slot[p][2], enabled |-> e]
    <3>1. View'[j] = [version |-> r.version, enabled |-> r.enabled,
                      content |-> IF dirs'[<<j, r.version>>] = "absent"
                                    THEN "withdrawn" ELSE "available"]
      BY <2>1, <2>2, <2>3, NextEntry
    <3>2. SlotOf(inventory, j) = <<j, r.version>> /\ dirs' = dirs
      BY <2>1, <2>4 DEF SlotOf
    <3>3. /\ View[j] # NoRecord /\ View[j].version = slot[p][2]
          /\ View[j].content = IF dirs[SlotOf(inventory, j)] = "absent"
                                 THEN "withdrawn" ELSE "available"
      BY <2>1, <2>4, ShownEntry
    <3>4. QED
      BY <3>1, <3>2, <3>3
  <2>6. Registry!SetEnabled(j, e)
    BY <2>2, <2>5 DEF Registry!SetEnabled
  <2>7. QED
    BY <2>1, <2>6 DEF Registry!Next
<1>3. QED
  BY <1>1, <1>2 DEF SetEnabledNext, SetEnabledLoad, Load, SetEnabledFails, diskVars

LEMMA OtherStepsRefine ==
    ASSUME TypeOK,
           \/ \E p \in Procs : RunNext(p) \/ Crash(p)
           \/ \E s \in Slots : Modify(s)
           \/ UNCHANGED vars
    PROVE  View' = View
<1>1. ASSUME UNCHANGED <<inventory, dirs>> PROVE View' = View
  BY <1>1, ShownElsewhere, ViewStutter
<1>2. ASSUME NEW s \in Slots, Modify(s) PROVE View' = View
  <2>1. \A t \in Slots : dirs'[t] = "absent" <=> dirs[t] = "absent"
    BY <1>2 DEF Modify, TypeOK
  <2>2. \A i \in Ids : inventory[i] # NoRecord => SlotOf(inventory, i) \in Slots
    BY SlotOfType DEF TypeOK, Installed
  <2>3. inventory' = inventory
    BY <1>2 DEF Modify
  <2>4. QED
    BY <2>1, <2>2, <2>3, ViewStutter DEF Shown, SlotOf
<1>3. QED
  BY <1>1, <1>2 DEF RunNext, RunLoad, Load, RunVerify, RunDescribe, RunLaunch, RunRefused, Crash,
     diskVars, vars

\* Commands one at a time: whatever crashes and whichever write fails, the
\* store changes as the promised registry does.
THEOREM StoreImplementsRegistry == Serialised /\ Spec => ImplementsRegistry
<1> SUFFICES ASSUME Serialised PROVE Spec => ImplementsRegistry
  OBVIOUS
<1>1. Init => Registry!Init
  BY DEF Init, Registry!Init, View
<1>2. TypeOK /\ SerialInv /\ [Next]_vars => [Registry!Next]_View
  BY InstallRefines, RemoveRefines, SetEnabledRefines, OtherStepsRefine DEF Next
<1>3. QED
  BY <1>1, <1>2, TypeCorrect, SerialInvariant, PTL
  DEF Spec, ImplementsRegistry, Registry!Spec

-----------------------------------------------------------------------------
(* ExtensionAdapter: the runs of adapters beside the commands of the store. *)

\* An adapter runs, stages and publishes without touching the store, so what
\* is proved of the store holds beside it.
THEOREM AdapterKeepsStore == AdapterSpec => Spec
<1>1. AdapterInit => Init
  BY DEF AdapterInit
<1>2. [AdapterNext]_allVars => [Next]_vars
  <2> SUFFICES ASSUME [AdapterNext]_allVars PROVE [Next]_vars
    OBVIOUS
  <2>1. ASSUME NEW p \in Procs, StoreStep(p) PROVE Next
    BY <2>1 DEF StoreStep, Next, RunNext
  <2>2. ASSUME NEW p \in Procs, Launch(p) \/ LaunchRefused(p) PROVE Next
    BY <2>2 DEF Launch, LaunchRefused, Next, RunNext
  <2>3. ASSUME NEW p \in Procs,
               \/ AdapterFails(p) \/ AdapterToolError(p) \/ AdapterUncaught(p)
               \/ OutputRefused(p) \/ OutputStaged(p) \/ Publish(p) \/ PublishFails(p) \/ ReportRun(p) \/ Interrupt(p)
        PROVE  UNCHANGED vars
    BY <2>3 DEF AdapterFails, AdapterToolError, AdapterUncaught, OutputRefused, OutputStaged,
       Publish, PublishFails, ReportRun, Interrupt
  <2>4. ASSUME NEW s \in Slots, Modify(s) PROVE Next
    BY <2>4 DEF Next
  <2>5. CASE UNCHANGED allVars
    BY <2>5 DEF allVars
  <2>6. QED
    BY <2>1, <2>2, <2>3, <2>4, <2>5 DEF AdapterNext
<1>3. QED
  BY <1>1, <1>2, PTL DEF AdapterSpec, Spec

\* What holds of one run: from its stage on, its output was earned; once
\* published, its files stand in the results directory until it is forgotten.
Stages == {"none", "running", "staged", "published"}
Codes == ExitCodes \cup {NoReport, Interrupted, Traceback}
RunRecords == {NoRun} \cup [declared : SUBSET ArtifactNames] \cup Accepted
Standing(accepted) == accepted.execution.response.artifacts # {} => results = accepted
RunInv(p) ==
    /\ stage[p] # "none" => report[p] = NoReport
    /\ stage[p] = "running" => run[p] \in [declared : SUBSET ArtifactNames]
    /\ stage[p] \in {"staged", "published"} => run[p] \in Accepted /\ Earned(run[p])
    /\ stage[p] = "published" => Standing(run[p])
    /\ report[p] = Traceback => run[p] = NoRun
    /\ report[p] \in {0, 1} =>
          /\ run[p] \in Accepted
          /\ run[p].execution.returncode = report[p]
          /\ Standing(run[p])
AdapterInv ==
    /\ stage \in [Procs -> Stages]
    /\ run \in [Procs -> RunRecords]
    /\ report \in [Procs -> Codes]
    /\ results \in {NoResults} \cup Accepted
    /\ results # NoResults => Earned(results)
    /\ \A p \in Procs : RunInv(p)

\* A step of one run that does not publish need only keep its own invariant.
LEMMA RunStep ==
    ASSUME AdapterInv, NEW p \in Procs,
           stage' = [stage EXCEPT ![p] = stage'[p]], stage'[p] \in Stages,
           run' = [run EXCEPT ![p] = run'[p]], run'[p] \in RunRecords,
           report' = [report EXCEPT ![p] = report'[p]], report'[p] \in Codes,
           results' = results, RunInv(p)'
    PROVE  AdapterInv'
<1>1. ASSUME NEW q \in Procs, q # p PROVE RunInv(q)'
  <2>1. RunInv(q) /\ stage'[q] = stage[q] /\ run'[q] = run[q] /\ report'[q] = report[q]
    BY <1>1 DEF AdapterInv
  <2>2. QED
    BY <2>1 DEF RunInv, Standing, Earned
<1>2. \A q \in Procs : RunInv(q)'
  BY <1>1
<1>3. Earned(results)' <=> Earned(results)
  BY DEF Earned
<1>4. QED
  BY <1>2, <1>3 DEF AdapterInv

\* A run that ends without success keeps nothing.
LEMMA FailedStep ==
    ASSUME AdapterInv, NEW p \in Procs, NEW code \in Codes \ {0, 1},
           Report(p, code), Forget(p), UNCHANGED results
    PROVE  AdapterInv'
<1>1. /\ stage'[p] = "none" /\ report'[p] = code /\ run'[p] = NoRun
      /\ stage' = [stage EXCEPT ![p] = stage'[p]]
      /\ run' = [run EXCEPT ![p] = run'[p]]
      /\ report' = [report EXCEPT ![p] = report'[p]]
  BY DEF Report, Forget, AdapterInv
<1>2. RunInv(p)'
  BY <1>1 DEF RunInv
<1>3. QED
  BY <1>1, <1>2, RunStep DEF Stages, RunRecords

\* The response of an adapter that is neither late nor contradicts itself.
LEMMA UnderstoodMeans ==
    ASSUME NEW execution \in Executions, NEW declared, Understood(execution, declared)
    PROVE  /\ execution.returncode \in ExitCodes
           /\ execution.response.coverage = "tool_error" =>
                 execution.returncode \in {2, 3} /\ ExitCode(execution) = execution.returncode
           /\ execution.response.coverage # "tool_error" =>
                 execution.returncode \in {0, 1} /\ execution.response.coverage \in CleanStates
<1>1. /\ execution.returncode \in ExitCodes
      /\ execution.response.coverage \in CleanStates \cup {"tool_error"}
      /\ execution.response.coverage = "tool_error" <=> execution.returncode \in {2, 3}
  BY DEF Understood, ValidResponse, ExitPreserved, CoverageValid
<1>2. "tool_error" \notin CleanStates
  BY DEF CleanStates
<1>3. execution.returncode \in {0, 1} \/ execution.returncode \in {2, 3}
  BY <1>1 DEF ExitCodes
<1>4. ~(execution.returncode \in {0, 1} /\ execution.returncode \in {2, 3})
  OBVIOUS
<1>5. QED
  BY <1>1, <1>2, <1>3, <1>4 DEF ExitCode

LEMMA StagedStep ==
    ASSUME AdapterInv, NEW p \in Procs, OutputStaged(p)
    PROVE  AdapterInv'
<1>1. PICK execution \in Executions :
        /\ Understood(execution, run[p].declared)
        /\ execution.response.coverage # "tool_error"
        /\ OutputSound(execution)
        /\ run' = [run EXCEPT ![p] = [declared |-> run[p].declared, execution |-> execution]]
  BY DEF OutputStaged
<1>2. /\ stage[p] = "running" /\ stage' = [stage EXCEPT ![p] = "staged"]
      /\ report' = report /\ results' = results
  BY DEF OutputStaged
<1>3. run[p].declared \in SUBSET ArtifactNames /\ report[p] = NoReport
  BY <1>2 DEF AdapterInv, RunInv
<1> DEFINE accepted == [declared |-> run[p].declared, execution |-> execution]
<1>4. accepted \in Accepted
  BY <1>3 DEF Accepted
<1>5. execution.returncode \in {0, 1} /\ execution.response.coverage \in CleanStates
  BY <1>1, UnderstoodMeans
<1>6. /\ execution.ended = "in_time"
      /\ execution.response.exit_code = execution.returncode
      /\ execution.response.artifacts \subseteq run[p].declared
      /\ execution.response.artifacts \subseteq execution.written
      /\ execution.findings = "accepted"
  BY <1>1 DEF Understood, ValidResponse, ExitPreserved, OutputSound
<1>7. Earned(accepted)
  BY <1>5, <1>6 DEF Earned
<1>8. /\ stage'[p] = "staged" /\ run'[p] = accepted /\ report'[p] = NoReport
      /\ stage' = [stage EXCEPT ![p] = stage'[p]]
      /\ run' = [run EXCEPT ![p] = run'[p]]
      /\ report' = [report EXCEPT ![p] = report'[p]]
  BY <1>1, <1>2, <1>3 DEF AdapterInv
<1>9. Earned(run[p])'
  BY <1>7, <1>8 DEF Earned
<1>10. RunInv(p)'
  BY <1>4, <1>8, <1>9 DEF RunInv, NoReport, Traceback
<1>11. QED
  BY <1>2, <1>4, <1>8, <1>10, RunStep DEF Stages, RunRecords, Codes

\* A directory with files in it is not replaced, so publishing takes nothing
\* away from a run that stands.
LEMMA PublishedStep ==
    ASSUME AdapterInv, NEW p \in Procs, Publish(p)
    PROVE  AdapterInv'
<1>1. /\ stage[p] = "staged" /\ Published = {}
      /\ results' = run[p] /\ run' = run /\ report' = report
      /\ stage' = [stage EXCEPT ![p] = "published"]
  BY DEF Publish
<1>2. run[p] \in Accepted /\ Earned(run[p]) /\ report[p] = NoReport
  BY <1>1 DEF AdapterInv, RunInv
<1>3. Earned(results)' /\ Earned(run[p])'
  BY <1>1, <1>2 DEF Earned
<1>4. ASSUME NEW q \in Procs,
             stage[q] = "published" \/ report[q] \in {0, 1}
      PROVE  Standing(run[q])'
  <2>1. Standing(run[q])
    BY <1>4 DEF AdapterInv, RunInv
  <2>2. CASE run[q].execution.response.artifacts = {}
    BY <1>1, <2>2 DEF Standing
  <2>3. CASE run[q].execution.response.artifacts # {}
    <3>1. results = run[q]
      BY <2>1, <2>3 DEF Standing
    <3>2. results = NoResults
      BY <1>1, <2>3, <3>1 DEF Published
    <3>3. run[q] \in Accepted
      BY <1>4, <3>1, <3>2, <2>3 DEF AdapterInv, RunInv
    <3>4. QED
      BY <3>1, <3>2, <3>3, AdapterAssumption
  <2>4. QED
    BY <2>2, <2>3
<1>5. ASSUME NEW q \in Procs PROVE RunInv(q)'
  <2>1. CASE q = p
    <3>1. Standing(run[p])'
      BY <1>1 DEF Standing
    <3>2. stage'[p] = "published"
      BY <1>1 DEF AdapterInv
    <3>3. QED
      BY <2>1, <1>1, <1>2, <1>3, <3>1, <3>2 DEF RunInv, NoReport, Traceback
  <2>2. CASE q # p
    <3>1. stage'[q] = stage[q]
      BY <1>1, <2>2 DEF AdapterInv
    <3>2. RunInv(q)
      BY DEF AdapterInv
    <3>3. Earned(run[q]) => Earned(run[q])'
      BY <1>1 DEF Earned
    <3>4. QED
      BY <1>1, <1>4, <3>1, <3>2, <3>3 DEF RunInv
  <2>3. QED
    BY <2>1, <2>2
<1>6. QED
  BY <1>1, <1>2, <1>3, <1>5 DEF AdapterInv, Stages

LEMMA ReportedStep ==
    ASSUME AdapterInv, NEW p \in Procs, ReportRun(p)
    PROVE  AdapterInv'
<1>1. /\ stage[p] = "published" /\ run' = run /\ results' = results
      /\ Report(p, ExitCode(run[p].execution))
  BY DEF ReportRun
<1>2. run[p] \in Accepted /\ Earned(run[p]) /\ Standing(run[p])
  BY <1>1 DEF AdapterInv, RunInv
<1>3. run[p].execution.returncode \in {0, 1} /\ run[p].execution.response.coverage \in CleanStates
  BY <1>2 DEF Earned
<1>4. ExitCode(run[p].execution) = run[p].execution.returncode
  BY <1>3 DEF ExitCode
<1>5. /\ stage'[p] = "none" /\ report'[p] = run[p].execution.returncode /\ run'[p] = run[p]
      /\ stage' = [stage EXCEPT ![p] = stage'[p]]
      /\ run' = [run EXCEPT ![p] = run'[p]]
      /\ report' = [report EXCEPT ![p] = report'[p]]
  BY <1>1, <1>4 DEF Report, AdapterInv
<1>6. Standing(run[p])'
  BY <1>1, <1>2 DEF Standing
<1>7. RunInv(p)'
  BY <1>2, <1>3, <1>5, <1>6 DEF RunInv, Traceback
<1>8. run[p] \in RunRecords /\ run[p].execution.returncode \in Codes
  BY <1>2, <1>3 DEF RunRecords, Codes, ExitCodes
<1>9. QED
  BY <1>1, <1>5, <1>7, <1>8, RunStep DEF Stages

LEMMA LaunchedStep ==
    ASSUME AdapterInv, NEW p \in Procs, Launch(p)
    PROVE  AdapterInv'
<1>1. PICK manifest \in Manifests : run' = [run EXCEPT ![p] = [declared |-> manifest.artifacts]]
  BY DEF Launch
<1>2. manifest.artifacts \in SUBSET ArtifactNames
  BY DEF Manifests
<1>3. /\ stage'[p] = "running" /\ report'[p] = NoReport
      /\ run'[p] = [declared |-> manifest.artifacts]
      /\ stage' = [stage EXCEPT ![p] = stage'[p]]
      /\ run' = [run EXCEPT ![p] = run'[p]]
      /\ report' = [report EXCEPT ![p] = report'[p]]
      /\ results' = results
  BY <1>1 DEF Launch, AdapterInv
<1>4. [declared |-> manifest.artifacts] \in [declared : SUBSET ArtifactNames]
  BY <1>2
<1>5. RunInv(p)'
  BY <1>3, <1>4 DEF RunInv, NoReport, Traceback
<1>6. QED
  BY <1>3, <1>4, <1>5, RunStep DEF Stages, RunRecords, Codes

THEOREM AdapterInvariant == AdapterSpec => []AdapterInv
<1>1. AdapterInit => AdapterInv
  <2> SUFFICES ASSUME AdapterInit PROVE AdapterInv
    OBVIOUS
  <2>1. \A p \in Procs : RunInv(p)
    BY DEF AdapterInit, RunInv, NoReport, Traceback
  <2>2. QED
    BY <2>1 DEF AdapterInit, AdapterInv, Stages, RunRecords, Codes
<1>2. AdapterInv /\ [AdapterNext]_allVars => AdapterInv'
  <2> SUFFICES ASSUME AdapterInv, [AdapterNext]_allVars PROVE AdapterInv'
    OBVIOUS
  <2>1. {2, 3, Interrupted, NoReport, Traceback} \subseteq Codes \ {0, 1}
    BY DEF Codes, ExitCodes, Interrupted, NoReport, Traceback
  <2>2. ASSUME NEW p \in Procs, StoreStep(p) PROVE AdapterInv'
    <3>1. Report(p, NoReport) /\ Forget(p) /\ UNCHANGED results
      BY <2>2 DEF StoreStep, Report, AdapterInv
    <3>2. QED
      BY <2>1, <3>1, FailedStep
  <2>3. ASSUME NEW p \in Procs, LaunchRefused(p) \/ AdapterFails(p) \/ OutputRefused(p)
                                \/ AdapterUncaught(p) \/ PublishFails(p) \/ Interrupt(p)
        PROVE  AdapterInv'
    <3>1. \E code \in {2, 3, Interrupted, NoReport, Traceback} : Report(p, code)
      BY <2>3 DEF LaunchRefused, AdapterFails, OutputRefused, AdapterUncaught, PublishFails, Interrupt
    <3>2. Forget(p) /\ UNCHANGED results
      BY <2>3 DEF LaunchRefused, AdapterFails, OutputRefused, AdapterUncaught, PublishFails, Interrupt
    <3>3. QED
      BY <2>1, <3>1, <3>2, FailedStep
  <2>4. ASSUME NEW p \in Procs, AdapterToolError(p) PROVE AdapterInv'
    <3>1. PICK execution \in Executions :
            /\ Understood(execution, run[p].declared)
            /\ execution.response.coverage = "tool_error"
            /\ Report(p, ExitCode(execution))
      BY <2>4 DEF AdapterToolError
    <3>2. ExitCode(execution) \in {2, 3}
      BY <3>1, UnderstoodMeans
    <3>3. Forget(p) /\ UNCHANGED results
      BY <2>4 DEF AdapterToolError
    <3>4. QED
      BY <2>1, <3>1, <3>2, <3>3, FailedStep
  <2>5. ASSUME NEW s \in Slots, Modify(s), UNCHANGED adapterVars PROVE AdapterInv'
    BY <2>5 DEF adapterVars, AdapterInv, RunInv, Standing, Earned
  <2>6. CASE UNCHANGED allVars
    BY <2>6 DEF allVars, adapterVars, AdapterInv, RunInv, Standing, Earned
  <2>7. QED
    BY <2>2, <2>3, <2>4, <2>5, <2>6, LaunchedStep, StagedStep, PublishedStep, ReportedStep
       DEF AdapterNext
<1>3. QED
  BY <1>1, <1>2, PTL DEF AdapterSpec

\* Every run is in a stage, and reports an exit code or nothing.
THEOREM AdapterTypeCorrect == AdapterSpec => []AdapterTypeOK
<1>1. AdapterInv /\ TypeOK => AdapterTypeOK
  BY DEF AdapterInv, AdapterTypeOK, Stages, Codes, RunRecords
<1>2. QED
  BY <1>1, TypeCorrect, AdapterKeepsStore, AdapterInvariant, PTL

\* Whatever adapters do and however many runs share a results directory: what
\* stands in it passed every check, and a run that reported 0 or 1 told the
\* exit code of its adapter and finds its files there.  A run whose process
\* exits with 1 and that reported nothing has published nothing.
THEOREM ResultsAreEarnedHolds == AdapterSpec => []ResultsAreEarned
<1>1. AdapterInv => ResultsAreEarned
  BY DEF AdapterInv, RunInv, Standing, ResultsAreEarned, ExitStatus, Traceback
<1>2. QED
  BY <1>1, AdapterInvariant, PTL
=================================================================================
