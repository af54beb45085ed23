------------------------------ MODULE InitWriter ------------------------------
(***************************************************************************)
(* `vibesec init --write` (scripts/init_vibesec.py): a preflight, then one *)
(* create-only link for each file of the plan, and after a failure the     *)
(* removal of what was created.  What was created is recognised by its     *)
(* device and inode number.  Nothing locks the target: its user and other  *)
(* initialisations work on it meanwhile, any call may fail, and the        *)
(* command may be interrupted (SIGINT) or killed at any point.             *)
(*                                                                         *)
(* Directories are not removed by the user.  Contents are reduced to who   *)
(* wrote them.                                                             *)
(***************************************************************************)
EXTENDS Naturals, SequencesExt

CONSTANTS
    Paths,    \* the files of the target that matter
    Dirs,     \* the directories of the target, apart from its root
    Parents,  \* the directories above each path, outermost first
    Key,      \* the name of each path and directory without case and Unicode form
    Plan,     \* the paths that are to be created, in order
    Inodes,   \* inode numbers; one that is free may be used again
    Procs,    \* initialisations
    MaxEdits  \* bound on the steps of the user

Nothing == [ino |-> "none", by |-> "nobody"]

ASSUME PlanAssumption ==
    /\ Parents \in [Paths -> Seq(Dirs)]
    /\ Plan \in Seq(Paths) /\ Len(Plan) > 0
    /\ IsInjective(Plan)
    /\ \A x, y \in ToSet(Plan) : Key[x] = Key[y] => x = y
\* The directories are a tree: what is above a directory does not depend on the path.
ASSUME TreeAssumption ==
    \A x, y \in Paths : \A i \in DOMAIN Parents[x], j \in DOMAIN Parents[y] :
        Parents[x][i] = Parents[y][j] => i = j /\ \A h \in 1..i : Parents[x][h] = Parents[y][h]
ASSUME NamesAssumption ==
    /\ Procs \cap {"absent", "other", "user", "nobody"} = {}
    /\ "none" \notin Inodes
    /\ MaxEdits \in Nat

VARIABLES
    node,     \* what is at each path: its inode number and who wrote it
    dirs,     \* for each directory who made it; or absent, or not a directory
    proc,     \* the initialisations
    touched,  \* paths the user wrote
    linked,   \* the inode that each initialisation linked at each path
    raced,    \* paths that were written by others in a window of each
    shared,   \* directories in which others than their maker put something
    edits

history == <<touched, linked, raced, shared, edits>>
vars == <<node, dirs, proc, history>>

Nodes == [ino: Inodes, by: Procs \cup {"user"}] \cup {Nothing}

Pcs == {"idle", "entry", "mkdir", "test", "stage", "link", "stat", "unlink", "unwind",
        "rollback", "remove", "rmdir", "ended"}
Exits == {"none", "success", "conflict", "invalid", "failure", "killed"}

\* An initialisation: its place in the plan, the parents it has yet to make, its
\* temporary file, created_files, created_dirs, and how it ends.  `cut` says that
\* something it made went unrecorded, or that its cleanup was cut short or failed.
Processes == [pc: Pcs, k: 1..Len(Plan), todo: Seq(Dirs), temp: Inodes \cup {"none"},
              files: Seq([path: Paths, ino: Inodes]), made: Seq(Dirs),
              exit: Exits, cut: BOOLEAN]

IdleProcess == [pc |-> "idle", k |-> 1, todo |-> <<>>, temp |-> "none", files |-> <<>>,
                made |-> <<>>, exit |-> "none", cut |-> FALSE]

Above(x) == ToSet(Parents[x])
Inside(e, d) == \E x \in Paths : \E i, j \in DOMAIN Parents[x] :
                    i < j /\ Parents[x][i] = d /\ Parents[x][j] = e
IsDirectory(d) == dirs[d] \notin {"absent", "other"}
Planned == ToSet(Plan)

Init ==
    /\ node \in [Paths -> [ino: Inodes, by: {"user"}] \cup {Nothing}]
    /\ \A x, y \in Paths : node[x] = node[y] /\ node[x] # Nothing => x = y
    /\ dirs \in [Dirs -> {"absent", "other", "user"}]
    /\ \A x \in Paths : node[x] # Nothing => \A d \in Above(x) : IsDirectory(d)
    /\ \A d, e \in Dirs : Inside(e, d) /\ dirs[e] # "absent" => IsDirectory(d)
    /\ proc = [p \in Procs |-> IdleProcess]
    /\ touched = {} /\ shared = {} /\ edits = 0
    /\ linked = [p \in Procs |-> [x \in Paths |-> "none"]]
    /\ raced = [p \in Procs |-> {}]

At(p, pc) == proc[p].pc = pc
Here(p) == Plan[proc[p].k]

Becomes(p, record) == proc' = [proc EXCEPT ![p] = record]
Goto(p, pc) == Becomes(p, [proc[p] EXCEPT !.pc = pc])
End(p, exit) == Becomes(p, [proc[p] EXCEPT !.pc = "ended", !.exit = exit])
\* An exception leaves the loop for the handler that rolls back, from inside the
\* inner try by way of its finally block.
Raise(p, pc, exit) == Becomes(p, [proc[p] EXCEPT !.pc = pc, !.exit = exit])
RaiseUnrecorded(p, pc) == Becomes(p, [proc[p] EXCEPT !.pc = pc, !.exit = "failure", !.cut = TRUE])

Free == {i \in Inodes : /\ \A x \in Paths : node[x].ino # i
                        /\ \A p \in Procs : proc[p].temp # i}

\* A path whose owner p has just been there and relies on what it found.
Exposed(p, x) == \/ At(p, "stat") /\ Here(p) = x
                 \/ At(p, "remove") /\ Last(proc[p].files).path = x
\* Others write x; p, or the user, puts something into directories.
Race(x) == raced' = [p \in Procs |-> raced[p] \cup {y \in {x} : Exposed(p, y)}]
Share(p, directories) == shared' = shared \cup {d \in directories : dirs[d] # p}

-----------------------------------------------------------------------------
(* preflight                                                                *)

Collision ==
    \/ \E x, y \in Paths : x # y /\ Key[x] = Key[y] /\ node[x] # Nothing /\ node[y] # Nothing
    \/ \E d, e \in Dirs : d # e /\ Key[d] = Key[e] /\ dirs[d] # "absent" /\ dirs[e] # "absent"
BlockedParent(x) == \E d \in Above(x) : dirs[d] = "other"
\* Something with the name of the path, or with that of a parent but not the parent.
Conflict(x) ==
    \/ \E y \in Paths : Key[y] = Key[x] /\ node[y] # Nothing
    \/ \E d \in Above(x), e \in Dirs : e # d /\ Key[e] = Key[d] /\ dirs[e] # "absent"

\* Mutation: only the very path is looked for.
PreflightExact(p) ==
    /\ At(p, "idle")
    /\ \A x \in Planned : ~BlockedParent(x) /\ node[x] = Nothing
    /\ Goto(p, "entry")
    /\ UNCHANGED <<node, dirs, history>>

Preflight(p) ==
    /\ At(p, "idle")
    /\ ~Collision
    /\ \A x \in Planned : ~BlockedParent(x) /\ ~Conflict(x)
    /\ Goto(p, "entry")
    /\ UNCHANGED <<node, dirs, history>>

PreflightRefuses(p) ==
    /\ At(p, "idle")
    /\ \/ /\ Collision \/ \E x \in Planned : BlockedParent(x)
          /\ End(p, "invalid")
       \/ /\ ~Collision /\ \A x \in Planned : ~BlockedParent(x)
          /\ \E x \in Planned : Conflict(x)
          /\ End(p, "conflict")
       \/ End(p, "failure")
    /\ UNCHANGED <<node, dirs, history>>

-----------------------------------------------------------------------------
(* write_plan, one entry                                                    *)

\* The missing parents, outermost first: those within the innermost that exists.
Parent(p) ==
    /\ At(p, "entry")
    /\ ~BlockedParent(Here(p))
    /\ LET above == Parents[Here(p)] IN
       \E n \in 0..Len(above) :
          /\ n > 0 => dirs[above[n]] # "absent"
          /\ \A i \in n + 1..Len(above) : dirs[above[i]] = "absent"
          /\ Becomes(p, [proc[p] EXCEPT !.pc = "mkdir",
                                        !.todo = SubSeq(above, n + 1, Len(above))])
    /\ UNCHANGED <<node, dirs, history>>

ParentRefused(p) ==
    /\ At(p, "entry")
    /\ BlockedParent(Here(p))
    /\ Raise(p, "rollback", "invalid")
    /\ UNCHANGED <<node, dirs, history>>

\* mkdir does not make a directory that appeared, nor one whose parent is gone.
CanMake(d) == dirs[d] = "absent" /\ \A e \in Dirs : Inside(d, e) => IsDirectory(e)

MakeDirectory(p) ==
    /\ At(p, "mkdir") /\ proc[p].todo # <<>>
    /\ LET d == Head(proc[p].todo) IN
       /\ CanMake(d)
       /\ dirs' = [dirs EXCEPT ![d] = p]
       /\ Share(p, {e \in Dirs : Inside(d, e)})
       /\ \/ Becomes(p, [proc[p] EXCEPT !.todo = Tail(@), !.made = Append(@, d)])
          \/ RaiseUnrecorded(p, "rollback")
    /\ UNCHANGED <<node, touched, linked, raced, edits>>

ParentsMade(p) ==
    /\ At(p, "mkdir") /\ proc[p].todo = <<>>
    /\ Goto(p, "test")
    /\ UNCHANGED <<node, dirs, history>>

Test(p) ==
    /\ At(p, "test")
    /\ node[Here(p)] = Nothing
    /\ Goto(p, "stage")
    /\ UNCHANGED <<node, dirs, history>>

\* mkstemp; an interrupt before the try block leaves the temporary file.
Stage(p) ==
    /\ At(p, "stage")
    /\ \A d \in Above(Here(p)) : IsDirectory(d)
    /\ \E i \in Free :
          \/ Becomes(p, [proc[p] EXCEPT !.pc = "link", !.temp = i])
          \/ Becomes(p, [proc[p] EXCEPT !.pc = "rollback", !.temp = i, !.exit = "failure", !.cut = TRUE])
    /\ Share(p, Above(Here(p)))
    /\ UNCHANGED <<node, dirs, touched, linked, raced, edits>>

\* Mutation: the temporary file is renamed over what is there.
LinkOver(p) ==
    LET x == Here(p) IN
    /\ At(p, "link")
    /\ node' = [node EXCEPT ![x] = [ino |-> proc[p].temp, by |-> p]]
    /\ linked' = [linked EXCEPT ![p][x] = proc[p].temp]
    /\ Race(x)
    /\ Goto(p, "stat")
    /\ UNCHANGED <<dirs, touched, shared, edits>>

\* The temporary file is written and synced, and then linked, which never
\* replaces what is at the path.
Link(p) ==
    LET x == Here(p) IN
    /\ At(p, "link")
    /\ node[x] = Nothing
    /\ node' = [node EXCEPT ![x] = [ino |-> proc[p].temp, by |-> p]]
    /\ linked' = [linked EXCEPT ![p][x] = proc[p].temp]
    /\ Race(x)
    /\ Goto(p, "stat")
    /\ UNCHANGED <<dirs, touched, shared, edits>>

\* The identity of what is at the path by now.
Stat(p) ==
    LET x == Here(p) IN
    /\ At(p, "stat")
    /\ node[x] # Nothing
    /\ Becomes(p, [proc[p] EXCEPT !.pc = "unlink",
                                  !.files = Append(@, [path |-> x, ino |-> node[x].ino])])
    /\ UNCHANGED <<node, dirs, history>>

\* It is gone again.
StatMissing(p) ==
    /\ At(p, "stat")
    /\ node[Here(p)] = Nothing
    /\ Raise(p, "unwind", "failure")
    /\ UNCHANGED <<node, dirs, history>>

Unlink(p) ==
    /\ At(p, "unlink")
    /\ LET next == [proc[p] EXCEPT !.temp = "none"] IN
       IF proc[p].k < Len(Plan)
       THEN Becomes(p, [next EXCEPT !.pc = "entry", !.k = @ + 1])
       ELSE Becomes(p, [next EXCEPT !.pc = "ended", !.exit = "success"])
    /\ UNCHANGED <<node, dirs, history>>

\* A call fails (OSError), or SIGINT arrives, where nothing unrecorded is lost.
EntryFails(p) ==
    /\ \/ proc[p].pc \in {"entry", "mkdir", "test", "stage"} /\ Raise(p, "rollback", "failure")
       \/ At(p, "link") /\ Raise(p, "unwind", "failure")
    /\ UNCHANGED <<node, dirs, history>>

\* SIGINT after the temporary file is gone, be it the last one of the plan.
EntryInterrupted(p) ==
    /\ At(p, "unlink")
    /\ Becomes(p, [proc[p] EXCEPT !.pc = "rollback", !.temp = "none", !.exit = "failure"])
    /\ UNCHANGED <<node, dirs, history>>

\* It happens between the link and its record, or to the finally block.
EntryFailsUnrecorded(p) ==
    /\ \/ At(p, "stat") /\ RaiseUnrecorded(p, "unwind")
       \/ proc[p].pc \in {"unlink", "unwind"} /\ RaiseUnrecorded(p, "rollback")
    /\ UNCHANGED <<node, dirs, history>>

Unwind(p) ==
    /\ At(p, "unwind")
    /\ Becomes(p, [proc[p] EXCEPT !.pc = "rollback", !.temp = "none"])
    /\ UNCHANGED <<node, dirs, history>>

-----------------------------------------------------------------------------
(* The handler of write_plan: in reverse order, files and then directories  *)

Forget(p, pc) == Becomes(p, [proc[p] EXCEPT !.pc = pc, !.files = Front(@)])

\* Mutation: what is at the path is taken for what was created there.
RollbackStatPath(p) ==
    /\ At(p, "rollback") /\ proc[p].files # <<>>
    /\ IF node[Last(proc[p].files).path] # Nothing THEN Goto(p, "remove") ELSE Forget(p, "rollback")
    /\ UNCHANGED <<node, dirs, history>>

RollbackStat(p) ==
    /\ At(p, "rollback") /\ proc[p].files # <<>>
    /\ LET file == Last(proc[p].files) IN
       IF node[file.path].ino = file.ino THEN Goto(p, "remove") ELSE Forget(p, "rollback")
    /\ UNCHANGED <<node, dirs, history>>

\* Whatever is at the path by now is removed; that nothing is there is ignored.
RollbackRemove(p) ==
    /\ At(p, "remove")
    /\ node' = [node EXCEPT ![Last(proc[p].files).path] = Nothing]
    /\ Forget(p, "rollback")
    /\ UNCHANGED <<dirs, history>>

FilesDone(p) ==
    /\ At(p, "rollback") /\ proc[p].files = <<>>
    /\ Goto(p, "rmdir")
    /\ UNCHANGED <<node, dirs, history>>

Empty(d) ==
    /\ \A x \in Paths : d \in Above(x) => node[x] = Nothing
    /\ \A e \in Dirs : Inside(e, d) => dirs[e] = "absent"
    /\ \A p \in Procs : d \in Above(Here(p)) => proc[p].temp = "none"

\* Mutation: in the order in which they were made.
RemoveDirectoryInOrder(p) ==
    /\ At(p, "rmdir") /\ proc[p].made # <<>>
    /\ LET d == Head(proc[p].made) IN
       dirs' = IF Empty(d) THEN [dirs EXCEPT ![d] = "absent"] ELSE dirs
    /\ Becomes(p, [proc[p] EXCEPT !.made = Tail(@)])
    /\ UNCHANGED <<node, history>>

\* A directory that is not empty stays, as does everything outside it.
RemoveDirectory(p) ==
    /\ At(p, "rmdir") /\ proc[p].made # <<>>
    /\ LET d == Last(proc[p].made) IN
       dirs' = IF Empty(d) THEN [dirs EXCEPT ![d] = "absent"] ELSE dirs
    /\ Becomes(p, [proc[p] EXCEPT !.made = Front(@)])
    /\ UNCHANGED <<node, history>>

\* That rmdir fails for another reason is ignored as well, and the loop goes on.
DirectoryStays(p) ==
    /\ At(p, "rmdir") /\ proc[p].made # <<>>
    /\ Becomes(p, [proc[p] EXCEPT !.made = Front(@), !.cut = TRUE])
    /\ UNCHANGED <<node, dirs, history>>

RolledBack(p) ==
    /\ At(p, "rmdir") /\ proc[p].made = <<>>
    /\ Goto(p, "ended")
    /\ UNCHANGED <<node, dirs, history>>

\* SIGINT, or an error of the stat or unlink of a file other than that nothing is
\* there.  The handler is left.
RollbackFails(p) ==
    /\ proc[p].pc \in {"rollback", "remove", "rmdir"}
    /\ RaiseUnrecorded(p, "ended")
    /\ UNCHANGED <<node, dirs, history>>

Killed(p) ==
    /\ proc[p].pc \notin {"idle", "ended"}
    /\ Becomes(p, [proc[p] EXCEPT !.pc = "ended", !.exit = "killed", !.cut = TRUE])
    /\ UNCHANGED <<node, dirs, history>>

-----------------------------------------------------------------------------
(* The user                                                                 *)

UserWrites(x, text) ==
    /\ edits < MaxEdits /\ edits' = edits + 1
    /\ node' = [node EXCEPT ![x] = text]
    /\ touched' = touched \cup {x}
    /\ Race(x)
    /\ UNCHANGED <<proc, linked>>

\* A new file, with the directories it needs, or one put in the place of another.
UserCreates(x) ==
    /\ ~BlockedParent(x)
    /\ \E i \in Free : UserWrites(x, [ino |-> i, by |-> "user"])
    /\ dirs' = [d \in Dirs |-> IF d \in Above(x) /\ dirs[d] = "absent" THEN "user" ELSE dirs[d]]
    /\ Share("user", Above(x))

\* An edit in place.
UserEdits(x) ==
    /\ node[x] # Nothing
    /\ UserWrites(x, [ino |-> node[x].ino, by |-> "user"])
    /\ UNCHANGED <<dirs, shared>>

UserDeletes(x) ==
    /\ node[x] # Nothing
    /\ UserWrites(x, Nothing)
    /\ UNCHANGED <<dirs, shared>>

\* A file or a link where a directory would be.
UserBlocks(d) ==
    /\ edits < MaxEdits /\ edits' = edits + 1
    /\ CanMake(d)
    /\ dirs' = [dirs EXCEPT ![d] = "other"]
    /\ Share("user", {e \in Dirs : Inside(d, e)})
    /\ UNCHANGED <<node, proc, touched, linked, raced>>

-----------------------------------------------------------------------------
Entry(p) == \/ Parent(p) \/ ParentRefused(p) \/ MakeDirectory(p) \/ ParentsMade(p) \/ Test(p)
            \/ Stage(p) \/ Link(p) \/ Stat(p) \/ StatMissing(p) \/ Unlink(p)
            \/ EntryFails(p) \/ EntryInterrupted(p) \/ EntryFailsUnrecorded(p) \/ Unwind(p)
Rollback(p) == \/ RollbackStat(p) \/ RollbackRemove(p) \/ FilesDone(p)
               \/ RemoveDirectory(p) \/ DirectoryStays(p) \/ RolledBack(p) \/ RollbackFails(p)
Initialise(p) == Preflight(p) \/ PreflightRefuses(p) \/ Entry(p) \/ Rollback(p) \/ Killed(p)

User == \/ \E x \in Paths : UserCreates(x) \/ UserEdits(x) \/ UserDeletes(x)
        \/ \E d \in Dirs : UserBlocks(d)

Next == (\E p \in Procs : Initialise(p)) \/ User

Spec == Init /\ [][Next]_vars

-----------------------------------------------------------------------------
(* What must hold.                                                          *)

\* Types of the target's tree and of the initialisations.
TypeOK ==
    /\ node \in [Paths -> Nodes]
    /\ dirs \in [Dirs -> {"absent", "other", "user"} \cup Procs]
    /\ proc \in [Procs -> Processes]
    /\ touched \subseteq Paths /\ shared \subseteq Dirs
    /\ linked \in [Procs -> [Paths -> Inodes \cup {"none"}]]
    /\ raced \in [Procs -> SUBSET Paths]
    /\ edits \in 0..MaxEdits

Ended(p, exits) == At(p, "ended") /\ proc[p].exit \in exits

\* Exit code 0 means that the whole plan is there: each of its files, unless the
\* user wrote to that path, is the one this initialisation linked, and nothing
\* with an equivalent name stands beside it.  No rollback of another one that
\* overlapped took a file away, whatever failed in it.
SuccessIsComplete ==
    \A p \in Procs : Ended(p, {"success"}) =>
        \A x \in Planned :
            /\ x \notin touched => node[x].by = p
            /\ \A y \in Paths \ {x} : Key[y] = Key[x] /\ node[y] # Nothing => y \in touched

\* A failed initialisation takes back all it created: no file of its is left, no
\* temporary file, and no directory that it made unless others put something in,
\* whoever interferes and wherever it fails, as long as no call of the cleanup
\* itself fails and it is not cut short.
FailureLeavesNothing ==
    \A p \in Procs : Ended(p, {"conflict", "invalid", "failure"}) /\ ~proc[p].cut =>
        /\ \A x \in Paths : node[x].by # p
        /\ proc[p].temp = "none"
        /\ \A d \in Dirs : dirs[d] = p => d \in shared

\* docs/threat-model.md: the initializer "creates only absent files atomically
\* [...] and rolls back only files whose identities match the ones it created".
\* A file of somebody else's disappears in a step of an initialisation only if
\* it has the inode number that was linked there (it was edited in place, or got
\* the number again), or came while the initialisation was looking at the path.
LossIsExplained ==
    [][edits' = edits =>
         \A x \in Paths, p \in Procs :
             proc'[p] # proc[p] /\ node'[x] # node[x] /\ node[x] # Nothing /\ node[x].by # p =>
                 /\ node'[x] = Nothing
                 /\ node[x].ino = linked[p][x] \/ x \in raced[p]]_vars
=============================================================================
