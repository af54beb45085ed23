--------------------------- MODULE InitWriterProofs ---------------------------
(***************************************************************************)
(* Proofs about `vibesec init`, for any plan, any tree of directories, any *)
(* number of initialisations and any work of the user.                     *)
(***************************************************************************)
EXTENDS InitWriter, SequenceTheorems, TLAPS

Writing == {"entry", "mkdir", "test", "stage", "link", "stat", "unlink"}
Staged == {"link", "stat", "unlink", "unwind"}
Failing == {"unwind", "rollback", "remove", "rmdir"}

\* What the control of one initialisation implies for its local variables:
\* created_files is a prefix of the plan, as long as the entry it is at.
Place(r) ==
    /\ Len(r.files) <= r.k
    /\ \A i \in 1..Len(r.files) : r.files[i].path = Plan[i]
    /\ r.pc = "idle" => r = IdleProcess
    /\ r.pc \in Writing \ {"unlink"} => Len(r.files) = r.k - 1
    /\ r.pc = "unlink" => Len(r.files) = r.k
    /\ r.pc = "remove" => r.files # <<>>
    /\ r.pc = "rmdir" => r.files = <<>>
    /\ r.pc \in Staged => r.temp # "none"
    /\ r.pc \notin Staged /\ ~r.cut => r.temp = "none"
    /\ r.pc \in Writing => r.exit = "none"
    /\ r.pc \in Failing => r.exit \in {"invalid", "failure"}
    /\ r.pc = "ended" /\ r.exit \in {"conflict", "invalid", "failure"} /\ ~r.cut =>
           r.files = <<>> /\ r.made = <<>>
    /\ r.pc = "ended" /\ r.exit = "success" => Len(r.files) = Len(Plan)

\* The paths an initialisation has linked and will look at again.
Recorded(p, x) == \E i \in 1..Len(proc[p].files) : proc[p].files[i].path = x
Linking(p, x) == At(p, "stat") /\ Here(p) = x

\* What it recorded, or is about to record, is what it linked, but for a race.
Identified(p) ==
    /\ \A i \in 1..Len(proc[p].files) :
          LET f == proc[p].files[i] IN f.ino = linked[p][f.path] \/ f.path \in raced[p]
    /\ At(p, "stat") =>
          LET x == Here(p) IN
          /\ linked[p][x] = proc[p].temp
          /\ node[x] = Nothing \/ node[x].ino = proc[p].temp \/ x \in raced[p]
    /\ At(p, "remove") =>
          LET f == Last(proc[p].files) IN
          node[f.path] = Nothing \/ node[f.path].ino = f.ino \/ f.path \in raced[p]

\* What it linked is still there, if the user left the path alone.
Held(p) == \A x \in Paths \ touched : Recorded(p, x) \/ Linking(p, x) => node[x].by = p

\* Since its preflight nothing has come beside the plan but from the user.
Beside(p) ==
    ~At(p, "idle") /\ proc[p].exit \in {"none", "success"} =>
        \A x \in Planned, y \in Paths \ Planned :
            Key[y] = Key[x] /\ node[y] # Nothing => y \in touched

\* The rollback of p will find the inode at x among what p created.
Mine(p, x) ==
    \/ proc[p].cut
    \/ \E i \in 1..Len(proc[p].files) :
          proc[p].files[i].path = x /\ proc[p].files[i].ino = node[x].ino
    \/ Linking(p, x) /\ node[x].ino = proc[p].temp

Owned == \A p \in Procs, x \in Paths : node[x].by = p => Mine(p, x)

\* What is in a directory that an initialisation made is its own, or shared.
FilesShared ==
    \A x \in Paths, d \in Dirs : d \in Above(x) /\ node[x] # Nothing =>
        /\ IsDirectory(d)
        /\ dirs[d] \in Procs => d \in shared \/ Mine(dirs[d], x)
TemporariesShared ==
    \A p \in Procs, d \in Dirs : d \in Above(Here(p)) /\ proc[p].temp # "none" =>
        IsDirectory(d) /\ (dirs[d] = p \/ d \in shared)
DirectoriesShared ==
    \A e, d \in Dirs : Inside(e, d) =>
        /\ dirs[e] # "absent" =>
              IsDirectory(d) /\ (dirs[d] \in Procs => d \in shared \/ dirs[e] = dirs[d])
        /\ e \in shared => d \in shared \/ dirs[d] = "user"

\* created_dirs: what it made and not yet removed, outer ones before inner ones.
Made(p) ==
    LET made == proc[p].made IN
    /\ \A i \in 1..Len(made) : dirs[made[i]] = p
    /\ \A i, j \in 1..Len(made) : i < j => made[i] # made[j] /\ ~Inside(made[i], made[j])
MadeComplete(p) ==
    \A d \in Dirs : dirs[d] = p =>
        proc[p].cut \/ d \in shared \/ \E i \in 1..Len(proc[p].made) : proc[p].made[i] = d

FileInv == \A p \in Procs : Place(proc[p]) /\ Identified(p) /\ Held(p) /\ Beside(p)
DirInv ==
    /\ Owned /\ FilesShared /\ TemporariesShared /\ DirectoriesShared
    /\ \A p \in Procs : Made(p) /\ MadeComplete(p)

\* The inductive invariant.
IInv == TypeOK /\ FileInv /\ DirInv

-----------------------------------------------------------------------------
(* Sequences and directories.                                               *)

LEMMA FrontLast ==
    ASSUME NEW S, NEW s \in Seq(S), s # <<>>
    PROVE  /\ Front(s) \in Seq(S) /\ Len(Front(s)) = Len(s) - 1
           /\ \A i \in 1..Len(s) - 1 : Front(s)[i] = s[i]
           /\ Len(s) \in Nat /\ Len(s) > 0 /\ Last(s) = s[Len(s)] /\ Last(s) \in S
<1>1. Len(s) \in Nat /\ Len(s) > 0
  OBVIOUS
<1>2. Front(s) = SubSeq(s, 1, Len(s) - 1)
  BY DEF Front
<1>2a. Front(s) \in Seq(S)
  BY <1>1, <1>2
<1>2b. Len(Front(s)) = Len(s) - 1
  <2>1. 1 \in Int /\ Len(s) - 1 \in Int /\ \A i \in 1..Len(s) - 1 : s[i] \in S
    BY <1>1
  <2>2. \A m, n \in Int : (\A i \in m..n : s[i] \in S) =>
           Len(SubSeq(s, m, n)) = IF m <= n THEN n - m + 1 ELSE 0
    BY SubSeqProperties, Zenon
  <2>3. ASSUME NEW n \in Int, n = Len(s) - 1 PROVE Len(SubSeq(s, 1, n)) = n
    <3>1. \A i \in 1..n : s[i] \in S
      BY <2>1, <2>3
    <3>2. Len(SubSeq(s, 1, n)) = IF 1 <= n THEN n - 1 + 1 ELSE 0
      BY <2>1, <2>2, <3>1, Zenon
    <3> QED  BY <1>1, <2>3, <3>2
  <2> QED  BY <1>1, <1>2, <2>1, <2>3
<1>2c. ASSUME NEW i \in 1..Len(s) - 1 PROVE Front(s)[i] = s[i]
  BY <1>1, <1>2
<1>3. Last(s) = s[Len(s)] /\ Last(s) \in S
  BY <1>1 DEF Last
<1> QED  BY <1>1, <1>2a, <1>2b, <1>2c, <1>3

LEMMA PlanFacts ==
    /\ Len(Plan) \in Nat /\ Len(Plan) > 0
    /\ \A k \in 1..Len(Plan) : Plan[k] \in Paths /\ Plan[k] \in Planned
    /\ \A i, j \in 1..Len(Plan) : Plan[i] = Plan[j] => i = j
    /\ \A x \in Planned : \E i \in 1..Len(Plan) : x = Plan[i]
    /\ Planned \subseteq Paths
    /\ \A x, y \in Planned : Key[x] = Key[y] => x = y
BY PlanAssumption DEF PlanAssumption, IsInjective, ToSet, Planned

LEMMA Chains ==
    ASSUME NEW x \in Paths
    PROVE  /\ Len(Parents[x]) \in Nat /\ DOMAIN Parents[x] = 1..Len(Parents[x])
           /\ \A i \in DOMAIN Parents[x] : Parents[x][i] \in Dirs
BY PlanAssumption DEF PlanAssumption

\* A directory stands above a path together with all those it is in.
LEMMA InsideAbove ==
    ASSUME NEW x \in Paths, NEW d, NEW e, e \in Above(x), Inside(e, d)
    PROVE  d \in Above(x)
<1>1. PICK m \in DOMAIN Parents[x] : Parents[x][m] = e
  BY DEF Above, ToSet
<1>2. PICK y \in Paths : \E i, j \in DOMAIN Parents[y] : i < j /\ Parents[y][i] = d /\ Parents[y][j] = e
  BY DEF Inside
<1>. PICK i \in DOMAIN Parents[y], j \in DOMAIN Parents[y] : i < j /\ Parents[y][i] = d /\ Parents[y][j] = e
  BY <1>2
<1>3. j = m /\ \A h \in 1..j : Parents[y][h] = Parents[x][h]
  BY <1>1, <1>2, TreeAssumption DEF TreeAssumption
<1>4. i \in 1..j /\ i \in DOMAIN Parents[x]
  BY <1>1, <1>2, <1>3, Chains
<1> QED  BY <1>2, <1>3, <1>4 DEF Above, ToSet

LEMMA InsideTransitive ==
    ASSUME NEW c, NEW d, NEW e, Inside(e, d), Inside(d, c)
    PROVE  Inside(e, c)
<1>1. PICK y \in Paths : \E i, j \in DOMAIN Parents[y] : i < j /\ Parents[y][i] = d /\ Parents[y][j] = e
  BY DEF Inside
<1>2. PICK z \in Paths : \E g, h \in DOMAIN Parents[z] : g < h /\ Parents[z][g] = c /\ Parents[z][h] = d
  BY DEF Inside
<1>. PICK i \in DOMAIN Parents[y], j \in DOMAIN Parents[y] : i < j /\ Parents[y][i] = d /\ Parents[y][j] = e
  BY <1>1
<1>. PICK g \in DOMAIN Parents[z], h \in DOMAIN Parents[z] : g < h /\ Parents[z][g] = c /\ Parents[z][h] = d
  BY <1>2
<1>3. h = i /\ \A n \in 1..h : Parents[z][n] = Parents[y][n]
  BY <1>1, <1>2, TreeAssumption DEF TreeAssumption
<1>4. g \in 1..h /\ g \in DOMAIN Parents[y] /\ g < j
  BY <1>1, <1>2, <1>3, Chains
<1> QED  BY <1>1, <1>2, <1>3, <1>4 DEF Inside

LEMMA InsideIrreflexive ==
    ASSUME NEW d
    PROVE  ~Inside(d, d)
<1> SUFFICES ASSUME NEW y \in Paths, NEW i \in DOMAIN Parents[y], NEW j \in DOMAIN Parents[y],
                    i < j, Parents[y][i] = d, Parents[y][j] = d
             PROVE  FALSE
  BY DEF Inside
<1>1. i = j
  BY TreeAssumption DEF TreeAssumption
<1> QED  BY <1>1, Chains

LEMMA InsideDirs ==
    ASSUME NEW d, NEW e
    PROVE  Inside(e, d) => e \in Dirs /\ d \in Dirs
BY Chains DEF Inside

LEMMA AboveDirs == \A x \in Paths : Above(x) \subseteq Dirs
BY Chains DEF Above, ToSet

-----------------------------------------------------------------------------
(* Steps that change nothing but the record of one initialisation.          *)

\* An initialisation that does not move keeps its part of the invariant as long
\* as nobody else writes where it looks.
LEMMA Bystander ==
    ASSUME NEW q \in Procs, proc'[q] = proc[q], UNCHANGED <<node, touched, linked, raced>>
    PROVE  /\ Identified(q) => Identified(q)'
           /\ Held(q) => Held(q)'
           /\ Beside(q) => Beside(q)'
           /\ \A x \in Paths : Mine(q, x) => Mine(q, x)'
<1>1. Identified(q) => Identified(q)'
  BY DEF Identified, At, Here
<1>2. Held(q) => Held(q)'
  BY DEF Held, Recorded, Linking, At, Here
<1>3. Beside(q) => Beside(q)'
  BY DEF Beside, At
<1>4. \A x \in Paths : Mine(q, x) => Mine(q, x)'
  BY DEF Mine, Linking, At, Here
<1> QED  BY <1>1, <1>2, <1>3, <1>4

LEMMA Local ==
    ASSUME IInv, NEW p \in Procs, NEW s \in Processes,
           proc' = [proc EXCEPT ![p] = s], UNCHANGED <<node, dirs, history>>,
           Place(s), s.made = proc[p].made \/ (Made(p) /\ MadeComplete(p))', proc[p].cut => s.cut,
           s.temp = "none" \/ (s.temp = proc[p].temp /\ s.k = proc[p].k),
           Identified(p)', Held(p)', Beside(p)',
           \A x \in Paths : node[x] # Nothing /\ Mine(p, x) => Mine(p, x)'
    PROVE  IInv'
<1> USE DEF history
<1>1. proc \in [Procs -> Processes]
  BY DEF IInv, TypeOK
<1>2. proc'[p] = s /\ \A q \in Procs \ {p} : proc'[q] = proc[q]
  BY <1>1
<1>3. TypeOK'
  BY <1>1 DEF IInv, TypeOK
<1>4. FileInv'
  <2> SUFFICES ASSUME NEW q \in Procs
               PROVE  (Place(proc[q]) /\ Identified(q) /\ Held(q) /\ Beside(q))'
    BY DEF FileInv
  <2>1. CASE q = p
    <3>1. Place(proc'[q])
      BY <1>2, <2>1
    <3> QED  BY <2>1, <3>1 DEF Place
  <2>2. CASE q # p
    <3>1. Place(proc[q]) /\ Identified(q) /\ Held(q) /\ Beside(q)
      BY DEF IInv, FileInv
    <3>2. proc'[q] = proc[q]
      BY <1>2, <2>2
    <3>3. Place(proc[q])'
      BY <3>1, <3>2 DEF Place
    <3> QED  BY <3>1, <3>2, <3>3, Bystander
  <2> QED  BY <2>1, <2>2
<1>5. \A q \in Procs, x \in Paths : node[x] # Nothing /\ Mine(q, x) => Mine(q, x)'
  <2> SUFFICES ASSUME NEW q \in Procs, NEW x \in Paths, node[x] # Nothing, Mine(q, x) PROVE Mine(q, x)'
    OBVIOUS
  <2>1. CASE q = p
    BY <2>1
  <2>2. CASE q # p
    BY <1>2, <2>2, Bystander
  <2> QED  BY <2>1, <2>2
<1>6. Owned'
  <2> SUFFICES ASSUME NEW q \in Procs, NEW x \in Paths, node[x].by = q PROVE Mine(q, x)'
    BY DEF Owned
  <2>1. node[x] # Nothing
    BY NamesAssumption DEF Nothing, NamesAssumption
  <2> QED  BY <1>5, <2>1 DEF IInv, DirInv, Owned
<1>7. FilesShared'
  BY <1>5 DEF IInv, DirInv, FilesShared, IsDirectory
<1>8. TemporariesShared'
  <2> SUFFICES ASSUME NEW q \in Procs, NEW d \in Dirs, d \in Above(Here(q)'), proc'[q].temp # "none"
               PROVE  IsDirectory(d) /\ (dirs[d] = q \/ d \in shared)
    BY DEF TemporariesShared, IsDirectory
  <2>1. proc[q].temp # "none" /\ proc'[q].k = proc[q].k
    BY <1>2
  <2>2. Here(q)' = Here(q)
    BY <2>1 DEF Here
  <2> QED  BY <2>1, <2>2 DEF IInv, DirInv, TemporariesShared
<1>9. DirectoriesShared'
  BY DEF IInv, DirInv, DirectoriesShared, IsDirectory
<1>10. \A q \in Procs : (Made(q) /\ MadeComplete(q))'
  <2> SUFFICES ASSUME NEW q \in Procs PROVE (Made(q) /\ MadeComplete(q))'
    OBVIOUS
  <2>1. CASE q = p /\ (Made(p) /\ MadeComplete(p))'
    BY <2>1
  <2>2. CASE q # p \/ s.made = proc[p].made
    <3>1. proc'[q].made = proc[q].made /\ (proc[q].cut => proc'[q].cut)
      BY <1>2, <2>2
    <3>2. Made(q) /\ MadeComplete(q)
      BY DEF IInv, DirInv
    <3> QED  BY <3>1, <3>2 DEF Made, MadeComplete
  <2> QED  BY <2>1, <2>2
<1> QED  BY <1>3, <1>4, <1>6, <1>7, <1>8, <1>9, <1>10 DEF IInv, DirInv

\* The initialisation goes on with what it has recorded, and has not just linked.
LEMMA Quiet ==
    ASSUME IInv, NEW p \in Procs, NEW s \in Processes,
           proc' = [proc EXCEPT ![p] = s], UNCHANGED <<node, dirs, history>>,
           Place(s), s.made = proc[p].made, s.files = proc[p].files, proc[p].cut => s.cut,
           s.temp = "none" \/ (s.temp = proc[p].temp /\ s.k = proc[p].k),
           s.pc \notin {"idle", "stat", "remove"}, proc[p].pc # "stat" \/ s.cut,
           s.exit \in {"none", "success"} =>
               proc[p].pc # "idle" /\ proc[p].exit \in {"none", "success"}
    PROVE  IInv'
<1> USE DEF history
<1>1. proc \in [Procs -> Processes]
  BY DEF IInv, TypeOK
<1>2. proc'[p] = s
  BY <1>1
<1>3. Identified(p) /\ Held(p) /\ Beside(p)
  BY DEF IInv, FileInv
<1>4. Identified(p)'
  BY <1>2, <1>3 DEF Identified, At
<1>5. Held(p)'
  BY <1>2, <1>3 DEF Held, Recorded, Linking, At
<1>6. Beside(p)'
  BY <1>2, <1>3 DEF Beside, At
<1>7. \A x \in Paths : node[x] # Nothing /\ Mine(p, x) => Mine(p, x)'
  BY <1>2 DEF Mine, Linking, At
<1> QED  BY <1>4, <1>5, <1>6, <1>7, Local

-----------------------------------------------------------------------------
(* The steps that change only the record of one initialisation.             *)

LEMMA Records ==
    ASSUME IInv, NEW p \in Procs
    PROVE  /\ proc[p] \in Processes /\ Place(proc[p])
           /\ proc[p].k \in 1..Len(Plan) /\ proc[p].todo \in Seq(Dirs)
           /\ proc[p].temp \in Inodes \cup {"none"} /\ proc[p].made \in Seq(Dirs)
           /\ proc[p].files \in Seq([path: Paths, ino: Inodes])
           /\ Len(proc[p].files) \in Nat
<1>1. proc[p] \in Processes
  BY DEF IInv, TypeOK
<1>2. proc[p].files \in Seq([path: Paths, ino: Inodes])
  BY <1>1 DEF Processes
<1>3. Len(proc[p].files) \in Nat
  BY <1>2
<1> QED  BY <1>1, <1>2, <1>3 DEF IInv, FileInv, Processes

LEMMA PreflightRefusesStep ==
    ASSUME IInv, NEW p \in Procs, PreflightRefuses(p)
    PROVE  IInv'
<1> DEFINE r == proc[p]
<1>1. r \in Processes /\ Place(r)
  BY Records
<1>2. UNCHANGED <<node, dirs, history>>
  BY DEF PreflightRefuses
<1>3. \/ /\ proc' = [proc EXCEPT ![p] = [proc[p] EXCEPT !.pc = "ended", !.exit = "invalid"]]
         /\ proc[p].pc = "idle"
      \/ /\ proc' = [proc EXCEPT ![p] = [proc[p] EXCEPT !.pc = "ended", !.exit = "conflict"]]
         /\ proc[p].pc = "idle"
      \/ /\ proc' = [proc EXCEPT ![p] = [proc[p] EXCEPT !.pc = "ended", !.exit = "failure"]]
         /\ proc[p].pc = "idle"
  BY DEF PreflightRefuses, Becomes, At, End
<1>4. CASE /\ proc' = [proc EXCEPT ![p] = [proc[p] EXCEPT !.pc = "ended", !.exit = "invalid"]]
           /\ proc[p].pc = "idle"
  <2> DEFINE s == [proc[p] EXCEPT !.pc = "ended", !.exit = "invalid"]
  <2>1. proc' = [proc EXCEPT ![p] = s] /\ proc[p].pc = "idle"
    BY <1>4
  <2>2. s \in Processes
    BY <1>1, <2>1 DEF Processes, Pcs, Exits
  <2>3. Place(s)
    BY <1>1, <2>1, PlanFacts, Records DEF Place, At, Writing, Staged, Failing, Processes, IdleProcess
  <2>4. /\ s.made = r.made /\ s.files = r.files /\ (r.cut => s.cut)
        /\ s.temp = "none" \/ (s.temp = r.temp /\ s.k = r.k)
        /\ s.pc \notin {"idle", "stat", "remove"} /\ (r.pc # "stat" \/ s.cut)
        /\ s.exit \in {"none", "success"} => r.pc # "idle" /\ r.exit \in {"none", "success"}
    BY <1>1, <2>1 DEF Place, At, Writing, Staged, Failing, Processes, Exits
  <2> HIDE DEF s
  <2> QED  BY <1>2, <2>1, <2>2, <2>3, <2>4, Quiet
<1>5. CASE /\ proc' = [proc EXCEPT ![p] = [proc[p] EXCEPT !.pc = "ended", !.exit = "conflict"]]
           /\ proc[p].pc = "idle"
  <2> DEFINE s == [proc[p] EXCEPT !.pc = "ended", !.exit = "conflict"]
  <2>1. proc' = [proc EXCEPT ![p] = s] /\ proc[p].pc = "idle"
    BY <1>5
  <2>2. s \in Processes
    BY <1>1, <2>1 DEF Processes, Pcs, Exits
  <2>3. Place(s)
    BY <1>1, <2>1, PlanFacts, Records DEF Place, At, Writing, Staged, Failing, Processes, IdleProcess
  <2>4. /\ s.made = r.made /\ s.files = r.files /\ (r.cut => s.cut)
        /\ s.temp = "none" \/ (s.temp = r.temp /\ s.k = r.k)
        /\ s.pc \notin {"idle", "stat", "remove"} /\ (r.pc # "stat" \/ s.cut)
        /\ s.exit \in {"none", "success"} => r.pc # "idle" /\ r.exit \in {"none", "success"}
    BY <1>1, <2>1 DEF Place, At, Writing, Staged, Failing, Processes, Exits
  <2> HIDE DEF s
  <2> QED  BY <1>2, <2>1, <2>2, <2>3, <2>4, Quiet
<1>6. CASE /\ proc' = [proc EXCEPT ![p] = [proc[p] EXCEPT !.pc = "ended", !.exit = "failure"]]
           /\ proc[p].pc = "idle"
  <2> DEFINE s == [proc[p] EXCEPT !.pc = "ended", !.exit = "failure"]
  <2>1. proc' = [proc EXCEPT ![p] = s] /\ proc[p].pc = "idle"
    BY <1>6
  <2>2. s \in Processes
    BY <1>1, <2>1 DEF Processes, Pcs, Exits
  <2>3. Place(s)
    BY <1>1, <2>1, PlanFacts, Records DEF Place, At, Writing, Staged, Failing, Processes, IdleProcess
  <2>4. /\ s.made = r.made /\ s.files = r.files /\ (r.cut => s.cut)
        /\ s.temp = "none" \/ (s.temp = r.temp /\ s.k = r.k)
        /\ s.pc \notin {"idle", "stat", "remove"} /\ (r.pc # "stat" \/ s.cut)
        /\ s.exit \in {"none", "success"} => r.pc # "idle" /\ r.exit \in {"none", "success"}
    BY <1>1, <2>1 DEF Place, At, Writing, Staged, Failing, Processes, Exits
  <2> HIDE DEF s
  <2> QED  BY <1>2, <2>1, <2>2, <2>3, <2>4, Quiet
<1> QED  BY <1>3, <1>4, <1>5, <1>6

LEMMA ParentRefusedStep ==
    ASSUME IInv, NEW p \in Procs, ParentRefused(p)
    PROVE  IInv'
<1> DEFINE r == proc[p]
<1>1. r \in Processes /\ Place(r)
  BY Records
<1>2. UNCHANGED <<node, dirs, history>>
  BY DEF ParentRefused
<1> DEFINE s == [proc[p] EXCEPT !.pc = "rollback", !.exit = "invalid"]
<1>3. proc' = [proc EXCEPT ![p] = s] /\ r.pc = "entry"
  BY DEF ParentRefused, Becomes, At, Raise
<1>4. s \in Processes
  BY <1>1, <1>3 DEF Processes, Pcs, Exits
<1>5. Place(s)
  BY <1>1, <1>3, PlanFacts, Records DEF Place, At, Writing, Staged, Failing, Processes, IdleProcess
<1>6. /\ s.made = r.made /\ s.files = r.files /\ (r.cut => s.cut)
      /\ s.temp = "none" \/ (s.temp = r.temp /\ s.k = r.k)
      /\ s.pc \notin {"idle", "stat", "remove"} /\ (r.pc # "stat" \/ s.cut)
      /\ s.exit \in {"none", "success"} => r.pc # "idle" /\ r.exit \in {"none", "success"}
  BY <1>1, <1>3 DEF Place, At, Writing, Staged, Failing, Processes, Exits
<1> HIDE DEF s
<1> QED  BY <1>2, <1>3, <1>4, <1>5, <1>6, Quiet

LEMMA ParentsMadeStep ==
    ASSUME IInv, NEW p \in Procs, ParentsMade(p)
    PROVE  IInv'
<1> DEFINE r == proc[p]
<1>1. r \in Processes /\ Place(r)
  BY Records
<1>2. UNCHANGED <<node, dirs, history>>
  BY DEF ParentsMade
<1> DEFINE s == [proc[p] EXCEPT !.pc = "test"]
<1>3. proc' = [proc EXCEPT ![p] = s] /\ r.pc = "mkdir"
  BY DEF ParentsMade, Becomes, At, Goto
<1>4. s \in Processes
  BY <1>1, <1>3 DEF Processes, Pcs, Exits
<1>5. Place(s)
  BY <1>1, <1>3, PlanFacts, Records DEF Place, At, Writing, Staged, Failing, Processes, IdleProcess
<1>6. /\ s.made = r.made /\ s.files = r.files /\ (r.cut => s.cut)
      /\ s.temp = "none" \/ (s.temp = r.temp /\ s.k = r.k)
      /\ s.pc \notin {"idle", "stat", "remove"} /\ (r.pc # "stat" \/ s.cut)
      /\ s.exit \in {"none", "success"} => r.pc # "idle" /\ r.exit \in {"none", "success"}
  BY <1>1, <1>3 DEF Place, At, Writing, Staged, Failing, Processes, Exits
<1> HIDE DEF s
<1> QED  BY <1>2, <1>3, <1>4, <1>5, <1>6, Quiet

LEMMA TestStep ==
    ASSUME IInv, NEW p \in Procs, Test(p)
    PROVE  IInv'
<1> DEFINE r == proc[p]
<1>1. r \in Processes /\ Place(r)
  BY Records
<1>2. UNCHANGED <<node, dirs, history>>
  BY DEF Test
<1> DEFINE s == [proc[p] EXCEPT !.pc = "stage"]
<1>3. proc' = [proc EXCEPT ![p] = s] /\ r.pc = "test"
  BY DEF Test, Becomes, At, Goto
<1>4. s \in Processes
  BY <1>1, <1>3 DEF Processes, Pcs, Exits
<1>5. Place(s)
  BY <1>1, <1>3, PlanFacts, Records DEF Place, At, Writing, Staged, Failing, Processes, IdleProcess
<1>6. /\ s.made = r.made /\ s.files = r.files /\ (r.cut => s.cut)
      /\ s.temp = "none" \/ (s.temp = r.temp /\ s.k = r.k)
      /\ s.pc \notin {"idle", "stat", "remove"} /\ (r.pc # "stat" \/ s.cut)
      /\ s.exit \in {"none", "success"} => r.pc # "idle" /\ r.exit \in {"none", "success"}
  BY <1>1, <1>3 DEF Place, At, Writing, Staged, Failing, Processes, Exits
<1> HIDE DEF s
<1> QED  BY <1>2, <1>3, <1>4, <1>5, <1>6, Quiet

LEMMA UnlinkStep ==
    ASSUME IInv, NEW p \in Procs, Unlink(p)
    PROVE  IInv'
<1> DEFINE r == proc[p]
<1>1. r \in Processes /\ Place(r)
  BY Records
<1>2. UNCHANGED <<node, dirs, history>>
  BY DEF Unlink
<1>3. \/ /\ proc' = [proc EXCEPT ![p] = [proc[p] EXCEPT !.temp = "none", !.pc = "entry", !.k = @ + 1]]
         /\ proc[p].pc = "unlink" /\ proc[p].k < Len(Plan)
      \/ /\ proc' = [proc EXCEPT ![p] = [proc[p] EXCEPT !.temp = "none", !.pc = "ended", !.exit = "success"]]
         /\ proc[p].pc = "unlink" /\ ~(proc[p].k < Len(Plan))
  BY DEF Unlink, Becomes, At
<1>4. CASE /\ proc' = [proc EXCEPT ![p] = [proc[p] EXCEPT !.temp = "none", !.pc = "entry", !.k = @ + 1]]
           /\ proc[p].pc = "unlink" /\ proc[p].k < Len(Plan)
  <2> DEFINE s == [proc[p] EXCEPT !.temp = "none", !.pc = "entry", !.k = @ + 1]
  <2>1. proc' = [proc EXCEPT ![p] = s] /\ proc[p].pc = "unlink" /\ proc[p].k < Len(Plan)
    BY <1>4
  <2>2. s \in Processes
    <3>1. r.k + 1 \in 1..Len(Plan)
      BY <2>1, PlanFacts, Records
    <3> QED  BY <1>1, <3>1 DEF Processes, Pcs, Exits
  <2>3. Place(s)
    BY <1>1, <2>1, PlanFacts, Records DEF Place, At, Writing, Staged, Failing, Processes, IdleProcess
  <2>4. /\ s.made = r.made /\ s.files = r.files /\ (r.cut => s.cut)
        /\ s.temp = "none" \/ (s.temp = r.temp /\ s.k = r.k)
        /\ s.pc \notin {"idle", "stat", "remove"} /\ (r.pc # "stat" \/ s.cut)
        /\ s.exit \in {"none", "success"} => r.pc # "idle" /\ r.exit \in {"none", "success"}
    BY <1>1, <2>1 DEF Place, At, Writing, Staged, Failing, Processes, Exits
  <2> HIDE DEF s
  <2> QED  BY <1>2, <2>1, <2>2, <2>3, <2>4, Quiet
<1>5. CASE /\ proc' = [proc EXCEPT ![p] = [proc[p] EXCEPT !.temp = "none", !.pc = "ended", !.exit = "success"]]
           /\ proc[p].pc = "unlink" /\ ~(proc[p].k < Len(Plan))
  <2> DEFINE s == [proc[p] EXCEPT !.temp = "none", !.pc = "ended", !.exit = "success"]
  <2>1. proc' = [proc EXCEPT ![p] = s] /\ proc[p].pc = "unlink" /\ ~(proc[p].k < Len(Plan))
    BY <1>5
  <2>2. s \in Processes
    BY <1>1, <2>1 DEF Processes, Pcs, Exits
  <2>3. Place(s)
    BY <1>1, <2>1, PlanFacts, Records DEF Place, At, Writing, Staged, Failing, Processes, IdleProcess
  <2>4. /\ s.made = r.made /\ s.files = r.files /\ (r.cut => s.cut)
        /\ s.temp = "none" \/ (s.temp = r.temp /\ s.k = r.k)
        /\ s.pc \notin {"idle", "stat", "remove"} /\ (r.pc # "stat" \/ s.cut)
        /\ s.exit \in {"none", "success"} => r.pc # "idle" /\ r.exit \in {"none", "success"}
    BY <1>1, <2>1 DEF Place, At, Writing, Staged, Failing, Processes, Exits
  <2> HIDE DEF s
  <2> QED  BY <1>2, <2>1, <2>2, <2>3, <2>4, Quiet
<1> QED  BY <1>3, <1>4, <1>5

LEMMA EntryFailsStep ==
    ASSUME IInv, NEW p \in Procs, EntryFails(p)
    PROVE  IInv'
<1> DEFINE r == proc[p]
<1>1. r \in Processes /\ Place(r)
  BY Records
<1>2. UNCHANGED <<node, dirs, history>>
  BY DEF EntryFails
<1>3. \/ /\ proc' = [proc EXCEPT ![p] = [proc[p] EXCEPT !.pc = "rollback", !.exit = "failure"]]
         /\ proc[p].pc \in {"entry", "mkdir", "test", "stage"}
      \/ /\ proc' = [proc EXCEPT ![p] = [proc[p] EXCEPT !.pc = "unwind", !.exit = "failure"]]
         /\ proc[p].pc = "link"
  BY DEF EntryFails, Becomes, At, Raise
<1>4. CASE /\ proc' = [proc EXCEPT ![p] = [proc[p] EXCEPT !.pc = "rollback", !.exit = "failure"]]
           /\ proc[p].pc \in {"entry", "mkdir", "test", "stage"}
  <2> DEFINE s == [proc[p] EXCEPT !.pc = "rollback", !.exit = "failure"]
  <2>1. proc' = [proc EXCEPT ![p] = s] /\ proc[p].pc \in {"entry", "mkdir", "test", "stage"}
    BY <1>4
  <2>2. s \in Processes
    BY <1>1, <2>1 DEF Processes, Pcs, Exits
  <2>3. Place(s)
    BY <1>1, <2>1, PlanFacts, Records DEF Place, At, Writing, Staged, Failing, Processes, IdleProcess
  <2>4. /\ s.made = r.made /\ s.files = r.files /\ (r.cut => s.cut)
        /\ s.temp = "none" \/ (s.temp = r.temp /\ s.k = r.k)
        /\ s.pc \notin {"idle", "stat", "remove"} /\ (r.pc # "stat" \/ s.cut)
        /\ s.exit \in {"none", "success"} => r.pc # "idle" /\ r.exit \in {"none", "success"}
    BY <1>1, <2>1 DEF Place, At, Writing, Staged, Failing, Processes, Exits
  <2> HIDE DEF s
  <2> QED  BY <1>2, <2>1, <2>2, <2>3, <2>4, Quiet
<1>5. CASE /\ proc' = [proc EXCEPT ![p] = [proc[p] EXCEPT !.pc = "unwind", !.exit = "failure"]]
           /\ proc[p].pc = "link"
  <2> DEFINE s == [proc[p] EXCEPT !.pc = "unwind", !.exit = "failure"]
  <2>1. proc' = [proc EXCEPT ![p] = s] /\ proc[p].pc = "link"
    BY <1>5
  <2>2. s \in Processes
    BY <1>1, <2>1 DEF Processes, Pcs, Exits
  <2>3. Place(s)
    BY <1>1, <2>1, PlanFacts, Records DEF Place, At, Writing, Staged, Failing, Processes, IdleProcess
  <2>4. /\ s.made = r.made /\ s.files = r.files /\ (r.cut => s.cut)
        /\ s.temp = "none" \/ (s.temp = r.temp /\ s.k = r.k)
        /\ s.pc \notin {"idle", "stat", "remove"} /\ (r.pc # "stat" \/ s.cut)
        /\ s.exit \in {"none", "success"} => r.pc # "idle" /\ r.exit \in {"none", "success"}
    BY <1>1, <2>1 DEF Place, At, Writing, Staged, Failing, Processes, Exits
  <2> HIDE DEF s
  <2> QED  BY <1>2, <2>1, <2>2, <2>3, <2>4, Quiet
<1> QED  BY <1>3, <1>4, <1>5

LEMMA EntryInterruptedStep ==
    ASSUME IInv, NEW p \in Procs, EntryInterrupted(p)
    PROVE  IInv'
<1> DEFINE r == proc[p]
<1>1. r \in Processes /\ Place(r)
  BY Records
<1>2. UNCHANGED <<node, dirs, history>>
  BY DEF EntryInterrupted
<1> DEFINE s == [proc[p] EXCEPT !.pc = "rollback", !.temp = "none", !.exit = "failure"]
<1>3. proc' = [proc EXCEPT ![p] = s] /\ r.pc = "unlink"
  BY DEF EntryInterrupted, Becomes, At
<1>4. s \in Processes
  BY <1>1, <1>3 DEF Processes, Pcs, Exits
<1>5. Place(s)
  BY <1>1, <1>3, PlanFacts, Records DEF Place, At, Writing, Staged, Failing, Processes, IdleProcess
<1>6. /\ s.made = r.made /\ s.files = r.files /\ (r.cut => s.cut)
      /\ s.temp = "none" \/ (s.temp = r.temp /\ s.k = r.k)
      /\ s.pc \notin {"idle", "stat", "remove"} /\ (r.pc # "stat" \/ s.cut)
      /\ s.exit \in {"none", "success"} => r.pc # "idle" /\ r.exit \in {"none", "success"}
  BY <1>1, <1>3 DEF Place, At, Writing, Staged, Failing, Processes, Exits
<1> HIDE DEF s
<1> QED  BY <1>2, <1>3, <1>4, <1>5, <1>6, Quiet

LEMMA EntryFailsUnrecordedStep ==
    ASSUME IInv, NEW p \in Procs, EntryFailsUnrecorded(p)
    PROVE  IInv'
<1> DEFINE r == proc[p]
<1>1. r \in Processes /\ Place(r)
  BY Records
<1>2. UNCHANGED <<node, dirs, history>>
  BY DEF EntryFailsUnrecorded
<1>3. \/ /\ proc' = [proc EXCEPT ![p] = [proc[p] EXCEPT !.pc = "unwind", !.exit = "failure", !.cut = TRUE]]
         /\ proc[p].pc = "stat"
      \/ /\ proc' = [proc EXCEPT ![p] = [proc[p] EXCEPT !.pc = "rollback", !.exit = "failure", !.cut = TRUE]]
         /\ proc[p].pc \in {"unlink", "unwind"}
  BY DEF EntryFailsUnrecorded, Becomes, At, RaiseUnrecorded
<1>4. CASE /\ proc' = [proc EXCEPT ![p] = [proc[p] EXCEPT !.pc = "unwind", !.exit = "failure", !.cut = TRUE]]
           /\ proc[p].pc = "stat"
  <2> DEFINE s == [proc[p] EXCEPT !.pc = "unwind", !.exit = "failure", !.cut = TRUE]
  <2>1. proc' = [proc EXCEPT ![p] = s] /\ proc[p].pc = "stat"
    BY <1>4
  <2>2. s \in Processes
    BY <1>1, <2>1 DEF Processes, Pcs, Exits
  <2>3. Place(s)
    BY <1>1, <2>1, PlanFacts, Records DEF Place, At, Writing, Staged, Failing, Processes, IdleProcess
  <2>4. /\ s.made = r.made /\ s.files = r.files /\ (r.cut => s.cut)
        /\ s.temp = "none" \/ (s.temp = r.temp /\ s.k = r.k)
        /\ s.pc \notin {"idle", "stat", "remove"} /\ (r.pc # "stat" \/ s.cut)
        /\ s.exit \in {"none", "success"} => r.pc # "idle" /\ r.exit \in {"none", "success"}
    BY <1>1, <2>1 DEF Place, At, Writing, Staged, Failing, Processes, Exits
  <2> HIDE DEF s
  <2> QED  BY <1>2, <2>1, <2>2, <2>3, <2>4, Quiet
<1>5. CASE /\ proc' = [proc EXCEPT ![p] = [proc[p] EXCEPT !.pc = "rollback", !.exit = "failure", !.cut = TRUE]]
           /\ proc[p].pc \in {"unlink", "unwind"}
  <2> DEFINE s == [proc[p] EXCEPT !.pc = "rollback", !.exit = "failure", !.cut = TRUE]
  <2>1. proc' = [proc EXCEPT ![p] = s] /\ proc[p].pc \in {"unlink", "unwind"}
    BY <1>5
  <2>2. s \in Processes
    BY <1>1, <2>1 DEF Processes, Pcs, Exits
  <2>3. Place(s)
    BY <1>1, <2>1, PlanFacts, Records DEF Place, At, Writing, Staged, Failing, Processes, IdleProcess
  <2>4. /\ s.made = r.made /\ s.files = r.files /\ (r.cut => s.cut)
        /\ s.temp = "none" \/ (s.temp = r.temp /\ s.k = r.k)
        /\ s.pc \notin {"idle", "stat", "remove"} /\ (r.pc # "stat" \/ s.cut)
        /\ s.exit \in {"none", "success"} => r.pc # "idle" /\ r.exit \in {"none", "success"}
    BY <1>1, <2>1 DEF Place, At, Writing, Staged, Failing, Processes, Exits
  <2> HIDE DEF s
  <2> QED  BY <1>2, <2>1, <2>2, <2>3, <2>4, Quiet
<1> QED  BY <1>3, <1>4, <1>5

LEMMA UnwindStep ==
    ASSUME IInv, NEW p \in Procs, Unwind(p)
    PROVE  IInv'
<1> DEFINE r == proc[p]
<1>1. r \in Processes /\ Place(r)
  BY Records
<1>2. UNCHANGED <<node, dirs, history>>
  BY DEF Unwind
<1> DEFINE s == [proc[p] EXCEPT !.pc = "rollback", !.temp = "none"]
<1>3. proc' = [proc EXCEPT ![p] = s] /\ r.pc = "unwind"
  BY DEF Unwind, Becomes, At
<1>4. s \in Processes
  BY <1>1, <1>3 DEF Processes, Pcs, Exits
<1>5. Place(s)
  BY <1>1, <1>3, PlanFacts, Records DEF Place, At, Writing, Staged, Failing, Processes, IdleProcess
<1>6. /\ s.made = r.made /\ s.files = r.files /\ (r.cut => s.cut)
      /\ s.temp = "none" \/ (s.temp = r.temp /\ s.k = r.k)
      /\ s.pc \notin {"idle", "stat", "remove"} /\ (r.pc # "stat" \/ s.cut)
      /\ s.exit \in {"none", "success"} => r.pc # "idle" /\ r.exit \in {"none", "success"}
  BY <1>1, <1>3 DEF Place, At, Writing, Staged, Failing, Processes, Exits
<1> HIDE DEF s
<1> QED  BY <1>2, <1>3, <1>4, <1>5, <1>6, Quiet

LEMMA FilesDoneStep ==
    ASSUME IInv, NEW p \in Procs, FilesDone(p)
    PROVE  IInv'
<1> DEFINE r == proc[p]
<1>1. r \in Processes /\ Place(r)
  BY Records
<1>2. UNCHANGED <<node, dirs, history>>
  BY DEF FilesDone
<1> DEFINE s == [proc[p] EXCEPT !.pc = "rmdir"]
<1>3. proc' = [proc EXCEPT ![p] = s] /\ r.pc = "rollback" /\ r.files = <<>>
  BY DEF FilesDone, Becomes, At, Goto
<1>4. s \in Processes
  BY <1>1, <1>3 DEF Processes, Pcs, Exits
<1>5. Place(s)
  BY <1>1, <1>3, PlanFacts, Records DEF Place, At, Writing, Staged, Failing, Processes, IdleProcess
<1>6. /\ s.made = r.made /\ s.files = r.files /\ (r.cut => s.cut)
      /\ s.temp = "none" \/ (s.temp = r.temp /\ s.k = r.k)
      /\ s.pc \notin {"idle", "stat", "remove"} /\ (r.pc # "stat" \/ s.cut)
      /\ s.exit \in {"none", "success"} => r.pc # "idle" /\ r.exit \in {"none", "success"}
  BY <1>1, <1>3 DEF Place, At, Writing, Staged, Failing, Processes, Exits
<1> HIDE DEF s
<1> QED  BY <1>2, <1>3, <1>4, <1>5, <1>6, Quiet

LEMMA RolledBackStep ==
    ASSUME IInv, NEW p \in Procs, RolledBack(p)
    PROVE  IInv'
<1> DEFINE r == proc[p]
<1>1. r \in Processes /\ Place(r)
  BY Records
<1>2. UNCHANGED <<node, dirs, history>>
  BY DEF RolledBack
<1> DEFINE s == [proc[p] EXCEPT !.pc = "ended"]
<1>3. proc' = [proc EXCEPT ![p] = s] /\ r.pc = "rmdir" /\ r.made = <<>>
  BY DEF RolledBack, Becomes, At, Goto
<1>4. s \in Processes
  BY <1>1, <1>3 DEF Processes, Pcs, Exits
<1>5. Place(s)
  BY <1>1, <1>3, PlanFacts, Records DEF Place, At, Writing, Staged, Failing, Processes, IdleProcess
<1>6. /\ s.made = r.made /\ s.files = r.files /\ (r.cut => s.cut)
      /\ s.temp = "none" \/ (s.temp = r.temp /\ s.k = r.k)
      /\ s.pc \notin {"idle", "stat", "remove"} /\ (r.pc # "stat" \/ s.cut)
      /\ s.exit \in {"none", "success"} => r.pc # "idle" /\ r.exit \in {"none", "success"}
  BY <1>1, <1>3 DEF Place, At, Writing, Staged, Failing, Processes, Exits
<1> HIDE DEF s
<1> QED  BY <1>2, <1>3, <1>4, <1>5, <1>6, Quiet

LEMMA RollbackFailsStep ==
    ASSUME IInv, NEW p \in Procs, RollbackFails(p)
    PROVE  IInv'
<1> DEFINE r == proc[p]
<1>1. r \in Processes /\ Place(r)
  BY Records
<1>2. UNCHANGED <<node, dirs, history>>
  BY DEF RollbackFails
<1> DEFINE s == [proc[p] EXCEPT !.pc = "ended", !.exit = "failure", !.cut = TRUE]
<1>3. proc' = [proc EXCEPT ![p] = s] /\ r.pc \in {"rollback", "remove", "rmdir"}
  BY DEF RollbackFails, Becomes, At, RaiseUnrecorded
<1>4. s \in Processes
  BY <1>1, <1>3 DEF Processes, Pcs, Exits
<1>5. Place(s)
  BY <1>1, <1>3, PlanFacts, Records DEF Place, At, Writing, Staged, Failing, Processes, IdleProcess
<1>6. /\ s.made = r.made /\ s.files = r.files /\ (r.cut => s.cut)
      /\ s.temp = "none" \/ (s.temp = r.temp /\ s.k = r.k)
      /\ s.pc \notin {"idle", "stat", "remove"} /\ (r.pc # "stat" \/ s.cut)
      /\ s.exit \in {"none", "success"} => r.pc # "idle" /\ r.exit \in {"none", "success"}
  BY <1>1, <1>3 DEF Place, At, Writing, Staged, Failing, Processes, Exits
<1> HIDE DEF s
<1> QED  BY <1>2, <1>3, <1>4, <1>5, <1>6, Quiet

LEMMA DirectoryStaysStep ==
    ASSUME IInv, NEW p \in Procs, DirectoryStays(p)
    PROVE  IInv'
<1> DEFINE r == proc[p]
           s == [r EXCEPT !.made = Front(r.made), !.cut = TRUE]
<1>1. /\ r \in Processes /\ Place(r) /\ proc \in [Procs -> Processes] /\ r.made \in Seq(Dirs)
  BY Records DEF IInv, TypeOK
<1>2. /\ r.pc = "rmdir" /\ r.made # <<>> /\ proc' = [proc EXCEPT ![p] = s]
      /\ UNCHANGED <<node, dirs, history>>
  BY DEF DirectoryStays, Becomes, At
<1>3. /\ Front(r.made) \in Seq(Dirs) /\ Len(Front(r.made)) = Len(r.made) - 1
      /\ \A i \in 1..Len(r.made) - 1 : Front(r.made)[i] = r.made[i]
      /\ Len(r.made) \in Nat
  BY <1>1, <1>2, FrontLast
<1>4. s \in Processes
  BY <1>1, <1>3 DEF Processes
<1>5. /\ s.files = r.files /\ s.k = r.k /\ s.temp = r.temp /\ s.pc = r.pc /\ s.exit = r.exit
      /\ s.cut /\ s.made = Front(r.made)
  BY <1>1 DEF Processes
<1>6. \A i \in 1..Len(s.made) : i \in 1..Len(r.made) /\ s.made[i] = r.made[i]
  BY <1>3, <1>5
<1>7. Place(s)
  BY <1>1, <1>2, <1>5 DEF Place, Writing, Staged, Failing
<1>8. proc'[p] = s
  BY <1>1, <1>2
<1> HIDE DEF s
<1>9. Identified(p) /\ Held(p) /\ Beside(p) /\ Made(p)
  BY DEF IInv, FileInv, DirInv
<1>10. Identified(p)' /\ Held(p)' /\ Beside(p)'
  <2>1. Identified(p)'
    BY <1>2, <1>5, <1>8, <1>9 DEF Identified, At, history
  <2>2. Held(p)'
    BY <1>2, <1>5, <1>8, <1>9 DEF Held, Recorded, Linking, At, history
  <2>3. Beside(p)'
    BY <1>2, <1>5, <1>8, <1>9 DEF Beside, At, history
  <2> QED  BY <2>1, <2>2, <2>3
<1>11. \A x \in Paths : Mine(p, x)'
  BY <1>5, <1>8 DEF Mine
<1>12. MadeComplete(p)'
  BY <1>5, <1>8 DEF MadeComplete
<1>13. Made(p)'
  <2>1. \A i \in 1..Len(s.made) : dirs[s.made[i]] = p
    BY <1>6, <1>9 DEF Made
  <2>2. ASSUME NEW i \in 1..Len(s.made), NEW j \in 1..Len(s.made), i < j
        PROVE  s.made[i] # s.made[j] /\ ~Inside(s.made[i], s.made[j])
    <3>1. /\ i \in 1..Len(r.made) /\ s.made[i] = r.made[i]
          /\ j \in 1..Len(r.made) /\ s.made[j] = r.made[j]
      BY <1>6
    <3> QED  BY <1>9, <2>2, <3>1 DEF Made
  <2> QED  BY <1>2, <1>8, <2>1, <2>2 DEF Made
<1> QED  BY <1>2, <1>4, <1>5, <1>7, <1>10, <1>11, <1>12, <1>13, Local

LEMMA KilledStep ==
    ASSUME IInv, NEW p \in Procs, Killed(p)
    PROVE  IInv'
<1> DEFINE r == proc[p]
<1>1. r \in Processes /\ Place(r)
  BY Records
<1>2. UNCHANGED <<node, dirs, history>>
  BY DEF Killed
<1> DEFINE s == [proc[p] EXCEPT !.pc = "ended", !.exit = "killed", !.cut = TRUE]
<1>3. proc' = [proc EXCEPT ![p] = s] /\ r.pc \notin {"idle", "ended"}
  BY DEF Killed, Becomes, At
<1>4. s \in Processes
  BY <1>1, <1>3 DEF Processes, Pcs, Exits
<1>5. Place(s)
  BY <1>1, <1>3, PlanFacts, Records DEF Place, At, Writing, Staged, Failing, Processes, IdleProcess
<1>6. /\ s.made = r.made /\ s.files = r.files /\ (r.cut => s.cut)
      /\ s.temp = "none" \/ (s.temp = r.temp /\ s.k = r.k)
      /\ s.pc \notin {"idle", "stat", "remove"} /\ (r.pc # "stat" \/ s.cut)
      /\ s.exit \in {"none", "success"} => r.pc # "idle" /\ r.exit \in {"none", "success"}
  BY <1>1, <1>3 DEF Place, At, Writing, Staged, Failing, Processes, Exits
<1> HIDE DEF s
<1> QED  BY <1>2, <1>3, <1>4, <1>5, <1>6, Quiet

LEMMA ParentStep ==
    ASSUME IInv, NEW p \in Procs, Parent(p)
    PROVE  IInv'
<1> DEFINE r == proc[p]
           above == Parents[Here(p)]
<1>1. r \in Processes /\ Place(r) /\ r.k \in 1..Len(Plan)
  BY Records
<1>2. UNCHANGED <<node, dirs, history>> /\ r.pc = "entry"
  BY DEF Parent, At
<1>3. PICK n \in 0..Len(above) :
          proc' = [proc EXCEPT ![p] = [r EXCEPT !.pc = "mkdir", !.todo = SubSeq(above, n + 1, Len(above))]]
  BY DEF Parent, Becomes
<1>4. Len(above) \in Nat /\ \A i \in 1..Len(above) : above[i] \in Dirs
  BY <1>1, PlanFacts, Chains DEF Here
<1>5. SubSeq(above, n + 1, Len(above)) \in Seq(Dirs)
  <2>1. n + 1 \in Int /\ Len(above) \in Int /\ \A i \in n + 1..Len(above) : above[i] \in Dirs
    BY <1>3, <1>4
  <2> QED  BY <2>1, SubSeqProperties
<1> DEFINE s == [r EXCEPT !.pc = "mkdir", !.todo = SubSeq(above, n + 1, Len(above))]
<1>6. s \in Processes
  BY <1>1, <1>5 DEF Processes, Pcs
<1>7. Place(s)
  BY <1>1, <1>2 DEF Place, Writing, Staged, Failing, Processes
<1>8. /\ s.made = r.made /\ s.files = r.files /\ (r.cut => s.cut)
      /\ s.temp = "none" \/ (s.temp = r.temp /\ s.k = r.k)
      /\ s.pc \notin {"idle", "stat", "remove"} /\ (r.pc # "stat" \/ s.cut)
      /\ s.exit \in {"none", "success"} => r.pc # "idle" /\ r.exit \in {"none", "success"}
  BY <1>1, <1>2 DEF Place, Writing, Staged, Failing, Processes, Exits
<1>9. proc' = [proc EXCEPT ![p] = s]
  BY <1>3
<1> HIDE DEF s
<1> QED  BY <1>2, <1>6, <1>7, <1>8, <1>9, Quiet

\* The preflight establishes that nothing stands beside the plan.
LEMMA PreflightStep ==
    ASSUME IInv, NEW p \in Procs, Preflight(p)
    PROVE  IInv'
<1> DEFINE r == proc[p]
           s == [r EXCEPT !.pc = "entry"]
<1>1. r \in Processes /\ Place(r) /\ proc \in [Procs -> Processes]
  BY Records DEF IInv, TypeOK
<1>2. UNCHANGED <<node, dirs, history>> /\ proc' = [proc EXCEPT ![p] = s] /\ r.pc = "idle"
  BY DEF Preflight, Goto, Becomes, At
<1>3. r = IdleProcess
  BY <1>1, <1>2 DEF Place
<1>4. s \in Processes
  BY <1>1 DEF Processes, Pcs
<1>5. s.pc = "entry" /\ s.files = <<>> /\ s.k = 1 /\ s.temp = "none" /\ s.made = r.made /\ s.cut = FALSE
      /\ s.exit = "none" /\ r.cut = FALSE /\ r.files = <<>>
  BY <1>1, <1>3 DEF Processes, IdleProcess
<1>6. Place(s)
  BY <1>5 DEF Place, Writing, Staged, Failing
<1>7. proc'[p] = s
  BY <1>1, <1>2
<1> HIDE DEF s
<1>8. Identified(p)' /\ Held(p)'
  BY <1>5, <1>7 DEF Identified, Held, Recorded, Linking, At
<1>9. Beside(p)'
  BY <1>2, PlanFacts DEF Beside, Preflight, Conflict, history
<1>10. \A x \in Paths : ~Mine(p, x)
  BY <1>2, <1>5 DEF Mine, Linking, At
<1> QED  BY <1>2, <1>4, <1>5, <1>6, <1>8, <1>9, <1>10, Local

\* The identity of a new file is recorded; or it is gone.
LEMMA StatStep ==
    ASSUME IInv, NEW p \in Procs, Stat(p)
    PROVE  IInv'
<1> DEFINE r == proc[p]
           x == Here(p)
           file == [path |-> x, ino |-> node[x].ino]
           s == [r EXCEPT !.pc = "unlink", !.files = Append(r.files, file)]
<1>1. r \in Processes /\ Place(r) /\ proc \in [Procs -> Processes] /\ r.k \in 1..Len(Plan)
      /\ r.files \in Seq([path: Paths, ino: Inodes]) /\ Len(r.files) \in Nat
  BY Records DEF IInv, TypeOK
<1>2. UNCHANGED <<node, dirs, history>> /\ r.pc = "stat" /\ node[x] # Nothing
  BY DEF Stat, At
<1>3. proc' = [proc EXCEPT ![p] = s]
  BY DEF Stat, Becomes
<1>4. x \in Paths /\ x = Plan[r.k]
  BY <1>1, PlanFacts DEF Here
<1>5. file \in [path: Paths, ino: Inodes]
  BY <1>2, <1>4 DEF IInv, TypeOK, Nodes
<1>6. s \in Processes
  <2>1. Append(r.files, file) \in Seq([path: Paths, ino: Inodes])
    BY <1>1, <1>5
  <2> QED  BY <1>1, <2>1 DEF Processes, Pcs
<1>7. /\ s.pc = "unlink" /\ s.files = Append(r.files, file) /\ s.k = r.k /\ s.temp = r.temp
      /\ s.made = r.made /\ s.cut = r.cut /\ s.exit = r.exit
  BY <1>1 DEF Processes
<1>8. /\ Len(s.files) = Len(r.files) + 1 /\ s.files[Len(r.files) + 1] = file
      /\ \A i \in 1..Len(r.files) : s.files[i] = r.files[i]
  BY <1>1, <1>5, <1>7
<1>9. Len(r.files) = r.k - 1 /\ r.temp # "none" /\ r.exit = "none"
  BY <1>1, <1>2 DEF Place, Writing, Staged
<1>10. \A i \in 1..Len(s.files) : i = Len(s.files) \/ i \in 1..Len(r.files)
  BY <1>1, <1>8
<1>11. proc'[p] = s
  BY <1>1, <1>3
<1> HIDE DEF s
<1>12. Place(s)
  <2>1. \A i \in 1..Len(s.files) : s.files[i].path = Plan[i]
    <3> SUFFICES ASSUME NEW i \in 1..Len(s.files) PROVE s.files[i].path = Plan[i]
      OBVIOUS
    <3>1. CASE i \in 1..Len(r.files)
      BY <1>1, <1>8, <3>1 DEF Place
    <3>2. CASE i = Len(s.files)
      <4>1. i = r.k /\ s.files[i] = file
        BY <1>1, <1>8, <1>9, <3>2
      <4> QED  BY <1>4, <4>1
    <3> QED  BY <1>10, <3>1, <3>2
  <2>2. Len(s.files) = s.k
    BY <1>1, <1>7, <1>8, <1>9
  <2> QED  BY <1>1, <1>7, <1>9, <2>1, <2>2 DEF Place, Writing, Staged, Failing
<1>13. Identified(p) /\ Held(p) /\ Beside(p)
  BY DEF IInv, FileInv
<1>14. Identified(p)'
  <2>1. file.ino = linked[p][x] \/ x \in raced[p]
    BY <1>2, <1>13 DEF Identified, At
  <2>2. \A i \in 1..Len(s.files) : s.files[i].ino = linked[p][s.files[i].path] \/ s.files[i].path \in raced[p]
    <3> SUFFICES ASSUME NEW i \in 1..Len(s.files)
                 PROVE  s.files[i].ino = linked[p][s.files[i].path] \/ s.files[i].path \in raced[p]
      OBVIOUS
    <3>1. CASE i \in 1..Len(r.files)
      <4>1. s.files[i] = r.files[i]
        BY <1>8, <3>1
      <4>2. r.files[i].ino = linked[p][r.files[i].path] \/ r.files[i].path \in raced[p]
        BY <1>13, <3>1 DEF Identified
      <4> QED  BY <4>1, <4>2
    <3>2. CASE i = Len(s.files)
      <4>1. s.files[i].ino = file.ino /\ s.files[i].path = x
        BY <1>8, <3>2
      <4> QED  BY <2>1, <4>1
    <3> QED  BY <1>10, <3>1, <3>2
  <2> QED  BY <1>2, <1>7, <1>11, <2>2 DEF Identified, At, history
<1>15. Held(p)'
  <2> SUFFICES ASSUME NEW y \in Paths \ touched, Recorded(p, y)' PROVE node[y].by = p
    BY <1>2, <1>7, <1>11 DEF Held, Linking, At, history
  <2>1. Recorded(p, y) \/ Linking(p, y)
    BY <1>2, <1>8, <1>10, <1>11 DEF Recorded, Linking, At
  <2> QED  BY <1>13, <2>1 DEF Held
<1>16. Beside(p)'
  BY <1>2, <1>7, <1>11, <1>13 DEF Beside, At, history
<1>17. ASSUME NEW y \in Paths, Mine(p, y) PROVE Mine(p, y)'
  <2>1. CASE Linking(p, y)
    <3>1. y = x
      BY <2>1 DEF Linking
    <3>2. Len(s.files) \in 1..Len(s.files)
      BY <1>1, <1>8
    <3> QED  BY <1>2, <1>8, <1>11, <3>1, <3>2 DEF Mine
  <2>2. CASE ~Linking(p, y)
    <3>1. \A i \in 1..Len(r.files) : i \in 1..Len(s.files)
      BY <1>1, <1>8
    <3> QED  BY <1>2, <1>7, <1>8, <1>11, <1>17, <2>2, <3>1 DEF Mine
  <2> QED  BY <2>1, <2>2
<1> QED  BY <1>2, <1>3, <1>6, <1>7, <1>12, <1>14, <1>15, <1>16, <1>17, Local

LEMMA StatMissingStep ==
    ASSUME IInv, NEW p \in Procs, StatMissing(p)
    PROVE  IInv'
<1> DEFINE r == proc[p]
           s == [r EXCEPT !.pc = "unwind", !.exit = "failure"]
<1>1. r \in Processes /\ Place(r) /\ proc \in [Procs -> Processes] /\ r.k \in 1..Len(Plan)
      /\ Len(r.files) \in Nat
  BY Records DEF IInv, TypeOK
<1>2. /\ UNCHANGED <<node, dirs, history>> /\ r.pc = "stat" /\ node[Here(p)] = Nothing
      /\ proc' = [proc EXCEPT ![p] = s]
  BY DEF StatMissing, At, Raise, Becomes
<1>3. s \in Processes
  BY <1>1 DEF Processes, Pcs, Exits
<1>4. /\ s.pc = "unwind" /\ s.files = r.files /\ s.k = r.k /\ s.temp = r.temp
      /\ s.made = r.made /\ s.cut = r.cut /\ s.exit = "failure"
  BY <1>1 DEF Processes
<1>5. Place(s)
  BY <1>1, <1>2, <1>4 DEF Place, Writing, Staged, Failing
<1>6. proc'[p] = s
  BY <1>1, <1>2
<1> HIDE DEF s
<1>7. Identified(p) /\ Held(p) /\ Beside(p)
  BY DEF IInv, FileInv
<1>8. Identified(p)'
  BY <1>2, <1>4, <1>6, <1>7 DEF Identified, At, history
<1>9. Held(p)'
  BY <1>2, <1>4, <1>6, <1>7 DEF Held, Recorded, Linking, At, history
<1>10. Beside(p)'
  BY <1>4, <1>6 DEF Beside
<1>11. \A x \in Paths : node[x] # Nothing /\ Mine(p, x) => Mine(p, x)'
  BY <1>2, <1>4, <1>6 DEF Mine, Linking
<1> QED  BY <1>2, <1>3, <1>4, <1>5, <1>8, <1>9, <1>10, <1>11, Local

\* Dropping the last record keeps the rest of the list.
LEMMA Forgetting ==
    ASSUME IInv, NEW p \in Procs, proc[p].files # <<>>,
           proc[p].pc \in {"rollback", "remove"}
    PROVE  LET r == proc[p]
               s == [r EXCEPT !.pc = "rollback", !.files = Front(r.files)] IN
           /\ s \in Processes /\ Place(s)
           /\ s.pc = "rollback" /\ s.k = r.k /\ s.temp = r.temp /\ s.made = r.made
           /\ s.cut = r.cut /\ s.exit = r.exit /\ s.exit \in {"invalid", "failure"}
           /\ Len(r.files) \in 1..r.k /\ Len(s.files) = Len(r.files) - 1
           /\ \A i \in 1..Len(s.files) : i \in 1..Len(r.files) /\ s.files[i] = r.files[i]
           /\ \A i \in 1..Len(r.files) : i = Len(r.files) \/ i \in 1..Len(s.files)
           /\ Last(r.files) = r.files[Len(r.files)]
           /\ Last(r.files) \in [path: Paths, ino: Inodes]
<1> DEFINE r == proc[p]
           s == [r EXCEPT !.pc = "rollback", !.files = Front(r.files)]
<1>1. r \in Processes /\ Place(r) /\ r.files \in Seq([path: Paths, ino: Inodes])
      /\ Len(r.files) \in Nat /\ r.k \in 1..Len(Plan)
  BY Records
<1>2. /\ Front(r.files) \in Seq([path: Paths, ino: Inodes]) /\ Len(Front(r.files)) = Len(r.files) - 1
      /\ \A i \in 1..Len(r.files) - 1 : Front(r.files)[i] = r.files[i]
      /\ Len(r.files) > 0 /\ Last(r.files) = r.files[Len(r.files)]
      /\ Last(r.files) \in [path: Paths, ino: Inodes]
  BY <1>1, FrontLast
<1>3. s \in Processes
  BY <1>1, <1>2 DEF Processes, Pcs
<1>4. /\ s.pc = "rollback" /\ s.k = r.k /\ s.temp = r.temp /\ s.made = r.made
      /\ s.cut = r.cut /\ s.exit = r.exit /\ s.files = Front(r.files)
  BY <1>1 DEF Processes
<1>5. Len(r.files) \in 1..r.k /\ r.exit \in {"invalid", "failure"}
  BY <1>1, <1>2, PlanFacts DEF Place, Failing
<1> HIDE DEF s
<1>6. /\ \A i \in 1..Len(s.files) : i \in 1..Len(r.files) /\ s.files[i] = r.files[i]
      /\ \A i \in 1..Len(r.files) : i = Len(r.files) \/ i \in 1..Len(s.files)
  BY <1>1, <1>2, <1>4
<1>7. Place(s)
  <2>1. \A i \in 1..Len(s.files) : s.files[i].path = Plan[i]
    <3> TAKE i \in 1..Len(s.files)
    <3>1. i \in 1..Len(r.files) /\ s.files[i] = r.files[i]
      BY <1>6
    <3> QED  BY <1>1, <3>1 DEF Place
  <2>2. Len(s.files) <= s.k
    BY <1>1, <1>2, <1>4, <1>5
  <2>3. ~s.cut => s.temp = "none"
    BY <1>1, <1>4 DEF Place, Staged
  <2> QED  BY <1>4, <1>5, <2>1, <2>2, <2>3 DEF Place, Writing, Staged, Failing
<1> USE DEF s
<1> QED  BY <1>2, <1>3, <1>4, <1>5, <1>6, <1>7

\* A record that no longer fits what is at the path was not of p's file.
LEMMA RollbackStatStep ==
    ASSUME IInv, NEW p \in Procs, RollbackStat(p)
    PROVE  IInv'
<1> DEFINE r == proc[p]
           file == Last(r.files)
<1>1. r \in Processes /\ Place(r) /\ proc \in [Procs -> Processes] /\ Len(r.files) \in Nat
  BY Records DEF IInv, TypeOK
<1>2. /\ UNCHANGED <<node, dirs, history>> /\ r.pc = "rollback" /\ r.files # <<>>
      /\ \/ node[file.path].ino = file.ino /\ Goto(p, "remove")
         \/ node[file.path].ino # file.ino /\ Forget(p, "rollback")
  BY DEF RollbackStat, At
<1>3. Identified(p) /\ Held(p) /\ Beside(p)
  BY DEF IInv, FileInv
<1>4. CASE node[file.path].ino = file.ino /\ Goto(p, "remove")
  <2> DEFINE s == [r EXCEPT !.pc = "remove"]
  <2>1. s \in Processes
    BY <1>1 DEF Processes, Pcs
  <2>2. /\ s.pc = "remove" /\ s.files = r.files /\ s.k = r.k /\ s.temp = r.temp
        /\ s.made = r.made /\ s.cut = r.cut /\ s.exit = r.exit
    BY <1>1 DEF Processes
  <2>3. Place(s)
    BY <1>1, <1>2, <2>2 DEF Place, Writing, Staged, Failing
  <2>4. proc' = [proc EXCEPT ![p] = s] /\ proc'[p] = s
    BY <1>1, <1>4 DEF Goto, Becomes
  <2> HIDE DEF s
  <2>5. Identified(p)'
    BY <1>2, <1>3, <1>4, <2>2, <2>4 DEF Identified, At, history
  <2>6. Held(p)'
    BY <1>2, <1>3, <2>2, <2>4 DEF Held, Recorded, Linking, At, history
  <2>7. Beside(p)'
    BY <1>1, <1>2, <2>2, <2>4 DEF Beside, Place, Failing
  <2>8. \A x \in Paths : node[x] # Nothing /\ Mine(p, x) => Mine(p, x)'
    BY <1>2, <2>2, <2>4 DEF Mine, Linking, At
  <2> QED  BY <1>2, <2>1, <2>2, <2>3, <2>4, <2>5, <2>6, <2>7, <2>8, Local
<1>5. CASE node[file.path].ino # file.ino /\ Forget(p, "rollback")
  <2> DEFINE s == [r EXCEPT !.pc = "rollback", !.files = Front(r.files)]
  <2>1. /\ s \in Processes /\ Place(s)
        /\ s.pc = "rollback" /\ s.k = r.k /\ s.temp = r.temp /\ s.made = r.made
        /\ s.cut = r.cut /\ s.exit \in {"invalid", "failure"}
        /\ \A i \in 1..Len(s.files) : i \in 1..Len(r.files) /\ s.files[i] = r.files[i]
        /\ \A i \in 1..Len(r.files) : i = Len(r.files) \/ i \in 1..Len(s.files)
        /\ Last(r.files) = r.files[Len(r.files)]
    BY <1>2, Forgetting
  <2>2. proc' = [proc EXCEPT ![p] = s]
    BY <1>5 DEF Forget, Becomes
  <2>3. proc'[p] = s
    BY <1>1, <2>2
  <2> HIDE DEF s
  <2>4. Identified(p)'
    BY <1>2, <1>3, <2>1, <2>3 DEF Identified, At, history
  <2>5. Held(p)'
    BY <1>2, <1>3, <2>1, <2>3 DEF Held, Recorded, Linking, At, history
  <2>6. Beside(p)'
    BY <2>1, <2>3 DEF Beside
  <2>7. ASSUME NEW x \in Paths, Mine(p, x) PROVE Mine(p, x)'
    <3>1. CASE r.cut
      BY <2>1, <2>3, <3>1 DEF Mine
    <3>2. CASE \E i \in 1..Len(r.files) : r.files[i].path = x /\ r.files[i].ino = node[x].ino
      <4>1. PICK i \in 1..Len(r.files) : r.files[i].path = x /\ r.files[i].ino = node[x].ino
        BY <3>2
      <4>2. i \in 1..Len(s.files) /\ s.files[i] = r.files[i]
        BY <1>5, <2>1, <4>1
      <4> QED  BY <1>2, <2>3, <4>1, <4>2 DEF Mine
    <3> QED  BY <1>2, <2>7, <3>1, <3>2 DEF Mine, Linking, At
  <2> QED  BY <1>2, <2>1, <2>2, <2>4, <2>5, <2>6, <2>7, Local
<1> QED  BY <1>2, <1>4, <1>5

-----------------------------------------------------------------------------
(* Steps that write at a path.                                              *)

\* What an initialisation knows survives what others write at a path.
LEMMA Elsewhere ==
    ASSUME IInv, NEW q \in Procs, NEW x \in Paths, NEW n \in Nodes,
           proc'[q] = proc[q], linked'[q] = linked[q],
           node' = [node EXCEPT ![x] = n], touched \subseteq touched', raced[q] \subseteq raced'[q],
           n = Nothing \/ (Exposed(q, x) => x \in raced'[q]),
           x \in touched' \/ ~(Recorded(q, x) \/ Linking(q, x)),
           n # Nothing => x \in Planned \cup touched'
    PROVE  /\ Place(proc[q])' /\ Identified(q)' /\ Held(q)' /\ Beside(q)'
           /\ \A y \in Paths : y # x \/ n.ino = node[x].ino => (Mine(q, y) => Mine(q, y)')
<1>1. Place(proc[q]) /\ Identified(q) /\ Held(q) /\ Beside(q)
  BY DEF IInv, FileInv
<1>2. node'[x] = n /\ \A y \in Paths \ {x} : node'[y] = node[y]
  BY DEF IInv, TypeOK
<1>3. Place(proc[q])'
  BY <1>1 DEF Place
<1>4. Here(q) \in Paths
  BY Records, PlanFacts DEF Here
<1>5. Identified(q)'
  <2>1. \A i \in 1..Len(proc[q].files) :
          LET f == proc[q].files[i] IN f.ino = linked'[q][f.path] \/ f.path \in raced'[q]
    BY <1>1 DEF Identified
  <2>2. At(q, "stat") =>
          /\ linked'[q][Here(q)] = proc[q].temp
          /\ node'[Here(q)] = Nothing \/ node'[Here(q)].ino = proc[q].temp \/ Here(q) \in raced'[q]
    <3>1. CASE Here(q) = x
      BY <1>1, <1>2, <3>1 DEF Identified, Exposed
    <3>2. CASE Here(q) # x
      BY <1>1, <1>2, <1>4, <3>2 DEF Identified
    <3> QED  BY <3>1, <3>2
  <2>3. At(q, "remove") =>
          LET f == Last(proc[q].files) IN
          node'[f.path] = Nothing \/ node'[f.path].ino = f.ino \/ f.path \in raced'[q]
    <3> SUFFICES ASSUME At(q, "remove")
                 PROVE  LET f == Last(proc[q].files) IN
                        node'[f.path] = Nothing \/ node'[f.path].ino = f.ino \/ f.path \in raced'[q]
      OBVIOUS
    <3> DEFINE f == Last(proc[q].files)
    <3>1. f \in [path: Paths, ino: Inodes]
      BY <1>1, Forgetting DEF At, Place
    <3>2. CASE f.path = x
      BY <1>1, <1>2, <3>2 DEF Identified, Exposed
    <3>3. CASE f.path # x
      BY <1>1, <1>2, <3>1, <3>3 DEF Identified
    <3> QED  BY <3>2, <3>3
  <2> QED  BY <2>1, <2>2, <2>3 DEF Identified, At, Here
<1>6. Held(q)'
  BY <1>1, <1>2 DEF Held, Recorded, Linking, At, Here
<1>7. Beside(q)'
  BY <1>1, <1>2 DEF Beside, At
<1>8. ASSUME NEW y \in Paths, y # x \/ n.ino = node[x].ino, Mine(q, y) PROVE Mine(q, y)'
  <2>1. node'[y].ino = node[y].ino
    BY <1>2, <1>8
  <2> QED  BY <1>8, <2>1 DEF Mine, Linking, At, Here
<1> QED  BY <1>3, <1>5, <1>6, <1>7, <1>8

\* The user's steps at a path: the initialisations stand still.
LEMMA UserWritesStep ==
    ASSUME IInv, NEW x \in Paths, NEW n \in Nodes, UserWrites(x, n), n.by \notin Procs,
           n = Nothing \/ (n.ino = node[x].ino /\ node[x] # Nothing)
               \/ \A d \in Above(x) : dirs'[d] \in Procs => d \in shared',
           n # Nothing => \A d \in Above(x) : dirs'[d] \notin {"absent", "other"},
           dirs' \in [Dirs -> {"absent", "other", "user"} \cup Procs],
           \A d \in Dirs : dirs'[d] = dirs[d] \/ (dirs[d] = "absent" /\ dirs'[d] = "user"),
           shared \subseteq shared', shared' \subseteq Dirs, DirectoriesShared'
    PROVE  IInv'
<1>1. /\ edits < MaxEdits /\ edits' = edits + 1
      /\ node' = [node EXCEPT ![x] = n] /\ touched' = touched \cup {x}
      /\ proc' = proc /\ linked' = linked
      /\ raced' = [p \in Procs |-> raced[p] \cup {y \in {x} : Exposed(p, y)}]
  BY DEF UserWrites, Race
<1>2. TypeOK'
  <2>1. edits' \in 0..MaxEdits
    BY <1>1, NamesAssumption DEF IInv, TypeOK, NamesAssumption
  <2>2. raced' \in [Procs -> SUBSET Paths]
    BY <1>1 DEF IInv, TypeOK
  <2> QED  BY <1>1, <2>1, <2>2 DEF IInv, TypeOK
<1>3. \A q \in Procs :
          /\ Place(proc[q])' /\ Identified(q)' /\ Held(q)' /\ Beside(q)'
          /\ \A y \in Paths : y # x \/ n.ino = node[x].ino => (Mine(q, y) => Mine(q, y)')
  <2> TAKE q \in Procs
  <2>1. raced'[q] = raced[q] \cup {y \in {x} : Exposed(q, y)}
    BY <1>1
  <2>2. /\ proc'[q] = proc[q] /\ linked'[q] = linked[q] /\ touched \subseteq touched' /\ x \in touched'
        /\ raced[q] \subseteq raced'[q] /\ (Exposed(q, x) => x \in raced'[q])
    BY <1>1, <2>1
  <2> QED  BY <1>1, <2>2, Elsewhere
<1>4. node'[x] = n /\ \A y \in Paths \ {x} : node'[y] = node[y]
  BY <1>1 DEF IInv, TypeOK
<1>5. FileInv'
  BY <1>3 DEF FileInv
<1>6. Owned'
  <2> SUFFICES ASSUME NEW q \in Procs, NEW y \in Paths, node'[y].by = q PROVE Mine(q, y)'
    BY DEF Owned
  <2>1. y # x /\ node[y].by = q
    BY <1>4
  <2> QED  BY <1>3, <2>1 DEF IInv, DirInv, Owned
<1>7. \A d \in Dirs : /\ IsDirectory(d) => IsDirectory(d)'
                      /\ dirs'[d] \in Procs => dirs[d] = dirs'[d]
                      /\ \A q \in Procs : dirs[d] = q => dirs'[d] = q
  BY NamesAssumption DEF IsDirectory, NamesAssumption
<1>8. FilesShared'
  <2> SUFFICES ASSUME NEW y \in Paths, NEW d \in Dirs, d \in Above(y), node'[y] # Nothing
               PROVE  /\ IsDirectory(d)'
                      /\ \A q \in Procs : dirs'[d] = q => d \in shared' \/ Mine(q, y)'
    BY DEF FilesShared
  <2>1. CASE y = x /\ ~(n.ino = node[x].ino /\ node[x] # Nothing)
    BY <1>4, <2>1 DEF IsDirectory
  <2>2. CASE y # x \/ (n.ino = node[x].ino /\ node[x] # Nothing)
    <3>1. node[y] # Nothing
      BY <1>4, <2>2
    <3>2. IsDirectory(d) /\ (dirs[d] \in Procs => d \in shared \/ Mine(dirs[d], y))
      BY <3>1 DEF IInv, DirInv, FilesShared
    <3>3. ASSUME NEW q \in Procs, dirs'[d] = q PROVE d \in shared' \/ Mine(q, y)'
      BY <1>3, <1>7, <2>2, <3>2, <3>3
    <3>4. IsDirectory(d)'
      BY <1>7, <3>2
    <3> QED  BY <3>3, <3>4
  <2> QED  BY <2>1, <2>2
<1>9. TemporariesShared'
  BY <1>1, <1>7 DEF IInv, DirInv, TemporariesShared, Here, IsDirectory
<1>10. ASSUME NEW q \in Procs PROVE (Made(q) /\ MadeComplete(q))'
  <2>1. Made(q) /\ MadeComplete(q)
    BY DEF IInv, DirInv
  <2>2. \A i \in 1..Len(proc[q].made) : proc[q].made[i] \in Dirs
    BY Records
  <2>3. Made(q)'
    BY <1>1, <1>7, <2>1, <2>2 DEF Made
  <2>4. MadeComplete(q)'
    BY <1>1, <1>7, <2>1 DEF MadeComplete
  <2> QED  BY <2>3, <2>4
<1> QED  BY <1>2, <1>5, <1>6, <1>8, <1>9, <1>10 DEF IInv, DirInv

\* An edit in place or a deletion.
LEMMA UserEditsStep ==
    ASSUME IInv, NEW x \in Paths, UserEdits(x) \/ UserDeletes(x)
    PROVE  IInv'
<1> DEFINE edited == [ino |-> node[x].ino, by |-> "user"]
<1>1. /\ node[x] # Nothing /\ UNCHANGED <<dirs, shared>>
      /\ UserWrites(x, edited) \/ UserWrites(x, Nothing)
  BY DEF UserEdits, UserDeletes
<1>2. edited \in Nodes /\ Nothing \in Nodes /\ edited.by \notin Procs /\ Nothing.by \notin Procs
      /\ edited # Nothing
  BY <1>1, NamesAssumption DEF IInv, TypeOK, Nodes, Nothing, NamesAssumption
<1>3. DirectoriesShared'
  BY <1>1 DEF IInv, DirInv, DirectoriesShared, IsDirectory
<1>4. /\ dirs' \in [Dirs -> {"absent", "other", "user"} \cup Procs]
      /\ \A d \in Dirs : dirs'[d] = dirs[d]
      /\ shared \subseteq shared' /\ shared' \subseteq Dirs
  BY <1>1 DEF IInv, TypeOK
<1>5. \A d \in Above(x) : dirs'[d] \notin {"absent", "other"}
  BY <1>1, AboveDirs DEF IInv, DirInv, FilesShared, IsDirectory
<1>6. CASE UserWrites(x, edited)
  BY <1>1, <1>2, <1>3, <1>4, <1>5, <1>6, UserWritesStep
<1>7. CASE UserWrites(x, Nothing)
  BY <1>1, <1>2, <1>3, <1>4, <1>7, UserWritesStep
<1> QED  BY <1>1, <1>6, <1>7

\* A new file, in directories that are now shared.
LEMMA UserCreatesStep ==
    ASSUME IInv, NEW x \in Paths, UserCreates(x)
    PROVE  IInv'
<1>1. PICK i \in Free : UserWrites(x, [ino |-> i, by |-> "user"])
  BY DEF UserCreates
<1> DEFINE n == [ino |-> i, by |-> "user"]
<1>2. n \in Nodes /\ n.by \notin Procs
  BY NamesAssumption DEF Free, Nodes, NamesAssumption
<1>3. /\ \A d \in Above(x) : dirs[d] # "other"
      /\ dirs' = [d \in Dirs |-> IF d \in Above(x) /\ dirs[d] = "absent" THEN "user" ELSE dirs[d]]
      /\ shared' = shared \cup {d \in Above(x) : dirs[d] # "user"}
  BY DEF UserCreates, BlockedParent, Share
<1>4. dirs \in [Dirs -> {"absent", "other", "user"} \cup Procs] /\ shared \subseteq Dirs
  BY DEF IInv, TypeOK
<1>5. \A d \in Dirs : /\ dirs'[d] = dirs[d] \/ (dirs[d] = "absent" /\ dirs'[d] = "user")
                      /\ d \in Above(x) => dirs'[d] \notin {"absent", "other"}
                      /\ d \notin Above(x) => dirs'[d] = dirs[d]
                      /\ dirs[d] \notin {"absent", "other"} => dirs'[d] \notin {"absent", "other"}
  BY <1>3, <1>4
<1>6. dirs' \in [Dirs -> {"absent", "other", "user"} \cup Procs]
  BY <1>3, <1>4
<1>7. shared \subseteq shared' /\ shared' \subseteq Dirs
  BY <1>3, <1>4, AboveDirs
<1>8. \A d \in Above(x) : /\ dirs'[d] \in Procs => d \in shared'
                          /\ d \in shared' \/ dirs'[d] = "user"
  BY <1>3, <1>5, AboveDirs, NamesAssumption DEF NamesAssumption
<1>9. DirectoriesShared'
  <2> SUFFICES ASSUME NEW e \in Dirs, NEW d \in Dirs, Inside(e, d)
               PROVE  /\ dirs'[e] # "absent" =>
                            /\ dirs'[d] \notin {"absent", "other"}
                            /\ dirs'[d] \in Procs => d \in shared' \/ dirs'[e] = dirs'[d]
                      /\ e \in shared' => d \in shared' \/ dirs'[d] = "user"
    BY DEF DirectoriesShared, IsDirectory
  <2>1. /\ dirs[e] # "absent" =>
              /\ dirs[d] \notin {"absent", "other"}
              /\ dirs[d] \in Procs => d \in shared \/ dirs[e] = dirs[d]
        /\ e \in shared => d \in shared \/ dirs[d] = "user"
    BY DEF IInv, DirInv, DirectoriesShared, IsDirectory
  <2>2. CASE e \in Above(x)
    <3>1. d \in Above(x)
      BY <2>2, InsideAbove
    <3> QED  BY <1>5, <1>8, <3>1
  <2>3. CASE e \notin Above(x)
    <3>1. dirs'[e] = dirs[e] /\ (e \in shared' => e \in shared)
      BY <1>3, <1>5, <2>3
    <3>2. dirs'[e] # "absent" => dirs'[d] = dirs[d]
      BY <1>5, <2>1, <3>1
    <3>3. e \in shared' => d \in shared' \/ dirs'[d] = "user"
      BY <1>5, <1>7, <2>1, <3>1
    <3> QED  BY <1>7, <2>1, <3>1, <3>2, <3>3
  <2> QED  BY <2>2, <2>3
<1>10. \A d \in Above(x) : dirs'[d] \notin {"absent", "other"}
  BY <1>5, AboveDirs
<1> QED  BY <1>1, <1>2, <1>5, <1>6, <1>7, <1>8, <1>9, <1>10, UserWritesStep

\* Something else where a directory could be made.
LEMMA UserBlocksStep ==
    ASSUME IInv, NEW c \in Dirs, UserBlocks(c)
    PROVE  IInv'
<1>1. /\ edits < MaxEdits /\ edits' = edits + 1
      /\ dirs[c] = "absent" /\ \A e \in Dirs : Inside(c, e) => IsDirectory(e)
      /\ dirs' = [dirs EXCEPT ![c] = "other"]
      /\ shared' = shared \cup {d \in {e \in Dirs : Inside(c, e)} : dirs[d] # "user"}
      /\ UNCHANGED <<node, proc, touched, linked, raced>>
  BY DEF UserBlocks, CanMake, Share
<1>2. dirs \in [Dirs -> {"absent", "other", "user"} \cup Procs] /\ shared \subseteq Dirs
  BY DEF IInv, TypeOK
<1>3. /\ dirs'[c] = "other" /\ \A d \in Dirs \ {c} : dirs'[d] = dirs[d]
      /\ shared \subseteq shared' /\ shared' \subseteq Dirs
  BY <1>1, <1>2
<1>4. TypeOK'
  <2>1. edits' \in 0..MaxEdits
    BY <1>1, NamesAssumption DEF IInv, TypeOK, NamesAssumption
  <2>2. dirs' \in [Dirs -> {"absent", "other", "user"} \cup Procs]
    BY <1>1, <1>2
  <2> QED  BY <1>1, <1>3, <2>1, <2>2 DEF IInv, TypeOK
<1>5. FileInv'
  <2> SUFFICES ASSUME NEW q \in Procs
               PROVE  (Place(proc[q]) /\ Identified(q) /\ Held(q) /\ Beside(q))'
    BY DEF FileInv
  <2>1. Place(proc[q]) /\ Identified(q) /\ Held(q) /\ Beside(q)
    BY DEF IInv, FileInv
  <2>2. Place(proc[q])'
    BY <1>1, <2>1 DEF Place
  <2> QED  BY <1>1, <2>1, <2>2, Bystander
<1>6. \A q \in Procs, y \in Paths : Mine(q, y) => Mine(q, y)'
  BY <1>1, Bystander
<1>7. Owned'
  BY <1>1, <1>6 DEF IInv, DirInv, Owned
<1>8. \A d \in Dirs : /\ IsDirectory(d) => d # c /\ dirs'[d] = dirs[d] /\ IsDirectory(d)'
                      /\ \A q \in Procs : dirs[d] = q <=> dirs'[d] = q
  BY <1>1, <1>3, NamesAssumption DEF IsDirectory, NamesAssumption
<1>9. FilesShared'
  <2> SUFFICES ASSUME NEW y \in Paths, NEW d \in Dirs, d \in Above(y), node[y] # Nothing
               PROVE  /\ IsDirectory(d)'
                      /\ \A q \in Procs : dirs'[d] = q => d \in shared' \/ Mine(q, y)'
    BY <1>1 DEF FilesShared
  <2>1. IsDirectory(d) /\ (dirs[d] \in Procs => d \in shared \/ Mine(dirs[d], y))
    BY DEF IInv, DirInv, FilesShared
  <2> QED  BY <1>3, <1>6, <1>8, <2>1
<1>10. TemporariesShared'
  BY <1>1, <1>3, <1>8 DEF IInv, DirInv, TemporariesShared, Here
<1>11. DirectoriesShared'
  <2> SUFFICES ASSUME NEW e \in Dirs, NEW d \in Dirs, Inside(e, d)
               PROVE  /\ dirs'[e] # "absent" =>
                            IsDirectory(d)' /\ (dirs'[d] \in Procs => d \in shared' \/ dirs'[e] = dirs'[d])
                      /\ e \in shared' => d \in shared' \/ dirs'[d] = "user"
    BY DEF DirectoriesShared
  <2>1. /\ dirs[e] # "absent" =>
              IsDirectory(d) /\ (dirs[d] \in Procs => d \in shared \/ dirs[e] = dirs[d])
        /\ e \in shared => d \in shared \/ dirs[d] = "user"
    BY DEF IInv, DirInv, DirectoriesShared
  <2>2. CASE e = c
    <3>1. IsDirectory(d) /\ (d \in shared' \/ dirs[d] = "user")
      BY <1>1, <2>2
    <3>2. dirs'[d] = dirs[d] /\ IsDirectory(d)'
      BY <1>8, <3>1
    <3> QED  BY <3>1, <3>2, NamesAssumption DEF NamesAssumption
  <2>3. CASE e # c
    <3>1. dirs'[e] = dirs[e]
      BY <1>3, <2>3
    <3>2. dirs[e] # "absent" => dirs'[d] = dirs[d] /\ IsDirectory(d)'
      BY <1>8, <2>1
    <3>3. dirs[d] = "user" => dirs'[d] = "user"
      BY <1>1, <1>3
    <3>4. e \in shared' => (Inside(c, d) /\ IsDirectory(d)) \/ e \in shared
      BY <1>1, InsideTransitive
    <3>5. Inside(c, d) => d \in shared' \/ dirs[d] = "user"
      BY <1>1
    <3> QED  BY <1>3, <2>1, <3>1, <3>2, <3>3, <3>4, <3>5
  <2> QED  BY <2>2, <2>3
<1>12. ASSUME NEW q \in Procs PROVE (Made(q) /\ MadeComplete(q))'
  <2>1. Made(q) /\ MadeComplete(q)
    BY DEF IInv, DirInv
  <2>2. \A i \in 1..Len(proc[q].made) : proc[q].made[i] \in Dirs
    BY Records
  <2>3. Made(q)'
    BY <1>1, <1>8, <2>1, <2>2 DEF Made
  <2>4. MadeComplete(q)'
    BY <1>1, <1>3, <1>8, <2>1 DEF MadeComplete
  <2> QED  BY <2>3, <2>4
<1> QED  BY <1>4, <1>5, <1>7, <1>9, <1>10, <1>11, <1>12 DEF IInv, DirInv

\* The link: at a path where nothing was, in directories that are shared.
LEMMA LinkStep ==
    ASSUME IInv, NEW p \in Procs, Link(p)
    PROVE  IInv'
<1> DEFINE r == proc[p]
           s == [r EXCEPT !.pc = "stat"]
           x == Here(p)
           n == [ino |-> r.temp, by |-> p]
<1>1. r \in Processes /\ Place(r) /\ proc \in [Procs -> Processes] /\ r.k \in 1..Len(Plan)
      /\ Len(r.files) \in Nat /\ r.temp \in Inodes \cup {"none"}
  BY Records DEF IInv, TypeOK
<1>2. /\ r.pc = "link" /\ node[x] = Nothing /\ node' = [node EXCEPT ![x] = n]
      /\ linked' = [linked EXCEPT ![p][x] = r.temp]
      /\ raced' = [q \in Procs |-> raced[q] \cup {y \in {x} : Exposed(q, y)}]
      /\ proc' = [proc EXCEPT ![p] = s]
      /\ UNCHANGED <<dirs, touched, shared, edits>>
  BY DEF Link, Race, Goto, Becomes, At
<1>3. x \in Paths /\ x \in Planned /\ x = Plan[r.k]
  BY <1>1, PlanFacts DEF Here
<1>4. s \in Processes
  BY <1>1 DEF Processes, Pcs
<1>5. /\ s.pc = "stat" /\ s.files = r.files /\ s.k = r.k /\ s.temp = r.temp
      /\ s.made = r.made /\ s.cut = r.cut /\ s.exit = r.exit
  BY <1>1 DEF Processes
<1>6. Place(s)
  BY <1>1, <1>2, <1>5 DEF Place, Writing, Staged, Failing
<1>7. proc'[p] = s /\ \A q \in Procs \ {p} : proc'[q] = proc[q]
  BY <1>1, <1>2
<1>8. r.temp \in Inodes /\ n \in Nodes /\ n # Nothing /\ n.ino = r.temp /\ n.by = p
  BY <1>1, <1>2, NamesAssumption DEF Place, Staged, Nodes, Nothing, NamesAssumption
<1>9. node'[x] = n /\ \A y \in Paths \ {x} : node'[y] = node[y]
  BY <1>2, <1>3 DEF IInv, TypeOK
<1>10. linked \in [Procs -> [Paths -> Inodes \cup {"none"}]] /\ raced \in [Procs -> SUBSET Paths]
  BY DEF IInv, TypeOK
<1>11. /\ linked'[p][x] = r.temp /\ \A y \in Paths \ {x} : linked'[p][y] = linked[p][y]
       /\ \A q \in Procs \ {p} : linked'[q] = linked[q]
       /\ linked' \in [Procs -> [Paths -> Inodes \cup {"none"}]]
  BY <1>2, <1>3, <1>8, <1>10
<1>12. \A q \in Procs : raced'[q] = raced[q] \cup {y \in {x} : Exposed(q, y)}
  BY <1>2
<1>13. raced' \in [Procs -> SUBSET Paths]
  BY <1>2, <1>3, <1>10
<1> HIDE DEF s
<1>14. TypeOK'
  <2>1. node' \in [Paths -> Nodes]
    BY <1>2, <1>8 DEF IInv, TypeOK
  <2>2. proc' \in [Procs -> Processes]
    BY <1>1, <1>2, <1>4
  <2> QED  BY <1>2, <1>11, <1>13, <2>1, <2>2 DEF IInv, TypeOK
<1>15. \A q \in Procs : x \notin touched => ~(Recorded(q, x) \/ Linking(q, x))
  <2> SUFFICES ASSUME NEW q \in Procs, x \notin touched, Recorded(q, x) \/ Linking(q, x) PROVE FALSE
    OBVIOUS
  <2>1. node[x].by = q
    BY <1>3 DEF IInv, FileInv, Held
  <2> QED  BY <1>2, <2>1, NamesAssumption DEF Nothing, NamesAssumption
<1>16. ASSUME NEW q \in Procs, q # p
       PROVE  /\ Place(proc[q])' /\ Identified(q)' /\ Held(q)' /\ Beside(q)'
              /\ \A y \in Paths : y # x => (Mine(q, y) => Mine(q, y)')
  <2>1. /\ proc'[q] = proc[q] /\ linked'[q] = linked[q] /\ touched \subseteq touched'
        /\ raced[q] \subseteq raced'[q] /\ (Exposed(q, x) => x \in raced'[q])
        /\ x \in touched' \/ ~(Recorded(q, x) \/ Linking(q, x))
    BY <1>2, <1>7, <1>11, <1>12, <1>15, <1>16
  <2>2. /\ Place(proc[q])' /\ Identified(q)' /\ Held(q)' /\ Beside(q)'
        /\ \A y \in Paths : y # x \/ n.ino = node[x].ino => (Mine(q, y) => Mine(q, y)')
    BY <1>2, <1>3, <1>8, <2>1, Elsewhere
  <2> QED  BY <2>2
<1>17. Here(p)' = x
  BY <1>5, <1>7 DEF Here
<1>18. Identified(p) /\ Held(p) /\ Beside(p)
  BY DEF IInv, FileInv
<1>19. \A i \in 1..Len(r.files) : r.files[i].path # x /\ r.files[i].path \in Paths
  <2> TAKE i \in 1..Len(r.files)
  <2>1. r.files[i].path = Plan[i] /\ Len(r.files) = r.k - 1
    BY <1>1, <1>2 DEF Place, Writing
  <2>2. i \in 1..Len(Plan) /\ i # r.k
    BY <1>1, <2>1, PlanFacts
  <2> QED  BY <1>1, <1>3, <2>1, <2>2, PlanFacts
<1>20. Identified(p)'
  <2>1. \A i \in 1..Len(r.files) : r.files[i].ino = linked'[p][r.files[i].path] \/ r.files[i].path \in raced'[p]
    <3> TAKE i \in 1..Len(r.files)
    <3>1. r.files[i].ino = linked[p][r.files[i].path] \/ r.files[i].path \in raced[p]
      BY <1>18 DEF Identified
    <3> QED  BY <1>11, <1>12, <1>19, <3>1
  <2> QED  BY <1>5, <1>7, <1>8, <1>9, <1>11, <1>17, <2>1 DEF Identified, At
<1>21. Held(p)'
  <2> SUFFICES ASSUME NEW y \in Paths \ touched, (Recorded(p, y) \/ Linking(p, y))'
               PROVE  node'[y].by = p
    BY <1>2 DEF Held
  <2>1. CASE y = x
    BY <1>8, <1>9, <2>1
  <2>2. CASE y # x
    <3>1. Recorded(p, y)
      BY <1>5, <1>7, <1>17, <2>2 DEF Recorded, Linking
    <3> QED  BY <1>9, <1>18, <2>2, <3>1 DEF Held
  <2> QED  BY <2>1, <2>2
<1>22. Beside(p)'
  BY <1>2, <1>3, <1>5, <1>7, <1>9, <1>18 DEF Beside, At
<1>23. FileInv'
  <2> SUFFICES ASSUME NEW q \in Procs
               PROVE  (Place(proc[q]) /\ Identified(q) /\ Held(q) /\ Beside(q))'
    BY DEF FileInv
  <2>1. CASE q = p
    BY <1>6, <1>7, <1>20, <1>21, <1>22, <2>1 DEF Place
  <2> QED  BY <1>16, <2>1
<1>24. \A y \in Paths \ {x}, q \in Procs : Mine(q, y) => Mine(q, y)'
  <2> SUFFICES ASSUME NEW y \in Paths \ {x}, NEW q \in Procs, Mine(q, y) PROVE Mine(q, y)'
    OBVIOUS
  <2>1. CASE q = p
    BY <1>2, <1>5, <1>7, <1>9, <2>1 DEF Mine, Linking, At
  <2> QED  BY <1>16, <2>1
<1>25. ASSUME NEW q \in Procs, NEW y \in Paths, q = p, y = x PROVE Mine(q, y)'
  BY <1>5, <1>7, <1>8, <1>9, <1>17, <1>25 DEF Mine, Linking, At
<1>26. Owned'
  <2> SUFFICES ASSUME NEW q \in Procs, NEW y \in Paths, node'[y].by = q PROVE Mine(q, y)'
    BY DEF Owned
  <2>1. CASE y = x
    BY <1>8, <1>9, <1>25, <2>1
  <2>2. CASE y # x
    BY <1>9, <1>24, <2>2 DEF IInv, DirInv, Owned
  <2> QED  BY <2>1, <2>2
<1>27. FilesShared'
  <2> SUFFICES ASSUME NEW y \in Paths, NEW d \in Dirs, d \in Above(y), node'[y] # Nothing
               PROVE  /\ IsDirectory(d)
                      /\ \A q \in Procs : dirs[d] = q => d \in shared \/ Mine(q, y)'
    BY <1>2 DEF FilesShared, IsDirectory
  <2>1. CASE y = x
    <3>1. IsDirectory(d) /\ (dirs[d] = p \/ d \in shared)
      BY <1>1, <1>2, <1>8, <2>1, NamesAssumption DEF IInv, DirInv, TemporariesShared, NamesAssumption
    <3> QED  BY <1>25, <2>1, <3>1
  <2>2. CASE y # x
    <3>1. IsDirectory(d) /\ (dirs[d] \in Procs => d \in shared \/ Mine(dirs[d], y))
      BY <1>9, <2>2 DEF IInv, DirInv, FilesShared
    <3> QED  BY <1>24, <2>2, <3>1
  <2> QED  BY <2>1, <2>2
<1>28. TemporariesShared'
  <2> SUFFICES ASSUME NEW q \in Procs, NEW d \in Dirs, d \in Above(Here(q)'), proc'[q].temp # "none"
               PROVE  IsDirectory(d) /\ (dirs[d] = q \/ d \in shared)
    BY <1>2 DEF TemporariesShared, IsDirectory
  <2>1. proc'[q].temp = proc[q].temp /\ Here(q)' = Here(q)
    BY <1>5, <1>7 DEF Here
  <2> QED  BY <2>1 DEF IInv, DirInv, TemporariesShared
<1>29. DirectoriesShared'
  BY <1>2 DEF IInv, DirInv, DirectoriesShared, IsDirectory
<1>30. ASSUME NEW q \in Procs PROVE (Made(q) /\ MadeComplete(q))'
  <2>1. proc'[q].made = proc[q].made /\ proc'[q].cut = proc[q].cut
    BY <1>5, <1>7
  <2>2. Made(q) /\ MadeComplete(q)
    BY DEF IInv, DirInv
  <2> QED  BY <1>2, <2>1, <2>2 DEF Made, MadeComplete
<1> QED  BY <1>14, <1>23, <1>26, <1>27, <1>28, <1>29, <1>30 DEF IInv, DirInv

\* The rollback removes what is at a recorded path, which no other
\* initialisation relies on.
LEMMA RollbackRemoveStep ==
    ASSUME IInv, NEW p \in Procs, RollbackRemove(p)
    PROVE  IInv'
<1> DEFINE r == proc[p]
           s == [r EXCEPT !.pc = "rollback", !.files = Front(r.files)]
           x == Last(r.files).path
<1>1. r \in Processes /\ Place(r) /\ proc \in [Procs -> Processes] /\ Len(r.files) \in Nat
  BY Records DEF IInv, TypeOK
<1>2. /\ r.pc = "remove" /\ node' = [node EXCEPT ![x] = Nothing]
      /\ proc' = [proc EXCEPT ![p] = s]
      /\ UNCHANGED <<dirs, touched, linked, raced, shared, edits>>
  BY DEF RollbackRemove, Forget, Becomes, At, history
<1>3. r.files # <<>>
  BY <1>1, <1>2 DEF Place
<1>4. /\ s \in Processes /\ Place(s)
      /\ s.pc = "rollback" /\ s.k = r.k /\ s.temp = r.temp /\ s.made = r.made
      /\ s.cut = r.cut /\ s.exit \in {"invalid", "failure"}
      /\ Len(r.files) \in 1..r.k /\ Len(s.files) = Len(r.files) - 1
      /\ \A i \in 1..Len(s.files) : i \in 1..Len(r.files) /\ s.files[i] = r.files[i]
      /\ \A i \in 1..Len(r.files) : i = Len(r.files) \/ i \in 1..Len(s.files)
      /\ Last(r.files) = r.files[Len(r.files)]
      /\ Last(r.files) \in [path: Paths, ino: Inodes]
  BY <1>2, <1>3, Forgetting
<1>5. x \in Paths
  BY <1>4
<1>6. proc'[p] = s /\ \A q \in Procs \ {p} : proc'[q] = proc[q]
  BY <1>1, <1>2
<1> HIDE DEF s
<1>7. node'[x] = Nothing /\ \A y \in Paths \ {x} : node'[y] = node[y]
  BY <1>2, <1>5 DEF IInv, TypeOK
<1>8. TypeOK'
  <2>1. node' \in [Paths -> Nodes]
    BY <1>2 DEF IInv, TypeOK, Nodes
  <2>2. proc' \in [Procs -> Processes]
    BY <1>1, <1>2, <1>4
  <2> QED  BY <1>2, <2>1, <2>2 DEF IInv, TypeOK
<1>9. Recorded(p, x)
  <2>1. Len(r.files) \in 1..Len(r.files) /\ r.files[Len(r.files)].path = x
    BY <1>1, <1>4, Records
  <2> QED  BY <2>1 DEF Recorded
<1>10. ASSUME NEW q \in Procs, q # p
       PROVE  /\ Place(proc[q])' /\ Identified(q)' /\ Held(q)' /\ Beside(q)'
              /\ \A y \in Paths : y # x => (Mine(q, y) => Mine(q, y)')
  <2>1. x \in touched \/ ~(Recorded(q, x) \/ Linking(q, x))
    BY <1>5, <1>9, <1>10 DEF IInv, FileInv, Held
  <2>2. /\ proc'[q] = proc[q] /\ linked'[q] = linked[q] /\ touched \subseteq touched'
        /\ raced[q] \subseteq raced'[q]
        /\ x \in touched' \/ ~(Recorded(q, x) \/ Linking(q, x))
    BY <1>2, <1>6, <1>10, <2>1
  <2>3. Nothing \in Nodes
    BY DEF Nodes
  <2>4. /\ Place(proc[q])' /\ Identified(q)' /\ Held(q)' /\ Beside(q)'
        /\ \A y \in Paths : y # x \/ Nothing.ino = node[x].ino => (Mine(q, y) => Mine(q, y)')
    BY <1>2, <1>5, <2>2, <2>3, Elsewhere
  <2> QED  BY <2>4
<1>11. Identified(p) /\ Held(p) /\ Beside(p)
  BY DEF IInv, FileInv
<1>12. Identified(p)'
  <2>1. \A i \in 1..Len(s.files) : s.files[i].ino = linked[p][s.files[i].path] \/ s.files[i].path \in raced[p]
    BY <1>4, <1>11 DEF Identified
  <2> QED  BY <1>2, <1>4, <1>6, <2>1 DEF Identified, At
<1>13. \A i \in 1..Len(s.files) : r.files[i].path # x
  <2> TAKE i \in 1..Len(s.files)
  <2>1. i \in 1..Len(r.files) /\ i < Len(r.files) /\ Len(r.files) \in 1..Len(Plan)
    BY <1>1, <1>4, Records, PlanFacts
  <2>2. r.files[i].path = Plan[i] /\ x = Plan[Len(r.files)]
    BY <1>1, <1>4, <2>1 DEF Place
  <2> QED  BY <2>1, <2>2, PlanFacts
<1>14. Held(p)'
  <2> SUFFICES ASSUME NEW y \in Paths \ touched, Recorded(p, y)' PROVE node'[y].by = p
    BY <1>2, <1>4, <1>6 DEF Held, Linking, At
  <2>1. y # x /\ Recorded(p, y)
    BY <1>4, <1>6, <1>13 DEF Recorded
  <2> QED  BY <1>7, <1>11, <2>1 DEF Held
<1>15. Beside(p)'
  BY <1>4, <1>6 DEF Beside
<1>16. FileInv'
  <2> SUFFICES ASSUME NEW q \in Procs
               PROVE  (Place(proc[q]) /\ Identified(q) /\ Held(q) /\ Beside(q))'
    BY DEF FileInv
  <2>1. CASE q = p
    BY <1>4, <1>6, <1>12, <1>14, <1>15, <2>1 DEF Place
  <2> QED  BY <1>10, <2>1
<1>17. \A y \in Paths \ {x}, q \in Procs : Mine(q, y) => Mine(q, y)'
  <2> SUFFICES ASSUME NEW y \in Paths \ {x}, NEW q \in Procs, Mine(q, y) PROVE Mine(q, y)'
    OBVIOUS
  <2>1. CASE q = p /\ r.cut
    BY <1>4, <1>6, <2>1 DEF Mine
  <2>2. CASE q = p /\ ~r.cut
    <3>1. PICK i \in 1..Len(r.files) : r.files[i].path = y /\ r.files[i].ino = node[y].ino
      BY <1>2, <2>2 DEF Mine, Linking, At
    <3>2. i \in 1..Len(s.files) /\ s.files[i] = r.files[i]
      BY <1>4, <3>1
    <3> QED  BY <1>6, <1>7, <2>2, <3>1, <3>2 DEF Mine
  <2>3. CASE q # p
    BY <1>10, <2>3
  <2> QED  BY <2>1, <2>2, <2>3
<1>18. Owned'
  <2> SUFFICES ASSUME NEW q \in Procs, NEW y \in Paths, node'[y].by = q PROVE Mine(q, y)'
    BY DEF Owned
  <2>1. y # x
    BY <1>7, NamesAssumption DEF Nothing, NamesAssumption
  <2> QED  BY <1>7, <1>17, <2>1 DEF IInv, DirInv, Owned
<1>19. FilesShared'
  <2> SUFFICES ASSUME NEW y \in Paths, NEW d \in Dirs, d \in Above(y), node'[y] # Nothing
               PROVE  /\ IsDirectory(d)
                      /\ \A q \in Procs : dirs[d] = q => d \in shared \/ Mine(q, y)'
    BY <1>2 DEF FilesShared, IsDirectory
  <2>1. y # x
    BY <1>7
  <2>2. IsDirectory(d) /\ (dirs[d] \in Procs => d \in shared \/ Mine(dirs[d], y))
    BY <1>7, <2>1 DEF IInv, DirInv, FilesShared
  <2> QED  BY <1>17, <2>1, <2>2
<1>20. TemporariesShared'
  <2> SUFFICES ASSUME NEW q \in Procs, NEW d \in Dirs, d \in Above(Here(q)'), proc'[q].temp # "none"
               PROVE  IsDirectory(d) /\ (dirs[d] = q \/ d \in shared)
    BY <1>2 DEF TemporariesShared, IsDirectory
  <2>1. proc'[q].temp = proc[q].temp /\ Here(q)' = Here(q)
    BY <1>4, <1>6 DEF Here
  <2> QED  BY <2>1 DEF IInv, DirInv, TemporariesShared
<1>21. DirectoriesShared'
  BY <1>2 DEF IInv, DirInv, DirectoriesShared, IsDirectory
<1>22. ASSUME NEW q \in Procs PROVE (Made(q) /\ MadeComplete(q))'
  <2>1. proc'[q].made = proc[q].made /\ proc'[q].cut = proc[q].cut
    BY <1>4, <1>6
  <2>2. Made(q) /\ MadeComplete(q)
    BY DEF IInv, DirInv
  <2> QED  BY <1>2, <2>1, <2>2 DEF Made, MadeComplete
<1> QED  BY <1>8, <1>16, <1>18, <1>19, <1>20, <1>21, <1>22 DEF IInv, DirInv

-----------------------------------------------------------------------------
(* Steps that make and remove directories.                                  *)

\* The temporary file is in directories that exist, and are now shared.
LEMMA StageStep ==
    ASSUME IInv, NEW p \in Procs, Stage(p)
    PROVE  IInv'
<1> DEFINE r == proc[p]
           x == Here(p)
<1>1. r \in Processes /\ Place(r) /\ proc \in [Procs -> Processes] /\ r.k \in 1..Len(Plan)
  BY Records DEF IInv, TypeOK
<1>2. /\ r.pc = "stage" /\ \A d \in Above(x) : IsDirectory(d)
      /\ shared' = shared \cup {d \in Above(x) : dirs[d] # p}
      /\ UNCHANGED <<node, dirs, touched, linked, raced, edits>>
  BY DEF Stage, Share, At
<1>3. PICK s : /\ proc' = [proc EXCEPT ![p] = s]
               /\ \E i \in Inodes :
                     \/ s = [r EXCEPT !.pc = "link", !.temp = i]
                     \/ s = [r EXCEPT !.pc = "rollback", !.temp = i, !.exit = "failure", !.cut = TRUE]
  BY DEF Stage, Becomes, Free
<1>4. x \in Paths
  BY <1>1, PlanFacts DEF Here
<1>5. s \in Processes
  BY <1>1, <1>3 DEF Processes, Pcs, Exits
<1>6. /\ s.files = r.files /\ s.k = r.k /\ s.made = r.made /\ s.temp \in Inodes
      /\ (s.pc = "link" /\ s.exit = r.exit /\ s.cut = r.cut)
             \/ (s.pc = "rollback" /\ s.exit = "failure" /\ s.cut)
  BY <1>1, <1>3 DEF Processes
<1>7. Place(s)
  BY <1>1, <1>2, <1>6, NamesAssumption DEF Place, Writing, Staged, Failing, NamesAssumption
<1>8. proc'[p] = s /\ \A q \in Procs \ {p} : proc'[q] = proc[q]
  BY <1>1, <1>3
<1>9. TypeOK'
  <2>1. proc' \in [Procs -> Processes]
    BY <1>1, <1>3, <1>5
  <2>2. shared' \subseteq Dirs
    BY <1>2, <1>4, AboveDirs DEF IInv, TypeOK
  <2> QED  BY <1>2, <2>1, <2>2 DEF IInv, TypeOK
<1>10. Identified(p) /\ Held(p) /\ Beside(p)
  BY DEF IInv, FileInv
<1>11. Identified(p)' /\ Held(p)' /\ Beside(p)'
  <2>1. Identified(p)'
    BY <1>2, <1>6, <1>8, <1>10 DEF Identified, At
  <2>2. Held(p)'
    BY <1>2, <1>6, <1>8, <1>10 DEF Held, Recorded, Linking, At
  <2>3. Beside(p)'
    BY <1>2, <1>6, <1>8, <1>10 DEF Beside, At
  <2> QED  BY <2>1, <2>2, <2>3
<1>12. FileInv'
  <2> SUFFICES ASSUME NEW q \in Procs
               PROVE  (Place(proc[q]) /\ Identified(q) /\ Held(q) /\ Beside(q))'
    BY DEF FileInv
  <2>1. CASE q = p
    BY <1>7, <1>8, <1>11, <2>1 DEF Place
  <2>2. CASE q # p
    <3>1. Place(proc[q]) /\ Identified(q) /\ Held(q) /\ Beside(q)
      BY DEF IInv, FileInv
    <3>2. Place(proc[q])'
      BY <1>8, <2>2, <3>1 DEF Place
    <3> QED  BY <1>2, <1>8, <2>2, <3>1, <3>2, Bystander
  <2> QED  BY <2>1, <2>2
<1>13. \A q \in Procs, y \in Paths : Mine(q, y) => Mine(q, y)'
  <2> SUFFICES ASSUME NEW q \in Procs, NEW y \in Paths, Mine(q, y) PROVE Mine(q, y)'
    OBVIOUS
  <2>1. CASE q = p
    BY <1>2, <1>6, <1>8, <2>1 DEF Mine, Linking, At
  <2>2. CASE q # p
    BY <1>2, <1>8, <2>2, Bystander
  <2> QED  BY <2>1, <2>2
<1>14. Owned'
  BY <1>2, <1>13 DEF IInv, DirInv, Owned
<1>15. FilesShared'
  BY <1>2, <1>13 DEF IInv, DirInv, FilesShared, IsDirectory
<1>16. TemporariesShared'
  <2> SUFFICES ASSUME NEW q \in Procs, NEW d \in Dirs, d \in Above(Here(q)'), proc'[q].temp # "none"
               PROVE  IsDirectory(d) /\ (dirs[d] = q \/ d \in shared')
    BY <1>2 DEF TemporariesShared, IsDirectory
  <2>0. Here(q)' = Here(q)
    BY <1>6, <1>8 DEF Here
  <2>1. CASE q = p
    BY <1>2, <2>0, <2>1
  <2>2. CASE q # p
    BY <1>2, <1>8, <2>0, <2>2 DEF IInv, DirInv, TemporariesShared
  <2> QED  BY <2>1, <2>2
<1>17. DirectoriesShared'
  <2> SUFFICES ASSUME NEW e \in Dirs, NEW d \in Dirs, Inside(e, d)
               PROVE  /\ dirs[e] # "absent" =>
                            IsDirectory(d) /\ (dirs[d] \in Procs => d \in shared' \/ dirs[e] = dirs[d])
                      /\ e \in shared' => d \in shared' \/ dirs[d] = "user"
    BY <1>2 DEF DirectoriesShared, IsDirectory
  <2>1. /\ dirs[e] # "absent" =>
              IsDirectory(d) /\ (dirs[d] \in Procs => d \in shared \/ dirs[e] = dirs[d])
        /\ e \in shared => d \in shared \/ dirs[d] = "user"
    BY DEF IInv, DirInv, DirectoriesShared
  <2>2. ASSUME e \in Above(x), dirs[e] # p PROVE d \in shared' \/ dirs[d] = "user"
    <3>1. d \in Above(x) /\ IsDirectory(d) /\ dirs[e] # "absent"
      BY <1>2, <1>4, <2>2, InsideAbove DEF IsDirectory
    <3>2. dirs[d] \in Procs \cup {"user"}
      BY <3>1 DEF IInv, TypeOK, IsDirectory
    <3> QED  BY <1>2, <2>1, <2>2, <3>1, <3>2
  <2> QED  BY <1>2, <2>1, <2>2
<1>18. ASSUME NEW q \in Procs PROVE (Made(q) /\ MadeComplete(q))'
  <2>1. proc'[q].made = proc[q].made /\ (proc[q].cut => proc'[q].cut)
    BY <1>6, <1>8
  <2>2. Made(q) /\ MadeComplete(q)
    BY DEF IInv, DirInv
  <2> QED  BY <1>2, <2>1, <2>2 DEF Made, MadeComplete
<1> QED  BY <1>9, <1>12, <1>14, <1>15, <1>16, <1>17, <1>18 DEF IInv, DirInv


\* A directory is made where there is none: nothing is in it, and those it is
\* in are there, and now shared.
LEMMA MakeDirectoryStep ==
    ASSUME IInv, NEW p \in Procs, MakeDirectory(p)
    PROVE  IInv'
<1> DEFINE r == proc[p]
           d == Head(r.todo)
<1>1. /\ r \in Processes /\ Place(r) /\ proc \in [Procs -> Processes]
      /\ r.todo \in Seq(Dirs) /\ r.made \in Seq(Dirs)
  BY Records DEF IInv, TypeOK
<1>2. /\ r.pc = "mkdir" /\ r.todo # <<>> /\ CanMake(d)
      /\ dirs' = [dirs EXCEPT ![d] = p]
      /\ shared' = shared \cup {e \in {c \in Dirs : Inside(d, c)} : dirs[e] # p}
      /\ UNCHANGED <<node, touched, linked, raced, edits>>
  BY DEF MakeDirectory, Share, At
<1>3. PICK s : /\ proc' = [proc EXCEPT ![p] = s]
               /\ \/ s = [r EXCEPT !.todo = Tail(r.todo), !.made = Append(r.made, d)]
                  \/ s = [r EXCEPT !.pc = "rollback", !.exit = "failure", !.cut = TRUE]
  BY DEF MakeDirectory, Becomes, RaiseUnrecorded
<1>4. d \in Dirs /\ Tail(r.todo) \in Seq(Dirs) /\ Append(r.made, d) \in Seq(Dirs)
  BY <1>1, <1>2
<1>5. s \in Processes
  BY <1>1, <1>3, <1>4 DEF Processes, Pcs, Exits
<1>6. /\ s.files = r.files /\ s.k = r.k /\ s.temp = r.temp
      /\ (s.pc = "mkdir" /\ s.exit = r.exit /\ s.cut = r.cut /\ s.made = Append(r.made, d))
             \/ (s.pc = "rollback" /\ s.exit = "failure" /\ s.cut /\ s.made = r.made)
  BY <1>1, <1>2, <1>3 DEF Processes
<1>7. Place(s)
  BY <1>1, <1>2, <1>6 DEF Place, Writing, Staged, Failing
<1>8. proc'[p] = s /\ \A q \in Procs \ {p} : proc'[q] = proc[q]
  BY <1>1, <1>3
<1>9. /\ dirs[d] = "absent" /\ dirs'[d] = p /\ \A e \in Dirs \ {d} : dirs'[e] = dirs[e]
      /\ \A e \in Dirs : Inside(d, e) => IsDirectory(e)
      /\ "absent" \notin Procs /\ ~IsDirectory(d)
  BY <1>2, <1>4, NamesAssumption DEF IInv, TypeOK, CanMake, IsDirectory, NamesAssumption
<1>10. TypeOK'
  <2>1. proc' \in [Procs -> Processes]
    BY <1>1, <1>3, <1>5
  <2>2. shared' \subseteq Dirs
    BY <1>2 DEF IInv, TypeOK
  <2>3. dirs' \in [Dirs -> {"absent", "other", "user"} \cup Procs]
    BY <1>2 DEF IInv, TypeOK
  <2> QED  BY <1>2, <2>1, <2>2, <2>3 DEF IInv, TypeOK
<1>11. Identified(p) /\ Held(p) /\ Beside(p)
  BY DEF IInv, FileInv
<1>12. Identified(p)' /\ Held(p)' /\ Beside(p)'
  <2>1. Identified(p)'
    BY <1>2, <1>6, <1>8, <1>11 DEF Identified, At
  <2>2. Held(p)'
    BY <1>2, <1>6, <1>8, <1>11 DEF Held, Recorded, Linking, At
  <2>3. Beside(p)'
    BY <1>2, <1>6, <1>8, <1>11 DEF Beside, At
  <2> QED  BY <2>1, <2>2, <2>3
<1>13. FileInv'
  <2> SUFFICES ASSUME NEW q \in Procs
               PROVE  (Place(proc[q]) /\ Identified(q) /\ Held(q) /\ Beside(q))'
    BY DEF FileInv
  <2>1. CASE q = p
    BY <1>7, <1>8, <1>12, <2>1 DEF Place
  <2>2. CASE q # p
    <3>1. Place(proc[q]) /\ Identified(q) /\ Held(q) /\ Beside(q)
      BY DEF IInv, FileInv
    <3>2. Place(proc[q])'
      BY <1>8, <2>2, <3>1 DEF Place
    <3> QED  BY <1>2, <1>8, <2>2, <3>1, <3>2, Bystander
  <2> QED  BY <2>1, <2>2
<1>14. \A q \in Procs, y \in Paths : Mine(q, y) => Mine(q, y)'
  <2> SUFFICES ASSUME NEW q \in Procs, NEW y \in Paths, Mine(q, y) PROVE Mine(q, y)'
    OBVIOUS
  <2>1. CASE q = p
    BY <1>2, <1>6, <1>8, <2>1 DEF Mine, Linking, At
  <2>2. CASE q # p
    BY <1>2, <1>8, <2>2, Bystander
  <2> QED  BY <2>1, <2>2
<1>15. Owned'
  BY <1>2, <1>14 DEF IInv, DirInv, Owned
<1>16. FilesShared'
  <2> SUFFICES ASSUME NEW y \in Paths, NEW e \in Dirs, e \in Above(y), node[y] # Nothing
               PROVE  /\ IsDirectory(e)'
                      /\ \A q \in Procs : dirs'[e] = q => e \in shared' \/ Mine(q, y)'
    BY <1>2 DEF FilesShared, IsDirectory
  <2>1. IsDirectory(e) /\ (dirs[e] \in Procs => e \in shared \/ Mine(dirs[e], y))
    BY DEF IInv, DirInv, FilesShared
  <2>2. dirs'[e] = dirs[e]
    BY <1>9, <2>1
  <2> QED  BY <1>2, <1>14, <2>1, <2>2 DEF IsDirectory
<1>17. TemporariesShared'
  <2> SUFFICES ASSUME NEW q \in Procs, NEW e \in Dirs, e \in Above(Here(q)'), proc'[q].temp # "none"
               PROVE  IsDirectory(e)' /\ (dirs'[e] = q \/ e \in shared')
    BY DEF TemporariesShared
  <2>1. Here(q)' = Here(q) /\ proc'[q].temp = proc[q].temp
    BY <1>6, <1>8 DEF Here
  <2>2. IsDirectory(e) /\ (dirs[e] = q \/ e \in shared)
    BY <2>1 DEF IInv, DirInv, TemporariesShared
  <2>3. dirs'[e] = dirs[e]
    BY <1>9, <2>2
  <2> QED  BY <1>2, <2>2, <2>3 DEF IsDirectory
<1>18. DirectoriesShared'
  <2> SUFFICES ASSUME NEW e \in Dirs, NEW c \in Dirs, Inside(e, c)
               PROVE  /\ dirs'[e] # "absent" =>
                            IsDirectory(c)' /\ (dirs'[c] \in Procs => c \in shared' \/ dirs'[e] = dirs'[c])
                      /\ e \in shared' => c \in shared' \/ dirs'[c] = "user"
    BY DEF DirectoriesShared
  <2>1. /\ dirs[e] # "absent" =>
              IsDirectory(c) /\ (dirs[c] \in Procs => c \in shared \/ dirs[e] = dirs[c])
        /\ e \in shared => c \in shared \/ dirs[c] = "user"
    BY DEF IInv, DirInv, DirectoriesShared
  <2>2. CASE e = d
    <3>1. c # d /\ IsDirectory(c) /\ dirs'[c] = dirs[c]
      BY <1>9, <2>2, InsideIrreflexive
    <3>2. dirs[c] = p \/ c \in shared'
      BY <1>2, <2>2
    <3>3. e \in shared' => e \in shared
      BY <1>2, <2>2, InsideIrreflexive
    <3> QED  BY <1>2, <1>9, <2>1, <2>2, <3>1, <3>2, <3>3 DEF IsDirectory
  <2>3. CASE c = d
    <3>1. dirs[e] = "absent" /\ e # d
      BY <1>9, <2>1, <2>3, InsideIrreflexive
    <3>2. dirs'[e] = "absent"
      BY <1>9, <3>1
    <3>3. ~Inside(d, e)
      BY <2>3, InsideTransitive, InsideIrreflexive
    <3> QED  BY <1>2, <1>9, <2>1, <2>3, <3>2, <3>3
  <2>4. CASE e # d /\ c # d
    <3>1. dirs'[e] = dirs[e] /\ dirs'[c] = dirs[c]
      BY <1>9, <2>4
    <3>2. ASSUME Inside(d, e), dirs[e] # p PROVE c \in shared' \/ dirs[c] = "user"
      <4>1. Inside(d, c) /\ dirs[e] # "absent"
        BY <1>9, <3>2, InsideTransitive DEF IsDirectory
      <4> QED  BY <1>2, <2>1, <3>2, <4>1
    <3> QED  BY <1>2, <2>1, <3>1, <3>2 DEF IsDirectory
  <2> QED  BY <2>2, <2>3, <2>4
<1>19. ASSUME NEW q \in Procs, NEW i \in 1..Len(proc[q].made)
       PROVE  /\ proc[q].made[i] \in Dirs \ {d} /\ dirs'[proc[q].made[i]] = q
              /\ ~Inside(proc[q].made[i], d)
  <2> DEFINE e == proc[q].made[i]
  <2>1. e \in Dirs /\ dirs[e] = q
    BY Records DEF IInv, DirInv, Made
  <2>2. e # d /\ dirs[e] # "absent"
    BY <1>9, <2>1
  <2>3. ~Inside(e, d)
    BY <1>4, <1>9, <2>1, <2>2 DEF IInv, DirInv, DirectoriesShared
  <2> QED  BY <1>9, <2>1, <2>2, <2>3
<1>20. \/ s.made = r.made
       \/ /\ Len(s.made) = Len(r.made) + 1 /\ s.made[Len(s.made)] = d
          /\ \A i \in 1..Len(r.made) : s.made[i] = r.made[i] /\ i \in 1..Len(s.made)
          /\ \A i \in 1..Len(s.made) : i \in 1..Len(r.made) \/ i = Len(r.made) + 1
          /\ Len(s.made) \in 1..Len(s.made) /\ Len(r.made) \in Nat
  BY <1>1, <1>4, <1>6
<1>21. ASSUME NEW q \in Procs PROVE Made(q)'
  <2>0. Made(q)
    BY DEF IInv, DirInv
  <2>1. CASE proc'[q].made = proc[q].made
    BY <1>19, <2>0, <2>1 DEF Made
  <2>2. CASE proc'[q].made # proc[q].made
    <3>1. q = p /\ proc'[q].made = s.made /\ s.made # r.made
      BY <1>8, <2>2
    <3>2. \A i \in 1..Len(s.made) : dirs'[s.made[i]] = p
      BY <1>9, <1>19, <1>20, <3>1
    <3>3. ASSUME NEW i \in 1..Len(s.made), NEW j \in 1..Len(s.made), i < j
          PROVE  s.made[i] # s.made[j] /\ ~Inside(s.made[i], s.made[j])
      <4>1. i \in 1..Len(r.made) /\ s.made[i] = r.made[i]
        BY <1>20, <3>1, <3>3
      <4>2. CASE j \in 1..Len(r.made)
        BY <1>20, <2>0, <3>1, <3>3, <4>1, <4>2 DEF Made
      <4>3. CASE j = Len(r.made) + 1
        <5>1. s.made[j] = d
          BY <1>20, <3>1, <4>3
        <5> QED  BY <1>19, <4>1, <5>1
      <4> QED  BY <1>20, <3>1, <4>2, <4>3
    <3> QED  BY <3>1, <3>2, <3>3 DEF Made
  <2> QED  BY <2>1, <2>2
<1>22. ASSUME NEW q \in Procs PROVE MadeComplete(q)'
  <2> SUFFICES ASSUME NEW e \in Dirs, dirs'[e] = q
               PROVE  proc'[q].cut \/ e \in shared' \/ \E i \in 1..Len(proc'[q].made) : proc'[q].made[i] = e
    BY DEF MadeComplete
  <2>1. CASE e = d
    <3>1. q = p
      BY <1>9, <2>1
    <3>2. s.cut \/ s.made # r.made
      <4>1. Len(Append(r.made, d)) = Len(r.made) + 1 /\ Len(r.made) \in Nat
        BY <1>1, <1>4
      <4>2. Append(r.made, d) # r.made
        BY <4>1
      <4> QED  BY <1>6, <4>2
    <3> QED  BY <1>8, <1>20, <2>1, <3>1, <3>2
  <2>2. CASE e # d
    <3>1. proc[q].cut \/ e \in shared \/ \E i \in 1..Len(proc[q].made) : proc[q].made[i] = e
      BY <1>9, <2>2 DEF IInv, DirInv, MadeComplete
    <3>2. CASE q = p
      BY <1>2, <1>6, <1>8, <1>20, <3>1, <3>2
    <3>3. CASE q # p
      BY <1>2, <1>8, <3>1, <3>3
    <3> QED  BY <3>2, <3>3
  <2> QED  BY <2>1, <2>2
<1> QED  BY <1>10, <1>13, <1>15, <1>16, <1>17, <1>18, <1>21, <1>22 DEF IInv, DirInv

\* What keeps a directory from being removed is not what its maker put there.
LEMMA NotEmptyShared ==
    ASSUME IInv, NEW p \in Procs, proc[p].pc = "rmdir", ~proc[p].cut, proc[p].made # <<>>,
           ~Empty(Last(proc[p].made))
    PROVE  Last(proc[p].made) \in shared
<1> DEFINE r == proc[p]
           d == Last(r.made)
<1>1. r \in Processes /\ Place(r) /\ r.made \in Seq(Dirs)
  BY Records
<1>2. Len(r.made) \in Nat /\ Len(r.made) > 0 /\ d = r.made[Len(r.made)] /\ d \in Dirs
  BY <1>1, FrontLast
<1>3. dirs[d] = p
  BY <1>2 DEF IInv, DirInv, Made
<1>4. p \notin {"absent", "other", "user", "nobody"}
  BY NamesAssumption DEF NamesAssumption
<1>5. \/ \E x \in Paths : d \in Above(x) /\ node[x] # Nothing
      \/ \E e \in Dirs : Inside(e, d) /\ dirs[e] # "absent"
      \/ \E q \in Procs : d \in Above(Here(q)) /\ proc[q].temp # "none"
  BY DEF Empty
<1>6. CASE \E x \in Paths : d \in Above(x) /\ node[x] # Nothing
  <2> PICK x \in Paths : d \in Above(x) /\ node[x] # Nothing
    BY <1>6
  <2>1. ~Mine(p, x)
    <3>1. r.files = <<>>
      BY <1>1 DEF Place
    <3>2. Len(r.files) = 0
      BY <3>1
    <3> QED  BY <3>2 DEF Mine, Linking, At
  <2> QED  BY <1>2, <1>3, <2>1 DEF IInv, DirInv, FilesShared
<1>7. CASE \E e \in Dirs : Inside(e, d) /\ dirs[e] # "absent"
  <2> PICK e \in Dirs : Inside(e, d) /\ dirs[e] # "absent"
    BY <1>7
  <2>1. d \in shared \/ dirs[e] = p
    BY <1>2, <1>3 DEF IInv, DirInv, DirectoriesShared
  <2>2. CASE dirs[e] = p
    <3>1. e \in shared \/ \E i \in 1..Len(r.made) : r.made[i] = e
      BY <2>2 DEF IInv, DirInv, MadeComplete
    <3>2. CASE e \in shared
      BY <1>2, <1>3, <1>4, <3>2 DEF IInv, DirInv, DirectoriesShared
    <3>3. CASE \E i \in 1..Len(r.made) : r.made[i] = e
      <4> PICK i \in 1..Len(r.made) : r.made[i] = e
        BY <3>3
      <4>1. i # Len(r.made)
        BY <1>2, InsideIrreflexive
      <4>2. i < Len(r.made) /\ Len(r.made) \in 1..Len(r.made)
        BY <1>2, <4>1
      <4>3. FALSE
        \* The outer one of the two was made first.
        BY <1>2, <4>2 DEF IInv, DirInv, Made
      <4> QED  BY <4>3
    <3> QED  BY <3>1, <3>2, <3>3
  <2> QED  BY <2>1, <2>2
<1>8. CASE \E q \in Procs : d \in Above(Here(q)) /\ proc[q].temp # "none"
  <2> PICK q \in Procs : d \in Above(Here(q)) /\ proc[q].temp # "none"
    BY <1>8
  <2>1. q # p
    BY <1>1 DEF Place, Staged
  <2> QED  BY <1>2, <1>3, <2>1 DEF IInv, DirInv, TemporariesShared
<1> QED  BY <1>5, <1>6, <1>7, <1>8

LEMMA RemoveDirectoryStep ==
    ASSUME IInv, NEW p \in Procs, RemoveDirectory(p)
    PROVE  IInv'
<1> DEFINE r == proc[p]
           d == Last(r.made)
           s == [r EXCEPT !.made = Front(r.made)]
<1>1. /\ r \in Processes /\ Place(r) /\ proc \in [Procs -> Processes] /\ r.made \in Seq(Dirs)
  BY Records DEF IInv, TypeOK
<1>2. /\ r.pc = "rmdir" /\ r.made # <<>> /\ proc' = [proc EXCEPT ![p] = s]
      /\ dirs' = IF Empty(d) THEN [dirs EXCEPT ![d] = "absent"] ELSE dirs
      /\ UNCHANGED <<node, touched, linked, raced, shared, edits>>
  BY DEF RemoveDirectory, Becomes, At, history
<1>3. /\ Front(r.made) \in Seq(Dirs) /\ Len(Front(r.made)) = Len(r.made) - 1
      /\ \A i \in 1..Len(r.made) - 1 : Front(r.made)[i] = r.made[i]
      /\ Len(r.made) \in Nat /\ Len(r.made) > 0 /\ d = r.made[Len(r.made)] /\ d \in Dirs
  BY <1>1, <1>2, FrontLast
<1>4. s \in Processes
  BY <1>1, <1>3 DEF Processes
<1>5. /\ s.files = r.files /\ s.k = r.k /\ s.temp = r.temp /\ s.pc = r.pc /\ s.exit = r.exit
      /\ s.cut = r.cut /\ s.made = Front(r.made)
  BY <1>1 DEF Processes
<1>6. /\ Len(s.made) = Len(r.made) - 1
      /\ \A i \in 1..Len(s.made) : i \in 1..Len(r.made) /\ i < Len(r.made) /\ s.made[i] = r.made[i]
      /\ \A i \in 1..Len(r.made) : i \in 1..Len(s.made) \/ i = Len(r.made)
      /\ Len(r.made) \in 1..Len(r.made)
  BY <1>3, <1>5
<1>7. Place(s)
  BY <1>1, <1>2, <1>5 DEF Place, Writing, Staged, Failing
<1>8. proc'[p] = s /\ \A q \in Procs \ {p} : proc'[q] = proc[q]
  BY <1>1, <1>2
<1> HIDE DEF s
<1>9. /\ \A e \in Dirs \ {d} : dirs'[e] = dirs[e]
      /\ (Empty(d) /\ dirs'[d] = "absent") \/ (~Empty(d) /\ dirs'[d] = dirs[d])
      /\ dirs[d] = p /\ p \notin {"absent", "other", "user", "nobody"}
  <2>1. dirs[d] = p
    BY <1>6, <1>3 DEF IInv, DirInv, Made
  <2>2. p \notin {"absent", "other", "user", "nobody"}
    BY NamesAssumption DEF NamesAssumption
  <2> QED  BY <1>2, <1>3, <2>1, <2>2 DEF IInv, TypeOK
<1>10. TypeOK'
  <2>1. proc' \in [Procs -> Processes]
    BY <1>1, <1>2, <1>4
  <2>3. dirs' \in [Dirs -> {"absent", "other", "user"} \cup Procs]
    BY <1>2 DEF IInv, TypeOK
  <2> QED  BY <1>2, <2>1, <2>3 DEF IInv, TypeOK
<1>11. Identified(p) /\ Held(p) /\ Beside(p)
  BY DEF IInv, FileInv
<1>12. Identified(p)' /\ Held(p)' /\ Beside(p)'
  <2>1. Identified(p)'
    BY <1>2, <1>5, <1>8, <1>11 DEF Identified, At
  <2>2. Held(p)'
    BY <1>2, <1>5, <1>8, <1>11 DEF Held, Recorded, Linking, At
  <2>3. Beside(p)'
    BY <1>2, <1>5, <1>8, <1>11 DEF Beside, At
  <2> QED  BY <2>1, <2>2, <2>3
<1>13. FileInv'
  <2> SUFFICES ASSUME NEW q \in Procs
               PROVE  (Place(proc[q]) /\ Identified(q) /\ Held(q) /\ Beside(q))'
    BY DEF FileInv
  <2>1. CASE q = p
    BY <1>7, <1>8, <1>12, <2>1 DEF Place
  <2>2. CASE q # p
    <3>1. Place(proc[q]) /\ Identified(q) /\ Held(q) /\ Beside(q)
      BY DEF IInv, FileInv
    <3>2. Place(proc[q])'
      BY <1>8, <2>2, <3>1 DEF Place
    <3> QED  BY <1>2, <1>8, <2>2, <3>1, <3>2, Bystander
  <2> QED  BY <2>1, <2>2
<1>14. \A q \in Procs, y \in Paths : Mine(q, y) => Mine(q, y)'
  <2> SUFFICES ASSUME NEW q \in Procs, NEW y \in Paths, Mine(q, y) PROVE Mine(q, y)'
    OBVIOUS
  <2>1. CASE q = p
    BY <1>2, <1>5, <1>8, <2>1 DEF Mine, Linking, At
  <2>2. CASE q # p
    BY <1>2, <1>8, <2>2, Bystander
  <2> QED  BY <2>1, <2>2
<1>15. Owned'
  BY <1>2, <1>14 DEF IInv, DirInv, Owned
<1>16. FilesShared'
  <2> SUFFICES ASSUME NEW y \in Paths, NEW e \in Dirs, e \in Above(y), node[y] # Nothing
               PROVE  /\ IsDirectory(e)'
                      /\ \A q \in Procs : dirs'[e] = q => e \in shared \/ Mine(q, y)'
    BY <1>2 DEF FilesShared, IsDirectory
  <2>1. IsDirectory(e) /\ (dirs[e] \in Procs => e \in shared \/ Mine(dirs[e], y))
    BY DEF IInv, DirInv, FilesShared
  <2>2. dirs'[e] = dirs[e]
    BY <1>9 DEF Empty
  <2> QED  BY <1>14, <2>1, <2>2 DEF IsDirectory
<1>17. TemporariesShared'
  <2> SUFFICES ASSUME NEW q \in Procs, NEW e \in Dirs, e \in Above(Here(q)'), proc'[q].temp # "none"
               PROVE  IsDirectory(e)' /\ (dirs'[e] = q \/ e \in shared)
    BY <1>2 DEF TemporariesShared
  <2>1. Here(q)' = Here(q) /\ proc'[q].temp = proc[q].temp
    BY <1>5, <1>8 DEF Here
  <2>2. IsDirectory(e) /\ (dirs[e] = q \/ e \in shared)
    BY <2>1 DEF IInv, DirInv, TemporariesShared
  <2>3. dirs'[e] = dirs[e]
    BY <1>9, <2>1 DEF Empty
  <2> QED  BY <2>2, <2>3 DEF IsDirectory
<1>18. DirectoriesShared'
  <2> SUFFICES ASSUME NEW e \in Dirs, NEW c \in Dirs, Inside(e, c)
               PROVE  /\ dirs'[e] # "absent" =>
                            IsDirectory(c)' /\ (dirs'[c] \in Procs => c \in shared \/ dirs'[e] = dirs'[c])
                      /\ e \in shared => c \in shared \/ dirs'[c] = "user"
    BY <1>2 DEF DirectoriesShared
  <2>1. /\ dirs[e] # "absent" =>
              IsDirectory(c) /\ (dirs[c] \in Procs => c \in shared \/ dirs[e] = dirs[c])
        /\ e \in shared => c \in shared \/ dirs[c] = "user"
    BY DEF IInv, DirInv, DirectoriesShared
  <2>2. CASE ~Empty(d)
    BY <1>2, <2>1, <2>2 DEF IsDirectory
  <2>3. CASE Empty(d) /\ e = d
    BY <1>9, <2>1, <2>3, InsideIrreflexive
  <2>4. CASE Empty(d) /\ c = d
    <3>1. dirs[e] = "absent" /\ e # d
      BY <2>4, InsideIrreflexive DEF Empty
    <3> QED  BY <1>9, <2>1, <2>4, <3>1
  <2>5. CASE e # d /\ c # d
    BY <1>9, <2>1, <2>5 DEF IsDirectory
  <2> QED  BY <2>2, <2>3, <2>4, <2>5
<1>19. ASSUME NEW q \in Procs PROVE Made(q)'
  <2>1. Made(q)
    BY DEF IInv, DirInv
  <2>2. CASE q = p
    <3>1. \A i \in 1..Len(s.made) : dirs'[s.made[i]] = p
      <4> TAKE i \in 1..Len(s.made)
      <4>1. r.made[i] # d /\ dirs[r.made[i]] = p /\ r.made[i] \in Dirs /\ s.made[i] = r.made[i]
        BY <1>1, <1>3, <1>6, <2>1, <2>2 DEF Made
      <4> QED  BY <1>9, <4>1
    <3>2. ASSUME NEW i \in 1..Len(s.made), NEW j \in 1..Len(s.made), i < j
          PROVE  s.made[i] # s.made[j] /\ ~Inside(s.made[i], s.made[j])
      <4>1. /\ i \in 1..Len(r.made) /\ s.made[i] = r.made[i]
            /\ j \in 1..Len(r.made) /\ s.made[j] = r.made[j]
        BY <1>6
      <4>2. r.made[i] # r.made[j] /\ ~Inside(r.made[i], r.made[j])
        BY <2>1, <2>2, <3>2, <4>1 DEF Made
      <4> QED  BY <4>1, <4>2
    <3> QED  BY <1>8, <2>2, <3>1, <3>2 DEF Made
  <2>3. CASE q # p
    <3>1. \A i \in 1..Len(proc[q].made) : dirs'[proc[q].made[i]] = q
      <4> TAKE i \in 1..Len(proc[q].made)
      <4>1. proc[q].made[i] \in Dirs /\ dirs[proc[q].made[i]] = q
        BY <2>1, Records DEF Made
      <4> QED  BY <1>9, <2>3, <4>1
    <3> QED  BY <1>8, <2>1, <2>3, <3>1 DEF Made
  <2> QED  BY <2>2, <2>3
<1>20. ASSUME NEW q \in Procs PROVE MadeComplete(q)'
  <2> SUFFICES ASSUME NEW e \in Dirs, dirs'[e] = q
               PROVE  proc'[q].cut \/ e \in shared \/ \E i \in 1..Len(proc'[q].made) : proc'[q].made[i] = e
    BY <1>2 DEF MadeComplete
  <2>1. CASE e = d
    <3>1. q = p /\ ~Empty(d)
      BY <1>9, <2>1, NamesAssumption DEF NamesAssumption
    <3>2. r.cut \/ d \in shared
      BY <1>2, <3>1, NotEmptyShared
    <3> QED  BY <1>5, <1>8, <2>1, <3>1, <3>2
  <2>2. CASE e # d
    <3>1. proc[q].cut \/ e \in shared \/ \E i \in 1..Len(proc[q].made) : proc[q].made[i] = e
      BY <1>9, <2>2 DEF IInv, DirInv, MadeComplete
    <3>2. CASE q = p
      BY <1>3, <1>5, <1>6, <1>8, <2>2, <3>1, <3>2
    <3>3. CASE q # p
      BY <1>8, <3>1, <3>3
    <3> QED  BY <3>2, <3>3
  <2> QED  BY <2>1, <2>2
<1> QED  BY <1>10, <1>13, <1>15, <1>16, <1>17, <1>18, <1>19, <1>20 DEF IInv, DirInv
-----------------------------------------------------------------------------
(* The invariant, and what follows from it.                                 *)

LEMMA InitIInv == Init => IInv
<1> SUFFICES ASSUME Init PROVE IInv
  OBVIOUS
<1>1. \A p \in Procs : proc[p] = IdleProcess
  BY DEF Init
<1>2. IdleProcess \in Processes /\ Place(IdleProcess)
  <2>1. IdleProcess \in Processes
    BY PlanFacts DEF IdleProcess, Processes, Pcs, Exits
  <2>2. Place(IdleProcess)
    BY DEF Place, IdleProcess, Writing, Staged, Failing
  <2> QED  BY <2>1, <2>2
<1>3. /\ node \in [Paths -> Nodes] /\ \A x \in Paths : node[x].by \notin Procs
      /\ dirs \in [Dirs -> {"absent", "other", "user"}] /\ \A d \in Dirs : dirs[d] \notin Procs
      /\ shared = {}
  <2>1. node \in [Paths -> [ino: Inodes, by: {"user"}] \cup {Nothing}]
    BY DEF Init
  <2>2. \A x \in Paths : node[x].by \in {"user", "nobody"}
    BY <2>1 DEF Nothing
  <2>3. node \in [Paths -> Nodes]
    BY <2>1 DEF Nodes
  <2> QED  BY <2>2, <2>3, NamesAssumption DEF Init, NamesAssumption
<1>4. TypeOK
  <2>1. proc \in [Procs -> Processes]
    BY <1>2 DEF Init
  <2>2. edits \in 0..MaxEdits
    BY NamesAssumption DEF Init, NamesAssumption
  <2> QED  BY <1>3, <2>1, <2>2 DEF TypeOK, Init
<1>5. FileInv
  <2> SUFFICES ASSUME NEW p \in Procs PROVE Place(proc[p]) /\ Identified(p) /\ Held(p) /\ Beside(p)
    BY DEF FileInv
  <2>1. proc[p] = IdleProcess
    BY <1>1
  <2>2. proc[p].pc = "idle" /\ Len(proc[p].files) = 0
    BY <2>1 DEF IdleProcess
  <2> QED  BY <1>2, <2>1, <2>2 DEF Identified, Held, Beside, Recorded, Linking, At
<1>6. Owned /\ FilesShared
  BY <1>3 DEF Init, Owned, FilesShared
<1>7. TemporariesShared
  BY <1>1 DEF TemporariesShared, IdleProcess
<1>8. DirectoriesShared
  BY <1>3 DEF Init, DirectoriesShared
<1>9. ASSUME NEW p \in Procs PROVE Made(p) /\ MadeComplete(p)
  <2>1. Len(proc[p].made) = 0
    BY <1>1 DEF IdleProcess
  <2> QED  BY <1>3, <2>1 DEF Made, MadeComplete
<1> QED  BY <1>4, <1>5, <1>6, <1>7, <1>8, <1>9 DEF IInv, DirInv

LEMMA NextIInv == IInv /\ [Next]_vars => IInv'
<1> SUFFICES ASSUME IInv, [Next]_vars PROVE IInv'
  OBVIOUS
<1>1. ASSUME NEW p \in Procs, Entry(p) PROVE IInv'
  BY <1>1, ParentStep, ParentRefusedStep, MakeDirectoryStep, ParentsMadeStep, TestStep, StageStep,
     LinkStep, StatStep, StatMissingStep, UnlinkStep, EntryFailsStep, EntryInterruptedStep,
     EntryFailsUnrecordedStep, UnwindStep, Zenon DEF Entry
<1>2. ASSUME NEW p \in Procs, Rollback(p) PROVE IInv'
  BY <1>2, RollbackStatStep, RollbackRemoveStep, FilesDoneStep, RemoveDirectoryStep,
     DirectoryStaysStep, RolledBackStep, RollbackFailsStep, Zenon DEF Rollback
<1>3. ASSUME NEW p \in Procs, Initialise(p) PROVE IInv'
  BY <1>1, <1>2, <1>3, PreflightStep, PreflightRefusesStep, KilledStep, Zenon DEF Initialise
<1>4. CASE User
  BY <1>4, UserCreatesStep, UserEditsStep, UserBlocksStep, Zenon DEF User
<1>5. CASE UNCHANGED vars
  <2> USE <1>5 DEF vars, history
  <2>1. TypeOK'
    BY DEF IInv, TypeOK
  <2>2. \A q \in Procs : (Place(proc[q]) /\ Identified(q) /\ Held(q) /\ Beside(q))'
    <3> SUFFICES ASSUME NEW q \in Procs PROVE (Place(proc[q]) /\ Identified(q) /\ Held(q) /\ Beside(q))'
      OBVIOUS
    <3>1. Place(proc[q]) /\ Identified(q) /\ Held(q) /\ Beside(q)
      BY DEF IInv, FileInv
    <3>2. Place(proc[q])'
      BY <3>1 DEF Place
    <3> QED  BY <3>1, <3>2, Bystander
  <2>3. \A q \in Procs, x \in Paths : Mine(q, x) => Mine(q, x)'
    BY Bystander
  <2>4. Owned' /\ FilesShared'
    BY <2>3 DEF IInv, DirInv, Owned, FilesShared, IsDirectory
  <2>5. TemporariesShared' /\ DirectoriesShared'
    BY DEF IInv, DirInv, TemporariesShared, DirectoriesShared, IsDirectory, Here
  <2>6. \A q \in Procs : (Made(q) /\ MadeComplete(q))'
    BY DEF IInv, DirInv, Made, MadeComplete
  <2> QED  BY <2>1, <2>2, <2>4, <2>5, <2>6 DEF IInv, FileInv, DirInv
<1> QED  BY <1>3, <1>4, <1>5 DEF Next

\* What each initialisation has recorded is what it made, the links it relies on
\* are there, and what is in the directories it made is its own or shared.
THEOREM InitInvariant == Spec => []IInv
<1> QED  BY InitIInv, NextIInv, PTL DEF Spec

\* The target's tree and the records of initialisations keep to their types.
THEOREM TypeCorrect == Spec => []TypeOK
<1>1. IInv => TypeOK
  BY DEF IInv
<1> QED  BY <1>1, InitInvariant, PTL

\* Exit code 0 means that the whole plan is there and nothing with an equivalent
\* name beside it, but for the user's own work (write_plan, preflight).
THEOREM SuccessIsCompleteHolds == Spec => []SuccessIsComplete
<1>1. IInv => SuccessIsComplete
  <2> SUFFICES ASSUME IInv, NEW p \in Procs, Ended(p, {"success"}), NEW x \in Planned
               PROVE  /\ x \notin touched => node[x].by = p
                      /\ \A y \in Paths \ {x} : Key[y] = Key[x] /\ node[y] # Nothing => y \in touched
    BY DEF SuccessIsComplete
  <2>1. proc[p].pc = "ended" /\ proc[p].exit = "success" /\ Place(proc[p]) /\ Held(p) /\ Beside(p)
    BY DEF Ended, At, IInv, FileInv
  <2>2. x \in Paths /\ Recorded(p, x)
    <3>1. PICK i \in 1..Len(Plan) : x = Plan[i]
      BY PlanFacts
    <3>2. i \in 1..Len(proc[p].files) /\ proc[p].files[i].path = x
      BY <2>1, <3>1 DEF Place
    <3> QED  BY <3>2, PlanFacts DEF Recorded
  <2>3. x \notin touched => node[x].by = p
    BY <2>1, <2>2 DEF Held
  <2>4. ASSUME NEW y \in Paths \ {x}, Key[y] = Key[x], node[y] # Nothing PROVE y \in touched
    <3>1. y \notin Planned
      BY <2>4, PlanFacts
    <3> QED  BY <2>1, <2>4, <3>1 DEF Beside, At
  <2> QED  BY <2>3, <2>4
<1> QED  BY <1>1, InitInvariant, PTL

\* A failed initialisation whose cleanup is not cut short leaves no file, no
\* temporary file and no directory of its own (the handler of write_plan).
THEOREM FailureLeavesNothingHolds == Spec => []FailureLeavesNothing
<1>1. IInv => FailureLeavesNothing
  <2> SUFFICES ASSUME IInv, NEW p \in Procs, Ended(p, {"conflict", "invalid", "failure"}), ~proc[p].cut
               PROVE  /\ \A x \in Paths : node[x].by # p
                      /\ proc[p].temp = "none"
                      /\ \A d \in Dirs : dirs[d] = p => d \in shared
    BY DEF FailureLeavesNothing
  <2>1. proc[p].pc = "ended" /\ Place(proc[p])
    BY DEF Ended, At, IInv, FileInv
  <2>2. Len(proc[p].files) = 0 /\ Len(proc[p].made) = 0
    <3>1. proc[p].files = <<>> /\ proc[p].made = <<>>
      BY <2>1 DEF Ended, Place
    <3> QED  BY <3>1
  <2>3. proc[p].temp = "none"
    BY <2>1 DEF Place, Staged
  <2>4. \A x \in Paths : ~Mine(p, x)
    BY <2>1, <2>2 DEF Mine, Linking, At
  <2>5. \A d \in Dirs : dirs[d] = p => d \in shared
    BY <2>2 DEF IInv, DirInv, MadeComplete
  <2> QED  BY <2>3, <2>4, <2>5 DEF IInv, DirInv, Owned
<1> QED  BY <1>1, InitInvariant, PTL

\* Only a rollback removes what somebody else wrote, and then it has the inode
\* number that was linked there or came in a window of the code.
LEMMA LossOfStep ==
    ASSUME IInv, NEW p \in Procs, Initialise(p), NEW x \in Paths, node'[x] # node[x]
    PROVE  \/ node[x] = Nothing
           \/ node'[x] = Nothing /\ (node[x].ino = linked[p][x] \/ x \in raced[p])
<1>1. CASE Link(p)
  <2>1. node' = [node EXCEPT ![Here(p)] = [ino |-> proc[p].temp, by |-> p]] /\ node[Here(p)] = Nothing
    BY <1>1 DEF Link
  <2> QED  BY <2>1 DEF IInv, TypeOK
<1>2. CASE RollbackRemove(p)
  <2> DEFINE f == Last(proc[p].files)
  <2>1. proc[p].pc = "remove" /\ node' = [node EXCEPT ![f.path] = Nothing]
    BY <1>2 DEF RollbackRemove, At
  <2>2. x = f.path /\ node'[x] = Nothing
    BY <2>1 DEF IInv, TypeOK
  <2>3. Identified(p) /\ Place(proc[p])
    BY DEF IInv, FileInv
  <2>4. f = proc[p].files[Len(proc[p].files)] /\ Len(proc[p].files) \in 1..Len(proc[p].files)
    <3>1. proc[p].files # <<>>
      BY <2>1, <2>3 DEF Place
    <3>2. /\ Len(proc[p].files) \in Nat /\ Len(proc[p].files) > 0
          /\ f = proc[p].files[Len(proc[p].files)]
      BY <3>1, Records, FrontLast
    <3> QED  BY <3>2
  <2>5. f.ino = linked[p][x] \/ x \in raced[p]
    BY <2>2, <2>3, <2>4 DEF Identified
  <2>6. node[x] = Nothing \/ node[x].ino = f.ino \/ x \in raced[p]
    BY <2>1, <2>2, <2>3 DEF Identified, At
  <2> QED  BY <2>2, <2>5, <2>6
<1>3. CASE ~Link(p) /\ ~RollbackRemove(p)
  <2>1. node' = node
    BY <1>3 DEF Initialise, Entry, Rollback, Preflight, PreflightRefuses, Parent, ParentRefused,
        MakeDirectory, ParentsMade, Test, Stage, Stat, StatMissing, Unlink, EntryFails,
        EntryInterrupted, EntryFailsUnrecorded, Unwind, RollbackStat, FilesDone, RemoveDirectory,
        DirectoryStays, RolledBack, RollbackFails, Killed
  <2> QED  BY <2>1
<1> QED  BY <1>1, <1>2, <1>3

\* docs/threat-model.md's promise about the rollback, as far as device and inode
\* number can keep it.
THEOREM LossIsExplainedHolds == Spec => LossIsExplained
<1> DEFINE Explained == edits' = edits =>
         \A x \in Paths, p \in Procs :
             proc'[p] # proc[p] /\ node'[x] # node[x] /\ node[x] # Nothing /\ node[x].by # p =>
                 /\ node'[x] = Nothing
                 /\ node[x].ino = linked[p][x] \/ x \in raced[p]
<1>1. IInv /\ [Next]_vars => [Explained]_vars
  <2> SUFFICES ASSUME IInv, Next, edits' = edits, NEW x \in Paths, NEW p \in Procs,
                      proc'[p] # proc[p], node'[x] # node[x], node[x] # Nothing
               PROVE  node'[x] = Nothing /\ (node[x].ino = linked[p][x] \/ x \in raced[p])
    BY DEF Next
  <2>1. ~User
    <3>1. User => edits' = edits + 1 /\ edits \in Nat
      BY NamesAssumption DEF User, UserCreates, UserEdits, UserDeletes, UserBlocks, UserWrites, IInv,
          TypeOK, NamesAssumption
    <3> QED  BY <3>1
  <2>2. PICK q \in Procs : Initialise(q)
    BY <2>1 DEF Next
  <2>3. q = p
    <3>1. \E s : proc' = [proc EXCEPT ![q] = s]
      BY <2>2 DEF Initialise, Entry, Rollback, Preflight, PreflightRefuses, Parent, ParentRefused,
        MakeDirectory, ParentsMade, Test, Stage, Link, Stat, StatMissing, Unlink, EntryFails,
        EntryInterrupted, EntryFailsUnrecorded, Unwind, RollbackStat, RollbackRemove, FilesDone, RemoveDirectory,
        DirectoryStays, RolledBack, RollbackFails, Killed, Becomes, Goto, End, Raise, RaiseUnrecorded, Forget
    <3> QED  BY <3>1 DEF IInv, TypeOK
  <2> QED  BY <2>2, <2>3, LossOfStep
<1>2. Spec => [][Explained]_vars
  BY <1>1, InitInvariant, PTL DEF Spec
<1> QED  BY <1>2 DEF LossIsExplained
=============================================================================
