------------------------ MODULE FindingCorrelationProofs ------------------------
(***************************************************************************)
(* Proofs about FindingCorrelation and FindingDocuments for any number of  *)
(* findings, any findings and any limits.  The walk of root() needs no     *)
(* recursion in the argument: it never leaves the component it started in, *)
(* and a component has one root only.  That a build accepts its own        *)
(* documents is a matter of counting: what is written for a group comes    *)
(* from different candidates.                                              *)
(***************************************************************************)
EXTENDS FindingDocuments, FiniteSetTheorems, TLAPS

\* Every finding is a member of one component; the forest does not lead out
\* of a component and is rooted at its name.
Forest ==
    /\ \A i \in Indices : \E r \in Indices : i \in members[r]
    /\ \A i, r, s \in Indices : i \in members[r] /\ i \in members[s] => r = s
    /\ \A i, r \in Indices : i \in members[r] =>
           parent[i] \in members[r] /\ (parent[i] = i => i = r)
    /\ \A r \in Indices : members[r] # {} => r \in members[r] /\ parent[r] = r

\* The forest has no cycle.
Acyclic ==
    \E rank \in [Indices -> Nat] :
        \A i \in Indices : parent[i] # i => rank[i] < rank[parent[i]]

Together(i, j) == \E r \in Indices : i \in members[r] /\ j \in members[r]

\* Where the walk at hand has come.
Walk ==
    /\ pc \in {"left", "right"} => pair \in Pairs /\ Correlated(pair)
    /\ pc = "left" => Together(cur, pair[1])
    /\ pc = "right" => /\ Together(cur, pair[2]) /\ Together(leftRoot, pair[1])
                       /\ parent[leftRoot] = leftRoot
    /\ pc = "group" /\ next <= N => Together(cur, next)

\* No component holds a collision.
Apart == \A r \in Indices : ~HaveCollision(members[r], members[r])

Crosses(d, S, T) == (d[1] \in S /\ d[2] \in T) \/ (d[2] \in S /\ d[1] \in T)

Linked(C) ==
    \A S \in SUBSET C : S # {} /\ S # C =>
        \E d \in decisions : Correlated(d) /\ Crosses(d, S, C \ S)

Evidenced == \A r \in Indices : Linked(members[r])

Kept == \A d \in decisions : Together(d[1], d[2])

\* Pairs that have been dealt with.
Handled(p) ==
    /\ pc \notin {"collect", "failed"}
    /\ p \notin todo
    /\ pc \in {"left", "right"} => p # pair

Explained ==
    /\ \A p \in Pairs : Correlated(p) /\ Handled(p) =>
           \A r, s \in Indices : p[1] \in members[r] /\ p[2] \in members[s] /\ r # s =>
               HaveCollision(members[r], members[s])
    /\ pc \in {"group", "done"} => todo = {}

\* What has been read off the forest so far.
Placed ==
    /\ pc \in {"collect", "select", "left", "right"} =>
           \A r \in Indices : components[r] = {}
    /\ pc = "group" => \A r \in Indices :
           components[r] = {i \in members[r] : i < next}
    /\ pc = "done" => components = members

Core == Forest /\ Acyclic /\ Apart /\ Evidenced /\ Kept

CorrelationInv == Core /\ Walk /\ Explained /\ Placed

LEMMA InitialTyping == Init => TypeOK
  BY CorrelationAssumption DEF Init, TypeOK, Indices, PCs

LEMMA TypingStep == TypeOK /\ [Next]_vars => TypeOK'
<1> USE CorrelationAssumption DEF TypeOK, Indices, Pairs, PCs
<1> SUFFICES ASSUME TypeOK, [Next]_vars PROVE TypeOK'
  OBVIOUS
<1>1. CASE Collect
  BY <1>1 DEF Collect, Candidates
<1>2. CASE Select
  BY <1>2 DEF Select
<1>13. CASE SelectFails
  BY <1>13 DEF SelectFails
<1>3. CASE Climb
  BY <1>3 DEF Climb
<1>4. CASE LeftFound
  BY <1>4 DEF LeftFound
<1>5. CASE AlreadyJoined
  BY <1>5 DEF AlreadyJoined
<1>6. CASE Blocked
  BY <1>6 DEF Blocked
<1>7. CASE Join
  BY <1>7 DEF Join
<1>8. CASE StartGrouping
  <2>1. 1 \in Indices /\ 1 \in 1 .. N + 1
    OBVIOUS
  <2>2. QED
    BY <1>8, <2>1 DEF StartGrouping
<1>9. CASE Place
  <2>1. /\ next + 1 \in 1 .. N + 1 /\ next \in Indices
        /\ next < N => next + 1 \in Indices
    BY <1>9 DEF Place
  <2>2. components' \in [Indices -> SUBSET Indices] /\ cur' \in Indices
    BY <1>9, <2>1 DEF Place
  <2>3. QED
    BY <1>9, <2>1, <2>2 DEF Place
<1>10. CASE Publish
  BY <1>10 DEF Publish
<1>11. CASE UNCHANGED vars
  BY <1>11 DEF vars
<1>12. QED
  BY <1>1, <1>2, <1>3, <1>4, <1>5, <1>6, <1>7, <1>8, <1>9, <1>10, <1>11, <1>13 DEF Next

\* The type invariant: no walk, join or placement leaves the index ranges.
THEOREM CorrelationTyping == Spec => []TypeOK
  BY InitialTyping, TypingStep, PTL DEF Spec

-------------------------------------------------------------------------------
(* Steps that leave forest, members and decisions alone *)

LEMMA CoreStays ==
    ASSUME Core, UNCHANGED <<findings, parent, members, decisions>>
    PROVE  Core'
<1>1. \A p : Correlated(p)' <=> Correlated(p)
  BY DEF Correlated
<1>2. \A S, T : HaveCollision(S, T)' <=> HaveCollision(S, T)
  BY DEF HaveCollision
<1>3. Forest' /\ Acyclic'
  BY DEF Core, Forest, Acyclic
<1>4. Apart' /\ Evidenced' /\ Kept'
  BY <1>1, <1>2 DEF Core, Apart, Evidenced, Linked, Kept, Together
<1>5. QED
  BY <1>3, <1>4 DEF Core

\* A correlated pair shares an identity, so it is a candidate.
LEMMA CorrelatedIsCandidate ==
    ASSUME NEW p \in Pairs, Correlated(p)
    PROVE  p \in Candidates
BY DEF Correlated, Correlates, ScannerExact, CodeLocation, Dependency, RuntimeRoute,
   Candidates, Candidate

LEMMA QuietStep ==
    ASSUME TypeOK, CorrelationInv,
           Collect \/ Select \/ SelectFails \/ LeftFound \/ Blocked \/ StartGrouping \/ Publish
               \/ UNCHANGED vars
    PROVE  CorrelationInv'
<1>1. UNCHANGED <<findings, parent, members, decisions, components>>
  BY DEF Collect, Select, SelectFails, LeftFound, Blocked, StartGrouping, Publish, vars
<1>2. Core'
  BY <1>1, CoreStays DEF CorrelationInv
<1>3. \A p : Correlated(p)' <=> Correlated(p)
  BY <1>1 DEF Correlated
<1>4. \A S, T : HaveCollision(S, T)' <=> HaveCollision(S, T)
  BY <1>1 DEF HaveCollision
<1>5. \A i, j : Together(i, j)' <=> Together(i, j)
  BY <1>1 DEF Together
<1> USE <1>1, <1>2, <1>3, <1>4, <1>5 DEF CorrelationInv
<1>6. CASE Collect
  <2>1. Walk' /\ Placed'
    BY <1>6 DEF Collect, Walk, Placed
  <2>2. Explained'
    BY <1>6, CorrelatedIsCandidate DEF Collect, Explained, Handled
  <2>3. QED
    BY <2>1, <2>2
<1>7. CASE Select
  <2>1. PICK p \in todo :
          /\ todo' = todo \ {p} /\ pc = "select"
          /\ IF Correlated(p) THEN pc' = "left" /\ pair' = p /\ cur' = p[1]
                              ELSE UNCHANGED <<pc, pair, cur>>
    BY <1>7 DEF Select
  <2>2. p \in Pairs /\ p[1] \in Indices
    BY <2>1 DEF TypeOK, Pairs
  <2>3. Walk' /\ Placed'
    BY <2>1, <2>2 DEF Walk, Placed, Core, Forest, Together
  <2>4. Explained'
    BY <2>1 DEF Explained, Handled
  <2>5. QED
    BY <2>3, <2>4
<1>14. CASE SelectFails
  BY <1>14 DEF SelectFails, Walk, Explained, Handled, Placed
<1>8. CASE LeftFound
  <2>1. pair \in Pairs /\ pair[2] \in Indices /\ Together(cur, pair[1])
    BY <1>8 DEF LeftFound, Walk, Pairs
  <2>2. Walk'
    BY <1>8, <2>1 DEF LeftFound, Walk, Core, Forest, Together
  <2>3. Explained' /\ Placed'
    BY <1>8 DEF LeftFound, Explained, Handled, Placed
  <2>4. QED
    BY <2>2, <2>3
<1>9. CASE Blocked
  <2>1. Walk' /\ Placed'
    BY <1>9 DEF Blocked, Walk, Placed
  <2>2. \A r, s \in Indices : pair[1] \in members[r] /\ pair[2] \in members[s] =>
           r = leftRoot /\ s = cur
    BY <1>9 DEF Blocked, Walk, Core, Forest, Together, TypeOK
  <2>3. Explained'
    BY <1>9, <2>2 DEF Blocked, Explained, Handled
  <2>4. QED
    BY <2>1, <2>3
<1>10. CASE StartGrouping
  <2>1. 1 \in Indices
    BY CorrelationAssumption DEF Indices
  <2>2. Walk'
    BY <1>10, <2>1 DEF StartGrouping, Walk, Core, Forest, Together
  <2>3. Placed'
    BY <1>10 DEF StartGrouping, Placed, TypeOK, Indices
  <2>4. Explained'
    BY <1>10 DEF StartGrouping, Explained, Handled
  <2>5. QED
    BY <2>2, <2>3, <2>4
<1>11. CASE Publish
  <2>1. Walk' /\ Explained'
    BY <1>11 DEF Publish, Walk, Explained, Handled
  <2>2. components = members
    <3>1. \A r \in Indices : components[r] = {i \in members[r] : i < N + 1}
      BY <1>11 DEF Publish, Placed
    <3>2. \A r \in Indices : members[r] \subseteq Indices
      BY DEF TypeOK
    <3>3. \A i \in Indices : i < N + 1
      BY CorrelationAssumption DEF Indices
    <3>4. \A r \in Indices : components[r] = members[r]
      BY <3>1, <3>2, <3>3
    <3>5. QED
      BY <3>4 DEF TypeOK
  <2>3. Placed'
    BY <1>11, <2>2 DEF Publish, Placed
  <2>4. QED
    BY <2>1, <2>3
<1>12. CASE UNCHANGED vars
  BY <1>12 DEF vars, Walk, Explained, Handled, Placed
<1>13. QED
  BY <1>6, <1>7, <1>8, <1>9, <1>10, <1>11, <1>12, <1>14

-------------------------------------------------------------------------------
(* The walk, the joins and the reading of the forest *)

\* Path halving hangs a finding below its grandparent: in the same component,
\* and never below itself since ranks rise towards the root.
LEMMA ClimbStep ==
    ASSUME TypeOK, CorrelationInv, Climb
    PROVE  CorrelationInv'
<1> DEFINE top == parent[parent[cur]]
<1>1. /\ cur \in Indices /\ parent[cur] \in Indices /\ top \in Indices
      /\ parent[cur] # cur /\ parent' = [parent EXCEPT ![cur] = top] /\ cur' = top
      /\ UNCHANGED <<findings, todo, members, decisions, pc, pair, leftRoot, next,
                     components>>
  BY DEF Climb, TypeOK
<1>2. parent'[cur] = top /\ \A i \in Indices \ {cur} : parent'[i] = parent[i]
  BY <1>1 DEF TypeOK
<1>3. Acyclic' /\ top # cur
  <2>1. PICK rank \in [Indices -> Nat] :
            \A i \in Indices : parent[i] # i => rank[i] < rank[parent[i]]
    BY DEF CorrelationInv, Core, Acyclic
  <2>2. rank[cur] < rank[parent[cur]]
    BY <1>1, <2>1
  <2>3. top = parent[cur] \/ rank[parent[cur]] < rank[top]
    BY <1>1, <2>1
  <2>4. rank[cur] < rank[top]
    <3>1. rank[cur] \in Nat /\ rank[parent[cur]] \in Nat /\ rank[top] \in Nat
      BY <1>1
    <3>2. QED
      BY <2>2, <2>3, <3>1
  <2>5. \A i \in Indices : parent'[i] # i => rank[i] < rank[parent'[i]]
    BY <1>2, <2>1, <2>4
  <2>6. rank[cur] \in Nat
    BY <1>1
  <2>7. top # cur
    BY <2>4, <2>6
  <2>8. QED
    BY <2>5, <2>7 DEF Acyclic
<1>4. \A r \in Indices : cur \in members[r] => top \in members[r]
  BY <1>1 DEF CorrelationInv, Core, Forest
<1>5. Forest'
  <2>1. \A i, r \in Indices : i \in members[r] =>
            parent'[i] \in members[r] /\ (parent'[i] = i => i = r)
    BY <1>2, <1>3, <1>4 DEF CorrelationInv, Core, Forest
  <2>2. \A r \in Indices : members[r] # {} => r \in members[r] /\ parent'[r] = r
    BY <1>1, <1>2 DEF CorrelationInv, Core, Forest
  <2>3. QED
    BY <1>1, <2>1, <2>2 DEF CorrelationInv, Core, Forest
<1>6. \A p : Correlated(p)' <=> Correlated(p)
  BY <1>1 DEF Correlated
<1>7. \A S, T : HaveCollision(S, T)' <=> HaveCollision(S, T)
  BY <1>1 DEF HaveCollision
<1>8. \A i, j : Together(i, j)' <=> Together(i, j)
  BY <1>1 DEF Together
<1>9. Core'
  BY <1>1, <1>3, <1>5, <1>6, <1>7, <1>8
  DEF CorrelationInv, Core, Apart, Evidenced, Linked, Kept
<1>10. \A j : Together(cur, j) => Together(top, j)
  BY <1>4 DEF Together
<1>11. pc = "right" => parent'[leftRoot] = leftRoot
  BY <1>1, <1>2 DEF CorrelationInv, Walk, TypeOK
<1>12. Walk'
  BY <1>1, <1>6, <1>8, <1>10, <1>11 DEF CorrelationInv, Walk
<1>13. Explained' /\ Placed'
  BY <1>1, <1>6, <1>7 DEF CorrelationInv, Explained, Handled, Placed
<1>14. QED
  BY <1>9, <1>12, <1>13 DEF CorrelationInv

\* A pair found in one component is one more decision inside it.
LEMMA AlreadyJoinedStep ==
    ASSUME TypeOK, CorrelationInv, AlreadyJoined
    PROVE  CorrelationInv'
<1>1. /\ pc = "right" /\ pc' = "select" /\ cur = leftRoot
      /\ decisions' = decisions \cup {pair}
      /\ UNCHANGED <<findings, todo, parent, members, pair, cur, leftRoot, next,
                     components>>
  BY DEF AlreadyJoined
<1>2. \A p : Correlated(p)' <=> Correlated(p)
  BY <1>1 DEF Correlated
<1>3. \A S, T : HaveCollision(S, T)' <=> HaveCollision(S, T)
  BY <1>1 DEF HaveCollision
<1>4. \A i, j : Together(i, j)' <=> Together(i, j)
  BY <1>1 DEF Together
<1>5. Together(pair[1], pair[2])
  BY <1>1 DEF CorrelationInv, Walk, Core, Forest, Together, TypeOK
<1>6. Core'
  <2>1. Forest' /\ Acyclic' /\ Apart'
    BY <1>1, <1>3 DEF CorrelationInv, Core, Forest, Acyclic, Apart
  <2>2. Evidenced'
    BY <1>1, <1>2 DEF CorrelationInv, Core, Evidenced, Linked
  <2>3. Kept'
    BY <1>1, <1>4, <1>5 DEF CorrelationInv, Core, Kept
  <2>4. QED
    BY <2>1, <2>2, <2>3 DEF Core
<1>7. Walk' /\ Placed'
  BY <1>1 DEF CorrelationInv, Walk, Placed
<1>8. Explained'
  <2>1. \A r, s \in Indices : pair[1] \in members[r] /\ pair[2] \in members[s] => r = s
    BY <1>5 DEF CorrelationInv, Core, Forest, Together, TypeOK
  <2>2. QED
    BY <1>1, <1>2, <1>3, <2>1 DEF CorrelationInv, Explained, Handled
<1>9. QED
  BY <1>6, <1>7, <1>8 DEF CorrelationInv

\* The walk has come to the root of the finding that is placed.
LEMMA PlaceStep ==
    ASSUME TypeOK, CorrelationInv, Place
    PROVE  CorrelationInv'
<1>1. /\ pc = "group" /\ next \in Indices /\ parent[cur] = cur /\ cur \in Indices
      /\ components' = [components EXCEPT ![cur] = components[cur] \cup {next}]
      /\ next' = next + 1 /\ cur' = IF next < N THEN next + 1 ELSE cur
      /\ UNCHANGED <<findings, todo, parent, members, decisions, pc, pair, leftRoot>>
  BY CorrelationAssumption DEF Place, TypeOK, Indices
<1>2. Core'
  BY <1>1, CoreStays DEF CorrelationInv
<1>3. next < N => next + 1 \in Indices
  BY <1>1, CorrelationAssumption DEF Indices
<1>4. next + 1 <= N => next < N
  BY <1>1, CorrelationAssumption DEF Indices
<1>5. Walk'
  BY <1>1, <1>3, <1>4 DEF CorrelationInv, Walk, Core, Forest, Together
<1>6. next \in members[cur]
  <2>1. next <= N
    BY <1>1, CorrelationAssumption DEF Indices
  <2>2. QED
    BY <1>1, <2>1 DEF CorrelationInv, Walk, Core, Forest, Together
<1>7. \A i \in Indices : i < next + 1 <=> i < next \/ i = next
  BY <1>1, CorrelationAssumption DEF Indices
<1>8. Placed'
  <2>1. \A r \in Indices : next \in members[r] => r = cur
    BY <1>1, <1>6 DEF CorrelationInv, Core, Forest
  <2>2. \A r \in Indices : members[r] \subseteq Indices
    BY DEF TypeOK
  <2>3. \A r \in Indices : components[r] = {i \in members[r] : i < next}
    BY <1>1 DEF CorrelationInv, Placed
  <2>4. ASSUME NEW r \in Indices
        PROVE  components'[r] = {i \in members[r] : i < next + 1}
    <3>1. CASE r = cur
      BY <1>1, <1>6, <1>7, <2>2, <2>3, <3>1 DEF TypeOK
    <3>2. CASE r # cur
      BY <1>1, <1>7, <2>1, <2>2, <2>3, <3>2 DEF TypeOK
    <3>3. QED
      BY <3>1, <3>2
  <2>5. QED
    BY <1>1, <2>4 DEF Placed
<1>9. Explained'
  <2>1. \A p : Correlated(p)' <=> Correlated(p)
    BY <1>1 DEF Correlated
  <2>2. \A S, T : HaveCollision(S, T)' <=> HaveCollision(S, T)
    BY <1>1 DEF HaveCollision
  <2>3. QED
    BY <1>1, <2>1, <2>2 DEF CorrelationInv, Explained, Handled
<1>10. QED
  BY <1>2, <1>5, <1>8, <1>9 DEF CorrelationInv

\* Joining two components that share no collision: the root of one is hung
\* below the root of the other, whose members it brings along.
LEMMA JoinStep ==
    ASSUME TypeOK, CorrelationInv, Join
    PROVE  CorrelationInv'
<1> DEFINE A == members[leftRoot]
           B == members[cur]
<1>1. /\ pc = "right" /\ pc' = "select" /\ cur # leftRoot /\ parent[cur] = cur
      /\ parent' = [parent EXCEPT ![cur] = leftRoot]
      /\ members' = [members EXCEPT ![leftRoot] = A \cup B, ![cur] = {}]
      /\ decisions' = decisions \cup {pair}
      /\ ~HaveCollision(A, B)
      /\ cur \in Indices /\ leftRoot \in Indices
      /\ UNCHANGED <<findings, todo, pair, cur, leftRoot, next, components>>
  BY DEF Join, TypeOK
<1>2. /\ parent'[cur] = leftRoot
      /\ \A i \in Indices \ {cur} : parent'[i] = parent[i]
  BY <1>1 DEF TypeOK
<1>3. /\ members'[leftRoot] = A \cup B /\ members'[cur] = {}
      /\ \A r \in Indices \ {cur, leftRoot} : members'[r] = members[r]
  BY <1>1 DEF TypeOK
<1>4. /\ leftRoot \in A /\ cur \in B /\ pair[1] \in A /\ pair[2] \in B
      /\ pair \in Pairs /\ Correlated(pair) /\ parent[leftRoot] = leftRoot
  BY <1>1 DEF CorrelationInv, Walk, Core, Forest, Together
<1>5. A \cap B = {} /\ A \subseteq Indices /\ B \subseteq Indices
  BY <1>1 DEF CorrelationInv, Core, Forest, TypeOK
<1>6. \A p : Correlated(p)' <=> Correlated(p)
  BY <1>1 DEF Correlated
<1>7. \A S, T : HaveCollision(S, T)' <=> HaveCollision(S, T)
  BY <1>1 DEF HaveCollision
<1>8. \A i, j \in Indices : Together(i, j) => Together(i, j)'
  <2> SUFFICES ASSUME NEW i \in Indices, NEW j \in Indices, NEW r \in Indices,
                      i \in members[r], j \in members[r]
               PROVE  \E t \in Indices : i \in members'[t] /\ j \in members'[t]
    BY DEF Together
  <2>1. CASE r \in {cur, leftRoot}
    BY <1>1, <1>3, <2>1
  <2>2. CASE r \notin {cur, leftRoot}
    BY <1>3, <2>2
  <2>3. QED
    BY <2>1, <2>2
<1>9. Forest'
  <2>0. /\ \A i \in Indices : \E r \in Indices : i \in members[r]
        /\ \A i, r, s \in Indices : i \in members[r] /\ i \in members[s] => r = s
        /\ \A i, r \in Indices : i \in members[r] =>
               parent[i] \in members[r] /\ (parent[i] = i => i = r)
    BY DEF CorrelationInv, Core, Forest
  <2>1. ASSUME NEW i \in Indices PROVE \E r \in Indices : i \in members'[r]
    <3>1. PICK r \in Indices : i \in members[r]
      BY <2>0
    <3>2. CASE r \in {cur, leftRoot}
      BY <1>1, <1>3, <3>1, <3>2
    <3>3. CASE r \notin {cur, leftRoot}
      BY <1>3, <3>1, <3>3
    <3>4. QED
      BY <3>2, <3>3
  <2>2. ASSUME NEW i \in Indices, NEW r \in Indices, NEW s \in Indices,
               i \in members'[r], i \in members'[s]
        PROVE  r = s
    <3>1. r # cur /\ s # cur
      BY <1>3, <2>2
    <3>2. CASE r = leftRoot /\ s # leftRoot
      <4>1. i \in A \cup B /\ i \in members[s]
        BY <1>3, <2>2, <3>1, <3>2
      <4>2. QED
        BY <1>1, <2>0, <3>1, <3>2, <4>1
    <3>3. CASE r # leftRoot /\ s = leftRoot
      <4>1. i \in A \cup B /\ i \in members[r]
        BY <1>3, <2>2, <3>1, <3>3
      <4>2. QED
        BY <1>1, <2>0, <3>1, <3>3, <4>1
    <3>4. CASE r # leftRoot /\ s # leftRoot
      BY <1>3, <2>0, <2>2, <3>1, <3>4
    <3>5. QED
      BY <3>2, <3>3, <3>4
  <2>3. ASSUME NEW i \in Indices, NEW r \in Indices, i \in members'[r]
        PROVE  parent'[i] \in members'[r] /\ (parent'[i] = i => i = r)
    <3>1. CASE r = leftRoot /\ i \in A
      <4>1. i # cur /\ parent'[i] = parent[i]
        BY <1>2, <1>4, <1>5, <3>1
      <4>2. QED
        BY <1>1, <1>3, <2>0, <3>1, <4>1
    <3>2. CASE r = leftRoot /\ i \in B /\ i # cur
      <4>1. parent'[i] = parent[i] /\ parent[i] \in B /\ parent[i] # i
        BY <1>1, <1>2, <2>0, <3>2
      <4>2. QED
        BY <1>3, <3>2, <4>1
    <3>3. CASE r = leftRoot /\ i = cur
      BY <1>1, <1>2, <1>3, <1>4, <3>3
    <3>4. CASE r # leftRoot
      <4>1. r # cur /\ i \in members[r] /\ members'[r] = members[r]
        BY <1>3, <2>3, <3>4
      <4>2. i # cur
        BY <1>1, <1>4, <4>1 DEF CorrelationInv, Core, Forest
      <4>3. QED
        BY <1>2, <4>1, <4>2 DEF CorrelationInv, Core, Forest
    <3>5. QED
      BY <1>3, <2>3, <3>1, <3>2, <3>3, <3>4
  <2>4. \A r \in Indices : members'[r] # {} => r \in members'[r] /\ parent'[r] = r
    BY <1>1, <1>2, <1>3, <1>4 DEF CorrelationInv, Core, Forest
  <2>5. QED
    BY <2>1, <2>2, <2>3, <2>4 DEF Forest
<1>10. Acyclic'
  <2>1. PICK rank \in [Indices -> Nat] :
            \A i \in Indices : parent[i] # i => rank[i] < rank[parent[i]]
    BY DEF CorrelationInv, Core, Acyclic
  <2> DEFINE lifted == [i \in Indices |->
                          IF i \in A THEN rank[i] + rank[cur] + 1 ELSE rank[i]]
  <2>2. \A i \in Indices : rank[i] \in Nat
    OBVIOUS
  <2>3. lifted \in [Indices -> Nat]
    BY <1>1, <2>2
  <2>4. ASSUME NEW i \in Indices, parent'[i] # i
        PROVE  lifted[i] < lifted[parent'[i]]
    <3>1. CASE i = cur
      <4>1. lifted[i] = rank[cur] /\ lifted[leftRoot] = rank[leftRoot] + rank[cur] + 1
        BY <1>1, <1>4, <1>5, <3>1
      <4>2. rank[cur] < rank[leftRoot] + rank[cur] + 1
        BY <1>1, <2>2
      <4>3. QED
        BY <1>2, <3>1, <4>1, <4>2
    <3>2. CASE i # cur
      <4>1. parent'[i] = parent[i] /\ parent[i] \in Indices /\ rank[i] < rank[parent[i]]
        BY <1>2, <2>1, <2>4, <3>2 DEF TypeOK
      <4>2. i \in A <=> parent[i] \in A
        BY <1>1, <4>1 DEF CorrelationInv, Core, Forest
      <4>3. rank[i] + rank[cur] + 1 < rank[parent[i]] + rank[cur] + 1
        BY <1>1, <2>2, <4>1
      <4>4. QED
        BY <4>1, <4>2, <4>3
    <3>3. QED
      BY <3>1, <3>2
  <2> HIDE DEF lifted
  <2>5. QED
    BY <2>3, <2>4 DEF Acyclic
<1>11. Apart'
  <2>1. ~HaveCollision(A \cup B, A \cup B)
    BY <1>1 DEF CorrelationInv, Core, Apart, HaveCollision, Collides
  <2>2. ~HaveCollision({}, {})
    BY DEF HaveCollision
  <2>3. \A r \in Indices : ~HaveCollision(members'[r], members'[r])
    BY <1>3, <2>1, <2>2 DEF CorrelationInv, Core, Apart
  <2>4. QED
    BY <1>7, <2>3 DEF Apart
<1>12. Evidenced'
  <2> DEFINE Cut(S, C) == \E d \in decisions' : Correlated(d) /\ Crosses(d, S, C \ S)
  <2>1. Linked(A) /\ Linked(B)
    BY <1>1 DEF CorrelationInv, Core, Evidenced
  <2>2. ASSUME NEW S \in SUBSET (A \cup B), S # {}, S # A \cup B
        PROVE  Cut(S, A \cup B)
    <3>1. CASE S \cap A # {} /\ S \cap A # A
      <4>1. PICK d \in decisions : Correlated(d) /\ Crosses(d, S \cap A, A \ (S \cap A))
        BY <2>1, <3>1 DEF Linked
      <4>2. Crosses(d, S, (A \cup B) \ S)
        BY <4>1 DEF Crosses
      <4>3. QED
        BY <1>1, <4>1, <4>2
    <3>2. CASE S \cap B # {} /\ S \cap B # B
      <4>1. PICK d \in decisions : Correlated(d) /\ Crosses(d, S \cap B, B \ (S \cap B))
        BY <2>1, <3>2 DEF Linked
      <4>2. Crosses(d, S, (A \cup B) \ S)
        BY <4>1 DEF Crosses
      <4>3. QED
        BY <1>1, <4>1, <4>2
    <3>3. CASE S = A \/ S = B
      <4>1. Crosses(pair, S, (A \cup B) \ S)
        BY <1>4, <1>5, <3>3 DEF Crosses
      <4>2. QED
        BY <1>1, <1>4, <4>1
    <3>4. QED
      BY <2>2, <3>1, <3>2, <3>3
  <2>3. ASSUME NEW r \in Indices, NEW S \in SUBSET members'[r], S # {}, S # members'[r]
        PROVE  \E d \in decisions' : Correlated(d)' /\ Crosses(d, S, members'[r] \ S)
    <3>1. CASE r = leftRoot
      BY <1>3, <1>6, <2>2, <2>3, <3>1
    <3>2. CASE r # leftRoot
      <4>1. members'[r] = members[r]
        BY <1>3, <2>3, <3>2
      <4>2. Linked(members[r])
        BY DEF CorrelationInv, Core, Evidenced
      <4>3. PICK d \in decisions : Correlated(d) /\ Crosses(d, S, members[r] \ S)
        BY <2>3, <4>1, <4>2 DEF Linked
      <4>4. QED
        BY <1>1, <1>6, <4>1, <4>3
    <3>3. QED
      BY <3>1, <3>2
  <2>4. QED
    BY <2>3 DEF Evidenced, Linked, Crosses
<1>13. Kept'
  <2>1. Together(pair[1], pair[2])'
    BY <1>1, <1>3, <1>4 DEF Together
  <2>2. \A d \in decisions : Together(d[1], d[2])'
    BY <1>8 DEF CorrelationInv, Core, Kept, TypeOK
  <2>3. QED
    BY <1>1, <2>1, <2>2 DEF Kept
<1>14. Walk' /\ Placed'
  BY <1>1 DEF CorrelationInv, Walk, Placed
<1>15. Explained'
  <2>1. ASSUME NEW p \in Pairs, Correlated(p), Handled(p)', p # pair,
               NEW r \in Indices, NEW s \in Indices,
               p[1] \in members'[r], p[2] \in members'[s], r # s
        PROVE  HaveCollision(members'[r], members'[s])
    <3>1. Handled(p) /\ p[1] \in Indices /\ p[2] \in Indices
      BY <1>1, <2>1 DEF Handled, Pairs
    <3>2. PICK x, y \in Indices : p[1] \in members[x] /\ p[2] \in members[y]
      BY <3>1 DEF CorrelationInv, Core, Forest
    <3>3. members[x] \subseteq members'[r] /\ members[y] \subseteq members'[s]
      <4>1. /\ members[x] \subseteq members'[x] \/ x = cur
            /\ members[y] \subseteq members'[y] \/ y = cur
            /\ B \subseteq members'[leftRoot]
        BY <1>3
      <4>2. \A i, t, u \in Indices : i \in members'[t] /\ i \in members'[u] => t = u
        BY <1>9 DEF Forest
      <4>3. QED
        BY <1>1, <2>1, <3>1, <3>2, <4>1, <4>2
    <3>4. x # y
      BY <2>1, <3>1, <3>2, <3>3, <1>9 DEF Forest
    <3>5. HaveCollision(members[x], members[y])
      BY <2>1, <3>1, <3>2, <3>4 DEF CorrelationInv, Explained
    <3>6. QED
      BY <3>3, <3>5 DEF HaveCollision
  <2>2. ASSUME NEW r \in Indices, NEW s \in Indices,
               pair[1] \in members'[r], pair[2] \in members'[s]
        PROVE  r = s
    <3>1. pair[1] \in Indices /\ pair[2] \in Indices
      BY <1>4 DEF Pairs
    <3>2. pair[1] \in members'[leftRoot] /\ pair[2] \in members'[leftRoot]
      BY <1>3, <1>4
    <3>3. \A i, t, u \in Indices : i \in members'[t] /\ i \in members'[u] => t = u
      BY <1>9 DEF Forest
    <3>4. leftRoot \in Indices
      BY <1>1
    <3>5. r = leftRoot /\ s = leftRoot
      BY <2>2, <3>1, <3>2, <3>3, <3>4
    <3>6. QED
      BY <3>5
  <2>3. \A p \in Pairs : Correlated(p) /\ Handled(p)' =>
           \A r, s \in Indices : p[1] \in members'[r] /\ p[2] \in members'[s] /\ r # s =>
               HaveCollision(members'[r], members'[s])
    BY <2>1, <2>2
  <2>4. QED
    BY <1>1, <1>6, <1>7, <2>3 DEF Explained
<1>16. QED
  BY <1>9, <1>10, <1>11, <1>12, <1>13, <1>14, <1>15 DEF CorrelationInv, Core

-------------------------------------------------------------------------------
(* The invariant and what it says of the published groups *)

LEMMA InitInv == Init => CorrelationInv
<1> SUFFICES ASSUME Init PROVE CorrelationInv
  OBVIOUS
<1>1. /\ parent = [i \in Indices |-> i] /\ members = [i \in Indices |-> {i}]
      /\ decisions = {} /\ pc = "collect" /\ components = [i \in Indices |-> {}]
  BY DEF Init
<1>2. Forest /\ Apart /\ Kept
  BY <1>1 DEF Forest, Apart, Kept, HaveCollision, Collides
<1>3. Acyclic
  <2>1. [i \in Indices |-> 0] \in [Indices -> Nat]
    OBVIOUS
  <2>2. QED
    BY <1>1, <2>1 DEF Acyclic
<1>4. Evidenced
  BY <1>1 DEF Evidenced, Linked
<1>5. Walk /\ Explained /\ Placed
  BY <1>1 DEF Walk, Explained, Handled, Placed
<1>6. QED
  BY <1>2, <1>3, <1>4, <1>5 DEF CorrelationInv, Core

LEMMA InvariantStep == TypeOK /\ CorrelationInv /\ [Next]_vars => CorrelationInv'
  BY QuietStep, ClimbStep, AlreadyJoinedStep, JoinStep, PlaceStep DEF Next

\* Forest, members and decisions fit together in every reachable state, and
\* the walk of root() is always in the component it is meant to resolve.
THEOREM CorrelationInvariant == Spec => []CorrelationInv
  BY InvariantStep, InitInv, CorrelationTyping, PTL DEF Spec

LEMMA GroupsAreComponents ==
    ASSUME TypeOK, CorrelationInv, pc = "done"
    PROVE  /\ components = members
           /\ \A G \in Groups : \E r \in Indices : G = members[r]
           /\ \A r \in Indices : members[r] # {} => members[r] \in Groups
BY DEF CorrelationInv, Placed, Groups

LEMMA PartitionFollows == TypeOK /\ CorrelationInv => GroupsArePartition
<1> SUFFICES ASSUME TypeOK, CorrelationInv, pc = "done"
             PROVE  /\ UNION Groups = Indices
                    /\ \A G, H \in Groups : G = H \/ G \cap H = {}
                    /\ components = members
  BY DEF GroupsArePartition
<1>1. Forest /\ \A r \in Indices : members[r] \subseteq Indices
  BY DEF CorrelationInv, Core, TypeOK
<1>2. UNION Groups = Indices
  <2>1. \A i \in Indices : \E G \in Groups : i \in G
    BY <1>1, GroupsAreComponents DEF Forest
  <2>2. \A G \in Groups : G \subseteq Indices
    BY <1>1, GroupsAreComponents
  <2>3. QED
    BY <2>1, <2>2
<1>3. \A G, H \in Groups : G = H \/ G \cap H = {}
  BY <1>1, GroupsAreComponents DEF Forest
<1>4. QED
  BY <1>2, <1>3, GroupsAreComponents

LEMMA ApartFollows == TypeOK /\ CorrelationInv => CollisionsStayApart
BY GroupsAreComponents DEF CollisionsStayApart, CorrelationInv, Core, Apart

LEMMA EvidenceFollows == TypeOK /\ CorrelationInv => GroupsAreEvidenced
<1> SUFFICES ASSUME TypeOK, CorrelationInv, pc = "done", NEW G \in Groups,
                    NEW S \in (SUBSET G) \ {{}, G}
             PROVE  \E d \in decisions :
                        /\ Correlated(d)
                        /\ \/ d[1] \in S /\ d[2] \in G \ S
                           \/ d[2] \in S /\ d[1] \in G \ S
  BY DEF GroupsAreEvidenced
<1>1. Linked(G)
  BY GroupsAreComponents DEF CorrelationInv, Core, Evidenced
<1>2. S \in SUBSET G /\ S # {} /\ S # G
  OBVIOUS
<1>3. \E d \in decisions : Correlated(d) /\ Crosses(d, S, G \ S)
  BY <1>1, <1>2 DEF Linked
<1>4. QED
  BY <1>3 DEF Crosses

LEMMA KeptFollows == TypeOK /\ CorrelationInv => DecisionsAreKept
<1> SUFFICES ASSUME TypeOK, CorrelationInv, pc = "done", NEW d \in decisions
             PROVE  \E G \in Groups : d[1] \in G /\ d[2] \in G
  BY DEF DecisionsAreKept
<1>1. PICK r \in Indices : d[1] \in members[r] /\ d[2] \in members[r]
  BY DEF CorrelationInv, Core, Kept, Together
<1>2. QED
  BY <1>1, GroupsAreComponents

LEMMA SeparationFollows == TypeOK /\ CorrelationInv => SeparationIsExplained
<1> SUFFICES ASSUME TypeOK, CorrelationInv, pc = "done", NEW p \in Pairs,
                    Correlated(p), NEW G \in Groups, NEW H \in Groups,
                    p[1] \in G, p[2] \in H, G # H
             PROVE  HaveCollision(G, H)
  BY DEF SeparationIsExplained
<1>1. Handled(p)
  BY DEF CorrelationInv, Explained, Handled
<1>2. PICK r, s \in Indices : G = members[r] /\ H = members[s]
  BY GroupsAreComponents
<1>3. QED
  BY <1>1, <1>2 DEF CorrelationInv, Explained

-------------------------------------------------------------------------------
(* The documents *)

\* What is known once correlation has begun, and where the documents come from.
DocumentInv ==
    /\ reports \in [Indices -> Reports] /\ given \in {N, MaxFindings + 1}
    /\ findings = [i \in Indices |-> Normalized(reports[i])]
    /\ pc \notin {"collect", "failed"} => /\ Cardinality(Candidates) <= MaxPairs
                                          /\ Reviewed
    /\ todo \subseteq Candidates
    /\ \A d \in decisions : d \in Pairs /\ Correlated(d)
    /\ documents # NoDocuments => pc = "done" /\ documents = Rendered

\* The two steps around the correlation do not touch it.
LEMMA AroundStep ==
    ASSUME TypeOK, CorrelationInv, Refuse \/ Render
    PROVE  TypeOK' /\ CorrelationInv'
<1>1. /\ UNCHANGED <<findings, todo, parent, members, decisions, pair, cur, leftRoot,
                     next, components>>
      /\ pc' = pc \/ pc' = "failed"
  BY DEF Refuse, Render
<1>2. TypeOK'
  BY <1>1 DEF TypeOK, PCs
<1>3. Core'
  BY <1>1, CoreStays DEF CorrelationInv
<1>4. /\ \A p : Correlated(p)' <=> Correlated(p)
      /\ \A S, T : HaveCollision(S, T)' <=> HaveCollision(S, T)
  BY <1>1 DEF Correlated, HaveCollision
<1>5. Walk' /\ Placed'
  BY <1>1, <1>4 DEF CorrelationInv, Walk, Placed, Together
<1>6. Explained'
  BY <1>1, <1>4 DEF CorrelationInv, Explained, Handled
<1>7. QED
  BY <1>2, <1>3, <1>5, <1>6 DEF CorrelationInv

LEMMA PairsAreFinite == IsFiniteSet(Indices) /\ IsFiniteSet(Pairs)
<1>1. IsFiniteSet(Indices)
  BY FS_Interval, CorrelationAssumption DEF Indices
<1>2. IsFiniteSet(Indices \X Indices)
  BY <1>1, FS_Product
<1>3. QED
  BY <1>1, <1>2, FS_Subset DEF Pairs

LEMMA DocumentInitially == DocumentInit => TypeOK /\ CorrelationInv /\ DocumentInv /\ FailureIsExplained
<1> SUFFICES ASSUME DocumentInit
             PROVE  TypeOK /\ CorrelationInv /\ DocumentInv /\ FailureIsExplained
  OBVIOUS
<1>1. TypeOK /\ CorrelationInv
  BY InitialTyping, InitInv DEF DocumentInit
<1>2. DocumentInv /\ FailureIsExplained
  BY DEF DocumentInit, Init, DocumentInv, FailureIsExplained
<1>3. QED
  BY <1>1, <1>2

\* Pairs are only recorded as decisions when they are correlated.
LEMMA DecisionsStep ==
    ASSUME TypeOK, CorrelationInv, DocumentInv, Next
    PROVE  \A d \in decisions' : d \in Pairs /\ Correlated(d)
<1>1. CASE AlreadyJoined \/ Join
  BY <1>1 DEF AlreadyJoined, Join, CorrelationInv, Walk, DocumentInv
<1>2. CASE decisions' = decisions
  BY <1>2 DEF DocumentInv
<1>3. QED
  BY <1>1, <1>2 DEF Next, Collect, Select, SelectFails, Climb, LeftFound, Blocked, StartGrouping, Place, Publish

LEMMA CorrelateStep ==
    ASSUME TypeOK, CorrelationInv, DocumentInv, Correlate
    PROVE  DocumentInv' /\ (FailureIsExplained => FailureIsExplained')
<1>1. /\ UNCHANGED <<findings, reports, origins, given, documents>>
      /\ pc \notin {"done", "failed"}
  BY DEF Correlate, Next, Collect, Select, SelectFails, Climb, LeftFound, AlreadyJoined, Blocked, Join,
         StartGrouping, Place, Publish
<1>2. Candidates' = Candidates /\ \A p : Correlated(p)' <=> Correlated(p)
  BY <1>1 DEF Candidates, Correlated
<1>9. Reviewed' <=> Reviewed
  BY <1>1 DEF Reviewed, Accepted, LastLine, Default
<1>3. ASSUME pc' \notin {"collect", "failed"}
      PROVE  Cardinality(Candidates) <= MaxPairs /\ Reviewed
  <2>1. CASE Collect
    <3>1. Cardinality(Candidates) <= MaxPairs
      <4>1. IsFiniteSet(Candidates)
        BY PairsAreFinite, FS_Subset DEF Candidates
      <4>2. Cardinality(Candidates) \in Nat /\ MaxPairs \in Nat
        BY <4>1, FS_CardinalityType, CorrelationAssumption
      <4>3. ~(Cardinality(Candidates) > MaxPairs)
        BY <1>3, <2>1 DEF Collect
      <4>4. QED
        BY <4>2, <4>3
    <3>2. QED
      BY <2>1, <3>1 DEF Collect, Correlate
  <2>2. CASE ~Collect
    <3>1. pc # "collect"
      BY <2>2 DEF Correlate, Next, Select, SelectFails, Climb, LeftFound, AlreadyJoined, Blocked, Join,
                  StartGrouping, Place, Publish
    <3>2. QED
      BY <1>1, <3>1 DEF DocumentInv
  <2>3. QED
    BY <2>1, <2>2
<1>4. \A d \in decisions' : d \in Pairs /\ Correlated(d)
  BY DecisionsStep DEF Correlate
<1>5. documents = NoDocuments
  BY <1>1 DEF DocumentInv
<1>10. todo' \subseteq Candidates
  <2>1. todo' \subseteq todo \/ todo' = Candidates
    BY DEF Correlate, Next, Collect, Select, SelectFails, Climb, LeftFound, AlreadyJoined,
           Blocked, Join, StartGrouping, Place, Publish
  <2>2. QED
    BY <2>1 DEF DocumentInv
<1>6. DocumentInv'
  BY <1>1, <1>2, <1>3, <1>4, <1>5, <1>9, <1>10 DEF DocumentInv
<1>7. FailureIsExplained'
  <2> SUFFICES ASSUME pc' = "failed"
               PROVE  \/ \E p \in Candidates : Raises(p)
                      \/ Cardinality(Candidates) > MaxPairs
                      \/ \E r \in Indices : Cardinality(components'[r]) > MaxMembers
    BY <1>1, <1>2 DEF FailureIsExplained, Raises
  <2>1. Collect \/ Publish \/ SelectFails
    BY <1>1 DEF Correlate, Next, Select, Climb, LeftFound, AlreadyJoined, Blocked, Join,
                StartGrouping, Place
  <2>2. QED
    BY <2>1 DEF Collect, Publish, SelectFails, DocumentInv
<1>8. QED
  BY <1>6, <1>7

-------------------------------------------------------------------------------
(* The documents satisfy their validator *)

\* A set of findings has a first one.
LEMMA FirstFinding ==
    ASSUME NEW G \in SUBSET Indices, G # {}
    PROVE  (CHOOSE i \in G : \A j \in G : i <= j) \in Indices
<1>1. Indices \subseteq Nat
  BY CorrelationAssumption DEF Indices
<1>2. \E i \in G : \A j \in G : ~(<<j, i>> \in OpToRel(<, Nat))
  BY <1>1, NatLessThanWellFounded, WFMin
<1>3. \E i \in G : \A j \in G : i <= j
  <2>1. \A i, j \in Nat : j < i => <<j, i>> \in OpToRel(<, Nat)
    BY DEF OpToRel
  <2>2. PICK i \in G : \A j \in G : ~(<<j, i>> \in OpToRel(<, Nat))
    BY <1>2
  <2>3. ASSUME NEW j \in G PROVE i <= j
    <3>1. i \in Nat /\ j \in Nat /\ ~(j < i)
      BY <1>1, <2>1, <2>2
    <3>2. QED
      BY <3>1
  <2>4. QED
    BY <2>3
<1>4. QED
  BY <1>3

\* A function on a finite set has finitely many values, no more than arguments.
LEMMA ValuesAreFinite ==
    ASSUME NEW S, NEW T, NEW f \in [S -> T], IsFiniteSet(S), \A t \in T : \E s \in S : f[s] = t
    PROVE  IsFiniteSet(T) /\ Cardinality(T) <= Cardinality(S)
  BY FS_Surjection DEF Surjection

\* There is a scanner behind every group, and not infinitely many.
LEMMA ScannersAreCounted ==
    ASSUME NEW S \in SUBSET Indices, S # {}
    PROVE  /\ Cardinality(ScannersOf(S)) \in Nat /\ Cardinality(ScannersOf(S)) >= 1
           /\ \A i \in S : Cardinality(ScannersOf({i})) = 1
<1>1. IsFiniteSet(S)
  BY PairsAreFinite, FS_Subset
<1>2. ScannersOf(S) = {reports[i].tool : i \in S}
  BY DEF ScannersOf, Reported
<1>3. PICK f : f = [i \in S |-> reports[i].tool]
  OBVIOUS
<1>4. IsFiniteSet(ScannersOf(S))
  <2>1. f \in [S -> ScannersOf(S)] /\ \A t \in ScannersOf(S) : \E i \in S : f[i] = t
    BY <1>2, <1>3
  <2>2. QED
    BY <1>1, <2>1, ValuesAreFinite
<1>5. ScannersOf(S) # {}
  BY <1>2
<1>6. \A i \in S : ScannersOf({i}) = {reports[i].tool}
  BY DEF ScannersOf, Reported
<1>7. Cardinality(ScannersOf(S)) \in Nat /\ Cardinality(ScannersOf(S)) # 0
  BY <1>4, <1>5, FS_CardinalityType, FS_EmptySet
<1>8. \A i \in S : Cardinality(ScannersOf({i})) = 1
  BY <1>6, FS_Singleton
<1>9. QED
  BY <1>7, <1>8

\* The evidence of a group is that of different candidates: a pair that was
\* decided upon does not collide.
LEMMA EvidenceIsBounded ==
    ASSUME TypeOK, DocumentInv, Cardinality(Candidates) <= MaxPairs, NEW G
    PROVE  IsFiniteSet(Evidence(G)) /\ Cardinality(Evidence(G)) \in 0 .. MaxPairs
<1> DEFINE joined(d) == Because(d, RuleOf(d), IF RuleOf(d) \in Exact THEN "exact" ELSE "heuristic")
           kept(p) == Because(p, "scanner-fingerprint-collision", "none")
           Apart2 == {p \in Candidates : /\ Collides(findings[p[1]], findings[p[2]])
                                         /\ p[1] \in G \/ p[2] \in G}
           D == Within(G) \cup Apart2
           f == [d \in D |-> IF d \in Within(G) THEN joined(d) ELSE kept(d)]
<1>1. D \subseteq Candidates
  BY CorrelatedIsCandidate DEF DocumentInv, Within
<1>2. Within(G) \cap Apart2 = {}
  BY DEF DocumentInv, Within, Correlated, Correlates
<1>3. Evidence(G) = {joined(d) : d \in Within(G)} \cup {kept(p) : p \in Apart2}
  BY DEF Evidence
<1>4. f \in [D -> Evidence(G)]
  BY <1>3
<1>5. \A e \in Evidence(G) : \E d \in D : f[d] = e
  <2> SUFFICES ASSUME NEW e \in Evidence(G) PROVE \E d \in D : f[d] = e
    OBVIOUS
  <2>1. CASE \E d \in Within(G) : e = joined(d)
    BY <2>1
  <2>2. CASE \E p \in Apart2 : e = kept(p)
    BY <1>2, <2>2
  <2>3. QED
    BY <1>3, <2>1, <2>2
<1>6. IsFiniteSet(Candidates) /\ Cardinality(Candidates) \in Nat
  BY PairsAreFinite, FS_Subset, FS_CardinalityType DEF Candidates
<1>7. IsFiniteSet(D) /\ Cardinality(D) <= Cardinality(Candidates) /\ Cardinality(D) \in Nat
  BY <1>1, <1>6, FS_Subset, FS_CardinalityType
<1>8. IsFiniteSet(Evidence(G)) /\ Cardinality(Evidence(G)) <= Cardinality(D)
  <2> HIDE DEF f, D
  <2>1. QED
    BY <1>4, <1>5, <1>7, ValuesAreFinite
<1>9. Cardinality(Evidence(G)) \in Nat
  BY <1>8, FS_CardinalityType
<1>10. QED
  BY <1>6, <1>7, <1>8, <1>9, CorrelationAssumption

LEMMA ProvenanceIsValid ==
    ASSUME TypeOK, DocumentInv, Cardinality(Candidates) <= MaxPairs,
           NEW G \in SUBSET Indices, G # {}
    PROVE  /\ Cardinality(Provenance(G)) \in 1 .. MaxPairs
           /\ \A because \in Provenance(G) :
                 because.left \in Indices /\ because.right \in Indices \cup {NoValue}
<1>1. CASE Evidence(G) # {}
  <2>1. Provenance(G) = Evidence(G)
    BY <1>1 DEF Provenance
  <2>2. Cardinality(Evidence(G)) # 0
    BY <1>1, EvidenceIsBounded, FS_EmptySet
  <2>3. Cardinality(Evidence(G)) \in 1 .. MaxPairs
    BY <2>2, EvidenceIsBounded, CorrelationAssumption
  <2>4. \A e \in Evidence(G) : \E d \in Pairs : e.left = d[1] /\ e.right = d[2]
    BY DEF Evidence, Because, Within, DocumentInv, Candidates
  <2>5. QED
    BY <2>1, <2>3, <2>4 DEF Pairs
<1>2. CASE Evidence(G) = {}
  <2> DEFINE first == CHOOSE i \in G : \A j \in G : i <= j
  <2>1. Provenance(G) = {Because(<<first, NoValue>>, "singleton", "none")}
    BY <1>2 DEF Provenance
  <2>2. Cardinality(Provenance(G)) = 1
    BY <2>1, FS_Singleton
  <2>3. first \in Indices
    BY FirstFinding
  <2>4. QED
    BY <2>1, <2>2, <2>3, CorrelationAssumption DEF Because
<1>3. QED
  BY <1>1, <1>2

\* The published groups, as the documents and their validator take them.
LEMMA GroupsAreSets ==
    ASSUME TypeOK, CorrelationInv, pc = "done"
    PROVE  /\ \A G \in Groups : G \in SUBSET Indices /\ G # {}
           /\ \A i \in Indices : \E G \in Groups : i \in G
           /\ \A G, H \in Groups, i \in Indices : i \in G /\ i \in H => G = H
           /\ \A G \in Groups : \A i \in G : Rendered.keys[i] = G
<1>1. /\ UNION Groups = Indices
      /\ \A G, H \in Groups : G = H \/ G \cap H = {}
  BY PartitionFollows DEF GroupsArePartition
<1>2. /\ \A G \in Groups : G \in SUBSET Indices /\ G # {}
      /\ \A i \in Indices : \E G \in Groups : i \in G
      /\ \A G, H \in Groups, i \in Indices : i \in G /\ i \in H => G = H
  BY <1>1 DEF Groups
<1>3. ASSUME NEW G \in Groups, NEW i \in G PROVE Rendered.keys[i] = G
  <2>1. Rendered.keys[i] = CHOOSE H \in Groups : i \in H
    BY <1>2 DEF Rendered
  <2>2. (CHOOSE H \in Groups : i \in H) = G
    BY <1>2
  <2>3. QED
    BY <2>1, <2>2
<1>4. QED
  BY <1>2, <1>3

LEMMA DocumentsAreValid ==
    ASSUME TypeOK, CorrelationInv, DocumentInv, pc = "done", ReferencesDiffer
    PROVE  Valid(Rendered)
<1> DEFINE d == Rendered
<1>1. /\ Cardinality(Candidates) <= MaxPairs
      /\ \A i \in Indices : reports[i].tool \in Scanners
  BY DEF DocumentInv, Reviewed, Accepted
<1>2. d.groups = {Group(G) : G \in Groups} /\ d.prioritized = {Prioritized(G) : G \in Groups}
  BY DEF Rendered
<1>3. \A G : Group(G).key = G /\ Group(G).references = G
  BY DEF Group
<1>4. \A G : Prioritized(G).key = G
  BY DEF Prioritized
<1>5. {g.key : g \in d.groups} = {p.key : p \in d.prioritized}
  BY <1>2, <1>3, <1>4
<1>6. \A g, h \in d.groups : g.key = h.key => g = h
  BY <1>2, <1>3
<1>7. ASSUME NEW G \in Groups PROVE GroupIsValid(Group(G), d.keys)
  <2>1. G \in SUBSET Indices /\ G # {} /\ \A i \in G : d.keys[i] = G
    BY GroupsAreSets
  <2>2. Group(G).rules # {} /\ Group(G).rules \subseteq Rules
    BY DEF Group, Rules, RuleOf, Rule
  <2>3. Group(G).scanners = ScannersOf(G) /\ ScannersOf(G) \subseteq Scanners
    BY <1>1, <2>1 DEF Group, ScannersOf, Reported
  <2>4. Group(G).provenance = Provenance(G)
    BY DEF Group
  <2>5. QED
    BY <1>1, <1>3, <2>1, <2>2, <2>3, <2>4, ProvenanceIsValid DEF GroupIsValid
<1>8. ASSUME NEW i \in Indices PROVE Cardinality({g \in d.groups : i \in g.references}) = 1
  <2>1. PICK G \in Groups : i \in G
    BY GroupsAreSets
  <2>2. {g \in d.groups : i \in g.references} = {Group(G)}
    BY <1>2, <1>3, <2>1, GroupsAreSets
  <2>3. QED
    BY <2>2, FS_Singleton
<1>9. ASSUME NEW G \in Groups PROVE PriorityIsValid(Prioritized(G), Group(G))
  BY DEF PriorityIsValid, Prioritized, Group
<1>10. \A p \in d.prioritized, g \in d.groups : p.key = g.key => PriorityIsValid(p, g)
  BY <1>2, <1>3, <1>4, <1>9
<1>11. \A g \in d.groups : GroupIsValid(g, d.keys)
  BY <1>2, <1>7
<1>12. QED
  BY <1>5, <1>6, <1>8, <1>10, <1>11 DEF Valid

-------------------------------------------------------------------------------
(* Priorities *)

LEMMA SeverityRange == \A s \in DOMAIN Severity : Severity[s] \in 1 .. 4
  BY DEF Severity

\* The highest severity of a group is that of a member, and no member's is higher.
LEMMA HighestFacts ==
    ASSUME NEW S \in SUBSET Indices, S # {}, \A i \in S : reports[i].severity \in DOMAIN Severity
    PROVE  /\ Highest(S) \in 1 .. 4
           /\ \A i \in S : Severity[reports[i].severity] <= Highest(S)
<1> DEFINE V == {Severity[r.severity] : r \in Reported(S)}
<1>1. V = {Severity[reports[i].severity] : i \in S}
  BY DEF Reported
<1>2. V \subseteq 1 .. 4 /\ V # {}
  BY <1>1, SeverityRange
<1>3. \E n \in V : \A m \in V : m <= n
  <2> HIDE DEF V
  <2>1. CASE 4 \in V
    BY <1>2, <2>1
  <2>2. CASE 4 \notin V /\ 3 \in V
    BY <1>2, <2>2
  <2>3. CASE 4 \notin V /\ 3 \notin V /\ 2 \in V
    BY <1>2, <2>3
  <2>4. CASE 4 \notin V /\ 3 \notin V /\ 2 \notin V
    <3>1. ASSUME NEW v \in V PROVE v = 1
      BY <1>2, <2>4
    <3>2. PICK v \in V : TRUE
      BY <1>2
    <3>3. \A m \in V : m <= v
      BY <3>1, <3>2
    <3>4. QED
      BY <3>2, <3>3
  <2>5. QED
    BY <2>1, <2>2, <2>3, <2>4
<1>4. Highest(S) \in V /\ \A r \in Reported(S) : Severity[r.severity] <= Highest(S)
  <2>1. \E n \in V : \A r \in Reported(S) : Severity[r.severity] <= n
    BY <1>3
  <2>2. QED
    BY <2>1 DEF Highest
<1>5. QED
  BY <1>2, <1>4 DEF Reported

LEMMA OneReport ==
    ASSUME NEW i \in Indices
    PROVE  /\ Reported({i}) = {reports[i]} /\ States({i}) = {State(reports[i])}
           /\ reports[i].severity \in DOMAIN Severity => Highest({i}) = Severity[reports[i].severity]
<1>1. Reported({i}) = {reports[i]} /\ States({i}) = {State(reports[i])}
  BY DEF Reported, States
<1>2. ASSUME reports[i].severity \in DOMAIN Severity
      PROVE  Highest({i}) = Severity[reports[i].severity]
  <2>1. Severity[reports[i].severity] \in 1 .. 4
    BY <1>2, SeverityRange
  <2>2. QED
    BY <1>1, <2>1 DEF Highest
<1>3. QED
  BY <1>1, <1>2

\* Evidence of others never lowers what raises a tier, unless known
\* exploitation takes its place.
LEMMA RaisedGrows ==
    ASSUME NEW S \in SUBSET Indices, NEW i \in S,
           \A j \in S : reports[j].severity \in DOMAIN Severity
    PROVE  /\ Raised(S) \in Nat /\ Raised({i}) \in Nat
           /\ \/ Raised(S) >= Raised({i})
              \/ Raised(S) = 4 /\ \E r \in Reported(S) : r.exploited
<1>1. /\ Highest(S) \in 1 .. 4 /\ Highest({i}) \in 1 .. 4 /\ Highest({i}) <= Highest(S)
      /\ Reported({i}) = {reports[i]} /\ reports[i] \in Reported(S)
  BY HighestFacts, OneReport, SeverityRange DEF Reported
<1>2. Cardinality(ScannersOf({i})) = 1
  BY ScannersAreCounted
<1>3. One(Cardinality(ScannersOf({i})) > 1) = 0
  BY <1>2 DEF One
<1>4. One(Cardinality(ScannersOf(S)) > 1) \in {0, 1}
  BY DEF One
<1>5. /\ One(ObservedAtRuntime(S)) \in {0, 1} /\ One(ObservedAtRuntime({i})) \in {0, 1}
      /\ One(ObservedAtRuntime({i})) <= One(ObservedAtRuntime(S))
  <2>1. ObservedAtRuntime({i}) => ObservedAtRuntime(S)
    BY <1>1 DEF ObservedAtRuntime
  <2>2. QED
    BY <2>1 DEF One
<1>6. PICK d, e : /\ d = One(\E r \in Reported(S) : r.reachable)
                  /\ e = One(\E r \in Reported({i}) : r.reachable)
  OBVIOUS
<1>7. d \in {0, 1} /\ e \in {0, 1} /\ e <= d
  <2>1. CASE \E r \in Reported({i}) : r.reachable
    <3>1. \E r \in Reported(S) : r.reachable
      BY <1>1, <2>1
    <3>2. d = 1 /\ e = 1
      BY <1>6, <2>1, <3>1 DEF One
    <3>3. QED
      BY <3>2
  <2>2. CASE ~\E r \in Reported({i}) : r.reachable
    <3>1. e = 0 /\ d \in {0, 1}
      BY <1>6, <2>2 DEF One
    <3>2. QED
      BY <3>1
  <2>3. QED
    BY <2>1, <2>2
<1>8. PICK a, b, c : /\ a = One(Cardinality(ScannersOf(S)) > 1)
                     /\ b = One(ObservedAtRuntime(S)) /\ c = One(ObservedAtRuntime({i}))
  OBVIOUS
<1>9. a \in {0, 1} /\ b \in {0, 1} /\ c \in {0, 1} /\ c <= b
  BY <1>4, <1>5, <1>8
<1>10. /\ Raised(S) = IF \E r \in Reported(S) : r.exploited THEN 4 ELSE Highest(S) + a + b + d
       /\ Raised({i}) = IF \E r \in Reported({i}) : r.exploited THEN 4
                        ELSE Highest({i}) + 0 + c + e
  BY <1>3, <1>6, <1>8 DEF Raised
<1>11. CASE \E r \in Reported(S) : r.exploited
  <2>1. Raised(S) = 4 /\ Raised({i}) \in Nat
    BY <1>1, <1>7, <1>9, <1>10, <1>11
  <2>2. QED
    BY <1>11, <2>1
<1>12. ASSUME ~\E r \in Reported(S) : r.exploited
       PROVE  Raised(S) \in Nat /\ Raised({i}) \in Nat /\ Raised(S) >= Raised({i})
  <2>1. ~\E r \in Reported({i}) : r.exploited
    BY <1>1, <1>12
  <2>2. Raised(S) = Highest(S) + a + b + d /\ Raised({i}) = Highest({i}) + 0 + c + e
    BY <1>10, <1>12, <2>1
  <2>3. PICK h, g : h = Highest(S) /\ g = Highest({i})
    OBVIOUS
  <2>4. h \in 1 .. 4 /\ g \in 1 .. 4 /\ g <= h
    BY <1>1, <2>3
  <2>5. h + a + b + d \in Nat /\ g + 0 + c + e \in Nat /\ h + a + b + d >= g + 0 + c + e
    BY <1>7, <1>9, <2>4
  <2>6. Raised(S) = h + a + b + d
    BY <2>2, <2>3
  <2>7. Raised({i}) = g + 0 + c + e
    BY <2>2, <2>3
  <2>8. QED
    BY <2>5, <2>6, <2>7
<1>13. QED
  BY <1>11, <1>12

\* With its exceptions apart, a group is judged at least as any finding in it.
LEMMA TierGrows ==
    ASSUME NEW S \in SUBSET Indices, NEW i \in S,
           \A j \in S : reports[j].severity \in DOMAIN Severity,
           "suppressed" \notin States(S),
           ~(States(S) = {"baseline"} /\ \E r \in Reported(S) : r.exploited)
    PROVE  Tier(S) \in Int /\ Tier({i}) \in Int /\ Tier({i}) <= Tier(S)
<1>1. /\ Raised(S) \in Nat /\ Raised({i}) \in Nat
      /\ \/ Raised(S) >= Raised({i})
         \/ Raised(S) = 4 /\ \E r \in Reported(S) : r.exploited
  BY RaisedGrows
<1>2. States({i}) = {State(reports[i])} /\ State(reports[i]) \in States(S)
  BY OneReport DEF States, Reported
<1>3. State(reports[i]) # "suppressed"
  BY <1>2
<1>4. Score(S) = IF States(S) = {"baseline"} THEN Raised(S) - 1 ELSE Raised(S)
  BY DEF Score
<1>5. Score({i}) = IF States({i}) = {"baseline"} THEN Raised({i}) - 1 ELSE Raised({i})
  BY <1>2, <1>3 DEF Score
<1>6. States(S) = {"baseline"} => States({i}) = {"baseline"}
  BY <1>2
<1>7. Score(S) \in Int /\ Score({i}) \in Int /\ (Score({i}) <= Score(S) \/ Score(S) = 4)
  <2>1. CASE States(S) = {"baseline"}
    <3>1. Raised(S) >= Raised({i})
      BY <1>1, <2>1
    <3>2. Score(S) = Raised(S) - 1 /\ Score({i}) = Raised({i}) - 1
      BY <1>4, <1>5, <1>6, <2>1
    <3>3. QED
      BY <1>1, <3>1, <3>2
  <2>2. CASE States(S) # {"baseline"}
    BY <1>1, <1>4, <1>5, <2>2
  <2>3. QED
    BY <2>1, <2>2
<1>8. QED
  BY <1>7 DEF Tier

LEMMA DocumentsNeverHide ==
    ASSUME TypeOK, CorrelationInv, DocumentInv
    PROVE  JoiningNeverHides
<1> SUFFICES ASSUME documents # NoDocuments, NEW p \in documents.prioritized, NEW i \in Indices,
                    NEW c \in Controls, i \in p.references, Violates(Prioritized({i}), c),
                    "suppressed" \notin States(p.references),
                    ~(/\ States(p.references) = {"baseline"}
                      /\ \E r \in Reported(p.references) : r.exploited)
             PROVE  Violates(p, c)
  BY DEF JoiningNeverHides
<1>1. pc = "done" /\ documents = Rendered /\ \A j \in Indices : Accepted(reports[j])
  BY DEF DocumentInv, Reviewed
<1>2. PICK G \in Groups : p = Prioritized(G)
  BY <1>1 DEF Rendered
<1>3. G \in SUBSET Indices /\ G # {} /\ i \in G /\ p.references = G
  BY <1>1, <1>2, GroupsAreSets DEF Prioritized
<1>4. \A j \in G : reports[j].severity \in DOMAIN Severity
  BY <1>1, <1>3 DEF Accepted
<1>5. Tier(G) \in Int /\ Tier({i}) \in Int /\ Tier({i}) <= Tier(G)
  BY <1>3, <1>4, TierGrows
<1>6. /\ Cardinality(ScannersOf(G)) \in Nat /\ Cardinality(ScannersOf(G)) >= 1
      /\ Cardinality(ScannersOf({i})) = 1
  BY <1>3, ScannersAreCounted
<1>7. ObservedAtRuntime({i}) => ObservedAtRuntime(G)
  BY <1>3 DEF ObservedAtRuntime, Reported
<1>8. c.minimum \in Nat /\ c.runtime \in BOOLEAN /\ Default(c.scanners, 1) \in Nat
  BY ReportsAssumption
<1>9. /\ Tier({i}) >= c.minimum /\ Cardinality(ScannersOf({i})) >= Default(c.scanners, 1)
      /\ c.runtime => ObservedAtRuntime({i})
  BY DEF Violates, Prioritized
<1>10. /\ Tier(G) >= c.minimum /\ Cardinality(ScannersOf(G)) >= Default(c.scanners, 1)
       /\ c.runtime => ObservedAtRuntime(G)
  BY <1>5, <1>6, <1>7, <1>8, <1>9
<1>11. QED
  BY <1>2, <1>10 DEF Violates, Prioritized

-------------------------------------------------------------------------------
(* The theorems *)

\* What the documents are made of does not change with them.
LEMMA UntouchedOperators ==
    ASSUME UNCHANGED <<findings, decisions, components, reports, origins, given>>
    PROVE  /\ Rendered' = Rendered /\ Candidates' = Candidates
           /\ \A d : Correlated(d)' <=> Correlated(d)
           /\ Reviewed' <=> Reviewed
           /\ ReferencesDiffer' <=> ReferencesDiffer
  BY DEF Rendered, Groups, Group, Prioritized, Candidates, Correlated, Accepted, LastLine,
         Default, Provenance, Evidence, Within, RuleOf, Rule, Because, ScannersOf, Reported,
         ObservedAtRuntime, Tier, Score, Raised, States, State, Highest, One, Reasons,
         Reviewed, ReferencesDiffer, Reference

LEMMA DocumentStep ==
    ASSUME TypeOK, CorrelationInv, DocumentInv, FailureIsExplained, [DocumentNext]_documentVars
    PROVE  TypeOK' /\ CorrelationInv' /\ DocumentInv' /\ FailureIsExplained'
<1>1. CASE Refuse
  <2>1. TypeOK' /\ CorrelationInv'
    BY <1>1, AroundStep
  <2>2. DocumentInv'
    BY <1>1 DEF Refuse, DocumentInv, Correlated, Candidates
  <2>3. FailureIsExplained'
    <3>1. ~(given <= MaxFindings) => given > MaxFindings
      BY ReportsAssumption, CorrelationAssumption DEF DocumentInv
    <3>2. UNCHANGED <<reports, given>> /\ ~Reviewed
      BY <1>1 DEF Refuse
    <3>3. QED
      BY <3>1, <3>2 DEF Reviewed, FailureIsExplained, Accepted, LastLine, Default
  <2>4. QED
    BY <2>1, <2>2, <2>3
<1>2. CASE Correlate
  BY <1>2, TypingStep, InvariantStep, CorrelateStep DEF Correlate
<1>3. CASE Render
  <2>1. TypeOK' /\ CorrelationInv'
    BY <1>3, AroundStep
  <2>2. /\ UNCHANGED <<findings, todo, parent, members, decisions, pair, cur, leftRoot,
                       next, components, reports, origins, given>>
        /\ pc = "done" /\ documents = NoDocuments
        /\ \/ documents' = Rendered /\ UNCHANGED pc
           \/ ~Valid(Rendered) /\ pc' = "failed" /\ UNCHANGED documents
    BY <1>3 DEF Render
  <2>3. /\ Rendered' = Rendered /\ Candidates' = Candidates
        /\ \A d : Correlated(d)' <=> Correlated(d)
        /\ Reviewed' <=> Reviewed
        /\ ReferencesDiffer' <=> ReferencesDiffer
    BY <2>2, UntouchedOperators
  <2>4. DocumentInv'
    BY <2>2, <2>3 DEF DocumentInv
  <2>5. FailureIsExplained'
    BY <2>2, <2>3, DocumentsAreValid DEF FailureIsExplained
  <2>6. QED
    BY <2>1, <2>4, <2>5
<1>4. CASE UNCHANGED documentVars
  <2>1. /\ UNCHANGED vars /\ UNCHANGED <<reports, origins, given, documents>>
        /\ UNCHANGED <<pc, findings, todo, parent, members, decisions, pair, cur, leftRoot,
                       next, components>>
    BY <1>4 DEF documentVars, vars
  <2>2. TypeOK' /\ CorrelationInv'
    BY <2>1, TypingStep, InvariantStep
  <2>3. /\ Rendered' = Rendered /\ Candidates' = Candidates
        /\ \A d : Correlated(d)' <=> Correlated(d)
        /\ Reviewed' <=> Reviewed
        /\ ReferencesDiffer' <=> ReferencesDiffer
    BY <2>1, UntouchedOperators
  <2>4. DocumentInv' /\ FailureIsExplained'
    BY <2>1, <2>3 DEF DocumentInv, FailureIsExplained, Accepted, LastLine, Default, Raises
  <2>5. QED
    BY <2>2, <2>4
<1>5. QED
  BY <1>1, <1>2, <1>3, <1>4 DEF DocumentNext

LEMMA DocumentInvariant ==
    DocumentSpec => [](TypeOK /\ CorrelationInv /\ DocumentInv /\ FailureIsExplained)
  BY DocumentInitially, DocumentStep, PTL DEF DocumentSpec

\* The published groups partition the findings, for any number of findings
\* and any correlation between them.
THEOREM GroupsArePartitionHolds == (Spec => []GroupsArePartition) /\ (DocumentSpec => []GroupsArePartition)
  BY PartitionFollows, CorrelationInvariant, CorrelationTyping, DocumentInvariant, PTL

\* No published group holds two findings with colliding fingerprints.
THEOREM CollisionsStayApartHolds == (Spec => []CollisionsStayApart) /\ (DocumentSpec => []CollisionsStayApart)
  BY ApartFollows, CorrelationInvariant, CorrelationTyping, DocumentInvariant, PTL

\* Every published group is connected by correlated pairs it recorded.
THEOREM GroupsAreEvidencedHolds == (Spec => []GroupsAreEvidenced) /\ (DocumentSpec => []GroupsAreEvidenced)
  BY EvidenceFollows, CorrelationInvariant, CorrelationTyping, DocumentInvariant, PTL

\* Both findings of a recorded decision are in one published group.
THEOREM DecisionsAreKeptHolds == (Spec => []DecisionsAreKept) /\ (DocumentSpec => []DecisionsAreKept)
  BY KeptFollows, CorrelationInvariant, CorrelationTyping, DocumentInvariant, PTL

\* Two correlated findings are published apart only if their groups collide.
THEOREM SeparationIsExplainedHolds == (Spec => []SeparationIsExplained) /\ (DocumentSpec => []SeparationIsExplained)
  BY SeparationFollows, CorrelationInvariant, CorrelationTyping, DocumentInvariant, PTL

\* A build only fails for what it was given or for one of its limits: unless
\* two references are equal, the documents satisfy their own validator.
THEOREM FailureIsExplainedHolds == DocumentSpec => []FailureIsExplained
  BY DocumentInvariant, PTL

\* Joining findings never hides one of them from the policy, but for the two
\* exceptions in the code.
THEOREM JoiningNeverHidesHolds == DocumentSpec => []JoiningNeverHides
  BY DocumentsNeverHide, DocumentInvariant, PTL

=================================================================================
