-------------------------- MODULE FindingCorrelation --------------------------
(***************************************************************************)
(* scripts/vibesec/finding_intelligence.py, build: correlating the findings*)
(* of a scan into groups.  Findings are numbered in the order of their     *)
(* source references.  Pairs that share an identity are candidates; they   *)
(* are taken in order, and the groups of a correlated pair are joined in a *)
(* union-find forest (parent, with path halving) unless that would put two *)
(* findings with colliding fingerprints into one group.  The members of    *)
(* each group are kept beside the forest for that test, and the groups     *)
(* that are published are read off the forest at the end.                  *)
(***************************************************************************)
EXTENDS Naturals, FiniteSets

CONSTANTS
    N,              \* number of findings
    Inputs,         \* the findings a scan may report, see Finding
    NoValue,        \* a field without value
    MaxPairs,       \* MAX_CANDIDATE_PAIRS
    MaxMembers      \* MAX_MEMBERS_PER_GROUP

\* A finding, as far as correlation looks at it: scanner with fingerprint;
\* file and lines; vulnerability family and sink; package with version and
\* advisory; method with path template and authentication context; and all
\* other fields of SCANNER_EXACT_EVIDENCE_FIELDS.
IsFinding(f) ==
    DOMAIN f = {"print", "file", "first", "last", "family", "sink",
                "dependency", "route", "rest"}

ASSUME CorrelationAssumption ==
    /\ N \in Nat \ {0}
    /\ MaxPairs \in Nat \ {0}
    /\ MaxMembers \in Nat
    /\ \A f \in Inputs : IsFinding(f)

Indices == 1 .. N
Pairs == {pair \in Indices \X Indices : pair[1] < pair[2]}

VARIABLES
    findings,       \* the validated findings
    todo,           \* candidate pairs not looked at yet
    parent,         \* union-find forest
    members,        \* component_members; {} once popped
    decisions,      \* pairs found to belong together
    pc, pair, cur, leftRoot,    \* the pair at hand and the walk to a root
    next,           \* the finding to be put into its group
    components      \* the groups, by root

vars == <<findings, todo, parent, members, decisions, pc, pair, cur, leftRoot,
          next, components>>

PCs == {"collect", "select", "left", "right", "group", "done", "failed"}

TypeOK ==
    /\ findings \in [Indices -> Inputs]
    /\ todo \subseteq Pairs
    /\ parent \in [Indices -> Indices]
    /\ members \in [Indices -> SUBSET Indices]
    /\ decisions \subseteq Indices \X Indices
    /\ pc \in PCs
    /\ pair \in Indices \X Indices
    /\ cur \in Indices
    /\ leftRoot \in Indices
    /\ next \in 1 .. N + 1
    /\ components \in [Indices -> SUBSET Indices]

-------------------------------------------------------------------------------
(* Identities, correlation rules and collisions *)

Shares(f, g, field) == f[field] # NoValue /\ f[field] = g[field]

\* Mutation: packages have no bucket.
CandidateWithoutDependency(f, g) ==
    f.print = g.print \/ Shares(f, g, "file") \/ Shares(f, g, "route")

\* Two findings meet in a bucket.
Candidate(f, g) ==
    \/ f.print = g.print
    \/ \E field \in {"file", "dependency", "route"} : Shares(f, g, field)

\* One scanner, one fingerprint, but the reviewed evidence differs.
Collides(f, g) == f.print = g.print /\ f # g

OverlapsOrAdjacent(f, g) ==
    /\ f.first # NoValue /\ g.first # NoValue
    /\ f.first <= g.last + 1
    /\ g.first <= f.last + 1

\* A finding may have a first line without a last one (a null end_line): then
\* the comparison raises a TypeError, unless the order of its tests spares it.
CannotCompare(f, g) ==
    /\ f.print # g.print
    /\ Shares(f, g, "file")
    /\ f.first # NoValue /\ g.first # NoValue
    /\ g.last # NoValue => f.first <= g.last + 1 /\ f.last = NoValue

ScannerExact(f, g) == f.print = g.print /\ f = g

CodeLocation(f, g) ==
    /\ Shares(f, g, "file")
    /\ OverlapsOrAdjacent(f, g)
    /\ Shares(f, g, "family")
    /\ f.sink = g.sink

Dependency(f, g) == Shares(f, g, "dependency")

RuntimeRoute(f, g) == Shares(f, g, "route") /\ Shares(f, g, "family")

Correlates(f, g) ==
    /\ ~Collides(f, g)
    /\ \/ ScannerExact(f, g)
       \/ CodeLocation(f, g)
       \/ Dependency(f, g)
       \/ RuntimeRoute(f, g)

Candidates == {p \in Pairs : Candidate(findings[p[1]], findings[p[2]])}
Correlated(p) == Correlates(findings[p[1]], findings[p[2]])

\* blocked_by: members of the two components collide with each other.
HaveCollision(S, T) ==
    \E i \in S, j \in T : Collides(findings[i], findings[j])

-------------------------------------------------------------------------------
Init ==
    /\ findings \in [Indices -> Inputs]
    /\ todo = {}
    /\ parent = [i \in Indices |-> i]
    /\ members = [i \in Indices |-> {i}]
    /\ decisions = {}
    /\ pc = "collect"
    /\ pair = <<1, 1>>
    /\ cur = 1
    /\ leftRoot = 1
    /\ next = 1
    /\ components = [i \in Indices |-> {}]

Collect ==
    /\ pc = "collect"
    /\ IF Cardinality(Candidates) > MaxPairs
         THEN pc' = "failed" /\ UNCHANGED todo
         ELSE pc' = "select" /\ todo' = Candidates
    /\ UNCHANGED <<findings, parent, members, decisions, pair, cur, leftRoot,
                   next, components>>

Precedes(p, q) == p[1] < q[1] \/ (p[1] = q[1] /\ p[2] < q[2])

Raises(p) == CannotCompare(findings[p[1]], findings[p[2]])

\* The next pair in sorted order; one without decision is passed over.
Select ==
    /\ pc = "select"
    /\ \E p \in todo :
        /\ \A q \in todo \ {p} : Precedes(p, q)
        /\ ~Raises(p)
        /\ todo' = todo \ {p}
        /\ IF Correlated(p)
             THEN pc' = "left" /\ pair' = p /\ cur' = p[1]
             ELSE UNCHANGED <<pc, pair, cur>>
    /\ UNCHANGED <<findings, parent, members, decisions, leftRoot, next, components>>

\* The TypeError of one pair ends the build.
SelectFails ==
    /\ pc = "select"
    /\ \E p \in todo :
        /\ \A q \in todo \ {p} : Precedes(p, q)
        /\ Raises(p)
    /\ pc' = "failed"
    /\ UNCHANGED <<findings, todo, parent, members, decisions, pair, cur, leftRoot,
                   next, components>>

\* Mutation: the walk halves the path but stays where it is.
ClimbInPlace ==
    /\ pc \in {"left", "right", "group"}
    /\ parent[cur] # cur
    /\ parent' = [parent EXCEPT ![cur] = parent[parent[cur]]]
    /\ UNCHANGED <<findings, todo, members, decisions, pc, pair, cur, leftRoot,
                   next, components>>

\* One turn of the loop of root().
Climb ==
    /\ pc \in {"left", "right", "group"}
    /\ parent[cur] # cur
    /\ parent' = [parent EXCEPT ![cur] = parent[parent[cur]]]
    /\ cur' = parent[parent[cur]]
    /\ UNCHANGED <<findings, todo, members, decisions, pc, pair, leftRoot, next,
                   components>>

LeftFound ==
    /\ pc = "left"
    /\ parent[cur] = cur
    /\ leftRoot' = cur
    /\ cur' = pair[2]
    /\ pc' = "right"
    /\ UNCHANGED <<findings, todo, parent, members, decisions, pair, next, components>>

AlreadyJoined ==
    /\ pc = "right"
    /\ parent[cur] = cur
    /\ cur = leftRoot
    /\ decisions' = decisions \cup {pair}
    /\ pc' = "select"
    /\ UNCHANGED <<findings, todo, parent, members, pair, cur, leftRoot, next, components>>

\* Mutation: a blocked pair is remembered as a decision.
BlockedButDecided ==
    /\ pc = "right"
    /\ parent[cur] = cur
    /\ cur # leftRoot
    /\ HaveCollision(members[leftRoot], members[cur])
    /\ pc' = "select"
    /\ decisions' = decisions \cup {pair}
    /\ UNCHANGED <<findings, todo, parent, members, pair, cur, leftRoot,
                   next, components>>

Blocked ==
    /\ pc = "right"
    /\ parent[cur] = cur
    /\ cur # leftRoot
    /\ HaveCollision(members[leftRoot], members[cur])
    /\ pc' = "select"
    /\ UNCHANGED <<findings, todo, parent, members, decisions, pair, cur, leftRoot,
                   next, components>>

\* Mutation: the joined component keeps the members it had.
JoinForestOnly ==
    /\ pc = "right"
    /\ parent[cur] = cur
    /\ cur # leftRoot
    /\ ~HaveCollision(members[leftRoot], members[cur])
    /\ parent' = [parent EXCEPT ![cur] = leftRoot]
    /\ members' = [members EXCEPT ![cur] = {}]
    /\ decisions' = decisions \cup {pair}
    /\ pc' = "select"
    /\ UNCHANGED <<findings, todo, pair, cur, leftRoot, next, components>>

\* Mutation: the second finding is hung below the root, not its component.
JoinFindingOnly ==
    /\ pc = "right"
    /\ parent[cur] = cur
    /\ cur # leftRoot
    /\ ~HaveCollision(members[leftRoot], members[cur])
    /\ parent' = [parent EXCEPT ![pair[2]] = leftRoot]
    /\ members' = [members EXCEPT ![leftRoot] = members[leftRoot] \cup members[cur],
                                  ![cur] = {}]
    /\ decisions' = decisions \cup {pair}
    /\ pc' = "select"
    /\ UNCHANGED <<findings, todo, pair, cur, leftRoot, next, components>>

\* Mutation: only pairs that were joined before are remembered.
JoinSilently ==
    /\ pc = "right"
    /\ parent[cur] = cur
    /\ cur # leftRoot
    /\ ~HaveCollision(members[leftRoot], members[cur])
    /\ parent' = [parent EXCEPT ![cur] = leftRoot]
    /\ members' = [members EXCEPT ![leftRoot] = members[leftRoot] \cup members[cur],
                                  ![cur] = {}]
    /\ pc' = "select"
    /\ UNCHANGED <<findings, todo, decisions, pair, cur, leftRoot, next, components>>

Join ==
    /\ pc = "right"
    /\ parent[cur] = cur
    /\ cur # leftRoot
    /\ ~HaveCollision(members[leftRoot], members[cur])
    /\ parent' = [parent EXCEPT ![cur] = leftRoot]
    /\ members' = [members EXCEPT ![leftRoot] = members[leftRoot] \cup members[cur],
                                  ![cur] = {}]
    /\ decisions' = decisions \cup {pair}
    /\ pc' = "select"
    /\ UNCHANGED <<findings, todo, pair, cur, leftRoot, next, components>>

StartGrouping ==
    /\ pc = "select"
    /\ todo = {}
    /\ pc' = "group"
    /\ next' = 1
    /\ cur' = 1
    /\ UNCHANGED <<findings, todo, parent, members, decisions, pair, leftRoot, components>>

Place ==
    /\ pc = "group"
    /\ next <= N
    /\ parent[cur] = cur
    /\ components' = [components EXCEPT ![cur] = components[cur] \cup {next}]
    /\ next' = next + 1
    /\ cur' = IF next < N THEN next + 1 ELSE cur
    /\ UNCHANGED <<findings, todo, parent, members, decisions, pc, pair, leftRoot>>

\* One oversized group fails the whole document.
Publish ==
    /\ pc = "group"
    /\ next = N + 1
    /\ pc' = IF \E r \in Indices : Cardinality(components[r]) > MaxMembers
               THEN "failed" ELSE "done"
    /\ UNCHANGED <<findings, todo, parent, members, decisions, pair, cur, leftRoot,
                   next, components>>

Next ==
    \/ Collect
    \/ Select
    \/ SelectFails
    \/ Climb
    \/ LeftFound
    \/ AlreadyJoined
    \/ Blocked
    \/ Join
    \/ StartGrouping
    \/ Place
    \/ Publish

Spec == Init /\ [][Next]_vars

\* A function call: it runs until it returns or raises.
FairSpec == Spec /\ WF_vars(Next)

-------------------------------------------------------------------------------
(* Properties *)

Groups == {components[r] : r \in Indices} \ {{}}

\* "Every finding belongs to exactly one group": the published groups, which
\* are read off the halved and re-hung forest, cover all findings and do not
\* overlap, and they are the very sets the collision test was made on.
GroupsArePartition ==
    pc = "done" =>
        /\ UNION Groups = Indices
        /\ \A G, H \in Groups : G = H \/ G \cap H = {}
        /\ components = members

\* Findings of one scanner with one fingerprint but different evidence are
\* never in one group, however long the chain of pairs that would join them.
CollisionsStayApart ==
    pc = "done" => \A G \in Groups : ~HaveCollision(G, G)

\* A group is held together by its decisions: however it is split in two,
\* some correlated pair that was recorded as a decision links the halves.
GroupsAreEvidenced ==
    pc = "done" =>
        \A G \in Groups : \A S \in (SUBSET G) \ {{}, G} :
            \E d \in decisions :
                /\ Correlated(d)
                /\ \/ d[1] \in S /\ d[2] \in G \ S
                   \/ d[2] \in S /\ d[1] \in G \ S

\* A decision is provenance of one group: both findings are in it.
DecisionsAreKept ==
    pc = "done" => \A d \in decisions : \E G \in Groups : d[1] \in G /\ d[2] \in G

\* A correlated pair is in two groups only if a collision between these two
\* groups forbids joining them.
SeparationIsExplained ==
    pc = "done" => \A p \in Pairs : Correlated(p) =>
        \A G, H \in Groups :
            p[1] \in G /\ p[2] \in H /\ G # H => HaveCollision(G, H)

\* Halving and joining never make a cycle: every walk reaches a root and the
\* build ends.
Ends == <>(pc \in {"done", "failed"})
===============================================================================
