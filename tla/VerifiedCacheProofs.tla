-------------------------- MODULE VerifiedCacheProofs --------------------------
(***************************************************************************)
(* What holds of the caches for any number of commands and tools and any   *)
(* artifacts.  The invariant adds to the properties how far each command   *)
(* has filled its staging directory, which makes a published entry genuine,*)
(* and that a command has a staging directory only while it installs,      *)
(* which lets its kind change when it starts the scan.                     *)
(***************************************************************************)
EXTENDS VerifiedCache, TLAPS

Installing == {"fetch", "record", "publish", "abandon"}

\* What a command q that is not yet done knows of its staging directory s.
Staged(q, s) ==
    /\ s # NoEntry <=> q.pc \in Installing
    /\ q.pc \in {"inspect", "look", "check", "prepare", "mkdir"} => q.next = 1
    /\ q.pc = "fetch" =>
         /\ q.next \in 1..Len(Fetched(q.kind))
         /\ \A i \in 1..(q.next - 1) : s.part[Fetched(q.kind)[i]] = "genuine"
         /\ \A x \in Parts(q.kind) : s.part[x] # "altered"
    /\ q.pc = "record" => \A x \in Range(Fetched(q.kind)) : s.part[x] = "genuine"
    /\ q.pc = "publish" => \A x \in Parts(q.kind) : s.part[x] = "genuine"

\* The entry behind a started command is there and is a wanted one.
Backed(q, c) ==
    q.pc \in {"launch", "scan"} => c[q.kind] # NoEntry /\ Serves(q.kind, c[q.kind], q.source)

CacheInv ==
    /\ TypeOK
    /\ \A p \in Procs : Staged(proc[p], staging[p]) /\ Backed(proc[p], cache)
    /\ PublishedIsGenuine
    /\ litter # {} => leftover

-----------------------------------------------------------------------------
\* Fetched parts are parts, and there is at least one.
LEMMA FetchedFacts ==
    ASSUME NEW k \in Kinds
    PROVE  /\ DOMAIN Fetched(k) = 1..Len(Fetched(k)) /\ Len(Fetched(k)) \in Nat /\ Len(Fetched(k)) >= 1
           /\ Len(Fetched(k)) <= Len(Tools)
           /\ \A i \in 1..Len(Fetched(k)) : Fetched(k)[i] \in Parts(k)
           /\ \A x \in Range(Fetched(k)) : \E i \in 1..Len(Fetched(k)) : x = Fetched(k)[i]
<1>1. Tools \in Seq(STRING) /\ Len(Tools) \in Nat /\ Len(Tools) >= 1
  BY ToolsAssumption
<1>2. /\ DOMAIN Fetched(k) = 1..Len(Fetched(k)) /\ Len(Fetched(k)) \in Nat
      /\ Len(Fetched(k)) >= 1 /\ Len(Fetched(k)) <= Len(Tools)
  <2>1. CASE k = "runtime"
    <3>1. Fetched(k) = <<"files">>
      BY <2>1 DEF Fetched
    <3>2. Len(<<"files">>) = 1 /\ DOMAIN <<"files">> = 1..1
      OBVIOUS
    <3>3. QED
      BY <1>1, <3>1, <3>2
  <2>2. CASE k # "runtime"
    BY <1>1, <2>2 DEF Fetched
  <2>3. QED
    BY <2>1, <2>2
<1>3. QED
  BY <1>2 DEF Parts, Range

\* Only the staging directory of p changes, to s.
Restages(p, s) ==
    /\ DOMAIN staging' = Procs /\ staging'[p] = s
    /\ \A r \in Procs \ {p} : staging'[r] = staging[r]

\* One command moves and the others stay; what is published stays published.
LEMMA Moves ==
    ASSUME CacheInv, NEW p \in Procs, NEW q \in Processes, NEW s \in Stage(q.kind) \cup {NoEntry},
           proc' = [proc EXCEPT ![p] = q], Restages(p, s),
           Staged(q, s), Backed(q, cache'),
           DOMAIN cache' = Kinds,
           \A k \in Kinds : cache'[k] \in Entry(k) \cup {NoEntry},
           \A k \in Kinds : cache[k] # NoEntry =>
               cache'[k] # NoEntry /\ cache'[k].source = cache[k].source,
           \A k \in Kinds : cache'[k] # NoEntry /\ ~cache'[k].touched =>
               \A x \in Parts(k) : cache'[k].part[x] = "genuine",
           parents' \in [Kinds -> BOOLEAN], litter' \subseteq Kinds, leftover' \in BOOLEAN,
           litter' # {} => leftover', outcome' \in [Procs -> Outcomes], faults' \in 0..MaxFaults
    PROVE  CacheInv'
<1>1. /\ proc'[p] = q /\ staging'[p] = s
      /\ \A r \in Procs \ {p} : proc'[r] = proc[r] /\ staging'[r] = staging[r]
      /\ proc' \in [Procs -> Processes] /\ DOMAIN staging' = Procs
  BY DEF CacheInv, TypeOK, Restages
<1>2. \A r \in Procs : staging'[r] \in Stage(proc'[r].kind) \cup {NoEntry}
  BY <1>1 DEF CacheInv, TypeOK, Kind
<1>3. TypeOK'
  BY <1>1, <1>2 DEF TypeOK, Kind
<1>4. ASSUME NEW r \in Procs
      PROVE  Staged(proc'[r], staging'[r]) /\ Backed(proc'[r], cache')
  <2>1. CASE r = p
    BY <1>1, <2>1
  <2>2. CASE r # p
    <3>1. proc[r].kind \in Kinds
      BY DEF CacheInv, TypeOK, Processes
    <3>2. Staged(proc[r], staging[r]) /\ Backed(proc[r], cache)
      BY DEF CacheInv
    <3>3. Backed(proc[r], cache')
      BY <3>1, <3>2 DEF Backed, Serves
    <3>4. QED
      BY <1>1, <2>2, <3>2, <3>3
  <2>3. QED
    BY <2>1, <2>2
<1>5. PublishedIsGenuine'
  BY DEF PublishedIsGenuine
<1>6. QED
  BY <1>3, <1>4, <1>5 DEF CacheInv

\* The same for a command that leaves the caches and its surroundings alone.
LEMMA MovesQuietly ==
    ASSUME CacheInv, NEW p \in Procs, NEW q \in Processes, NEW s \in Stage(q.kind) \cup {NoEntry},
           proc' = [proc EXCEPT ![p] = q], Restages(p, s),
           Staged(q, s), Backed(q, cache),
           UNCHANGED <<cache, litter, faults, leftover>>,
           parents' \in [Kinds -> BOOLEAN], outcome' \in [Procs -> Outcomes]
    PROVE  CacheInv'
<1>1. /\ DOMAIN cache' = Kinds /\ Backed(q, cache')
      /\ \A k \in Kinds : cache'[k] \in Entry(k) \cup {NoEntry}
      /\ \A k \in Kinds : cache[k] # NoEntry => cache'[k] # NoEntry /\ cache'[k].source = cache[k].source
      /\ litter' \subseteq Kinds /\ leftover' \in BOOLEAN /\ (litter' # {} => leftover')
      /\ faults' \in 0..MaxFaults
  BY DEF CacheInv, TypeOK
<1>2. \A k \in Kinds : cache'[k] # NoEntry /\ ~cache'[k].touched =>
          \A x \in Parts(k) : cache'[k].part[x] = "genuine"
  BY DEF CacheInv, PublishedIsGenuine
<1>3. QED
  BY <1>1, <1>2, Moves

-----------------------------------------------------------------------------
(* The ways a handler ends.                                                 *)

\* Every command has a kind, and a staging directory only while installing.
LEMMA ProcessFacts ==
    ASSUME CacheInv, NEW p \in Procs
    PROVE  /\ proc[p] \in Processes /\ Kind(p) \in Kinds /\ Kind(p) = proc[p].kind
           /\ staging[p] \in Stage(Kind(p)) \cup {NoEntry}
           /\ Staged(proc[p], staging[p]) /\ Backed(proc[p], cache)
           /\ Source(p) = proc[p].source /\ Source(p) \in Sources
           /\ outcome \in [Procs -> Outcomes] /\ parents \in [Kinds -> BOOLEAN]
           /\ DOMAIN staging = Procs
           /\ staging' = staging => Restages(p, staging[p])
           /\ \A s : staging' = [staging EXCEPT ![p] = s] => Restages(p, s)
<1>1. DOMAIN staging = Procs /\ proc[p] \in Processes /\ proc \in [Procs -> Processes]
  BY DEF CacheInv, TypeOK
<1>2. /\ staging' = staging => Restages(p, staging[p])
      /\ \A s : staging' = [staging EXCEPT ![p] = s] => Restages(p, s)
  BY <1>1 DEF Restages
<1>3. QED
  BY <1>1, <1>2 DEF CacheInv, TypeOK, Processes, Kind, Source

LEMMA IdleFacts ==
    /\ IdleProcess \in Processes /\ IdleProcess.pc = "idle"
    /\ Staged(IdleProcess, NoEntry) /\ \A c : Backed(IdleProcess, c)
<1>1. IdleProcess \in Processes
  BY ToolsAssumption DEF IdleProcess, Processes, Pcs, Commands, Kinds, Sources
<1>2. QED
  BY <1>1 DEF IdleProcess, Staged, Backed, Installing

Whys == {"refused", "conflict", "failed"}

\* A failing command ends, or goes on to remove its staging directory.
LEMMA Failing ==
    ASSUME CacheInv, NEW p \in Procs, NEW why \in Whys, Fail(p, why),
           UNCHANGED <<cache, staging, litter>>, parents' \in [Kinds -> BOOLEAN]
    PROVE  CacheInv'
<1> USE ProcessFacts
<1>1. CASE staging[p] = NoEntry
  <2>1. /\ proc' = [proc EXCEPT ![p] = IdleProcess]
        /\ outcome' = [outcome EXCEPT ![p] = why] /\ UNCHANGED <<faults, leftover>>
    BY <1>1 DEF Fail, Finish
  <2>2. outcome' \in [Procs -> Outcomes]
    BY <2>1 DEF Outcomes, Whys
  <2>3. Restages(p, NoEntry)
    BY <1>1
  <2>4. QED
    BY <2>1, <2>2, <2>3, IdleFacts, MovesQuietly
<1>2. CASE staging[p] # NoEntry
  <2> DEFINE q == [proc[p] EXCEPT !.pc = "abandon", !.why = why]
  <2>1. /\ proc' = [proc EXCEPT ![p] = q] /\ UNCHANGED <<outcome, faults, leftover>>
    BY <1>2 DEF Fail
  <2>2. q \in Processes /\ q.kind = Kind(p) /\ q.pc = "abandon"
    BY DEF Processes, Pcs, Whys
  <2>3. Staged(q, staging[p]) /\ Backed(q, cache)
    BY <1>2, <2>2 DEF Staged, Backed, Installing
  <2> HIDE DEF q
  <2>4. Restages(p, staging[p]) /\ staging[p] \in Stage(q.kind) \cup {NoEntry}
    BY <2>2
  <2>5. QED
    BY <2>1, <2>2, <2>3, <2>4, MovesQuietly
<1>3. QED
  BY <1>1, <1>2

\* A command goes on where nothing is claimed of it but the first number.
LEMMA Going ==
    ASSUME CacheInv, NEW p \in Procs, NEW pc \in Pcs, Goto(p, pc),
           UNCHANGED <<cache, staging, litter>>, parents' \in [Kinds -> BOOLEAN],
           staging[p] = NoEntry, pc \notin Installing,
           pc \in {"inspect", "look", "check", "prepare", "mkdir"} => proc[p].next = 1,
           pc \in {"launch", "scan"} =>
               cache[Kind(p)] # NoEntry /\ Serves(Kind(p), cache[Kind(p)], Source(p))
    PROVE  CacheInv'
<1> DEFINE q == [proc[p] EXCEPT !.pc = pc]
<1> USE ProcessFacts
<1>1. proc' = [proc EXCEPT ![p] = q] /\ UNCHANGED <<outcome, faults, leftover>>
  BY DEF Goto
<1>2. /\ q \in Processes /\ q.kind = Kind(p) /\ q.pc = pc /\ q.next = proc[p].next
      /\ q.source = proc[p].source
  BY DEF Processes
<1> HIDE DEF q
<1>3. Staged(q, NoEntry) /\ Backed(q, cache)
  BY <1>2 DEF Staged, Backed, Installing
<1>4. Restages(p, NoEntry)
  OBVIOUS
<1>5. QED
  BY <1>1, <1>2, <1>3, <1>4, MovesQuietly

\* Whatever validation accepts is there, and of the wanted source.
LEMMA Adopting ==
    ASSUME CacheInv, NEW p \in Procs, Valid(Kind(p), cache[Kind(p)], Source(p)), Adopt(p),
           staging[p] = NoEntry, UNCHANGED <<cache, parents, staging, litter>>
    PROVE  CacheInv'
<1> USE ProcessFacts
<1>1. cache[Kind(p)] # NoEntry
  BY DEF Valid, ValidRuntime, ValidTools
<1>2. Serves(Kind(p), cache[Kind(p)], Source(p))
  BY DEF Valid, ValidRuntime, ValidTools, Serves
<1>3. PICK pc \in {"launch", "scan"} : Goto(p, pc)
  BY DEF Adopt
<1>4. pc \in Pcs /\ pc \notin Installing /\ pc \notin {"inspect", "look", "check", "prepare", "mkdir"}
  BY DEF Pcs, Installing
<1>5. parents' \in [Kinds -> BOOLEAN]
  OBVIOUS
<1>6. QED
  BY <1>1, <1>2, <1>3, <1>4, <1>5, Going

-----------------------------------------------------------------------------
(* The actions.                                                             *)

LEMMA BeginStep ==
    ASSUME CacheInv, NEW p \in Procs, NEW command \in Commands, NEW source \in Sources,
           Begin(p, command, source)
    PROVE  CacheInv'
<1> DEFINE q == [IdleProcess EXCEPT !.source = source,
                   !.kind = IF command = "bootstrap" THEN "runtime" ELSE "tools",
                   !.pc = CASE command = "bootstrap" -> "look"
                            [] command = "reuse" -> "check"
                            [] OTHER -> "inspect"]
<1> USE ProcessFacts
<1>1. /\ proc' = [proc EXCEPT ![p] = q] /\ outcome' = [outcome EXCEPT ![p] = "none"]
      /\ UNCHANGED <<cache, parents, staging, litter, faults, leftover>> /\ proc[p].pc = "idle"
  BY DEF Begin, Idle
<1>2. q.pc \in {"look", "check", "inspect"} /\ q.next = 1
  BY DEF IdleProcess
<1>3. q \in Processes
  BY <1>2, IdleFacts DEF Processes, Pcs, Kinds, IdleProcess
<1> HIDE DEF q
<1>4. staging[p] = NoEntry
  BY <1>1 DEF Staged, Installing
<1>5. Staged(q, NoEntry) /\ Backed(q, cache)
  BY <1>2 DEF Staged, Backed, Installing
<1>6. outcome' \in [Procs -> Outcomes] /\ parents' \in [Kinds -> BOOLEAN] /\ Restages(p, NoEntry)
  BY <1>1, <1>4 DEF Outcomes
<1>7. QED
  BY <1>1, <1>3, <1>5, <1>6, MovesQuietly

LEMMA LookingSteps ==
    ASSUME CacheInv, NEW p \in Procs, Inspect(p) \/ Look(p) \/ Check(p) \/ Verify(p)
    PROVE  CacheInv'
<1> USE ProcessFacts
<1>1. /\ UNCHANGED <<cache, parents, staging, litter>> /\ staging[p] = NoEntry
      /\ parents' \in [Kinds -> BOOLEAN]
  BY DEF Inspect, Look, Check, Verify, At, Staged, Installing
<1>2. CASE Fail(p, "refused")
  BY <1>1, <1>2, Failing DEF Whys
<1>3. CASE Valid(Kind(p), cache[Kind(p)], Source(p)) /\ Adopt(p)
  BY <1>1, <1>3, Adopting
<1>4. ASSUME NEW pc \in {"look", "check", "prepare"}, Goto(p, pc), proc[p].next = 1
      PROVE  CacheInv'
  BY <1>1, <1>4, Going DEF Pcs, Installing
<1>5. QED
  BY <1>2, <1>3, <1>4 DEF Inspect, Look, Check, Verify, At, Staged

LEMMA PrepareStep ==
    ASSUME CacheInv, NEW p \in Procs, Prepare(p)
    PROVE  CacheInv'
<1> USE ProcessFacts
<1>1. /\ proc[p].pc = "prepare" /\ proc[p].next = 1 /\ staging[p] = NoEntry
      /\ UNCHANGED <<cache, parents, litter>> /\ parents' \in [Kinds -> BOOLEAN]
  BY DEF Prepare, At, Staged, Installing
<1>2. CASE parents[Kind(p)]
  <2> DEFINE q == [proc[p] EXCEPT !.pc = "fetch"]
             s == EmptyStage(Kind(p))
  <2>1. /\ proc' = [proc EXCEPT ![p] = q] /\ staging' = [staging EXCEPT ![p] = s]
        /\ UNCHANGED <<outcome, faults, leftover>>
    BY <1>2 DEF Prepare, Goto
  <2>2. q \in Processes /\ q.kind = Kind(p) /\ q.pc = "fetch" /\ q.next = 1
    BY <1>1 DEF Processes, Pcs
  <2>3. /\ s \in Stage(Kind(p)) /\ s # NoEntry
        /\ \A x \in Parts(Kind(p)) : s.part[x] # "altered"
    BY NoEntryAssumption DEF EmptyStage, Stage, Contents
  <2> HIDE DEF q, s
  <2>4. 1 \in 1..Len(Fetched(Kind(p)))
    BY FetchedFacts
  <2>5. Staged(q, s) /\ Backed(q, cache)
    BY <2>2, <2>3, <2>4 DEF Staged, Backed, Installing
  <2>6. QED
    BY <1>1, <2>1, <2>2, <2>3, <2>5, MovesQuietly
<1>3. CASE ~parents[Kind(p)]
  <2>1. Goto(p, "mkdir") /\ UNCHANGED staging
    BY <1>3 DEF Prepare
  <2>2. QED
    BY <1>1, <2>1, Going DEF Pcs, Installing
<1>4. QED
  BY <1>2, <1>3

LEMMA MakeParentsStep ==
    ASSUME CacheInv, NEW p \in Procs, MakeParents(p)
    PROVE  CacheInv'
<1> USE ProcessFacts
<1>1. /\ proc[p].pc = "mkdir" /\ proc[p].next = 1 /\ staging[p] = NoEntry
      /\ UNCHANGED <<cache, staging, litter>> /\ parents' \in [Kinds -> BOOLEAN]
  BY DEF MakeParents, At, Staged, Installing
<1>2. CASE Fail(p, "conflict")
  BY <1>1, <1>2, Failing DEF Whys
<1>3. CASE Goto(p, "prepare")
  BY <1>1, <1>3, Going DEF Pcs, Installing
<1>4. QED
  BY <1>2, <1>3 DEF MakeParents

\* What is laid down at its turn is the reviewed file.
LEMMA LayStep ==
    ASSUME CacheInv, NEW p \in Procs, proc[p].pc = "fetch",
           Lay(p, Fetched(Kind(p))[proc[p].next], TRUE),
           UNCHANGED <<cache, parents, litter>>
    PROVE  CacheInv'
<1> USE ProcessFacts
<1> DEFINE n == proc[p].next
           x == Fetched(Kind(p))[n]
           q == [proc[p] EXCEPT !.next = n + 1,
                    !.pc = IF n = Len(Fetched(Kind(p))) THEN "record" ELSE proc[p].pc]
           s == [staging[p] EXCEPT !.part[x] = "genuine"]
<1>1. /\ n \in 1..Len(Fetched(Kind(p))) /\ staging[p] # NoEntry /\ staging[p] \in Stage(Kind(p))
      /\ \A i \in 1..(n - 1) : staging[p].part[Fetched(Kind(p))[i]] = "genuine"
      /\ \A y \in Parts(Kind(p)) : staging[p].part[y] # "altered"
  BY DEF Staged, Installing
<1>2. /\ proc' = [proc EXCEPT ![p] = q] /\ staging' = [staging EXCEPT ![p] = s]
      /\ UNCHANGED <<outcome, faults, leftover>>
  BY DEF Lay
<1>3. /\ x \in Parts(Kind(p)) /\ Len(Fetched(Kind(p))) \in Nat
      /\ Len(Fetched(Kind(p))) <= Len(Tools) /\ Len(Tools) \in Nat
      /\ \A i \in 1..Len(Fetched(Kind(p))) : Fetched(Kind(p))[i] \in Parts(Kind(p))
      /\ \A y \in Range(Fetched(Kind(p))) : \E i \in 1..Len(Fetched(Kind(p))) : y = Fetched(Kind(p))[i]
  BY <1>1, FetchedFacts, ToolsAssumption
<1>4. n \in Nat /\ n + 1 \in 1..(Len(Tools) + 1)
  BY <1>1, <1>3
<1>5. q \in Processes /\ q.kind = Kind(p) /\ q.next = n + 1
  BY <1>4 DEF Processes, Pcs
<1>6. /\ s \in Stage(Kind(p)) /\ s.part[x] = "genuine"
      /\ \A y \in Parts(Kind(p)) \ {x} : s.part[y] = staging[p].part[y]
  BY <1>1, <1>3 DEF Stage, Contents
<1>7. s # NoEntry
  BY <1>6, NoEntryAssumption
<1>8. /\ \A i \in 1..n : s.part[Fetched(Kind(p))[i]] = "genuine"
      /\ \A y \in Parts(Kind(p)) : s.part[y] # "altered"
  BY <1>1, <1>3, <1>6
<1>9. CASE n = Len(Fetched(Kind(p)))
  <2>1. q.pc = "record" /\ \A y \in Range(Fetched(Kind(p))) : s.part[y] = "genuine"
    BY <1>3, <1>8, <1>9
  <2> HIDE DEF q, s
  <2>2. Staged(q, s) /\ Backed(q, cache)
    BY <1>5, <1>7, <2>1 DEF Staged, Backed, Installing
  <2>3. QED
    BY <1>2, <1>5, <1>6, <2>2, MovesQuietly
<1>10. CASE n # Len(Fetched(Kind(p)))
  <2>1. q.pc = "fetch" /\ q.next - 1 = n /\ q.next \in 1..Len(Fetched(Kind(p)))
    BY <1>1, <1>3, <1>4, <1>5, <1>10
  <2> HIDE DEF q, s
  <2>2. Staged(q, s) /\ Backed(q, cache)
    BY <1>5, <1>7, <1>8, <2>1 DEF Staged, Backed, Installing
  <2>3. QED
    BY <1>2, <1>5, <1>6, <2>2, MovesQuietly
<1>11. QED
  BY <1>9, <1>10

LEMMA FetchSteps ==
    ASSUME CacheInv, NEW p \in Procs, FetchBundle(p) \/ FetchTool(p)
    PROVE  CacheInv'
<1> USE ProcessFacts
<1>1. /\ proc[p].pc = "fetch" /\ UNCHANGED <<cache, parents, litter>>
      /\ parents' \in [Kinds -> BOOLEAN]
  BY DEF FetchBundle, FetchTool, At
<1>2. CASE Fail(p, "failed") /\ UNCHANGED staging
  BY <1>1, <1>2, Failing DEF Whys
<1>3. ASSUME Kind(p) = "runtime", Lay(p, "files", TRUE)
      PROVE  CacheInv'
  <2>1. Fetched(Kind(p)) = <<"files">> /\ Len(<<"files">>) = 1
    BY <1>3 DEF Fetched
  <2>2. proc[p].next = 1
    <3>1. proc[p].next \in 1..Len(Fetched(Kind(p)))
      BY <1>1 DEF Staged
    <3>2. Len(Fetched(Kind(p))) = 1
      BY <2>1
    <3>3. QED
      BY <3>1, <3>2
  <2>3. Fetched(Kind(p))[proc[p].next] = "files"
    BY <2>1, <2>2
  <2>4. QED
    BY <1>1, <1>3, <2>3, LayStep
<1>4. ASSUME Kind(p) = "tools", Lay(p, Tools[proc[p].next], TRUE)
      PROVE  CacheInv'
  <2>1. Fetched(Kind(p)) = Tools
    BY <1>4 DEF Fetched
  <2>2. QED
    BY <1>1, <1>4, <2>1, LayStep
<1>5. CASE FetchBundle(p)
  <2>1. PICK artifact \in Artifacts :
            IF /\ Arrives(artifact) /\ artifact.digest = "expected"
               /\ BundleVerifies(artifact.members)
            THEN Lay(p, "files", IsBundle(artifact))
            ELSE Fail(p, "failed") /\ UNCHANGED staging
    BY <1>5 DEF FetchBundle
  <2>2. CASE artifact.digest = "expected" /\ BundleVerifies(artifact.members)
    <3>1. IsBundle(artifact) = TRUE
      BY <2>2 DEF IsBundle
    <3>2. QED
      BY <1>2, <1>3, <1>5, <2>1, <3>1 DEF FetchBundle
  <2>3. CASE ~(artifact.digest = "expected" /\ BundleVerifies(artifact.members))
    BY <1>2, <2>1, <2>3
  <2>4. QED
    BY <2>2, <2>3
\* A verifier that is there was laid down before, so its verdict is the truth.
<1>6. CASE FetchTool(p)
  <2> DEFINE x == Tools[proc[p].next]
             asset == Metadata[Source(p)][x]
  <2>1. PICK artifact \in Artifacts : \E verdict \in Verdicts(p, artifact) :
            IF /\ Arrives(artifact) /\ artifact.digest = "expected" /\ Extracts(artifact, asset)
               /\ asset.signed => staging[p].part[Verifier] # "absent" /\ verdict
            THEN Lay(p, x, IsTool(artifact, asset))
            ELSE Fail(p, "failed") /\ UNCHANGED staging
    BY <1>6 DEF FetchTool
  <2>2. PICK verdict \in Verdicts(p, artifact) :
            IF /\ Arrives(artifact) /\ artifact.digest = "expected" /\ Extracts(artifact, asset)
               /\ asset.signed => staging[p].part[Verifier] # "absent" /\ verdict
            THEN Lay(p, x, IsTool(artifact, asset))
            ELSE Fail(p, "failed") /\ UNCHANGED staging
    BY <2>1
  <2>3. Kind(p) = "tools" /\ Verifier \in Parts("tools")
    BY <1>6, ToolsAssumption DEF FetchTool, Parts, Fetched
  <2>4. staging[p].part[Verifier] # "altered"
    BY <1>1, <2>3 DEF Staged
  <2>5. verdict = artifact.signed
    BY <2>2, <2>4 DEF Verdicts
  <2> HIDE DEF x, asset
  <2>6. CASE /\ artifact.digest = "expected" /\ Extracts(artifact, asset)
             /\ asset.signed => artifact.signed
    <3>1. IsTool(artifact, asset) = TRUE
      BY <2>6 DEF IsTool
    <3>2. QED
      BY <1>2, <1>4, <2>2, <2>3, <3>1 DEF x
  <2>7. CASE ~(/\ artifact.digest = "expected" /\ Extracts(artifact, asset)
               /\ asset.signed => artifact.signed)
    BY <1>2, <2>2, <2>5, <2>7
  <2>8. QED
    BY <2>6, <2>7
<1>7. QED
  BY <1>5, <1>6

LEMMA RecordStep ==
    ASSUME CacheInv, NEW p \in Procs, Record(p)
    PROVE  CacheInv'
<1> USE ProcessFacts
<1> DEFINE q == [proc[p] EXCEPT !.pc = "publish"]
           s == [staging[p] EXCEPT !.part["record"] = "genuine"]
<1>1. /\ proc' = [proc EXCEPT ![p] = q] /\ staging' = [staging EXCEPT ![p] = s]
      /\ UNCHANGED <<cache, parents, litter, outcome, faults, leftover>> /\ proc[p].pc = "record"
  BY DEF Record, Goto, At
<1>2. /\ staging[p] \in Stage(Kind(p))
      /\ \A x \in Range(Fetched(Kind(p))) : staging[p].part[x] = "genuine"
  BY <1>1 DEF Staged, Installing
<1>3. s \in Stage(Kind(p)) /\ \A x \in Parts(Kind(p)) : s.part[x] = "genuine"
  BY <1>2 DEF Stage, Contents, Parts
<1>4. q \in Processes /\ q.kind = Kind(p) /\ q.pc = "publish"
  BY DEF Processes, Pcs
<1> HIDE DEF q, s
<1>5. s # NoEntry
  BY <1>3, NoEntryAssumption
<1>6. Staged(q, s) /\ Backed(q, cache)
  BY <1>3, <1>4, <1>5 DEF Staged, Backed, Installing
<1>7. QED
  BY <1>1, <1>3, <1>4, <1>6, MovesQuietly

LEMMA PublishStep ==
    ASSUME CacheInv, NEW p \in Procs, Publish(p)
    PROVE  CacheInv'
<1> USE ProcessFacts
<1>1. CASE cache[Kind(p)] # NoEntry
  <2>1. Fail(p, "conflict") /\ UNCHANGED <<cache, staging, litter, parents>>
    BY <1>1 DEF Publish
  <2>2. QED
    BY <2>1, Failing DEF Whys
<1>2. CASE cache[Kind(p)] = NoEntry
  <2> DEFINE q == [proc[p] EXCEPT !.pc = "verify"]
             e == Published(p)
  <2>1. /\ proc' = [proc EXCEPT ![p] = q] /\ staging' = [staging EXCEPT ![p] = NoEntry]
        /\ cache' = [cache EXCEPT ![Kind(p)] = e] /\ proc[p].pc = "publish"
        /\ UNCHANGED <<parents, litter, outcome, faults, leftover>>
    BY <1>2 DEF Publish, Goto, At
  <2>2. /\ staging[p] \in Stage(Kind(p))
        /\ \A x \in Parts(Kind(p)) : staging[p].part[x] = "genuine"
    BY <2>1 DEF Staged, Installing
  <2>3. /\ e \in Entry(Kind(p)) /\ e.source = Source(p)
        /\ \A x \in Parts(Kind(p)) : e.part[x] = "genuine"
    BY <2>2 DEF Published, Entry, Stage
  <2>4. q \in Processes /\ q.kind = Kind(p) /\ q.pc = "verify"
    BY DEF Processes, Pcs
  <2> HIDE DEF q, e
  <2>5. Staged(q, NoEntry) /\ Backed(q, cache')
    BY <2>4 DEF Staged, Backed, Installing
  <2>6. /\ DOMAIN cache' = Kinds /\ cache'[Kind(p)] = e
        /\ \A k \in Kinds \ {Kind(p)} : cache'[k] = cache[k]
    BY <2>1 DEF CacheInv, TypeOK
  <2>8. \A k \in Kinds : cache'[k] \in Entry(k) \cup {NoEntry}
    BY <2>3, <2>6 DEF CacheInv, TypeOK
  <2>9. \A k \in Kinds : cache[k] # NoEntry =>
            cache'[k] # NoEntry /\ cache'[k].source = cache[k].source
    BY <1>2, <2>6
  <2>10. \A k \in Kinds : cache'[k] # NoEntry /\ ~cache'[k].touched =>
             \A x \in Parts(k) : cache'[k].part[x] = "genuine"
    BY <2>3, <2>6 DEF CacheInv, PublishedIsGenuine
  <2>11. /\ parents' \in [Kinds -> BOOLEAN] /\ litter' \subseteq Kinds /\ leftover' \in BOOLEAN
         /\ (litter' # {} => leftover') /\ outcome' \in [Procs -> Outcomes]
         /\ faults' \in 0..MaxFaults /\ Restages(p, NoEntry)
    BY <2>1 DEF CacheInv, TypeOK
  <2>12. QED
    BY <2>1, <2>4, <2>5, <2>6, <2>8, <2>9, <2>10, <2>11, Moves
<1>3. QED
  BY <1>1, <1>2

LEMMA AbandonStep ==
    ASSUME CacheInv, NEW p \in Procs, Abandon(p)
    PROVE  CacheInv'
<1> USE ProcessFacts
<1>1. /\ proc' = [proc EXCEPT ![p] = IdleProcess] /\ staging' = [staging EXCEPT ![p] = NoEntry]
      /\ outcome' = [outcome EXCEPT ![p] = proc[p].why] /\ UNCHANGED <<cache, parents, faults>>
  BY DEF Abandon
<1>2. outcome' \in [Procs -> Outcomes]
  BY <1>1 DEF Processes, Outcomes
<1>3. litter' \subseteq Kinds /\ leftover' \in BOOLEAN /\ (litter' # {} => leftover')
  BY DEF Abandon, CacheInv, TypeOK
<1>4. /\ DOMAIN cache' = Kinds /\ parents' \in [Kinds -> BOOLEAN]
      /\ \A k \in Kinds : cache'[k] \in Entry(k) \cup {NoEntry}
      /\ \A k \in Kinds : cache[k] # NoEntry => cache'[k] # NoEntry /\ cache'[k].source = cache[k].source
      /\ faults' \in 0..MaxFaults
  BY <1>1 DEF CacheInv, TypeOK
<1>5. \A k \in Kinds : cache'[k] # NoEntry /\ ~cache'[k].touched =>
          \A x \in Parts(k) : cache'[k].part[x] = "genuine"
  BY <1>1 DEF CacheInv, PublishedIsGenuine
<1>6. QED
  BY <1>1, <1>2, <1>3, <1>4, <1>5, IdleFacts, Moves

LEMMA CallFailsStep ==
    ASSUME CacheInv, NEW p \in Procs, CallFails(p)
    PROVE  CacheInv'
<1>1. Fail(p, "failed") /\ UNCHANGED <<cache, parents, staging, litter>>
  BY DEF CallFails
<1>2. parents' \in [Kinds -> BOOLEAN]
  BY <1>1, ProcessFacts
<1>3. QED
  BY <1>1, <1>2, Failing DEF Whys

\* The scan that a runtime starts is a command for the scanners.
LEMMA LaunchStep ==
    ASSUME CacheInv, NEW p \in Procs, Launch(p)
    PROVE  CacheInv'
<1> USE ProcessFacts
<1> DEFINE q == [proc[p] EXCEPT !.kind = "tools", !.pc = "inspect", !.next = 1]
<1>1. /\ proc' = [proc EXCEPT ![p] = q] /\ proc[p].pc = "launch" /\ cache["runtime"] # NoEntry
      /\ UNCHANGED <<parents, staging, litter, outcome, faults, leftover>>
  BY DEF Launch, At
<1>2. PICK bytecode \in BOOLEAN :
          cache' = [cache EXCEPT !["runtime"].extra = cache["runtime"].extra \/ bytecode]
  BY DEF Launch
<1>3. q \in Processes /\ q.pc = "inspect" /\ q.next = 1
  <2>1. 1 \in 1..(Len(Tools) + 1)
    BY ToolsAssumption
  <2>2. QED
    BY <2>1 DEF Processes, Pcs, Kinds
<1> HIDE DEF q
<1>4. staging[p] = NoEntry
  BY <1>1 DEF Staged, Installing
<1>5. Staged(q, NoEntry) /\ Backed(q, cache') /\ Restages(p, NoEntry)
  BY <1>1, <1>3, <1>4 DEF Staged, Backed, Installing
<1>6. cache["runtime"] \in Entry("runtime") /\ "runtime" \in Kinds /\ "tools" \in Kinds
  BY <1>1 DEF CacheInv, TypeOK, Kinds
<1>7. /\ DOMAIN cache' = Kinds /\ cache'["tools"] = cache["tools"]
      /\ cache'["runtime"] \in Entry("runtime")
      /\ cache'["runtime"].source = cache["runtime"].source
      /\ cache'["runtime"].part = cache["runtime"].part
      /\ cache'["runtime"].touched = cache["runtime"].touched
  <2>1. DOMAIN cache = Kinds
    BY DEF CacheInv, TypeOK
  <2>2. (cache["runtime"].extra \/ bytecode) \in BOOLEAN
    OBVIOUS
  <2>3. QED
    BY <1>2, <1>6, <2>1, <2>2 DEF Entry
<1>8. cache'["runtime"] # NoEntry
  BY <1>6, <1>7, NoEntryAssumption
<1>10. \A k \in Kinds : cache'[k] \in Entry(k) \cup {NoEntry}
  BY <1>7 DEF CacheInv, TypeOK, Kinds
<1>11. \A k \in Kinds : cache[k] # NoEntry =>
           cache'[k] # NoEntry /\ cache'[k].source = cache[k].source
  BY <1>7, <1>8 DEF Kinds
<1>12. \A k \in Kinds : cache'[k] # NoEntry /\ ~cache'[k].touched =>
           \A x \in Parts(k) : cache'[k].part[x] = "genuine"
  BY <1>1, <1>6, <1>7 DEF CacheInv, PublishedIsGenuine, Kinds
<1>13. /\ parents' \in [Kinds -> BOOLEAN] /\ litter' \subseteq Kinds /\ leftover' \in BOOLEAN
       /\ (litter' # {} => leftover') /\ outcome' \in [Procs -> Outcomes]
       /\ faults' \in 0..MaxFaults
  BY <1>1 DEF CacheInv, TypeOK
<1>14. QED
  BY <1>1, <1>3, <1>5, <1>7, <1>10, <1>11, <1>12, <1>13, Moves

LEMMA ScanStep ==
    ASSUME CacheInv, NEW p \in Procs, Scan(p)
    PROVE  CacheInv'
<1> USE ProcessFacts
<1>1. /\ proc' = [proc EXCEPT ![p] = IdleProcess] /\ outcome' = [outcome EXCEPT ![p] = "ran"]
      /\ UNCHANGED <<cache, parents, staging, litter, faults, leftover>> /\ proc[p].pc = "scan"
  BY DEF Scan, Finish, At
<1>2. staging[p] = NoEntry
  BY <1>1 DEF Staged, Installing
<1>3. outcome' \in [Procs -> Outcomes] /\ parents' \in [Kinds -> BOOLEAN] /\ Restages(p, NoEntry)
  BY <1>1, <1>2 DEF Outcomes
<1>4. QED
  BY <1>1, <1>3, IdleFacts, MovesQuietly

LEMMA KillStep ==
    ASSUME CacheInv, NEW p \in Procs, Kill(p)
    PROVE  CacheInv'
<1> USE ProcessFacts
<1>1. /\ proc' = [proc EXCEPT ![p] = IdleProcess] /\ staging' = [staging EXCEPT ![p] = NoEntry]
      /\ UNCHANGED <<cache, parents, outcome>>
  BY DEF Kill
<1>2. litter' \subseteq Kinds /\ leftover' \in BOOLEAN /\ (litter' # {} => leftover')
  BY DEF Kill, CacheInv, TypeOK
<1>3. faults' \in 0..MaxFaults
  BY ToolsAssumption DEF Kill, CacheInv, TypeOK
<1>4. /\ DOMAIN cache' = Kinds /\ parents' \in [Kinds -> BOOLEAN]
      /\ \A k \in Kinds : cache'[k] \in Entry(k) \cup {NoEntry}
      /\ \A k \in Kinds : cache[k] # NoEntry => cache'[k] # NoEntry /\ cache'[k].source = cache[k].source
      /\ outcome' \in [Procs -> Outcomes]
  BY <1>1 DEF CacheInv, TypeOK
<1>5. \A k \in Kinds : cache'[k] # NoEntry /\ ~cache'[k].touched =>
          \A x \in Parts(k) : cache'[k].part[x] = "genuine"
  BY <1>1 DEF CacheInv, PublishedIsGenuine
<1>6. QED
  BY <1>1, <1>2, <1>3, <1>4, <1>5, IdleFacts, Moves

\* Other hands mark what they change, and leave its source.
Marked(k) ==
    /\ DOMAIN cache' = Kinds /\ cache'[k] \in Entry(k) /\ cache'[k].touched = TRUE
    /\ cache'[k].source = cache[k].source
    /\ \A j \in Kinds \ {k} : cache'[j] = cache[j]

LEMMA TouchStep ==
    ASSUME CacheInv, NEW k \in Kinds, Touch(k)
    PROVE  CacheInv'
<1>1. /\ cache[k] \in Entry(k) /\ cache[k] # NoEntry /\ DOMAIN cache = Kinds
      /\ UNCHANGED <<parents, staging, litter, proc, outcome, leftover>>
      /\ faults' \in 0..MaxFaults
  BY ToolsAssumption DEF Touch, CacheInv, TypeOK
<1>2. Marked(k)
  <2>1. ASSUME NEW x \in Parts(k), NEW content \in {"absent", "altered"},
               cache' = [cache EXCEPT ![k].part[x] = content, ![k].touched = TRUE]
        PROVE  Marked(k)
    <3>1. /\ DOMAIN cache' = Kinds
          /\ cache'[k] = [cache[k] EXCEPT !.part[x] = content, !.touched = TRUE]
          /\ \A j \in Kinds \ {k} : cache'[j] = cache[j]
      BY <1>1, <2>1
    <3>2. [cache[k].part EXCEPT ![x] = content] \in [Parts(k) -> Contents]
      BY <1>1, <2>1 DEF Entry, Contents
    <3>3. QED
      BY <1>1, <3>1, <3>2 DEF Entry, Marked
  <2>2. CASE cache' = [cache EXCEPT ![k].extra = TRUE, ![k].touched = TRUE]
    BY <1>1, <2>2 DEF Entry, Marked
  <2>3. QED
    BY <2>1, <2>2 DEF Touch
<1>3. cache'[k] # NoEntry
  BY <1>2, NoEntryAssumption DEF Marked
<1>4. TypeOK'
  BY <1>1, <1>2 DEF CacheInv, TypeOK, Kind, Marked
<1>6. ASSUME NEW p \in Procs
      PROVE  Staged(proc'[p], staging'[p]) /\ Backed(proc'[p], cache')
  <2>1. Staged(proc[p], staging[p]) /\ Backed(proc[p], cache) /\ proc[p].kind \in Kinds
    BY DEF CacheInv, TypeOK, Processes
  <2>2. Backed(proc[p], cache')
    BY <1>2, <1>3, <2>1 DEF Backed, Serves, Marked
  <2>3. QED
    BY <1>1, <2>1, <2>2
<1>7. PublishedIsGenuine'
  BY <1>2 DEF CacheInv, PublishedIsGenuine, Marked
<1>8. QED
  BY <1>1, <1>4, <1>6, <1>7 DEF CacheInv

LEMMA ClearStep ==
    ASSUME CacheInv, NEW k \in Kinds, Clear(k)
    PROVE  CacheInv'
<1>1. /\ \A p \in Procs : proc[p].pc = "idle"
      /\ cache' = [cache EXCEPT ![k] = NoEntry] /\ litter' = litter \ {k}
      /\ UNCHANGED <<staging, proc, outcome, faults, leftover>>
  BY DEF Clear, Idle
<1>2. /\ DOMAIN cache' = Kinds /\ cache'[k] = NoEntry
      /\ \A j \in Kinds \ {k} : cache'[j] = cache[j]
  BY <1>1 DEF CacheInv, TypeOK
<1>3. parents' \in [Kinds -> BOOLEAN]
  BY DEF Clear, CacheInv, TypeOK
<1>4. TypeOK'
  BY <1>1, <1>2, <1>3 DEF CacheInv, TypeOK, Kind
<1>5. PublishedIsGenuine'
  BY <1>2 DEF CacheInv, PublishedIsGenuine, Kinds
<1>6. \A p \in Procs : Staged(proc'[p], staging'[p]) /\ Backed(proc'[p], cache')
  BY <1>1 DEF CacheInv, Backed
<1>7. QED
  BY <1>1, <1>4, <1>5, <1>6 DEF CacheInv

-----------------------------------------------------------------------------
(* The theorems.                                                            *)

LEMMA CacheInitially == ASSUME Init PROVE CacheInv
<1>1. \A p \in Procs : proc[p] = IdleProcess /\ staging[p] = NoEntry
  BY DEF Init
<1>2. TypeOK
  <2>1. /\ DOMAIN cache = Kinds /\ \A k \in Kinds : cache[k] = NoEntry
        /\ DOMAIN staging = Procs
    BY DEF Init
  <2>2. 0 \in 0..MaxFaults
    BY ToolsAssumption
  <2>3. /\ parents \in [Kinds -> BOOLEAN] /\ proc \in [Procs -> Processes]
        /\ outcome \in [Procs -> Outcomes] /\ litter \subseteq Kinds
        /\ faults = 0 /\ leftover \in BOOLEAN
    BY IdleFacts DEF Init, Outcomes
  <2>4. QED
    BY <1>1, <2>1, <2>2, <2>3 DEF TypeOK
<1>3. QED
  BY <1>1, <1>2, IdleFacts DEF Init, CacheInv, PublishedIsGenuine, Kinds

LEMMA CommandKeeps ==
    ASSUME CacheInv, NEW p \in Procs, Command(p)
    PROVE  CacheInv'
BY BeginStep, LookingSteps, PrepareStep, MakeParentsStep, FetchSteps, RecordStep,
   PublishStep, AbandonStep, CallFailsStep, LaunchStep, ScanStep DEF Command

\* With any number of commands, each step of one command or of the environment
\* keeps what is known of the caches and the staging directories.
THEOREM CacheInvariant == Spec => []CacheInv
<1>1. Init => CacheInv
  BY CacheInitially
<1>2. CacheInv /\ [Next]_vars => CacheInv'
  <2>1. ASSUME CacheInv, UNCHANGED vars
        PROVE  CacheInv'
    BY <2>1 DEF vars, CacheInv, TypeOK, PublishedIsGenuine, Kind
  <2>2. QED
    BY <2>1, CommandKeeps, KillStep, TouchStep, ClearStep DEF Next, Environment
<1>3. QED
  BY <1>1, <1>2, PTL DEF Spec

\* No interleaving of commands, failures, kills and foreign changes leaves a
\* malformed cache, staging directory or command.
THEOREM CacheTypeCorrect == Spec => []TypeOK
<1>1. CacheInv => TypeOK
  BY DEF CacheInv
<1>2. QED
  BY <1>1, CacheInvariant, PTL

\* Whatever the commands download, and however they overlap, fail and are
\* killed, what is published passed every check until another hand touched it.
THEOREM PublishedIsGenuineHolds == Spec => []PublishedIsGenuine
<1>1. CacheInv => PublishedIsGenuine
  BY DEF CacheInv
<1>2. QED
  BY <1>1, CacheInvariant, PTL

\* The entry behind a started runtime or scanner is there, wanted and, unless
\* another hand touched it, unchanged.
THEOREM RunsWhatItValidatedHolds == Spec => []RunsWhatItValidated
<1>1. ASSUME CacheInv PROVE RunsWhatItValidated
  BY <1>1, ProcessFacts DEF CacheInv, RunsWhatItValidated, Backed, PublishedIsGenuine
<1>2. QED
  BY <1>1, CacheInvariant, PTL

\* An installation that fails takes its staging directory back, or says so.
THEOREM FailureLeavesNoStagingHolds == Spec => []FailureLeavesNoStaging
<1>1. ASSUME CacheInv PROVE FailureLeavesNoStaging
  BY <1>1 DEF CacheInv, FailureLeavesNoStaging, Staged, Installing
<1>2. QED
  BY <1>1, CacheInvariant, PTL

\* While a command runs, no step but one of another hand takes away or
\* exchanges what is published.
THEOREM PublishedStaysHolds == Spec => PublishedStays
<1> DEFINE Stays == \A k \in Kinds :
                cache[k] # NoEntry /\ faults' = faults /\ (\E p \in Procs : ~Idle(p)) =>
                    /\ cache'[k] # NoEntry
                    /\ cache'[k].source = cache[k].source
                    /\ cache'[k].part = cache[k].part
<1>1. ASSUME CacheInv, NEW p \in Procs, Publish(p)
      PROVE  Stays
  <2>1. DOMAIN cache = Kinds
    BY <1>1 DEF CacheInv, TypeOK
  <2>2. CASE cache[Kind(p)] = NoEntry
    BY <1>1, <2>1, <2>2 DEF Publish
  <2>3. CASE cache[Kind(p)] # NoEntry
    BY <1>1, <2>3 DEF Publish
  <2>4. QED
    BY <2>2, <2>3
<1>2. ASSUME CacheInv, NEW p \in Procs, Launch(p)
      PROVE  Stays
  <2>1. cache["runtime"] \in Entry("runtime") /\ DOMAIN cache = Kinds /\ "runtime" \in Kinds
    BY <1>2 DEF Launch, CacheInv, TypeOK, Kinds
  <2>2. PICK bytecode \in BOOLEAN :
            cache' = [cache EXCEPT !["runtime"].extra = cache["runtime"].extra \/ bytecode]
    BY <1>2 DEF Launch
  <2>3. /\ cache'["tools"] = cache["tools"] /\ cache'["runtime"] \in Entry("runtime")
        /\ cache'["runtime"].source = cache["runtime"].source
        /\ cache'["runtime"].part = cache["runtime"].part
    <3>1. (cache["runtime"].extra \/ bytecode) \in BOOLEAN
      OBVIOUS
    <3>2. QED
      BY <2>1, <2>2, <3>1 DEF Entry, Kinds
  <2>4. cache'["runtime"] # NoEntry
    BY <2>1, <2>3, NoEntryAssumption
  <2>5. QED
    BY <2>3, <2>4 DEF Kinds
<1>3. ASSUME NEW p \in Procs, Command(p), ~Publish(p), ~Launch(p)
      PROVE  Stays
  BY <1>3 DEF Command, Begin, Inspect, Look, Check, Prepare, MakeParents, FetchBundle, FetchTool,
              Record, Verify, Abandon, CallFails, Scan
<1>4. ASSUME CacheInv, Environment
      PROVE  Stays
  <2>1. ASSUME NEW k \in Kinds, Touch(k)
        PROVE  faults' # faults
    BY <1>4, <2>1, ToolsAssumption DEF Touch, CacheInv, TypeOK
  <2>2. ASSUME NEW k \in Kinds, Clear(k)
        PROVE  \A p \in Procs : Idle(p)
    BY <2>2 DEF Clear
  <2>3. ASSUME NEW p \in Procs, Kill(p)
        PROVE  cache' = cache
    BY <2>3 DEF Kill
  <2>4. QED
    BY <1>4, <2>1, <2>2, <2>3 DEF Environment
<1>5. CacheInv /\ [Next]_vars => [Stays]_vars
  BY <1>1, <1>2, <1>3, <1>4 DEF Next
<1>6. QED
  BY <1>5, CacheInvariant, PTL DEF Spec, PublishedStays
=============================================================================
