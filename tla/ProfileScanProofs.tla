--------------------------- MODULE ProfileScanProofs ---------------------------
(***************************************************************************)
(* Proofs about ProfileScan, for any sequences of scanners and any number  *)
(* of scans.                                                               *)
(***************************************************************************)
EXTENDS ProfileScan, TLAPS

\* Between clearing and the exit code: only what this scan wrote is there.
Writing == {"inventory", "tools", "check", "write", "gate", "report", "result",
            "normalize", "append", "coverage", "failure"}

\* The phases of one profile.
Phases ==
    /\ pc # "idle" => scan > 0
    /\ pc \in {"inventory", "check", "write", "report"} => Standard
    /\ pc \in {"normalize", "append", "coverage", "failure"} => Minimal

\* Whose artifacts are in the directory.
Owned ==
    /\ \A o \in Outputs : store[o] <= scan \/ store[o] = Stray
    /\ pc \in {"start", "clear"} => \A o \in Outputs : store[o] # scan
    /\ pc = "clear" => \A i \in 1..8 : i < at => store[KnownOutputs(profile)[i]] \in {0, Stray}
    /\ pc \in Writing => \A o \in Outputs : store[o] \in {0, scan, Stray}

\* The result comes last, on the failure path before the report.
ResultLast ==
    /\ pc \in Writing \ {"failure"} => store["result"] # scan
    /\ pc = "failure" => /\ at <= 3 => store["result"] # scan
                         /\ store["result"] = scan => verdict = InvalidInput

\* What the phases have produced so far.
Produced ==
    /\ Standard /\ pc \in {"tools", "check", "write", "gate", "report", "result"} =>
          store["inventory"] \in {scan, Stray}
    /\ pc = "write" => \A i \in 1..4 : i < at => store[StandardWrites[i]] \in {scan, Stray}
    /\ Standard /\ pc \in {"gate", "report", "result"} =>
          \A i \in 1..4 : store[StandardWrites[i]] \in {scan, Stray}
    /\ Minimal /\ pc \in {"append", "coverage", "gate", "result"} =>
          store["normalized"] \in {scan, Stray}
    /\ Minimal /\ pc \in {"gate", "result"} => store["coverage"] \in {scan, Stray}
    /\ pc \in {"report", "result"} /\ gate = Pass => store["report"] \in {scan, Stray}

\* What the scanners' records and the gate say of each other.
Recorded ==
    /\ pc = "tools" => \A i \in DOMAIN Tools(profile) :
                          i < at => coverage[Tools(profile)[i]] # "unrecorded"
    /\ pc \in {"write", "gate", "report", "result", "normalize", "append", "coverage"} =>
          \A t \in ToolSet(profile) : coverage[t] # "unrecorded"
    /\ pc = "write" /\ at > 1 => listed = Errors
    /\ pc \in {"gate", "report", "result"} => listed = Errors
    /\ pc = "coverage" => listed = Errors
    /\ pc \in {"report", "result"} => gate # NoCode
    /\ pc \in {"report", "result"} /\ gate = Pass =>
          store["normalized"] = Stray \/ (listed = {} /\ ~violating)
    /\ Minimal /\ pc \in {"append", "coverage", "gate", "result"} => ~malformed

\* A scanner that failed is recorded so, unless its output was malformed or it
\* is the Gitleaks of Minimal.
Accounted ==
    /\ pc \in {"start", "clear", "inventory"} => failed = {}
    /\ pc = "tools" => \A t \in failed :
                          \E i \in DOMAIN Tools(profile) : i < at /\ Tools(profile)[i] = t
    /\ \A t \in failed : \/ coverage[t] = "tool_error"
                         \/ malformed
                         \/ Minimal /\ t = "gitleaks"

\* What a clean result stands for.
Clean ==
    /\ ~violating
    /\ \A t \in ToolSet(profile) : coverage[t] \in Finished
    /\ failed \subseteq IF Minimal THEN {"gitleaks"} ELSE {}

\* A program that outlived this scan: the scan was killed, there is no other of
\* its kind, and what it may yet write keeps the directory and the result as
\* they should be.
Orphaned ==
    /\ \A r \in orphans : r.scan <= scan
    /\ \A r \in orphans : r.scan = scan =>
          /\ pc = "idle" /\ exit = NoCode
          /\ \A q \in orphans : q.scan = scan => q = r
          /\ \A o \in Outputs : store[o] \in {0, scan, Stray}
          /\ Judged => verdict = InvalidInput
          /\ r.output = "result" =>
                /\ malformed => r.code = InvalidInput
                /\ r.code = Pass /\ store["normalized"] # Stray => Clean

\* What the exit codes say of the artifacts and of each other.
Ended ==
    /\ exit # NoCode => pc \in {"ended", "idle"}
    /\ pc = "ended" => exit # NoCode
    /\ reported # NoCode => pc = "idle"
    /\ pc = "idle" /\ exit # NoCode => reported = CliCode(exit)
    /\ reported = Pass => exit = Pass
    /\ Judged /\ exit # NoCode => verdict = exit
    /\ exit = Pass => /\ verdict = Pass \/ store["result"] = Stray
                      /\ \A o \in Mandatory(profile) : store[o] \in {scan, Stray}

IInv ==
    /\ TypeOK /\ at > 0
    /\ Phases
    /\ Owned
    /\ OneScanPerDirectory
    /\ ResultLast
    /\ Produced
    /\ Recorded
    /\ Accounted
    /\ VerdictIsEarned
    /\ Ended
    /\ Orphaned

-------------------------------------------------------------------------------
(* The lists of artifacts. *)

\* No scan has the number of a stray artifact.
LEMMA StrayFacts ==
    /\ MaxScans \in Nat /\ Stray \in Nat /\ Stray # 0
    /\ 0 \in 0..MaxScans /\ 0..MaxScans \subseteq 0..Stray /\ Stray \in 0..Stray
    /\ \A n \in 0..MaxScans : n # Stray
BY ScansAssumption DEF ScansAssumption, Stray

\* Both clearing lists name every artifact the scans know.
LEMMA KnownOutputsFacts ==
    ASSUME NEW pr \in Profiles
    PROVE  /\ Len(KnownOutputs(pr)) = 8
           /\ \A i \in 1..8 : KnownOutputs(pr)[i] \in Outputs
           /\ \A o \in Outputs : \E i \in 1..8 : KnownOutputs(pr)[i] = o
BY DEF Profiles, KnownOutputs, Outputs

LEMMA StandardWritesFacts ==
    /\ Len(StandardWrites) = 4
    /\ \A i \in 1..4 : StandardWrites[i] \in Outputs \ {"inventory", "report", "result", "sbom"}
    /\ StandardWrites[1] = "normalized" /\ StandardWrites[2] = "coverage"
    /\ StandardWrites[3] = "groups" /\ StandardWrites[4] = "priority"
BY DEF StandardWrites, Outputs

LEMMA FailureWritesFacts ==
    /\ Len(FailureWrites) = 4
    /\ FailureWrites[1] = "coverage" /\ FailureWrites[2] = "normalized"
    /\ FailureWrites[3] = "result" /\ FailureWrites[4] = "report"
    /\ \A i \in 1..4 : FailureWrites[i] \in Outputs
BY DEF FailureWrites, Outputs

\* Tool sets of both profiles are sets of strings the records range over.
LEMMA ToolFacts ==
    ASSUME NEW pr \in Profiles
    PROVE  /\ ToolSet(pr) \subseteq ToolSet("standard") \cup ToolSet("minimal")
           /\ Tools(pr) \in Seq(STRING)
           /\ \A i \in DOMAIN Tools(pr) : Tools(pr)[i] \in ToolSet(pr)
           /\ \A t \in ToolSet(pr) : \E i \in DOMAIN Tools(pr) : Tools(pr)[i] = t
           /\ \A i, j \in DOMAIN Tools(pr) : Tools(pr)[i] = Tools(pr)[j] => i = j
BY ToolsAssumption DEF ToolsAssumption, Profiles, ToolSet, Tools

-------------------------------------------------------------------------------
(* Every step preserves the invariant. *)

USE DEF Codes, Contract, Pass, Violation, ToolError, InvalidInput, OutsideContract, NoCode, Pcs
USE DEF Files, scanners, outcome, Judged, Standard, Minimal, Writing, At
USE StrayFacts

\* While a scan runs, every orphan is of an earlier one.
LEMMA OrphansAway ==
    ASSUME IInv, pc # "idle", UNCHANGED <<scan, orphans>>
    PROVE  Orphaned'
BY DEF IInv, Orphaned

\* One more scanner is recorded.
LEMMA RecordStep ==
    ASSUME TypeOK, Recorded, NEW t \in ToolSet(profile), Scanning(t),
           NEW s \in States \ {"unrecorded"}, Record(t, s)
    PROVE  Recorded'
<1> USE DEF TypeOK, Scanning, Record, GotoNext, At
<1>1. /\ pc = "tools" /\ pc' = "tools" /\ profile' = profile /\ profile \in Profiles
      /\ at \in Nat /\ at' = at + 1 /\ at \in DOMAIN Tools(profile) /\ t = Tools(profile)[at]
  OBVIOUS
<1>2. DOMAIN Tools(profile) \subseteq Nat
  BY <1>1, ToolFacts
<1>3. ASSUME NEW i \in DOMAIN Tools(profile), i < at'
      PROVE  coverage'[Tools(profile)[i]] # "unrecorded"
  <2>1. Tools(profile)[i] \in ToolSet(profile)
    BY <1>1, ToolFacts
  <2>2. CASE Tools(profile)[i] = t
    BY <2>1, <2>2
  <2>3. CASE Tools(profile)[i] # t
    <3>1. i < at
      BY <1>1, <1>2, <1>3, <2>3
    <3>2. coverage[Tools(profile)[i]] # "unrecorded"
      BY <1>1, <3>1 DEF Recorded
    <3>3. QED
      BY <2>1, <2>3, <3>2
  <2>4. QED
    BY <2>2, <2>3
<1>4. QED
  BY <1>1, <1>3 DEF Recorded

\* And accounted for, if it failed.
LEMMA AccountStep ==
    ASSUME TypeOK, Accounted, NEW t \in ToolSet(profile), Scanning(t),
           NEW s \in States \ {"unrecorded"}, Record(t, s),
           failed' \in {failed, failed \cup {t}}, malformed => malformed',
           t \in failed' \ failed => s = "tool_error" \/ malformed' \/ (Minimal /\ t = "gitleaks")
    PROVE  Accounted'
<1> USE DEF TypeOK, Scanning, Record, GotoNext, At
<1>1. /\ pc = "tools" /\ pc' = "tools" /\ profile' = profile /\ profile \in Profiles
      /\ at \in Nat /\ at' = at + 1 /\ at \in DOMAIN Tools(profile) /\ t = Tools(profile)[at]
  OBVIOUS
<1>2. \A i, j \in DOMAIN Tools(profile) : Tools(profile)[i] = Tools(profile)[j] => i = j
  BY <1>1, ToolFacts
<1>3. DOMAIN Tools(profile) \subseteq Nat
  BY <1>1, ToolFacts
<1>4. t \notin failed
  BY <1>1, <1>2, <1>3 DEF Accounted
<1>5. \A u \in failed' : \E i \in DOMAIN Tools(profile) : i < at' /\ Tools(profile)[i] = u
  <2>1. ASSUME NEW u \in failed, NEW i \in DOMAIN Tools(profile), i < at, Tools(profile)[i] = u
        PROVE  i < at'
    BY <1>1, <1>3, <2>1
  <2>2. at < at'
    BY <1>1
  <2>3. QED
    BY <1>1, <2>1, <2>2 DEF Accounted
<1>6. \A u \in failed' : coverage'[u] = "tool_error" \/ malformed' \/ (Minimal /\ u = "gitleaks")
  <2>1. coverage'[t] = s
    OBVIOUS
  <2>2. \A u \in failed : coverage'[u] = coverage[u]
    BY <1>4
  <2>3. QED
    BY <1>4, <2>1, <2>2 DEF Accounted
<1>7. QED
  BY <1>1, <1>5, <1>6 DEF Accounted

\* Until the result is written, the directory holds none of this scan.
LEMMA StartIsOpen ==
    ASSUME IInv, pc \in {"start", "clear"}
    PROVE  ~Judged
BY DEF IInv, TypeOK, Owned, Judged, Outputs

LEMMA OpenIsNotJudged ==
    ASSUME IInv, pc \in Writing \ {"failure"}
    PROVE  ~Judged
BY DEF IInv, ResultLast, Judged

LEMMA FailureIsInvalid ==
    ASSUME IInv, pc = "failure"
    PROVE  Judged => verdict = InvalidInput
BY DEF IInv, ResultLast, Judged

\* An end with a failing code that leaves the files as they are.
LEMMA ExitPreserves ==
    ASSUME IInv, pc # "idle", pc # "ended", NEW code \in {Violation, InvalidInput}, Exit(code),
           UNCHANGED <<Files, scanners>>, Judged => verdict = code
    PROVE  IInv'
<1> USE DEF IInv, Exit, Goto
<1>1. TypeOK' /\ at' > 0
  BY DEF TypeOK
<1>2. Phases'
  BY DEF Phases
<1>3. Owned'
  BY DEF Owned
<1>4. OneScanPerDirectory'
  BY DEF OneScanPerDirectory
<1>5. ResultLast'
  BY DEF ResultLast
<1>6. Produced'
  BY DEF Produced
<1>7. Recorded'
  BY DEF Recorded
<1>8. VerdictIsEarned'
  BY DEF VerdictIsEarned
<1>9. Ended'
  BY DEF Ended
<1>10. Accounted'
  BY DEF Accounted
<1>11. Orphaned'
  BY OrphansAway
<1>12. QED
  BY <1>1, <1>2, <1>3, <1>4, <1>5, <1>6, <1>7, <1>8, <1>9, <1>10, <1>11

\* A new scan: what is in the directory is of older ones.
LEMMA BeginPreserves ==
    ASSUME IInv, Begin
    PROVE  IInv'
<1> USE DEF IInv, Begin
<1>1. TypeOK' /\ at' > 0
  <2>1. scan' \in 0..MaxScans
    BY ScansAssumption DEF TypeOK, ScansAssumption
  <2>2. coverage' \in [ToolSet(profile') -> States]
    BY DEF TypeOK, States
  <2>3. store' \in [Outputs -> 0..Stray] /\ violating' \in BOOLEAN /\ malformed' \in BOOLEAN
    BY DEF TypeOK
  <2>4. failed' \subseteq ToolSet(profile') /\ verdict' \in Codes /\ gate' \in Codes /\ exit' \in Codes
    BY DEF TypeOK
  <2>5. /\ profile' \in Profiles /\ pc' \in Pcs /\ at' = 1 /\ reported' \in Contract \cup {NoCode}
        /\ listed' \in SUBSET (ToolSet("standard") \cup ToolSet("minimal"))
    BY DEF TypeOK
  <2>6. QED
    BY <2>1, <2>2, <2>3, <2>4, <2>5 DEF TypeOK
<1>2. Phases'
  BY DEF Phases, TypeOK
<1>3. Owned'
  BY DEF Owned, TypeOK
<1>4. OneScanPerDirectory'
  BY DEF OneScanPerDirectory
<1>5. ResultLast'
  BY DEF ResultLast
<1>6. Produced'
  BY DEF Produced
<1>7. Recorded'
  BY DEF Recorded
<1>8. VerdictIsEarned'
  BY DEF VerdictIsEarned, TypeOK, Owned, Outputs
<1>9. Ended'
  BY DEF Ended
<1>10. Accounted'
  BY DEF Accounted
<1>11. Orphaned'
  <2>1. scan \in Nat /\ scan' = scan + 1 /\ orphans' = orphans /\ \A r \in orphans : r.scan \in Nat /\ r.scan <= scan
    BY DEF TypeOK, Orphaned
  <2>2. QED
    BY <2>1 DEF Orphaned
<1>12. QED
  BY <1>1, <1>2, <1>3, <1>4, <1>5, <1>6, <1>7, <1>8, <1>9, <1>10, <1>11

\* The scan goes on to clear.
LEMMA ConfiguredPreserves ==
    ASSUME IInv, Configured
    PROVE  IInv'
<1> USE DEF IInv, Configured, Goto
<1>1. TypeOK' /\ at' > 0
  BY DEF TypeOK
<1>2. Phases'
  BY DEF Phases
<1>3. Owned'
  BY DEF Owned
<1>4. OneScanPerDirectory'
  BY DEF OneScanPerDirectory
<1>5. ResultLast'
  BY DEF ResultLast
<1>6. Produced'
  BY DEF Produced
<1>7. Recorded'
  BY DEF Recorded
<1>8. VerdictIsEarned'
  BY DEF VerdictIsEarned
<1>9. Ended'
  BY DEF Ended
<1>10. Accounted'
  BY DEF Accounted
<1>11. Orphaned'
  BY OrphansAway
<1>12. QED
  BY <1>1, <1>2, <1>3, <1>4, <1>5, <1>6, <1>7, <1>8, <1>9, <1>10, <1>11

\* One artifact is removed.
LEMMA ClearPreserves ==
    ASSUME IInv, Clear \/ ClearIgnored
    PROVE  IInv'
<1> USE DEF IInv, GotoNext
<1>0. PICK n \in {0, Stray} :
         /\ pc = "clear" /\ pc' = "clear" /\ at' = at + 1 /\ at \in 1..8
         /\ store' = [store EXCEPT ![KnownOutputs(profile)[at]] = n]
         /\ UNCHANGED <<scan, profile, orphans, verdict, listed, scanners, outcome>>
  <2>1. at \in 1..8 /\ pc = "clear"
    <3>1. pc = "clear" /\ at \in Nat /\ at > 0 /\ profile \in Profiles /\ at <= Len(KnownOutputs(profile))
      BY DEF Clear, ClearIgnored, TypeOK
    <3>2. Len(KnownOutputs(profile)) = 8
      BY <3>1, KnownOutputsFacts
    <3>3. QED
      BY <3>1, <3>2
  <2>2. CASE Clear
    BY <2>1, <2>2 DEF Clear
  <2>3. CASE ClearIgnored
    BY <2>1, <2>3 DEF ClearIgnored
  <2>4. QED
    BY <2>2, <2>3
<1>a. KnownOutputs(profile)[at] \in Outputs
  BY <1>0, KnownOutputsFacts DEF TypeOK
<1>b. \A o \in Outputs : store'[o] \in {store[o], n}
  BY <1>0 DEF TypeOK
<1>1. TypeOK' /\ at' > 0
  <2>1. store' \in [Outputs -> 0..Stray]
    BY <1>0 DEF TypeOK
  <2>2. QED
    BY <1>0, <2>1 DEF TypeOK
<1>2. Phases'
  BY <1>0 DEF Phases
<1>3. Owned'
  <2>1. \A i \in 1..8 : i < at' => store'[KnownOutputs(profile)[i]] \in {0, Stray}
    <3>1. \A i \in 1..8 : KnownOutputs(profile)[i] \in Outputs
      BY KnownOutputsFacts DEF TypeOK
    <3>2. ASSUME NEW i \in 1..8, i < at' PROVE store'[KnownOutputs(profile)[i]] \in {0, Stray}
      <4>1. CASE i = at
        BY <1>0, <1>a, <4>1 DEF TypeOK
      <4>2. CASE i # at
        <5>1. store[KnownOutputs(profile)[i]] \in {0, Stray}
          BY <1>0, <3>2, <4>2 DEF Owned
        <5>2. QED
          BY <1>b, <3>1, <5>1
      <4>3. QED
        BY <4>1, <4>2
    <3>3. QED
      BY <3>2
  <2>2. QED
    <3>1. \A o \in Outputs : (store[o] <= scan \/ store[o] = Stray) /\ store[o] # scan
      BY <1>0 DEF Owned
    <3>2. scan \in Nat /\ scan > 0 /\ scan # Stray
      BY <1>0 DEF TypeOK, Phases
    <3>3. \A o \in Outputs : (store'[o] <= scan \/ store'[o] = Stray) /\ store'[o] # scan
      BY <1>b, <3>1, <3>2
    <3>4. QED
      BY <1>0, <2>1, <3>3 DEF Owned
<1>4. OneScanPerDirectory'
  BY <1>0, <1>b DEF OneScanPerDirectory, Outputs
<1>5. ResultLast'
  BY <1>0 DEF ResultLast
<1>6. Produced'
  BY <1>0 DEF Produced
<1>7. Recorded'
  BY <1>0 DEF Recorded
<1>8. VerdictIsEarned'
  BY <1>0, <1>b DEF VerdictIsEarned, Owned, TypeOK, Outputs
<1>9. Ended'
  <2>1. exit = NoCode /\ reported = NoCode
    BY <1>0 DEF Ended, TypeOK
  <2>2. QED
    BY <1>0, <2>1 DEF Ended
<1>10. Accounted'
  BY <1>0 DEF Accounted
<1>11. Orphaned'
  BY <1>0, OrphansAway
<1>12. QED
  BY <1>1, <1>2, <1>3, <1>4, <1>5, <1>6, <1>7, <1>8, <1>9, <1>10, <1>11

\* All are removed.
LEMMA ClearedPreserves ==
    ASSUME IInv, Cleared
    PROVE  IInv'
<1> USE DEF IInv, Cleared, Goto
<1>0. \A o \in Outputs : store[o] \in {0, Stray}
  <2>1. profile \in Profiles /\ at \in Nat /\ pc = "clear" /\ at > Len(KnownOutputs(profile))
    BY DEF TypeOK
  <2>2. at > 8
    BY <2>1, KnownOutputsFacts
  <2>3. \A i \in 1..8 : store[KnownOutputs(profile)[i]] \in {0, Stray}
    BY <2>1, <2>2 DEF Owned
  <2>4. QED
    BY <2>1, <2>3, KnownOutputsFacts
<1>1. TypeOK' /\ at' > 0
  BY DEF TypeOK
<1>2. Phases'
  BY DEF Phases
<1>3. Owned'
  BY <1>0, KnownOutputsFacts DEF Owned, TypeOK
<1>4. OneScanPerDirectory'
  BY DEF OneScanPerDirectory
<1>5. ResultLast'
  <2>1. scan # 0 /\ scan # Stray /\ store["result"] \in {0, Stray}
    BY <1>0 DEF TypeOK, Phases, Outputs
  <2>2. QED
    BY <2>1 DEF ResultLast
<1>6. Produced'
  BY DEF Produced
<1>7. Recorded'
  BY ToolFacts DEF Recorded, TypeOK
<1>8. VerdictIsEarned'
  BY DEF VerdictIsEarned
<1>9. Ended'
  BY DEF Ended
<1>10. Accounted'
  BY DEF Accounted
<1>11. Orphaned'
  BY OrphansAway
<1>12. QED
  BY <1>1, <1>2, <1>3, <1>4, <1>5, <1>6, <1>7, <1>8, <1>9, <1>10, <1>11

\* The inventory of the repository is written, or the scan ends without.
LEMMA InventoryPreserves ==
    ASSUME IInv, Inventory
    PROVE  IInv'
<1> USE DEF IInv, Inventory, Exit, Goto, Written
<1>1. TypeOK' /\ at' > 0
  BY ScansAssumption DEF TypeOK, ScansAssumption
<1>2. Phases'
  BY DEF Phases
<1>3. Owned'
  BY DEF Owned, TypeOK, Outputs
<1>4. OneScanPerDirectory'
  BY DEF OneScanPerDirectory, Owned, ResultLast, TypeOK, Outputs
<1>5. ResultLast'
  BY DEF ResultLast, TypeOK, Outputs
<1>6. Produced'
  BY DEF Produced, TypeOK, Outputs
<1>7. Recorded'
  BY ToolFacts DEF Recorded, TypeOK
<1>8. VerdictIsEarned'
  BY DEF VerdictIsEarned, ResultLast, Phases, TypeOK, Outputs
<1>9. Ended'
  BY DEF Ended, ResultLast, Phases, TypeOK, Outputs
<1>10. Accounted'
  BY DEF Accounted
<1>11. Orphaned'
  BY OrphansAway
<1>12. QED
  BY <1>1, <1>2, <1>3, <1>4, <1>5, <1>6, <1>7, <1>8, <1>9, <1>10, <1>11

\* A scanner is skipped.
LEMMA SkippedPreserves ==
    ASSUME IInv, NEW t \in ToolSet(profile), NEW state \in {"not_applicable", "not_configured"},
           ToolSkipped(t, state)
    PROVE  IInv'
<1> USE DEF IInv, ToolSkipped, Scanning, Record, GotoNext, At, Written
<1>1. TypeOK' /\ at' > 0
  BY DEF TypeOK, States
<1>2. Phases'
  BY DEF Phases
<1>3. Owned'
  BY DEF Owned, TypeOK, Phases, Outputs
<1>4. OneScanPerDirectory'
  BY DEF OneScanPerDirectory, Owned, ResultLast, TypeOK, Outputs
<1>5. ResultLast'
  BY DEF ResultLast, TypeOK
<1>6. Produced'
  BY DEF Produced, TypeOK, Outputs
<1>7. Recorded'
  <2>1. state \in States \ {"unrecorded"}
    BY DEF States
  <2>2. QED
    BY <2>1, RecordStep
<1>8. VerdictIsEarned'
  BY DEF VerdictIsEarned, ResultLast, Phases, TypeOK, Outputs
<1>9. Ended'
  BY DEF Ended, ResultLast, Phases, TypeOK, Outputs
<1>10. Accounted'
  <2>1. state \in States \ {"unrecorded"}
    BY DEF States
  <2>2. failed' \in {failed, failed \cup {t}}
    OBVIOUS
  <2>3. QED
    BY <2>1, <2>2, AccountStep
<1>11. Orphaned'
  BY OrphansAway
<1>12. QED
  BY <1>1, <1>2, <1>3, <1>4, <1>5, <1>6, <1>7, <1>8, <1>9, <1>10, <1>11

\* A scanner ran.
LEMMA RanPreserves ==
    ASSUME IInv, NEW t \in ToolSet(profile), ToolRan(t)
    PROVE  IInv'
<1> USE DEF IInv, ToolRan, Scanning, Record, GotoNext, At, Written
<1>1. TypeOK' /\ at' > 0
  <2>1. store' \in [Outputs -> 0..Stray] /\ violating' \in BOOLEAN
    BY DEF TypeOK
  <2>2. coverage' \in [ToolSet(profile') -> States]
    BY DEF TypeOK, States
  <2>3. QED
    BY <2>1, <2>2 DEF TypeOK
<1>2. Phases'
  BY DEF Phases
<1>3. Owned'
  BY DEF Owned, TypeOK, Phases, Outputs
<1>4. OneScanPerDirectory'
  BY DEF OneScanPerDirectory, Owned, ResultLast, TypeOK, Outputs
<1>5. ResultLast'
  BY DEF ResultLast, TypeOK
<1>6. Produced'
  BY DEF Produced, TypeOK, Outputs
<1>7. Recorded'
  <2>1. "ran" \in States \ {"unrecorded"}
    BY DEF States
  <2>2. QED
    BY <2>1, RecordStep
<1>8. VerdictIsEarned'
  BY DEF VerdictIsEarned, ResultLast, Phases, TypeOK, Outputs
<1>9. Ended'
  BY DEF Ended, ResultLast, Phases, TypeOK, Outputs
<1>10. Accounted'
  <2>1. "ran" \in States \ {"unrecorded"}
    BY DEF States
  <2>2. failed' \in {failed, failed \cup {t}}
    OBVIOUS
  <2>3. QED
    BY <2>1, <2>2, AccountStep
<1>11. Orphaned'
  BY OrphansAway
<1>12. QED
  BY <1>1, <1>2, <1>3, <1>4, <1>5, <1>6, <1>7, <1>8, <1>9, <1>10, <1>11

\* A scanner failed.
LEMMA FailsPreserves ==
    ASSUME IInv, NEW t \in ToolSet(profile), ToolFails(t)
    PROVE  IInv'
<1> USE DEF IInv, ToolFails, Scanning, Record, GotoNext, At, Written
<1>1. TypeOK' /\ at' > 0
  BY DEF TypeOK, States
<1>2. Phases'
  BY DEF Phases
<1>3. Owned'
  BY DEF Owned, TypeOK, Phases, Outputs
<1>4. OneScanPerDirectory'
  BY DEF OneScanPerDirectory, Owned, ResultLast, TypeOK, Outputs
<1>5. ResultLast'
  BY DEF ResultLast, TypeOK
<1>6. Produced'
  BY DEF Produced, TypeOK, Outputs
<1>7. Recorded'
  <2>1. "tool_error" \in States \ {"unrecorded"}
    BY DEF States
  <2>2. QED
    BY <2>1, RecordStep
<1>8. VerdictIsEarned'
  BY DEF VerdictIsEarned, ResultLast, Phases, TypeOK, Outputs
<1>9. Ended'
  BY DEF Ended, ResultLast, Phases, TypeOK, Outputs
<1>10. Accounted'
  <2>1. "tool_error" \in States \ {"unrecorded"}
    BY DEF States
  <2>2. failed' \in {failed, failed \cup {t}}
    OBVIOUS
  <2>3. QED
    BY <2>1, <2>2, AccountStep
<1>11. Orphaned'
  BY OrphansAway
<1>12. QED
  BY <1>1, <1>2, <1>3, <1>4, <1>5, <1>6, <1>7, <1>8, <1>9, <1>10, <1>11

\* A scanner wrote what does not validate.
LEMMA MalformedPreserves ==
    ASSUME IInv, NEW t \in ToolSet(profile), ToolMalformed(t)
    PROVE  IInv'
<1> USE DEF IInv, ToolMalformed, Scanning, Record, GotoNext, At, Written
<1>1. TypeOK' /\ at' > 0
  BY DEF TypeOK, States
<1>2. Phases'
  BY DEF Phases
<1>3. Owned'
  BY DEF Owned, TypeOK, Phases, Outputs
<1>4. OneScanPerDirectory'
  BY DEF OneScanPerDirectory, Owned, ResultLast, TypeOK, Outputs
<1>5. ResultLast'
  BY DEF ResultLast, TypeOK
<1>6. Produced'
  BY DEF Produced, TypeOK, Outputs
<1>7. Recorded'
  <2>1. (IF Standard THEN "tool_error" ELSE "ran") \in States \ {"unrecorded"}
    BY DEF States
  <2>2. QED
    BY <2>1, RecordStep
<1>8. VerdictIsEarned'
  BY DEF VerdictIsEarned, ResultLast, Phases, TypeOK, Outputs
<1>9. Ended'
  BY DEF Ended, ResultLast, Phases, TypeOK, Outputs
<1>10. Accounted'
  <2>1. (IF Standard THEN "tool_error" ELSE "ran") \in States \ {"unrecorded"}
    BY DEF States
  <2>2. failed' \in {failed, failed \cup {t}}
    OBVIOUS
  <2>3. QED
    BY <2>1, <2>2, AccountStep
<1>11. Orphaned'
  BY OrphansAway
<1>12. QED
  BY <1>1, <1>2, <1>3, <1>4, <1>5, <1>6, <1>7, <1>8, <1>9, <1>10, <1>11

\* A scanner failed without a word.
LEMMA SilentPreserves ==
    ASSUME IInv, NEW t \in ToolSet(profile), GitleaksSilent(t)
    PROVE  IInv'
<1> USE DEF IInv, GitleaksSilent, Scanning, Record, GotoNext, At, Written
<1>1. TypeOK' /\ at' > 0
  BY DEF TypeOK, States
<1>2. Phases'
  BY DEF Phases
<1>3. Owned'
  BY DEF Owned, TypeOK, Phases, Outputs
<1>4. OneScanPerDirectory'
  BY DEF OneScanPerDirectory, Owned, ResultLast, TypeOK, Outputs
<1>5. ResultLast'
  BY DEF ResultLast, TypeOK
<1>6. Produced'
  BY DEF Produced, TypeOK, Outputs
<1>7. Recorded'
  <2>1. "ran" \in States \ {"unrecorded"}
    BY DEF States
  <2>2. QED
    BY <2>1, RecordStep
<1>8. VerdictIsEarned'
  BY DEF VerdictIsEarned, ResultLast, Phases, TypeOK, Outputs
<1>9. Ended'
  BY DEF Ended, ResultLast, Phases, TypeOK, Outputs
<1>10. Accounted'
  <2>1. "ran" \in States \ {"unrecorded"}
    BY DEF States
  <2>2. failed' \in {failed, failed \cup {t}}
    OBVIOUS
  <2>3. QED
    BY <2>1, <2>2, AccountStep
<1>11. Orphaned'
  BY OrphansAway
<1>12. QED
  BY <1>1, <1>2, <1>3, <1>4, <1>5, <1>6, <1>7, <1>8, <1>9, <1>10, <1>11

\* All scanners of the profile are recorded.
LEMMA ToolsDonePreserves ==
    ASSUME IInv, ToolsDone
    PROVE  IInv'
<1> USE DEF IInv, ToolsDone, Goto
<1>0. \A t \in ToolSet(profile) : coverage[t] # "unrecorded"
  <2>1. profile \in Profiles /\ at \in Nat
    BY DEF TypeOK
  <2>2. \A i \in DOMAIN Tools(profile) : i < at
    BY <2>1, ToolFacts
  <2>3. QED
    BY <2>1, <2>2, ToolFacts DEF Recorded
<1>1. TypeOK' /\ at' > 0
  BY DEF TypeOK
<1>2. Phases'
  BY DEF Phases, TypeOK, Profiles
<1>3. Owned'
  BY DEF Owned, TypeOK, Phases, Outputs
<1>4. OneScanPerDirectory'
  BY DEF OneScanPerDirectory
<1>5. ResultLast'
  BY DEF ResultLast
<1>6. Produced'
  BY DEF Produced
<1>7. Recorded'
  BY <1>0 DEF Recorded
<1>8. VerdictIsEarned'
  BY DEF VerdictIsEarned
<1>9. Ended'
  BY DEF Ended
<1>10. Accounted'
  BY DEF Accounted
<1>11. Orphaned'
  BY OrphansAway
<1>12. QED
  BY <1>1, <1>2, <1>3, <1>4, <1>5, <1>6, <1>7, <1>8, <1>9, <1>10, <1>11

\* The Standard profile finds every scanner recorded.
LEMMA CheckPassesPreserves ==
    ASSUME IInv, CheckPasses
    PROVE  IInv'
<1> USE DEF IInv, CheckPasses, Goto
<1>1. TypeOK' /\ at' > 0
  BY DEF TypeOK
<1>2. Phases'
  BY DEF Phases
<1>3. Owned'
  BY DEF Owned, TypeOK, Phases, Outputs
<1>4. OneScanPerDirectory'
  BY DEF OneScanPerDirectory
<1>5. ResultLast'
  BY DEF ResultLast
<1>6. Produced'
  BY DEF Produced, TypeOK, Phases
<1>7. Recorded'
  BY DEF Recorded, TypeOK
<1>8. VerdictIsEarned'
  BY DEF VerdictIsEarned
<1>9. Ended'
  BY DEF Ended
<1>10. Accounted'
  BY DEF Accounted
<1>11. Orphaned'
  BY OrphansAway
<1>12. QED
  BY <1>1, <1>2, <1>3, <1>4, <1>5, <1>6, <1>7, <1>8, <1>9, <1>10, <1>11

\* Standard writes the documents the gate reads, the findings first.
LEMMA WritePreserves ==
    ASSUME IInv, Write
    PROVE  IInv'
<1> USE DEF IInv, Write, GotoNext, Written
<1>0. /\ at \in 1..4 /\ StandardWrites[at] \in Outputs /\ StandardWrites[at] # "result"
      /\ StandardWrites[at] # "inventory" /\ scan \in 0..MaxScans
  BY StandardWritesFacts DEF TypeOK
<1>1. TypeOK' /\ at' > 0
  <2>1. store' \in [Outputs -> 0..Stray] /\ at' \in Nat \ {0}
    BY <1>0 DEF TypeOK
  <2>2. listed' \subseteq ToolSet("standard") \cup ToolSet("minimal")
    BY ToolFacts DEF TypeOK, Errors
  <2>3. QED
    BY <2>1, <2>2 DEF TypeOK
<1>2. Phases'
  BY DEF Phases
<1>3. Owned'
  BY <1>0 DEF Owned, TypeOK, Outputs
<1>4. OneScanPerDirectory'
  BY <1>0 DEF OneScanPerDirectory, Owned, ResultLast, TypeOK, Outputs
<1>5. ResultLast'
  BY <1>0 DEF ResultLast, TypeOK, Outputs
<1>6. Produced'
  BY <1>0, StandardWritesFacts DEF Produced, TypeOK, Phases, Outputs
<1>7. Recorded'
  BY <1>0, StandardWritesFacts DEF Recorded, TypeOK, Errors
<1>8. VerdictIsEarned'
  BY <1>0 DEF VerdictIsEarned, ResultLast, Phases, TypeOK, Outputs
<1>9. Ended'
  BY <1>0 DEF Ended, ResultLast, Phases, TypeOK, Outputs
<1>10. Accounted'
  BY DEF Accounted
<1>11. Orphaned'
  BY OrphansAway
<1>12. QED
  BY <1>1, <1>2, <1>3, <1>4, <1>5, <1>6, <1>7, <1>8, <1>9, <1>10, <1>11

\* All four are written.
LEMMA AllWrittenPreserves ==
    ASSUME IInv, AllWritten
    PROVE  IInv'
<1> USE DEF IInv, AllWritten, Goto
<1>1. TypeOK' /\ at' > 0
  BY DEF TypeOK
<1>2. Phases'
  BY DEF Phases
<1>3. Owned'
  BY DEF Owned, TypeOK, Phases, Outputs
<1>4. OneScanPerDirectory'
  BY DEF OneScanPerDirectory
<1>5. ResultLast'
  BY DEF ResultLast
<1>6. Produced'
  BY StandardWritesFacts DEF Produced, TypeOK, Phases
<1>7. Recorded'
  BY StandardWritesFacts DEF Recorded, TypeOK, Phases, Errors
<1>8. VerdictIsEarned'
  BY DEF VerdictIsEarned
<1>9. Ended'
  BY DEF Ended
<1>10. Accounted'
  BY DEF Accounted
<1>11. Orphaned'
  BY OrphansAway
<1>12. QED
  BY <1>1, <1>2, <1>3, <1>4, <1>5, <1>6, <1>7, <1>8, <1>9, <1>10, <1>11

\* Minimal normalizes what its scanners wrote.
LEMMA NormalizePreserves ==
    ASSUME IInv, Normalize
    PROVE  IInv'
<1> USE DEF IInv, Normalize, Goto, Written
<1>1. TypeOK' /\ at' > 0
  <2>1. store' \in [Outputs -> 0..Stray] /\ at' = 1
    BY DEF TypeOK
  <2>2. QED
    BY <2>1 DEF TypeOK
<1>2. Phases'
  BY DEF Phases
<1>3. Owned'
  BY DEF Owned, TypeOK, Outputs
<1>4. OneScanPerDirectory'
  BY DEF OneScanPerDirectory, Owned, ResultLast, TypeOK, Outputs
<1>5. ResultLast'
  BY DEF ResultLast, TypeOK, Outputs
<1>6. Produced'
  BY DEF Produced, TypeOK, Phases, Outputs
<1>7. Recorded'
  BY DEF Recorded, TypeOK, Phases, Errors
<1>8. VerdictIsEarned'
  BY DEF VerdictIsEarned, ResultLast, Phases, TypeOK, Outputs
<1>9. Ended'
  BY DEF Ended, ResultLast, Phases, TypeOK, Outputs
<1>10. Accounted'
  BY DEF Accounted
<1>11. Orphaned'
  BY OrphansAway
<1>12. QED
  BY <1>1, <1>2, <1>3, <1>4, <1>5, <1>6, <1>7, <1>8, <1>9, <1>10, <1>11

\* Or fails to, and writes the failure.
LEMMA NormalizeFailsPreserves ==
    ASSUME IInv, NormalizeFails
    PROVE  IInv'
<1> USE DEF IInv, NormalizeFails, Goto, Written
<1>1. TypeOK' /\ at' > 0
  BY DEF TypeOK
<1>2. Phases'
  BY DEF Phases
<1>3. Owned'
  BY DEF Owned, TypeOK, Outputs
<1>4. OneScanPerDirectory'
  BY DEF OneScanPerDirectory, Owned, ResultLast, TypeOK, Outputs
<1>5. ResultLast'
  BY DEF ResultLast, TypeOK, Outputs
<1>6. Produced'
  BY DEF Produced, TypeOK, Phases, Outputs
<1>7. Recorded'
  BY DEF Recorded, TypeOK, Phases, Errors
<1>8. VerdictIsEarned'
  BY DEF VerdictIsEarned, ResultLast, Phases, TypeOK, Outputs
<1>9. Ended'
  BY DEF Ended, ResultLast, Phases, TypeOK, Outputs
<1>10. Accounted'
  BY DEF Accounted
<1>11. Orphaned'
  BY OrphansAway
<1>12. QED
  BY <1>1, <1>2, <1>3, <1>4, <1>5, <1>6, <1>7, <1>8, <1>9, <1>10, <1>11

\* The errors of the scanners are appended, or not.
LEMMA AppendPreserves ==
    ASSUME IInv, AppendErrors \/ AppendFails
    PROVE  IInv'
<1> USE DEF IInv, AppendErrors, AppendFails, Goto
<1>1. TypeOK' /\ at' > 0
  <2>1. listed' \subseteq ToolSet("standard") \cup ToolSet("minimal")
    BY ToolFacts DEF TypeOK, Errors
  <2>2. QED
    BY <2>1 DEF TypeOK
<1>2. Phases'
  BY DEF Phases
<1>3. Owned'
  BY DEF Owned, TypeOK, Outputs
<1>4. OneScanPerDirectory'
  BY DEF OneScanPerDirectory, Owned, ResultLast, TypeOK, Outputs
<1>5. ResultLast'
  BY DEF ResultLast, TypeOK, Outputs
<1>6. Produced'
  BY DEF Produced, TypeOK, Phases, Outputs
<1>7. Recorded'
  BY DEF Recorded, TypeOK, Phases, Errors
<1>8. VerdictIsEarned'
  BY DEF VerdictIsEarned, ResultLast, Phases, TypeOK, Outputs
<1>9. Ended'
  BY DEF Ended, ResultLast, Phases, TypeOK, Outputs
<1>10. Accounted'
  BY DEF Accounted
<1>11. Orphaned'
  BY OrphansAway
<1>12. QED
  BY <1>1, <1>2, <1>3, <1>4, <1>5, <1>6, <1>7, <1>8, <1>9, <1>10, <1>11

\* Minimal writes its coverage.
LEMMA CoveragePreserves ==
    ASSUME IInv, WriteCoverage
    PROVE  IInv'
<1> USE DEF IInv, WriteCoverage, Goto, Exit, Written
<1>1. TypeOK' /\ at' > 0
  BY DEF TypeOK
<1>2. Phases'
  BY DEF Phases
<1>3. Owned'
  BY DEF Owned, TypeOK, Outputs
<1>4. OneScanPerDirectory'
  BY DEF OneScanPerDirectory, Owned, ResultLast, TypeOK, Outputs
<1>5. ResultLast'
  BY DEF ResultLast, TypeOK, Outputs
<1>6. Produced'
  BY DEF Produced, TypeOK, Phases, Outputs
<1>7. Recorded'
  BY DEF Recorded, TypeOK, Phases, Errors
<1>8. VerdictIsEarned'
  BY DEF VerdictIsEarned, ResultLast, Phases, TypeOK, Outputs
<1>9. Ended'
  BY DEF Ended, ResultLast, Phases, TypeOK, Outputs
<1>10. Accounted'
  BY DEF Accounted
<1>11. Orphaned'
  BY OrphansAway
<1>12. QED
  BY <1>1, <1>2, <1>3, <1>4, <1>5, <1>6, <1>7, <1>8, <1>9, <1>10, <1>11

\* The failure path writes what it can.
LEMMA FailurePreserves ==
    ASSUME IInv, WriteFailure
    PROVE  IInv'
<1> USE DEF IInv, WriteFailure, GotoNext, Written
<1>1. TypeOK' /\ at' > 0
  <2>1. store' \in [Outputs -> 0..Stray] /\ verdict' \in Codes /\ at' \in Nat \ {0}
    BY DEF TypeOK
  <2>2. coverage' \in [ToolSet(profile) -> States]
    BY DEF TypeOK, States
  <2>3. QED
    BY <2>1, <2>2 DEF TypeOK
<1>2. Phases'
  BY DEF Phases
<1>3. Owned'
  <2>1. pc = "failure" /\ pc' = "failure" /\ scan' = scan /\ scan \in 0..MaxScans
    BY DEF TypeOK
  <2>2. \A o \in Outputs : store'[o] \in {store[o], scan}
    BY DEF TypeOK
  <2>3. \A o \in Outputs : store'[o] <= scan \/ store'[o] = Stray
    BY <2>1, <2>2 DEF Owned
  <2>4. \A o \in Outputs : store'[o] \in {0, scan, Stray}
    BY <2>1, <2>2 DEF Owned, Writing
  <2>5. QED
    BY <2>1, <2>3, <2>4 DEF Owned
<1>4. OneScanPerDirectory'
  BY DEF OneScanPerDirectory, Owned, ResultLast, TypeOK, Outputs
<1>5. ResultLast'
  <2>1. /\ at \in 1..4 /\ pc' = "failure" /\ at' = at + 1 /\ store["result"] \in Nat /\ scan' = scan
        /\ at <= 2 => FailureWrites[at] # "result"
    BY FailureWritesFacts, ScansAssumption DEF TypeOK, Outputs, ScansAssumption
  <2>2. CASE store' = store /\ verdict' = verdict
    BY <2>1, <2>2 DEF ResultLast
  <2>3. CASE FailureWrites[at] = "result" /\ verdict' = InvalidInput
    BY <2>1, <2>3 DEF ResultLast
  <2>4. CASE FailureWrites[at] # "result" /\ verdict' = verdict /\ store' = Written(FailureWrites[at])
    BY <2>1, <2>4 DEF ResultLast, TypeOK, Outputs
  <2>5. QED
    BY <2>2, <2>3, <2>4
<1>6. Produced'
  BY DEF Produced, TypeOK, Phases, Outputs
<1>7. Recorded'
  BY DEF Recorded, TypeOK, Phases, Errors
<1>8. VerdictIsEarned'
  BY DEF VerdictIsEarned, ResultLast, Phases, TypeOK, Outputs
<1>9. Ended'
  BY DEF Ended, ResultLast, Phases, TypeOK, Outputs
<1>10. Accounted'
  BY DEF Accounted, TypeOK
<1>11. Orphaned'
  BY OrphansAway
<1>12. QED
  BY <1>1, <1>2, <1>3, <1>4, <1>5, <1>6, <1>7, <1>8, <1>9, <1>10, <1>11

\* The gate judges the findings and the errors.
LEMMA GateDecidesPreserves ==
    ASSUME IInv, GateDecides
    PROVE  IInv'
<1> USE DEF IInv, GateDecides, Decision, Goto, Written
<1>1. TypeOK' /\ at' > 0
  <2>1. gate' \in Codes
    OBVIOUS
  <2>2. store' \in [Outputs -> 0..Stray] /\ pc' \in Pcs /\ at' = 1
    BY DEF TypeOK
  <2>3. QED
    BY <2>1, <2>2 DEF TypeOK
<1>2. Phases'
  BY DEF Phases
<1>3. Owned'
  BY DEF Owned, TypeOK, Outputs
<1>4. OneScanPerDirectory'
  BY DEF OneScanPerDirectory, Owned, ResultLast, TypeOK, Outputs
<1>5. ResultLast'
  BY DEF ResultLast, TypeOK, Outputs
<1>6. Produced'
  BY DEF Produced, TypeOK, Phases, Outputs
<1>7. Recorded'
  BY DEF Recorded, TypeOK, Phases, Errors
<1>8. VerdictIsEarned'
  BY DEF VerdictIsEarned, ResultLast, Phases, TypeOK, Outputs
<1>9. Ended'
  BY DEF Ended, ResultLast, Phases, TypeOK, Outputs
<1>10. Accounted'
  BY DEF Accounted
<1>11. Orphaned'
  BY OrphansAway
<1>12. QED
  BY <1>1, <1>2, <1>3, <1>4, <1>5, <1>6, <1>7, <1>8, <1>9, <1>10, <1>11

\* The gate fails.
LEMMA GateFailsPreserves ==
    ASSUME IInv, NEW code \in {Violation, InvalidInput, OutsideContract}, GateFails(code)
    PROVE  IInv'
<1> USE DEF IInv, GateFails, Goto, Written
<1>1. TypeOK' /\ at' > 0
  BY DEF TypeOK
<1>2. Phases'
  BY DEF Phases
<1>3. Owned'
  BY DEF Owned, TypeOK, Outputs
<1>4. OneScanPerDirectory'
  BY DEF OneScanPerDirectory, Owned, ResultLast, TypeOK, Outputs
<1>5. ResultLast'
  BY DEF ResultLast, TypeOK, Outputs
<1>6. Produced'
  <2>1. gate' # Pass /\ \A o \in Outputs : store[o] = scan => store'[o] = scan
    BY DEF TypeOK
  <2>2. {"normalized", "coverage", "inventory"} \cup {StandardWrites[i] : i \in 1..4} \subseteq Outputs
    BY StandardWritesFacts DEF Outputs
  <2>3. QED
    BY <2>1, <2>2 DEF Produced, TypeOK, Phases
<1>7. Recorded'
  BY DEF Recorded, TypeOK, Phases, Errors
<1>8. VerdictIsEarned'
  BY DEF VerdictIsEarned, ResultLast, Phases, TypeOK, Outputs
<1>9. Ended'
  BY DEF Ended, ResultLast, Phases, TypeOK, Outputs
<1>10. Accounted'
  BY DEF Accounted
<1>11. Orphaned'
  BY OrphansAway
<1>12. QED
  BY <1>1, <1>2, <1>3, <1>4, <1>5, <1>6, <1>7, <1>8, <1>9, <1>10, <1>11

\* The report of a Standard scan gets its coverage.
LEMMA AppendCoveragePreserves ==
    ASSUME IInv, AppendCoverage
    PROVE  IInv'
<1> USE DEF IInv, AppendCoverage, Goto
<1>1. TypeOK' /\ at' > 0
  BY DEF TypeOK
<1>2. Phases'
  BY DEF Phases
<1>3. Owned'
  BY DEF Owned, TypeOK, Outputs
<1>4. OneScanPerDirectory'
  BY DEF OneScanPerDirectory, Owned, ResultLast, TypeOK, Outputs
<1>5. ResultLast'
  BY DEF ResultLast, TypeOK, Outputs
<1>6. Produced'
  BY DEF Produced, TypeOK, Phases, Outputs
<1>7. Recorded'
  BY DEF Recorded, TypeOK, Phases, Errors
<1>8. VerdictIsEarned'
  BY DEF VerdictIsEarned, ResultLast, Phases, TypeOK, Outputs
<1>9. Ended'
  BY DEF Ended, ResultLast, Phases, TypeOK, Outputs
<1>10. Accounted'
  BY DEF Accounted
<1>11. Orphaned'
  BY OrphansAway
<1>12. QED
  BY <1>1, <1>2, <1>3, <1>4, <1>5, <1>6, <1>7, <1>8, <1>9, <1>10, <1>11

\* When the gate passes findings of this scan, its scanners back it.
LEMMA PassIsClean ==
    ASSUME IInv, pc = "result", gate = Pass, store["normalized"] # Stray, ~malformed
    PROVE  Clean
<1> USE DEF IInv
<1>1. ~violating /\ Errors = {}
  BY DEF Recorded
<1>2. \A t \in DOMAIN coverage : coverage[t] # "tool_error"
  BY <1>1 DEF Errors
<1>3. \A t \in ToolSet(profile) : coverage[t] \in Finished
  BY <1>2 DEF Recorded, TypeOK, States, Finished
<1>4. \A t \in failed : Minimal /\ t = "gitleaks"
  BY <1>2 DEF Accounted, TypeOK
<1>5. QED
  BY <1>1, <1>3, <1>4 DEF Clean

\* The result is written, and the script ends with its code.
LEMMA WriteResultPreserves ==
    ASSUME IInv, WriteResult
    PROVE  IInv'
<1> USE DEF IInv, WriteResult, Goto, Exit, Written
<1>0. /\ verdict' \in Codes \ {NoCode} /\ exit' = verdict'
      /\ malformed => verdict' = InvalidInput
      /\ verdict' = Pass => gate = Pass /\ ~malformed
  BY DEF FinalStatus, TypeOK, Recorded, Phases, Profiles
<1>a. verdict' = Pass => \A o \in Mandatory(profile) : store'[o] \in {scan, Stray}
  <2>1. verdict' = Pass => \A o \in Mandatory(profile) \ {"result"} :
                               store[o] \in {scan, Stray}
    BY <1>0, StandardWritesFacts DEF Produced, Mandatory, TypeOK, Profiles
  <2>2. QED
    BY <2>1 DEF TypeOK, Outputs, Mandatory
<1>1. TypeOK' /\ at' > 0
  <2>1. store' \in [Outputs -> 0..Stray] /\ pc' \in Pcs /\ at' = 1
    BY DEF TypeOK
  <2>2. QED
    BY <1>0, <2>1 DEF TypeOK
<1>2. Phases'
  BY DEF Phases
<1>3. Owned'
  BY DEF Owned, TypeOK, Outputs
<1>4. OneScanPerDirectory'
  BY DEF OneScanPerDirectory, Owned, ResultLast, TypeOK, Outputs
<1>5. ResultLast'
  BY DEF ResultLast, TypeOK, Outputs
<1>6. Produced'
  BY DEF Produced, TypeOK, Phases, Outputs
<1>7. Recorded'
  BY DEF Recorded, TypeOK, Phases, Errors
<1>8. VerdictIsEarned'
  <2>1. verdict' = Pass /\ store'["normalized"] # Stray => Clean
    <3>1. store'["normalized"] = store["normalized"] /\ pc = "result"
      BY DEF TypeOK, Outputs
    <3>2. QED
      BY <1>0, <3>1, PassIsClean
  <2>2. QED
    BY <1>0, <2>1 DEF VerdictIsEarned, Clean
<1>9. Ended'
  BY <1>0, <1>a DEF Ended, ResultLast, Phases, TypeOK, Outputs
<1>10. Accounted'
  BY DEF Accounted
<1>11. Orphaned'
  BY OrphansAway
<1>12. QED
  BY <1>1, <1>2, <1>3, <1>4, <1>5, <1>6, <1>7, <1>8, <1>9, <1>10, <1>11

\* The command line reports the exit code.
LEMMA ReportPreserves ==
    ASSUME IInv, Report
    PROVE  IInv'
<1> USE DEF IInv, Report, CliCode, Goto
<1>1. TypeOK' /\ at' > 0
  BY DEF TypeOK
<1>2. Phases'
  BY DEF Phases
<1>3. Owned'
  BY DEF Owned, TypeOK, Outputs
<1>4. OneScanPerDirectory'
  BY DEF OneScanPerDirectory, Owned, ResultLast, TypeOK, Outputs
<1>5. ResultLast'
  BY DEF ResultLast, TypeOK, Outputs
<1>6. Produced'
  BY DEF Produced, TypeOK, Phases, Outputs
<1>7. Recorded'
  BY DEF Recorded, TypeOK, Phases, Errors
<1>8. VerdictIsEarned'
  BY DEF VerdictIsEarned, ResultLast, Phases, TypeOK, Outputs
<1>9. Ended'
  BY DEF Ended, ResultLast, Phases, TypeOK, Outputs
<1>10. Accounted'
  BY DEF Accounted
<1>11. Orphaned'
  BY OrphansAway
<1>12. QED
  BY <1>1, <1>2, <1>3, <1>4, <1>5, <1>6, <1>7, <1>8, <1>9, <1>10, <1>11

\* A scan is killed.
LEMMA KilledPreserves ==
    ASSUME IInv, Killed
    PROVE  IInv'
<1> USE DEF IInv, Killed, CliCode, Goto
<1>1. TypeOK' /\ at' > 0
  <2>1. orphans' \subseteq [scan : 0..MaxScans, output : Outputs, code : Contract]
    <3>1. \A o \in Unwritten : Child(o) \in [scan : 0..MaxScans, output : Outputs, code : Contract]
      BY DEF Unwritten, Child, TypeOK, Scanning
    <3>2. QED
      BY <3>1 DEF TypeOK
  <2>2. QED
    BY <2>1 DEF TypeOK
<1>2. Phases'
  BY DEF Phases
<1>3. Owned'
  BY DEF Owned, TypeOK, Outputs
<1>4. OneScanPerDirectory'
  BY DEF OneScanPerDirectory, Owned, ResultLast, TypeOK, Outputs
<1>5. ResultLast'
  BY DEF ResultLast, TypeOK, Outputs
<1>6. Produced'
  BY DEF Produced, TypeOK, Phases, Outputs
<1>7. Recorded'
  BY DEF Recorded, TypeOK, Phases, Errors
<1>8. VerdictIsEarned'
  BY DEF VerdictIsEarned, ResultLast, Phases, TypeOK, Outputs
<1>9. Ended'
  BY DEF Ended, ResultLast, Phases, TypeOK, Outputs
<1>10. Accounted'
  BY DEF Accounted
<1>11. Orphaned'
  <2>1. \A r \in orphans : r.scan # scan /\ r.scan <= scan
    BY DEF Orphaned
  <2>2. CASE orphans' = orphans
    BY <2>1, <2>2 DEF Orphaned
  <2>3. ASSUME NEW o \in Unwritten, orphans' = orphans \cup {Child(o)} PROVE Orphaned'
    <3>1. pc \in Writing /\ (pc = "failure" => at <= 4)
      BY FailureWritesFacts DEF Unwritten, Scanning
    <3>2. Child(o).scan = scan /\ Child(o).output = o /\ scan <= scan
      BY DEF Child, TypeOK
    <3>3. \A u \in Outputs : store[u] \in {0, scan, Stray}
      BY <3>1 DEF Owned
    <3>4. Judged => verdict = InvalidInput
      BY <3>1 DEF ResultLast
    <3>5. CASE o = "result" /\ pc = "result"
      <4>1. Minimal /\ ~malformed /\ Child(o).code = gate
        BY <3>5 DEF Unwritten, Child, Scanning, Recorded
      <4>2. gate = Pass /\ store["normalized"] # Stray => Clean
        BY <3>5, <4>1, PassIsClean
      <4>3. QED
        BY <2>1, <2>3, <3>2, <3>3, <3>4, <4>1, <4>2 DEF Orphaned, Clean
    <3>6. CASE ~(o = "result" /\ pc = "result")
      <4>1. o = "result" => Child(o).code = InvalidInput
        BY <3>6 DEF Child
      <4>2. QED
        BY <2>1, <2>3, <3>2, <3>3, <3>4, <4>1 DEF Orphaned
    <3>7. QED
      BY <3>5, <3>6
  <2>4. QED
    BY <2>2, <2>3
<1>12. QED
  BY <1>1, <1>2, <1>3, <1>4, <1>5, <1>6, <1>7, <1>8, <1>9, <1>10, <1>11

\* An orphan writes what it was started to write.
LEMMA OrphanPreserves ==
    ASSUME IInv, NEW r \in orphans, OrphanWrites(r)
    PROVE  IInv'
<1> USE DEF IInv, OrphanWrites
<1>0. /\ r.scan \in 0..MaxScans /\ r.output \in Outputs /\ r.code \in Contract
      /\ orphans' \subseteq orphans
  BY DEF TypeOK
<1>a. \A o \in Outputs : store'[o] \in {store[o], IF r.scan = scan THEN scan ELSE Stray}
  BY <1>0 DEF TypeOK
<1>b. r.scan = scan => /\ pc = "idle" /\ exit = NoCode
                       /\ \A q \in orphans' : q.scan # scan
                       /\ \A o \in Outputs : store'[o] \in {0, scan, Stray}
  BY <1>0, <1>a DEF Orphaned
<1>c. r.scan # scan => \A o \in Outputs : store'[o] \in {store[o], Stray}
  BY <1>a
<1>d. /\ r.output = "result" => store'["result"] = (IF r.scan = scan THEN scan ELSE Stray)
      /\ r.output # "result" => store'["result"] = store["result"] /\ verdict' = verdict
      /\ r.output # "normalized" => store'["normalized"] = store["normalized"]
  BY <1>0 DEF TypeOK, Outputs
<1>1. TypeOK' /\ at' > 0
  <2>1. store' \in [Outputs -> 0..Stray] /\ verdict' \in Codes
    BY <1>0 DEF TypeOK
  <2>2. orphans' \subseteq [scan : 0..MaxScans, output : Outputs, code : Contract]
    BY <1>0 DEF TypeOK
  <2>3. QED
    BY <2>1, <2>2 DEF TypeOK
<1>2. Phases'
  BY DEF Phases
<1>3. Owned'
  BY <1>0, <1>b, <1>c, KnownOutputsFacts DEF Owned, TypeOK
<1>4. OneScanPerDirectory'
  BY <1>b, <1>c DEF OneScanPerDirectory, Outputs
<1>5. ResultLast'
  BY <1>b, <1>c, <1>d DEF ResultLast, TypeOK, Outputs
<1>6. Produced'
  BY <1>b, <1>c, StandardWritesFacts DEF Produced, Outputs
<1>7. Recorded'
  BY <1>b, <1>c DEF Recorded, Errors, Outputs
<1>8. VerdictIsEarned'
  BY <1>b, <1>c, <1>d DEF VerdictIsEarned, Orphaned, Clean, TypeOK, Outputs
<1>9. Ended'
  BY <1>b, <1>c, <1>d DEF Ended, Mandatory, TypeOK, Outputs
<1>10. Accounted'
  BY DEF Accounted
<1>11. Orphaned'
  BY <1>0, <1>b, <1>c, <1>d DEF Orphaned, Clean, TypeOK, Outputs
<1>12. QED
  BY <1>1, <1>2, <1>3, <1>4, <1>5, <1>6, <1>7, <1>8, <1>9, <1>10, <1>11

\* The invariant holds in every reachable state, for any scanners.
THEOREM ScanInvariant == Spec => []IInv
<1>1. Init => IInv
  <2> SUFFICES ASSUME Init PROVE IInv
    OBVIOUS
  <2> USE DEF Init
  <2>1. TypeOK /\ at > 0
    <3>1. 0 \in 0..MaxScans
      BY ScansAssumption DEF ScansAssumption
    <3>2. store \in [Outputs -> 0..Stray] /\ coverage \in [ToolSet(profile) -> States]
      BY <3>1 DEF States
    <3>3. failed \subseteq ToolSet(profile) /\ listed \subseteq ToolSet("standard") \cup ToolSet("minimal")
      OBVIOUS
    <3>4. violating \in BOOLEAN /\ malformed \in BOOLEAN
      OBVIOUS
    <3>5. QED
      BY <3>1, <3>2, <3>3, <3>4 DEF TypeOK, Pcs
  <2>2. Phases /\ Owned /\ OneScanPerDirectory /\ ResultLast /\ Produced /\ Recorded
    BY DEF Phases, Owned, OneScanPerDirectory, ResultLast, Produced, Recorded, Outputs
  <2>3. VerdictIsEarned /\ Ended
    BY DEF VerdictIsEarned, Ended
  <2>4. Accounted /\ Orphaned
    BY DEF Accounted, Orphaned
  <2>5. QED
    BY <2>1, <2>2, <2>3, <2>4 DEF IInv
<1>2. IInv /\ [Next]_vars => IInv'
  <2> SUFFICES ASSUME IInv, [Next]_vars PROVE IInv'
    OBVIOUS
  <2>1. CASE Prepare
    <3>1. CASE ConfigurationInvalid
      BY <3>1, StartIsOpen, ExitPreserves DEF ConfigurationInvalid
    <3>2. CASE ClearFails
      BY <3>2, StartIsOpen, ExitPreserves DEF ClearFails
    <3>3. QED
      BY <2>1, <3>1, <3>2, BeginPreserves, ConfiguredPreserves, ClearPreserves, ClearedPreserves,
         InventoryPreserves DEF Prepare
  <2>2. CASE RunTools
    <3>1. ASSUME NEW t \in DOMAIN coverage, Scanner(t) PROVE IInv'
      <4>1. t \in ToolSet(profile)
        BY DEF IInv, TypeOK
      <4>2. CASE ImageInvalid(t)
        BY <4>2, OpenIsNotJudged, ExitPreserves DEF ImageInvalid, Scanning
      <4>3. QED
        BY <3>1, <4>1, <4>2, SkippedPreserves, RanPreserves, FailsPreserves, MalformedPreserves,
           SilentPreserves DEF Scanner
    <3>2. QED
      BY <2>2, <3>1, ToolsDonePreserves DEF RunTools
  <2>3. CASE Publish
    <3>1. CASE CheckFails
      BY <3>1, OpenIsNotJudged, ExitPreserves DEF CheckFails
    <3>2. CASE Uncaught
      BY <3>2, StartIsOpen, OpenIsNotJudged, ExitPreserves DEF Uncaught
    <3>3. CASE FailureWritten
      BY <3>3, FailureIsInvalid, ExitPreserves DEF FailureWritten
    <3>4. QED
      BY <2>3, <3>1, <3>2, <3>3, CheckPassesPreserves, WritePreserves, AllWrittenPreserves,
         NormalizePreserves, NormalizeFailsPreserves, AppendPreserves, CoveragePreserves,
         FailurePreserves DEF Publish
  <2>4. CASE Finish
    <3>1. CASE GateNotStarted
      BY <3>1, OpenIsNotJudged, ExitPreserves DEF GateNotStarted
    <3>2. CASE WriteResultFails
      BY <3>2, OpenIsNotJudged, ExitPreserves DEF WriteResultFails
    <3>3. CASE Gate
      BY <3>1, <3>3, GateDecidesPreserves, GateFailsPreserves DEF Gate
    <3>4. QED
      BY <2>4, <3>2, <3>3, AppendCoveragePreserves, WriteResultPreserves, ReportPreserves,
         KilledPreserves, OrphanPreserves DEF Finish
  <2>5. CASE UNCHANGED vars
    BY <2>5 DEF vars, scanners, outcome, IInv, TypeOK, Phases, Owned, OneScanPerDirectory, ResultLast,
       Produced, Recorded, Accounted, VerdictIsEarned, Ended, Orphaned, Clean, Judged, Standard,
       Minimal, Errors
  <2>6. QED
    BY <2>1, <2>2, <2>3, <2>4, <2>5 DEF Next
<1>3. QED
  BY <1>1, <1>2, PTL DEF Spec

-------------------------------------------------------------------------------
(* The properties. *)

\* Every variable keeps to its type, whatever the scanners and the gate do.
THEOREM ScanTyping == Spec => []TypeOK
<1>1. IInv => TypeOK
  BY DEF IInv
<1>2. QED
  BY <1>1, ScanInvariant, PTL

\* A clean verdict is backed by every scanner of the profile, and malformed
\* output always makes an invalid input.
THEOREM VerdictIsEarnedHolds == Spec => []VerdictIsEarned
<1>1. IInv => VerdictIsEarned
  BY DEF IInv
<1>2. QED
  BY <1>1, ScanInvariant, PTL

\* A result never stands beside an artifact of another scan.
THEOREM OneScanPerDirectoryHolds == Spec => []OneScanPerDirectory
<1>1. IInv => OneScanPerDirectory
  BY DEF IInv
<1>2. QED
  BY <1>1, ScanInvariant, PTL

\* The command line returns 0 only over the complete artifacts of this scan.
THEOREM SuccessIsCompleteHolds == Spec => []SuccessIsComplete
<1>1. IInv => SuccessIsComplete
  BY DEF IInv, Ended, SuccessIsComplete
<1>2. QED
  BY <1>1, ScanInvariant, PTL

\* What the command line reports is what the result of the same scan says.
THEOREM ReportAgreesWithResultHolds == Spec => []ReportAgreesWithResult
<1>1. IInv => ReportAgreesWithResult
  BY DEF IInv, TypeOK, Ended, ReportAgreesWithResult, CliCode, Codes, NoCode
<1>2. QED
  BY <1>1, ScanInvariant, PTL
=============================================================================
