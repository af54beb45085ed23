---------------------------- MODULE MCVerifiedCache ----------------------------
(***************************************************************************)
(* Two commands at a time on a profile of three tools: an archive, the     *)
(* verifier of signatures, and a signed executable, of which the local     *)
(* bundle expects another version than the release.                        *)
(***************************************************************************)
EXTENDS VerifiedCache, TLC

SomeTools == <<"trivy", "cosign", "opengrep">>
\* The reviewed artifact, others in its place, and reviewed digests that turn
\* out to be of an archive that must not be unpacked.
File(name) == [name |-> name, inside |-> TRUE, type |-> "file", size |-> "fits", listed |-> TRUE]
Reviewed == [host |-> "reviewed", length |-> "fits", digest |-> "expected", signed |-> TRUE,
             members |-> <<File("executable"), File("licence")>>]
SomeArtifacts ==
    { Reviewed,
      [Reviewed EXCEPT !.host = "other"],
      [Reviewed EXCEPT !.digest = "other"],
      [Reviewed EXCEPT !.signed = FALSE],
      [Reviewed EXCEPT !.members = <<File("executable"), File("executable")>>],
      [Reviewed EXCEPT !.members[2].type = "link"],
      [Reviewed EXCEPT !.members[2].listed = FALSE] }
SomeMetadata ==
    [source \in Sources |->
       [trivy |-> [digest |-> "t", archive |-> "tar.gz", signed |-> FALSE],
        cosign |-> [digest |-> "c", archive |-> "binary", signed |-> FALSE],
        opengrep |-> [digest |-> IF source = "release" THEN "o1" ELSE "o2",
                      archive |-> "binary", signed |-> TRUE]]]
\* How and why a command ended does not bear on what happens next.
CacheView ==
    <<cache, parents, staging, litter, faults, leftover,
      [p \in Procs |-> [proc[p] EXCEPT !.why = "none"]]>>
Symmetry == Permutations(Procs)
=============================================================================
