---------------------------- MODULE MCProfileScan ----------------------------
(***************************************************************************)
(* Three of the eight Standard scanners and two of the three of Minimal:   *)
(* the writer of an artifact, one that always runs, one without an image,  *)
(* and in Minimal the silent one and one that may be skipped.              *)
(***************************************************************************)
EXTENDS ProfileScan

Standard3 == <<"syft", "gitleaks", "trivy-image">>
Minimal2 == <<"gitleaks", "actionlint">>
=============================================================================
