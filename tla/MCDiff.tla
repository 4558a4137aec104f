------------------------------- MODULE MCDiff -------------------------------
(***************************************************************************)
(* Small instances of EvidenceDiff: job 1 is compared with the later job   *)
(* 2; Wayback's findings are evidence for technology inference.            *)
(***************************************************************************)
EXTENDS EvidenceDiff

CONSTANTS w, wayback, technology, r

AllSelected == {Collectors}
=============================================================================
