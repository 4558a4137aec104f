----------------------------- MODULE MCServers -----------------------------
(***************************************************************************)
(* Small instances of Servers for TLC.                                     *)
(***************************************************************************)
EXTENDS Servers, TLC

CONSTANTS w1, w2, rdap, crtsh

OneWorker == {w1}
TwoWorkers == {w1, w2}
OneCollector == {rdap}
TwoCollectors == {rdap, crtsh}
AllSelected == {Collectors}
WorkerSymmetry == Permutations(Workers)
=============================================================================
