------------------------------- MODULE MCJobs -------------------------------
(***************************************************************************)
(* Small instances of JobProperties for TLC.                               *)
(***************************************************************************)
EXTENDS JobProperties, TLC

CONSTANTS w1, w2, rdap, crtsh, technology, r1, r2, r3

OneWorker == {w1}
TwoWorkers == {w1, w2}

OneCollector == {rdap}
TwoCollectors == {rdap, crtsh}
WithTechnology == {rdap, crtsh, technology}
RdapAndTechnology == {rdap, technology}

(* Every job selects every collector.                                      *)
AllSelected == {Collectors}
(* A job selects any nonempty set of collectors.                           *)
AnySelected == (SUBSET Collectors) \ {{}}

NoRequests == {}
OneRequest == {r1}
TwoRequests == {r1, r2}
ThreeRequests == {r1, r2, r3}

RequestSymmetry == Permutations(Requests)
=============================================================================
