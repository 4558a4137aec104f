------------------------------ MODULE MCCache ------------------------------
(* The response cache with the kinds of collectors there are: RIPEstat,    *)
(* which asks one provider, DNS with its two resolvers, Common Crawl which *)
(* has a bootstrap file and tolerates bad answers.                         *)
EXTENDS ResponseCache, TLC

CONSTANTS r1, r2

RunSymmetry == Permutations(Runs)
=============================================================================
