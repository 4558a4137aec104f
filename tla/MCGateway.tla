----------------------------- MODULE MCGateway -----------------------------
(* The gateway with a provider that is also the resolver of the seeding, as *)
(* dns.google is, a registry it may redirect to, a host nobody has approved *)
(* and Retry-After values that fit into the budget and one that does not.   *)
EXTENDS Gateway
=============================================================================
