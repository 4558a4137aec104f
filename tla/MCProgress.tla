----------------------------- MODULE MCProgress -----------------------------
(***************************************************************************)
(* A small instance of Dashboard for TLC: the dashboard on a job, or one   *)
(* client that follows its stream.                                         *)
(***************************************************************************)
EXTENDS Dashboard

CONSTANTS f

MCFollowers == {f}
MCConnections == Generations \cup {f}
=============================================================================
