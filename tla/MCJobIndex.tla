----------------------------- MODULE MCJobIndex -----------------------------
(* Values of the JobIndex constants that a .cfg cannot write down.           *)
EXTENDS JobIndex, TLC

CONSTANTS flood, session

FloodOfTwo == (flood :> 2) @@ (session :> 1)
=============================================================================
