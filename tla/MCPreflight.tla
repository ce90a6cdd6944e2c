---------------------------- MODULE MCPreflight -----------------------------
(* The worlds of the Preflight run, which a .cfg cannot write down.          *)
EXTENDS Preflight

\* A worker that has just died is one that no row can tell from a live one.
Possible == Troubles \ {"ghost worker"}
Pairs == {{}} \cup {{t, u} : t, u \in Possible}
=============================================================================
