----------------------------- MODULE MCRegistry -----------------------------
(* Instances of Registry for TLC.                                           *)
EXTENDS Registry, TLC

(* Tenants, agents, versions and operators are each interchangeable.        *)
RegistrySymmetry ==
  UNION {Permutations(S) : S \in {Tenants, Agents, Versions, Operators}}
=============================================================================
