----------------------------- MODULE MCSettings -----------------------------
(***************************************************************************)
(* Instances of Settings: an admin's edits, and a caller without the       *)
(* capability, on two integrations.                                        *)
(***************************************************************************)
EXTENDS Settings, TLC

MCCallers == {TENANT_ADMIN, TENANT_ENGINEER}
MCAnyCaller == MCCallers \cup {NoTenant}
Symmetry == Permutations(Edits) \cup Permutations(Integrations)

=============================================================================
