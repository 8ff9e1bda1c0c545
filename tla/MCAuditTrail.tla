---------------------------- MODULE MCAuditTrail ----------------------------
(***************************************************************************)
(* Two entries of the incident asked about and one of another, over two    *)
(* seconds, each delivered up to twice.                                    *)
(***************************************************************************)
EXTENDS AuditTrail, TLC

CONSTANTS a1, a2, b1

Symmetry == Permutations(Wanted)

=============================================================================
