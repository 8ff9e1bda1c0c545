------------------------------ MODULE MCAccess ------------------------------
(***************************************************************************)
(* Two tokens of one tenant; the intervals keep the order they have in the *)
(* code, in coarser units: the gateway's handler is killed within the      *)
(* margin of a session, the correlator a unit past it.                     *)
(***************************************************************************)
EXTENDS Access, TLC

CONSTANTS x1, x2, acme, query, correlate

MCTenantOf == (x1 :> acme) @@ (x2 :> acme)

MCTIMEOUT == (query :> 1) @@ (correlate :> 2)

Symmetry == Permutations(Tokens) \cup Permutations(Kids)

=============================================================================
