------------------------------ MODULE MCSystem ------------------------------
\* One execution of the pipeline, two reviewers who may approve.
EXTENDS System, TLC

CONSTANTS e1, r1, r2

Roles == INSTANCE Rbac

MCExecs == {e1}
MCRequests == {r1, r2}
MCFaulty == {[exec |-> e1, stage |-> RUNBOOK, attempt |-> 1]}
MCCallers == {Roles!TENANT_ADMIN}

\* Nothing distinguishes the reviewers.
MCSymmetry == Permutations(MCRequests)

=============================================================================
