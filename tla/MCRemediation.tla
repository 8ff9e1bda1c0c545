--------------------------- MODULE MCRemediation ---------------------------
\* Three invocations, one runbook.  Callers: the one role that may approve, one that
\* may not, and a context without a tenant.
EXTENDS RemediationProps, TLC

CONSTANTS r1, r2, r3, b1

MCRequests == {r1, r2, r3}
MCRunbooks == {b1}
MCCallers == {TENANT_ADMIN, TENANT_ENGINEER, NoTenant}

=============================================================================
