----------------------------- MODULE MCTenancy -----------------------------
EXTENDS TenancyProps, TLC

CONSTANTS ann, amy, tom, bob, zoe, acme, beta

\* Two colleagues, the founder of another tenant, and an account whose address
\* gives no tenant.
TwoTenants == (ann :> acme) @@ (amy :> acme) @@ (bob :> beta)
                @@ (zoe :> NoTenant)
OneTenant == (ann :> acme) @@ (amy :> acme) @@ (tom :> acme)
Alone == ann :> acme

\* In the order of their names.
MCSub == (ann :> 2) @@ (amy :> 1) @@ (bob :> 3) @@ (zoe :> 4)
MCSubOfThree == (ann :> 2) @@ (amy :> 1) @@ (tom :> 3)
MCSubOfOne == ann :> 1

\* Nothing tells one slot from another.
SlotsAlike == Permutations(Slots)

\* Of a tenant where operations overlapped or broke off neither property of the
\* run of one tenant says anything, and it stays one.
Untroubled == troubled = {}

=============================================================================
