------------------------------- MODULE MCChat -------------------------------
(***************************************************************************)
(* A model that uses tools the caller may and may not use, invents one,    *)
(* omits an id, and talks in between.                                      *)
(***************************************************************************)
EXTENDS Chat

Use(tool, argued) == [tool |-> tool, argued |-> argued]

MCBlocks == {Use(Text, FALSE), Use("invented", TRUE), Use("search_audit", TRUE),
             Use("get_diagnosis", FALSE), Use("get_diagnosis", TRUE)}
MCGroups == {TENANT_ENGINEER, TENANT_LEADERSHIP, NoGroup, NoTenant}

=============================================================================
