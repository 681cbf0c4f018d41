---------------------------- MODULE MCPlanApply ----------------------------
(***************************************************************************)
(* The kinds of a run; every bound is given in the .cfg.                   *)
(***************************************************************************)
EXTENDS PlanApply

PlainKinds == {"catalog", "schema", "topic", "model", "fileset", "tag", "policy", "view",
               "derived_view", "function", "table", "job_template", "partition", "user", "group", "role",
               "owner", "idp_user", "idp_group", "statistics", "partition_statistics"}
IdentityKinds == {"partition", "identity"}
TableKind == {"table"}
AddedKinds == {"catalog", "table", "fileset", "partition", "identity"}
=============================================================================
