--------------------------- MODULE TerraformValues ---------------------------
(***************************************************************************)
(* Values of Terraform attributes and the conversions every resource of the *)
(* provider shares: a map or a set that is not there is empty, and what the  *)
(* server leaves out is not set.                                            *)
(***************************************************************************)

CONSTANTS Null,     \* an attribute that is not set, and no resource at all
          Unknown   \* a planned value that is "known after apply"

NotSet == {Null, Unknown}
NoMap == [k \in {} |-> Null]

Overlay(f, g) == [k \in DOMAIN f \cup DOMAIN g |->
                    IF k \in DOMAIN f THEN f[k] ELSE g[k]]
Only(f, keys) == [k \in keys \cap DOMAIN f |-> f[k]]

\* tfutil.StringMap and tfutil.SetToStrings: not set is empty.
AsMap(v) == IF v \in NotSet THEN NoMap ELSE v
AsSet(v) == IF v \in NotSet THEN {} ELSE v

\* An empty string or map of the server is not set.
OptionalStringToTF(v) == IF v = "" THEN Null ELSE v
MapToTF(v) == IF v = NoMap THEN Null ELSE v

\* The keys that were planned; the planned value stands in for a key the server
\* does not show.
ProjectProperties(v, m) == [k \in DOMAIN m |-> IF k \in DOMAIN v THEN v[k] ELSE m[k]]
=============================================================================
