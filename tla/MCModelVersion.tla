--------------------------- MODULE MCModelVersion ---------------------------
(***************************************************************************)
(* ModelVersion with two resources of one model and two artifacts.         *)
(***************************************************************************)
EXTENDS ModelVersion

MCResources == {"r1", "r2"}
MCURIs == {"u1", "u2"}
=============================================================================
