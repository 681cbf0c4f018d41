---------------------------- MODULE MCAssociation ----------------------------
(***************************************************************************)
(* Association with two resources of one object and four names, of which   *)
(* one is inherited and two are policies for other types of object, one of *)
(* them without a content the provider could compare.  The two resources   *)
(* differ in nothing, so that they may change places.                      *)
(***************************************************************************)
EXTENDS Association
LOCAL INSTANCE TLC

MCNames == {"n1", "n2", "n3", "n4"}
MCInherited == {"n1"}
MCIncompatible == {"n3", "n4"}
MCOpaque == {"n4"}
Swapped == Permutations(Resources)
=============================================================================
