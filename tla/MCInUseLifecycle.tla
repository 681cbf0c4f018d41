-------------------------- MODULE MCInUseLifecycle --------------------------
(***************************************************************************)
(* InUseLifecycle with two names, so that a rename and a conflict happen,  *)
(* and two values of the attributes altered by PUT.                        *)
(***************************************************************************)
EXTENDS InUseLifecycle

MCNames == {"n1", "n2"}
MCOneName == {"n2"}
MCComments == {"c1", "c2"}
=============================================================================
