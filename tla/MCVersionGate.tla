---------------------------- MODULE MCVersionGate ----------------------------
(***************************************************************************)
(* VersionGate with a version on each side of every comparison.            *)
(***************************************************************************)
EXTENDS VersionGate

MCVersions == {<<0, 9, 9>>, <<1, 2, 9>>, <<1, 3, 0>>, <<1, 3, 1>>, <<1, 4, 0>>, <<2, 0, 0>>}
=============================================================================
