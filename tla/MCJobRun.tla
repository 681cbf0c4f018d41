------------------------------ MODULE MCJobRun ------------------------------
(***************************************************************************)
(* JobRun with two values of job_conf, so that a run is replaced.          *)
(***************************************************************************)
EXTENDS JobRun

MCConfs == {"a", "b"}
=============================================================================
