---------------------------- MODULE MCHttpClient ----------------------------
(***************************************************************************)
(* HttpClient with the policy of defaultRetryPolicy in units of 50 ms:     *)
(* three retries, 100 ms base delay, 2 s cap, and Retry-After values that  *)
(* are zero, at the cap, beyond it and wrapped below zero.                 *)
(***************************************************************************)
EXTENDS HttpClient

MCCalls == {"c1"}
MCRetryAfters == {-3, 0, 40, 100}
=============================================================================
