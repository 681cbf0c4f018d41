---------------------------- MODULE MCOAuthToken ----------------------------
(***************************************************************************)
(* OAuthToken with two goroutines that call Header again and again over a  *)
(* clock long enough for two tokens to expire in turn: two lifetimes and a *)
(* misreported one.                                                        *)
(***************************************************************************)
EXTENDS OAuthToken

MCCallers == {"g1", "g2"}
MCExpiresIn == {-1, 2, 3}
=============================================================================
