---------------------------- MODULE MCAuthTokens ----------------------------
(* A small instance of AuthTokens for TLC. *)
EXTENDS AuthTokens
=============================================================================
