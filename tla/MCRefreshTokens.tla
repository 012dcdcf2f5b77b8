--------------------------- MODULE MCRefreshTokens ---------------------------
(***************************************************************************)
(* Instances of RefreshTokens for TLC.  Liveness is checked, so that the   *)
(* calls and tokens, though alike, are not declared symmetric.             *)
(***************************************************************************)
EXTENDS RefreshTokens, TLC
=============================================================================
