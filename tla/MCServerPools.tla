--------------------------- MODULE MCServerPools ---------------------------
(* Small instance of ServerPools for TLC.                                  *)
EXTENDS ServerPools
=============================================================================
