--------------------------- MODULE MCSessionTable ---------------------------
(* Small instance of SessionTable for TLC: three connections and four      *)
(* sessions over the run, so that sessions share connections and come and  *)
(* go.                                                                     *)
EXTENDS SessionTable
=============================================================================
