------------------------------ MODULE MCClient ------------------------------
(* A small instance of Client for TLC: a download and an upload, and       *)
(* descriptors for the control connection and two sockets.                 *)
EXTENDS Client, TLC

CONSTANTS get, put

MCTargetOf == get :> "x" @@ put :> NoTarget

Cd(absolute, tokens) == [absolute |-> absolute, tokens |-> tokens]

\* Up from the root and from below, ".", an absolute path, and no argument.
MCArgs == {Cd(FALSE, <<"..", ".", "b">>), Cd(TRUE, <<"a">>), Cd(FALSE, <<>>)}
=============================================================================
