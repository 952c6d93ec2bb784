---------------------------- MODULE MCServerLoop ----------------------------
(* The instance of ServerLoop for the safety run.  Descriptors, session    *)
(* ids and workers are interchangeable.                                    *)
EXTENDS ServerLoop, TLC

Symmetry == Permutations(Fds) \cup Permutations(Ids) \cup Permutations(Workers)

\* Logins with and without a session id, and the other commands with any session id:
\* one that is not live is as good as none.
AnyRequest ==
    [cmd : {"login"}, sid : Ids \cup {NoSession}] \cup [cmd : {"basic", "transfer"}, sid : Ids]
=============================================================================
