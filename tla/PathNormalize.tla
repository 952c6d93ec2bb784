--------------------------- MODULE PathNormalize ---------------------------
(***************************************************************************)
(* normalize_cd_path (src/common/utils.c), which both the server (cd and   *)
(* every command with a path) and the client (puts, gets) use, and what it *)
(* should compute.  A path is the sequence of its names, the root being    *)
(* empty; an argument is absolute or relative and a sequence of tokens,    *)
(* names and "." and "..".  Paths too long for their buffers are left out. *)
(***************************************************************************)
EXTENDS Naturals, Sequences, FiniteSets

RootDir == <<>>

TakeToken(parts, token) ==
    CASE token = "." -> parts
      [] token = ".." -> IF parts = <<>> THEN parts ELSE SubSeq(parts, 1, Len(parts) - 1)
      [] OTHER -> Append(parts, token)

TakeTokens(tokens) ==
    LET parts[n \in 0 .. Len(tokens)] ==
            IF n = 0 THEN RootDir ELSE TakeToken(parts[n - 1], tokens[n])
    IN  parts[Len(tokens)]

normalize_cd_path(cwd, arg) ==
    TakeTokens(IF arg.absolute THEN arg.tokens ELSE cwd \o arg.tokens)

-----------------------------------------------------------------------------
(* The reference: a name stays unless the ".." after it, up to some point, *)
(* outnumber the names after it.                                           *)

IsName(token) == token \notin {".", ".."}

Stays(tokens, i) ==
    /\ IsName(tokens[i])
    /\ \A j \in i + 1 .. Len(tokens) :
          Cardinality({k \in i + 1 .. j : tokens[k] = ".."})
              <= Cardinality({k \in i + 1 .. j : IsName(tokens[k])})

Kept(tokens) == {i \in DOMAIN tokens : Stays(tokens, i)}

\* The path consists of the names that stay, in their order.
LeadsTo(tokens, path) ==
    \E order \in [DOMAIN path -> Kept(tokens)] :
        /\ \A m, n \in DOMAIN path : m < n => order[m] < order[n]
        /\ \A i \in Kept(tokens) : \E n \in DOMAIN path : order[n] = i
        /\ \A n \in DOMAIN path : path[n] = tokens[order[n]]
=============================================================================
