--------------------------- MODULE MCContentStore ---------------------------
(* Small instances of ContentStore for TLC: a directory, a file in it and  *)
(* a file beside it.                                                       *)
EXTENDS ContentStore, TLC

MCParent == "dir" :> "/" @@ "dir/a" :> "dir" @@ "b" :> "/"

FlatParent == [p \in Paths |-> Root]

Symmetry == Permutations(Workers)
=============================================================================
