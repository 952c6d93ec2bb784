-------------------------- MODULE MCTransferStream --------------------------
(* A small instance of TransferStream for TLC: a content of two blocks,    *)
(* one of a single, different block, and an empty file.                    *)
EXTENDS TransferStream, TLC

CONSTANTS long, short, empty

MCContent == long :> <<1, 2>> @@ short :> <<2>> @@ empty :> <<>>
=============================================================================
