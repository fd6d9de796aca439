------------------------------ MODULE MCMerkle ------------------------------
(* Blocks of up to nine transactions: trees of every shape up to a full    *)
(* one of eight and the first that hangs a single leaf beside it.          *)
EXTENDS Merkle
MCIds == [i \in 1..9 |-> <<"tx", i>>]
=============================================================================
