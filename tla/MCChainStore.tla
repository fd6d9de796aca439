---------------------------- MODULE MCChainStore ----------------------------
(* A small universe of blocks for ChainStore: two good branches, and a     *)
(* block for each way a block can be wrong.                                *)
EXTENDS ChainStore

CONSTANTS txa, txb, t1, t2

Tx(body) == [id |-> <<"tx", body, TRUE>>, body |-> body, signed |-> TRUE]
Unsigned(body) == [id |-> <<"tx", body, FALSE>>, body |-> body, signed |-> FALSE]

G == GenesisBlock("net", 0, << >>)
GUnsigned == GenesisBlock("net", 0, <<Unsigned(txa)>>)

B1 == ChildBlock(G.header, <<Tx(txa), Tx(txb)>>, 1)
B1Fork == ChildBlock(G.header, <<Tx(txb)>>, 2)
(* B1's header over transactions whose contents are not what the ids say.  *)
B1Forged == [B1 EXCEPT !.transactions[1].body = txb]
B1Foreign == [B1 EXCEPT !.header.network_id = "other"]
B2 == ChildBlock(B1.header, << >>, 1)
B2Fork == ChildBlock(B1Fork.header, <<Tx(txa)>>, 2)
B2Repeat == ChildBlock(B1Fork.header, <<Tx(txb)>>, 2)
B2Early == ChildBlock(B1Fork.header, << >>, 1)

MCTxBody == {txa, txb}
MCGenesis == {G, GUnsigned}
MCBlock == {B1, B1Fork, B1Forged, B1Foreign, B2, B2Fork, B2Repeat, B2Early}
MCThread == {t1, t2}
=============================================================================
