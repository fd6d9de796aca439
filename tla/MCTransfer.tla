----------------------------- MODULE MCTransfer -----------------------------
(* A source chain with a transaction of each payload form: none, an        *)
(* element, an element with white space before it.                         *)
EXTENDS Transfer

Signed(body) == [id |-> <<"tx", body, TRUE>>, body |-> body, signed |-> TRUE]
Tx(namespace, nonce, payload) ==
    Signed([namespace |-> namespace, nonce |-> nonce, payload |-> payload])

TxG == Tx("a", 0, << >>)
TxE == Tx("a", 1, <<Element("x")>>)
TxF == Tx("b", 2, << >>)
TxS == Tx("b", 1, <<Space, Element("x")>>)
TxL == Tx("b", 9, <<Prose("local")>>)

MCFounding == GenesisBlock("net", 1, <<TxG>>)
MCSourceTxs == {<<TxE, TxF>>, <<TxS>>}
MCLocalTxs == {<<TxL>>}

Request(from, to, namespace) == [from |-> from, to |-> to, namespace |-> namespace]
MCRequests ==
    {Request(None, None, None), Request(None, None, Some("a")),
     Request(Some(1), None, None), Request(None, Some(1), None)}

B1 == ChildBlock(MCFounding.header, <<TxE, TxF>>, 2)
(* What a damaged file may hold: another genesis, a rewritten body, an     *)
(* earlier timestamp, a block that repeats a transaction.                  *)
MCDamages ==
    {GenesisBlock("net", 1, <<TxE>>),
     [B1 EXCEPT !.transactions[1].body.payload = <<Prose("x")>>,
                !.transactions[1].signed = FALSE],
     ChildBlock(MCFounding.header, <<TxE, TxF>>, 1),
     ChildBlock(MCFounding.header, <<TxG>>, 2),
     ChildBlock(B1.header, <<TxE>>, 2)}
=============================================================================
