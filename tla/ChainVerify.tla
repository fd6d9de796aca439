----------------------------- MODULE ChainVerify -----------------------------
(***************************************************************************)
(* prunella-verify's verify_chain over a stored chain that may be damaged: *)
(* the walk of a height range, with its own parent, duplicates set and     *)
(* head check, and what it reports.                                        *)
(*                                                                         *)
(* A source is what BlockSource answers: the recorded network and genesis  *)
(* hash, the recorded head, and a table of the blocks that can be read.    *)
(* A block that is absent and one that does not decode end the walk alike. *)
(***************************************************************************)
EXTENDS BlockRules

At(height, kinds) == {[kind |-> k, height |-> height] : k \in kinds}

Least(heights) == CHOOSE h \in heights : \A g \in heights : h <= g

check_genesis_identity(source) ==
    At(GENESIS,
       IF GENESIS \notin DOMAIN source.blocks THEN {"MissingBlock"}
       ELSE LET genesis == source.blocks[GENESIS]
            IN  When(HashOf(genesis) # source.genesis_hash, "GenesisMismatch")
                \cup When(genesis.header.network_id # source.network_id,
                          "NetworkMismatch"))

(* The last height the walk may reach: the end asked for, at most the head.*)
RangeEnd(source, to) ==
    IF to = None THEN source.head.height
    ELSE Least(to \cup {source.head.height})

load_parent(source, from) ==
    IF from = GENESIS THEN {}
    ELSE At(from - 1, When(from - 1 \notin DOMAIN source.blocks, "MissingBlock"))

(* Fault: the ids seen start from those of the whole chain's beginning     *)
(* only when the walk does, and are dropped at every block.                *)
SeenTransactions_Forgotten(source, from, height) == {}

(* The ids the walk has put in its set when it comes to a height.          *)
SeenTransactions(source, from, height) ==
    UNION {TxIds(source.blocks[h].transactions) : h \in from..(height - 1)}

CheckHeight(source, from, height) ==
    At(height,
       check_block(source.network_id,
                   IF height = GENESIS THEN None
                   ELSE Some(source.blocks[height - 1].header),
                   IF height = source.head.height THEN Some(source.head.hash)
                   ELSE None,
                   SeenTransactions(source, from, height),
                   source.blocks[height]))

(* The walk stops at the first height that holds no readable block.        *)
verify_chain(source, from, to) ==
    LET end == RangeEnd(source, to)
        unreadable == {h \in from..end : h \notin DOMAIN source.blocks}
        last == IF unreadable = {} THEN end ELSE Least(unreadable) - 1
        orphaned == load_parent(source, from)
    IN  check_genesis_identity(source)
        \cup IF from > end THEN {}
             ELSE IF orphaned # {} THEN orphaned
             ELSE (UNION {CheckHeight(source, from, h) : h \in from..last})
                  \cup (UNION {At(h, {"MissingBlock"}) :
                                 h \in When(unreadable # {}, last + 1)})
=============================================================================
