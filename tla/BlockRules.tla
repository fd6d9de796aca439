------------------------------ MODULE BlockRules ------------------------------
(***************************************************************************)
(* Blocks, transactions and the validation rules of prunella: what         *)
(* prunella-core builds, and what prunella-verify's check_block reports.   *)
(*                                                                         *)
(* Hashing is ideal: a hash is a tuple of its domain tag and the hashed    *)
(* value, so equal hashes mean equal contents and two domains never meet.  *)
(* A transaction is the part of it the rules can tell apart: its declared  *)
(* id, its body, and whether its signature verifies.                       *)
(***************************************************************************)
EXTENDS Naturals, Sequences, FiniteSets

HEADER_VERSION == 1
GENESIS == 0
ZERO == <<"zero">>

(* An optional value is a set of at most one element.                      *)
None == {}
Some(x) == {x}

(* The elements of s at the indices of I, in their order: those a loop     *)
(* over s pushes.                                                          *)
Kept(s, I) ==
    LET upto[n \in 0..Len(s)] ==
            IF n = 0 THEN << >>
            ELSE IF n \in I THEN Append(upto[n - 1], s[n])
            ELSE upto[n - 1]
    IN  upto[Len(s)]

(* Lists, transactions and blocks as the program's types make them.        *)
IsList(s) == Len(s) \in Nat /\ s = [i \in 1..Len(s) |-> s[i]]

IsTransaction(tx) ==
    /\ tx = [id |-> tx.id, signed |-> tx.signed,
             body |-> [namespace |-> tx.body.namespace, nonce |-> tx.body.nonce,
                       payload |-> tx.body.payload]]
    /\ IsList(tx.body.payload)

IsBlock(block) ==
    LET header == block.header
    IN  /\ block = [header |-> header, transactions |-> block.transactions]
        /\ header = [version |-> header.version, network_id |-> header.network_id,
                     height |-> header.height, previous_hash |-> header.previous_hash,
                     tx_root |-> header.tx_root, tx_count |-> header.tx_count,
                     timestamp |-> header.timestamp]
        /\ header.height \in Nat
        /\ IsList(block.transactions)
        /\ \A i \in DOMAIN block.transactions : IsTransaction(block.transactions[i])

-----------------------------------------------------------------------------
(* prunella-core                                                           *)

(* The id commits to the body and to the signature over it.                *)
compute_id(tx) == <<"tx", tx.body, tx.signed>>

TxIds(txs) == {txs[i].id : i \in DOMAIN txs}

(* The Merkle root commits to the sequence of declared ids.                *)
compute_root(txs) == <<"root", [i \in DOMAIN txs |-> txs[i].id]>>

block_hash(header) == <<"block", header>>
HashOf(block) == block_hash(block.header)

BuildBlock(network, height, previous, timestamp, txs) ==
    [header |-> [version |-> HEADER_VERSION, network_id |-> network,
                 height |-> height, previous_hash |-> previous,
                 tx_root |-> compute_root(txs), tx_count |-> Len(txs),
                 timestamp |-> timestamp],
     transactions |-> txs]

GenesisBlock(network, timestamp, txs) ==
    BuildBlock(network, GENESIS, ZERO, timestamp, txs)

ChildBlock(parent, txs, timestamp) ==
    BuildBlock(parent.network_id, parent.height + 1, block_hash(parent),
               timestamp, txs)

-----------------------------------------------------------------------------
(* prunella-verify: each rule yields the set of findings it reports, and a *)
(* block is acceptable exactly when the union is empty.                    *)

When(condition, finding) == IF condition THEN {finding} ELSE {}

genesis_linkage(header) ==
    When(header.height # GENESIS, "HeightOutOfOrder")
    \cup When(header.previous_hash # ZERO, "PreviousHashMismatch")

(* Fault: the previous hash is not compared.                               *)
child_linkage_Unchained(parent, header) ==
    When(header.height # parent.height + 1, "HeightOutOfOrder")
    \cup When(header.timestamp < parent.timestamp, "TimestampRegression")

child_linkage(parent, header) ==
    When(header.height # parent.height + 1, "HeightOutOfOrder")
    \cup When(header.previous_hash # block_hash(parent), "PreviousHashMismatch")
    \cup When(header.timestamp < parent.timestamp, "TimestampRegression")

check_linkage(parent, header) ==
    IF parent = None THEN genesis_linkage(header)
    ELSE UNION {child_linkage(p, header) : p \in parent}

check_transaction_commitments(block) ==
    LET header == block.header
        txs == block.transactions
    IN  When(header.tx_count # Len(txs), "TxCountMismatch")
        \cup When(header.tx_root # compute_root(txs), "TxRootMismatch")

(* committed is the set of ids the lookup answers "present" for.           *)
check_transactions(committed, block) ==
    LET txs == block.transactions
    IN  When(\E i \in DOMAIN txs : txs[i].id # compute_id(txs[i]), "TxIdMismatch")
        \cup When(\E i \in DOMAIN txs : ~txs[i].signed, "SignatureInvalid")
        \cup When(\E i, j \in DOMAIN txs : i < j /\ txs[i].id = txs[j].id,
                  "DuplicateTxIdInBlock")
        \cup When(TxIds(txs) \cap committed # {}, "DuplicateTxIdInChain")

(* expected is Some(hash) when the block was looked up by its hash.        *)
check_block(network, parent, expected, committed, block) ==
    When(block.header.version # HEADER_VERSION, "UnsupportedHeaderVersion")
    \cup When(block.header.network_id # network, "NetworkMismatch")
    \cup check_linkage(parent, block.header)
    \cup check_transaction_commitments(block)
    \cup check_transactions(committed, block)
    \cup When(\E h \in expected : h # HashOf(block), "BlockHashMismatch")
=============================================================================
