-------------------------------- MODULE Ledger --------------------------------
(***************************************************************************)
(* What a prunella chain promises: one sequence of blocks that only ever   *)
(* grows at its end, by whole batches, and that is at every moment a       *)
(* linked chain in which no transaction occurs twice.  The store           *)
(* implements it with four tables, a write lock and commits that a crash   *)
(* may precede.                                                            *)
(***************************************************************************)
EXTENDS BlockRules

CONSTANT Block          \* the blocks anyone may offer

VARIABLE chain          \* the committed blocks, genesis first

(* Block i+1 names block i, and stands at height i.                        *)
IsLinked(c) ==
    /\ \A i \in 1..Len(c) : c[i].header.height = i - 1
    /\ \A i \in 2..Len(c) : c[i].header.previous_hash = HashOf(c[i - 1])

(* No transaction id is committed by two blocks.                           *)
NoRepeats(c) ==
    \A i, j \in 1..Len(c) :
        i # j => TxIds(c[i].transactions) \cap TxIds(c[j].transactions) = {}

Init == chain = << >>

Grow ==
    /\ chain' \in Seq(Block)
    /\ Len(chain') > Len(chain)
    /\ SubSeq(chain', 1, Len(chain)) = chain
    /\ IsLinked(chain')
    /\ NoRepeats(chain')

Next == Grow

Spec == Init /\ [][Next]_chain
=============================================================================
