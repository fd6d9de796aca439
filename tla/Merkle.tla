-------------------------------- MODULE Merkle --------------------------------
(***************************************************************************)
(* prunella-core's transaction tree and its inclusion proofs, as the       *)
(* command prunella proof produces and verifies them: a block's ids are    *)
(* the leaves, a proof is written to a file, and what is verified later is *)
(* a file somebody handed over.                                            *)
(*                                                                         *)
(* Hashing is ideal: a hash is its domain tag and what was hashed.  That   *)
(* the root of the tree commits to the list of ids, which module           *)
(* BlockRules takes for granted, is shown here.                            *)
(***************************************************************************)
EXTENDS Naturals, Sequences

CONSTANT Ids        \* transaction ids: block n has the first n of them

(* A block's ids are distinct, and no hash depends on more than which are  *)
(* equal: one list of each length stands for all.                          *)
ASSUME IdsAssumption ==
    /\ Len(Ids) \in Nat /\ DOMAIN Ids = 1..Len(Ids)
    /\ \A i, j \in DOMAIN Ids : Ids[i] = Ids[j] => i = j

MerkleId == {Ids[i] : i \in DOMAIN Ids}

VARIABLES leaves,       \* the ids of the block's transactions
          proof,        \* the proof file: an InclusionProof, or nothing
          claimed,      \* the id the proof is said to be for
          count,        \* the count it is verified with
          genuine       \* whether the file is as it was produced

merkleVars == <<leaves, proof, claimed, count, genuine>>

-----------------------------------------------------------------------------
(* Fault: a leaf is not set apart from an inner node.                      *)
leaf_hash_Untagged(content) == content

leaf_hash(content) == <<"leaf", content>>
node_hash(left, right) == <<"node", left, right>>
empty_root == <<"empty">>

(* The largest power of two below n: doubled while that is below n.        *)
split_point(n) ==
    LET k[i \in 0..n] ==
            IF i = 0 THEN 1
            ELSE LET last == k[i - 1]
                 IN  IF last * 2 < n THEN last * 2 ELSE last
    IN  k[n]

ListsOf(n) == [1..n -> MerkleId]
LeftOf(n, list) == [i \in 1..split_point(n) |-> list[i]]
RightOf(n, list) == [i \in 1..(n - split_point(n)) |-> list[split_point(n) + i]]

(* Fault: an odd last leaf is paired with itself.                          *)
root_of_Paired[n \in Nat] ==
    [list \in ListsOf(n) |->
        IF n = 0 THEN empty_root
        ELSE IF n = 1 THEN leaf_hash(list[1])
        ELSE LET m == n + (n % 2)
                 even == [i \in 1..m |-> IF i <= n THEN list[i] ELSE list[n]]
             IN  node_hash(root_of_Paired[split_point(m)][LeftOf(m, even)],
                           root_of_Paired[m - split_point(m)][RightOf(m, even)])]

root_Paired(list) == root_of_Paired[Len(list)][list]

(* The roots of the lists of n ids.                                        *)
root_of[n \in Nat] ==
    [list \in ListsOf(n) |->
        IF n = 0 THEN empty_root
        ELSE IF n = 1 THEN leaf_hash(list[1])
        ELSE node_hash(root_of[split_point(n)][LeftOf(n, list)],
                       root_of[n - split_point(n)][RightOf(n, list)])]

root(list) == root_of[Len(list)][list]

-----------------------------------------------------------------------------
ProofStep(side, hash) == [side |-> side, hash |-> hash]

(* The siblings on the way from a leaf of a list of n to its root; indices *)
(* count from 0.                                                           *)
path_of[n \in Nat] ==
    [list \in ListsOf(n) |->
        [index \in 0..(n - 1) |->
            IF n <= 1 THEN << >>
            ELSE IF index < split_point(n)
            THEN Append(path_of[split_point(n)][LeftOf(n, list)][index],
                        ProofStep("Right", root(RightOf(n, list))))
            ELSE Append(path_of[n - split_point(n)][RightOf(n, list)][index - split_point(n)],
                        ProofStep("Left", root(LeftOf(n, list))))]]

audit_path(list, index) == path_of[Len(list)][list][index]

generate(list, index) == [index |-> index, steps |-> audit_path(list, index)]

(* Fault: the index is not counted from the right half's own start.        *)
sides_of_Unshifted[n \in Nat] ==
    [index \in Nat |->
        IF n <= 1 THEN << >>
        ELSE IF index < split_point(n)
        THEN Append(sides_of_Unshifted[split_point(n)][index], "Right")
        ELSE Append(sides_of_Unshifted[n - split_point(n)][index], "Left")]

expected_sides_Unshifted(n, index) == sides_of_Unshifted[n][index]

(* The sides a path of this index must have, from the count alone.         *)
sides_of[n \in Nat] ==
    [index \in Nat |->
        IF n <= 1 THEN << >>
        ELSE IF index < split_point(n)
        THEN Append(sides_of[split_point(n)][index], "Right")
        ELSE Append(sides_of[n - split_point(n)][index - split_point(n)], "Left")]

expected_sides(n, index) == sides_of[n][index]

(* Fault: the shape of the path is not compared with the index.            *)
RightShape_Any(p, n) == TRUE

RightShape(p, n) ==
    expected_sides(n, p.index) = [i \in DOMAIN p.steps |-> p.steps[i].side]

(* The hash a path leads to from a leaf.                                   *)
Fold(leaf, steps) ==
    LET running[i \in 0..Len(steps)] ==
            IF i = 0 THEN leaf_hash(leaf)
            ELSE IF steps[i].side = "Left"
            THEN node_hash(steps[i].hash, running[i - 1])
            ELSE node_hash(running[i - 1], steps[i].hash)
    IN  running[Len(steps)]

verify(p, id, n, tree) ==
    /\ p.index < n
    /\ RightShape(p, n)
    /\ Fold(id, p.steps) = tree

-----------------------------------------------------------------------------
NoProof == [index |-> 0, steps |-> << >>]

MerkleInit ==
    /\ leaves = << >>
    /\ proof = NoProof
    /\ claimed = {}
    /\ count = 0
    /\ genuine = FALSE

(* A block of one more transaction.                                        *)
Grow ==
    /\ claimed = {}
    /\ Len(leaves) < Len(Ids)
    /\ leaves' = Append(leaves, Ids[Len(leaves) + 1])
    /\ UNCHANGED <<proof, claimed, count, genuine>>

(* prunella proof: the proof of a stored transaction is produced.          *)
Produce(index) ==
    /\ claimed = {}
    /\ index < Len(leaves)
    /\ proof' = generate(leaves, index)
    /\ claimed' = {leaves[index + 1]}
    /\ count' = Len(leaves)
    /\ genuine' = TRUE
    /\ UNCHANGED leaves

(* Hashes a handed-over file may hold: of leaves, and of every run of them.*)
SubRoots ==
    UNION {{root([k \in 1..n |-> leaves[i + k]]) : n \in 0..(Len(leaves) - i)}
             : i \in 0..Len(leaves)}
Hashes == SubRoots \cup {leaf_hash(id) : id \in MerkleId}
Sides == {"Left", "Right"}

(* Lists that differ from s in one place: one more, one less, one replaced.*)
Lacking(s, k) == [i \in 1..(Len(s) - 1) |-> IF i < k THEN s[i] ELSE s[i + 1]]
With(s, k, e) ==
    [i \in 1..(Len(s) + 1) |-> IF i < k THEN s[i] ELSE IF i = k THEN e ELSE s[i - 1]]

OtherSteps(steps) ==
    {[steps EXCEPT ![k] = ProofStep(s, steps[k].hash)] : k \in DOMAIN steps, s \in Sides}
    \cup {[steps EXCEPT ![k] = ProofStep(steps[k].side, h)] : k \in DOMAIN steps, h \in Hashes}
    \cup {Lacking(steps, k) : k \in DOMAIN steps}
    \cup {With(steps, k, ProofStep(s, h)) :
            k \in 1..(Len(steps) + 1), s \in Sides, h \in Hashes}

OtherProofs ==
    {[index |-> i, steps |-> proof.steps] : i \in 0..Len(leaves)}
    \cup {[index |-> proof.index, steps |-> steps] : steps \in OtherSteps(proof.steps)}

(* The proof, and what is left of it above a level of the tree.            *)
Shortened ==
    LET length == Len(proof.steps)
    IN  {[index |-> proof.index, steps |-> [i \in 1..(length - k) |-> proof.steps[k + i]]]
            : k \in 0..length}

(* The file is not what was produced, in one place, or it is said to be    *)
(* for another id or of a block of another count.                          *)
HandOver ==
    /\ genuine
    /\ genuine' = FALSE
    /\ \/ /\ proof' \in OtherProofs
          /\ UNCHANGED <<claimed, count>>
       \/ /\ claimed' \in {{h} : h \in MerkleId \cup {t \in SubRoots : t[1] = "node"}}
          /\ proof' \in Shortened
          /\ count' \in 1..Len(leaves)
    /\ UNCHANGED leaves

MerkleNext ==
    \/ Grow
    \/ \E index \in 0..(Len(Ids) - 1) : Produce(index)
    \/ HandOver

MerkleSpec == MerkleInit /\ [][MerkleNext]_merkleVars

-----------------------------------------------------------------------------
(* Properties                                                              *)

(* Every transaction of a block of every size has a proof, and it verifies *)
(* against the block's own count and root.                                 *)
EveryIndexProves ==
    genuine => \A id \in claimed : verify(proof, id, count, root(leaves))

(* A proof accepted against a block's count and root is the one proof of   *)
(* that position: the id stands there, and no index, side, step or hash of *)
(* it can be another.                                                      *)
ProofBinds ==
    \A id \in claimed :
        (count = Len(leaves) /\ verify(proof, id, count, root(leaves))) =>
            /\ leaves[proof.index + 1] = id
            /\ proof = generate(leaves, proof.index)

(* Whatever count it is verified with, an accepted proof is of an id the   *)
(* block holds: no inner node passes for a leaf.                           *)
OnlyLeavesProve ==
    \A id \in claimed :
        verify(proof, id, count, root(leaves)) =>
            \E i \in DOMAIN leaves : leaves[i] = id

(* The root commits to the list: one id more or less, two swapped or one   *)
(* replaced, and it is another root.                                       *)
RootCommits ==
    LET others == {Append(leaves, id) : id \in MerkleId}
                  \cup {Lacking(leaves, i) : i \in DOMAIN leaves}
                  \cup {[leaves EXCEPT ![i] = id] : i \in DOMAIN leaves, id \in MerkleId}
                  \cup {[leaves EXCEPT ![i] = leaves[j], ![j] = leaves[i]]
                          : i, j \in DOMAIN leaves}
    IN  claimed = {} =>
            \A other \in others : other # leaves => root(other) # root(leaves)
=============================================================================
