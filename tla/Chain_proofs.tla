------------------------------ MODULE Chain_proofs ------------------------------
(* Theorems about the chain of prunella, for every set of blocks, threads, *)
(* requests and damages: ChainStore, the store; ChainVerify, what a clean  *)
(* verification of a chain, or of its parts, means; Transfer, what the     *)
(* documents exported from one store do to another; and Merkle, the        *)
(* transaction tree and its proofs.                                        *)
EXTENDS ChainStore, ChainVerify, Transfer, Merkle, FiniteSetTheorems,
        WellFoundedInduction, TLAPS

(* Per thread, a call and a range have the shapes the actions update.      *)
AnyBlock == Block \cup Genesis
Outcome == [batch : {<< >>} \cup Batches,
            result : {"none", "running", "ok", "error"}]

(* The batches a caller may offer are sequences of blocks.                 *)
LEMMA BatchIsSeq ==
    ASSUME NEW batch \in Batches
    PROVE  batch \in Seq(Block) /\ batch # << >>
<1>1. PICK n \in 1..BatchBound : batch \in [1..n -> Block]
  BY DEF Batches
<1>2. n \in Nat /\ n > 0
  BY BatchBoundAssumption
<1> QED
  BY <1>1, <1>2, Z3

(* The variables keep their types, and the write lock its holder, through  *)
(* every interleaving of appends, reads and crashes (store.rs).            *)
THEOREM TypeCorrect == Spec => []TypeOK
<1>1. Init => TypeOK
  BY DEF Init, TypeOK, NoCall, NoIter, None, Some, Call, BlockRange
<1>2. TypeOK /\ [Next]_vars => TypeOK'
  <2> SUFFICES ASSUME TypeOK, [Next]_vars PROVE TypeOK'
    OBVIOUS
  <2> USE DEF TypeOK, None, Some, Call, BlockRange
  <2>1. ASSUME NEW g \in Genesis, InitGenesis(g) PROVE TypeOK'
    BY <2>1 DEF InitGenesis
  <2>2. CASE WriteGenesis
    BY <2>2 DEF WriteGenesis
  <2>3. CASE Open
    BY <2>3 DEF Open
  <2>4. CASE Close
    BY <2>4 DEF Close
  <2>5. CASE Crash
    BY <2>5 DEF Crash, NoIter, Failed, disk
  <2>6. ASSUME NEW t \in Thread, NEW batch \in Batches, BeginAppend(t, batch)
        PROVE  TypeOK'
    <3>1. todo' \in Seq(Block \cup Genesis)
      BY <2>6, BatchIsSeq DEF BeginAppend
    <3>2. call' \in [Thread -> Outcome]
      BY <2>6 DEF BeginAppend, Outcome
    <3>3. \A u \in Thread : call'[u].result = "running" <=> writer' = Some(u)
      BY <2>6 DEF BeginAppend
    <3> QED
      BY <2>6, <3>1, <3>2, <3>3 DEF BeginAppend, Outcome
  <2>7. ASSUME NEW t \in Thread, AlreadyPresent(t) PROVE TypeOK'
    <3>1. todo' \in Seq(Block \cup Genesis)
      BY <2>7 DEF AlreadyPresent, Writing
    <3> QED
      BY <2>7, <3>1 DEF AlreadyPresent, Writing
  <2>8. ASSUME NEW t \in Thread, writer = Some(t), Abort(t) PROVE TypeOK'
    <3>1. call' \in [Thread -> Outcome]
      BY <2>8 DEF Abort, Release, Failed, Outcome
    <3>2. \A u \in Thread : call'[u].result = "running" <=> writer' = Some(u)
      BY <2>8 DEF Abort, Release, Failed
    <3> QED
      BY <2>8, <3>1, <3>2 DEF Abort, Release, Outcome
  <2>9. ASSUME NEW t \in Thread, InsertBlock(t) PROVE TypeOK'
    <3>1. todo' \in Seq(Block \cup Genesis)
      BY <2>9 DEF InsertBlock, Writing
    <3> QED
      BY <2>9, <3>1 DEF InsertBlock, Writing
  <2>10. ASSUME NEW t \in Thread, Commit(t) PROVE TypeOK'
    BY <2>10 DEF Commit, Release
  <2>11. ASSUME NEW t \in Thread, ReadHead(t) PROVE TypeOK'
    BY <2>11 DEF ReadHead, NoIter
  <2>12. ASSUME NEW t \in Thread, NEW start \in 0..(iter[t].end + 1),
                iter_blocks(t, start)
         PROVE  TypeOK'
    BY <2>12 DEF iter_blocks
  <2>13. ASSUME NEW t \in Thread, NextBlock(t) PROVE TypeOK'
    <3>1. DOMAIN iter' = Thread
      BY <2>13 DEF NextBlock
    <3>2. ASSUME NEW u \in Thread
          PROVE  /\ iter'[u].phase \in {"none", "head", "reading", "failed"}
                 /\ iter'[u].phase # "none" => handle' = "open"
      BY <2>13 DEF NextBlock
    <3> QED
      BY <2>13, <3>1, <3>2 DEF NextBlock
  <2>14. ASSUME NEW t \in Thread, DropRange(t) PROVE TypeOK'
    BY <2>14 DEF DropRange, NoIter
  <2>15. CASE UNCHANGED vars
    BY <2>15 DEF vars
  <2> QED
    BY <2>1, <2>2, <2>3, <2>4, <2>5, <2>6, <2>7, <2>8, <2>9, <2>10, <2>11,
       <2>12, <2>13, <2>14, <2>15
    DEF Next, ForkedHistory, NonContiguous, Refused, DatabaseError, Writing
<1> QED
  BY <1>1, <1>2, PTL DEF Spec

-----------------------------------------------------------------------------
(* The invariant behind the store's promises: every image, committed or in *)
(* the making, is whole; the one in the making only adds to the committed  *)
(* one; and of a batch under way, every block already looked at is in it.  *)

ImageOK(image) ==
    /\ image.head.height \in Nat
    /\ DOMAIN image.blocks = 0..image.head.height
    /\ check_consistency(image)

Extends(image, base) ==
    \A h \in DOMAIN base.blocks :
        h \in DOMAIN image.blocks /\ image.blocks[h] = base.blocks[h]

Present(image, block) ==
    /\ block.header.height \in DOMAIN image.blocks
    /\ image.blocks[block.header.height] = block

AllPresent(image, batch) == \A i \in 1..Len(batch) : Present(image, batch[i])

(* The blocks still to be looked at are the end of the batch.              *)
Progress(batch) ==
    LET seen == Len(batch) - Len(todo)
    IN  /\ seen \in Nat
        /\ \A i \in 1..Len(todo) : todo[i] = batch[seen + i]
        /\ \A i \in 1..seen : Present(work, batch[i])

Images ==
    /\ file = "chain" => ImageOK(db)
    /\ file # "chain" => DOMAIN db.blocks = {}
    /\ writer # None => ImageOK(work) /\ Extends(work, db)

Batched ==
    \A t \in Thread :
        /\ writer = Some(t) => Progress(call[t].batch)
        /\ call[t].result = "ok" => AllPresent(db, call[t].batch)

StoreInv == TypeOK /\ Images /\ Batched

(* A genesis block the rules accept makes a whole image (write_genesis).   *)
LEMMA GenesisIsOK ==
    ASSUME NEW g \in Genesis
    PROVE  ImageOK(GenesisImage(g))
<1> DEFINE image == GenesisImage(g)
<1>1. g.header.height = 0
  BY BlockAssumption DEF GENESIS
<1>2. /\ image.head = [height |-> 0, hash |-> HashOf(g)]
      /\ image.genesis_hash = HashOf(g)
      /\ image.network_id = g.header.network_id
      /\ DOMAIN image.blocks = {0}
      /\ image.blocks[0] = g
  BY <1>1 DEF GenesisImage, insert_block, Insert, EmptyImage, EmptyTable
<1> QED
  BY <1>2 DEF ImageOK, check_consistency, GENESIS

(* insert_block at the height after the head keeps an image whole, adds    *)
(* the block, and leaves every other one alone.                            *)
LEMMA InsertKeeps ==
    ASSUME NEW image, ImageOK(image),
           NEW block, block.header.height = image.head.height + 1
    PROVE  LET new == insert_block(image, block)
           IN  ImageOK(new) /\ Extends(new, image) /\ Present(new, block)
<1> DEFINE new == insert_block(image, block)
           height == image.head.height + 1
<1>1. /\ image.head.height \in Nat
      /\ DOMAIN image.blocks = 0..image.head.height
      /\ check_consistency(image)
  BY DEF ImageOK
<1>2. /\ new.head = [height |-> height, hash |-> HashOf(block)]
      /\ new.genesis_hash = image.genesis_hash
      /\ new.network_id = image.network_id
      /\ new.blocks = Insert(image.blocks, height, block)
  BY DEF insert_block
<1>3. /\ DOMAIN new.blocks = 0..height
      /\ new.blocks[height] = block
      /\ \A h \in 0..image.head.height : new.blocks[h] = image.blocks[h]
  BY <1>1, <1>2 DEF Insert
<1>4. check_consistency(new)
  BY <1>1, <1>2, <1>3 DEF check_consistency, GENESIS
<1> QED
  BY <1>1, <1>2, <1>3, <1>4 DEF ImageOK, Extends, Present

(* What is present stays present in anything that only adds.               *)
LEMMA PresentExtends ==
    ASSUME NEW base, NEW image, Extends(image, base),
           NEW block, Present(base, block)
    PROVE  Present(image, block)
  BY DEF Extends, Present

(* A chain that extends an extension extends the first.                    *)
LEMMA ExtendsTransitive ==
    ASSUME NEW a, NEW b, NEW c, Extends(b, a), Extends(c, b)
    PROVE  Extends(c, a)
  BY DEF Extends

-----------------------------------------------------------------------------
(* What a step leaves alone, and what it hands on.                         *)

Untouched == UNCHANGED <<file, db, writer, work, todo, call>>

(* A step that touches neither the image nor the batch keeps what is known *)
(* of both.                                                                *)
LEMMA UntouchedKeeps ==
    ASSUME Images, Batched, Untouched PROVE Images' /\ Batched'
  BY DEF Images, Batched, Untouched, Progress, Present, AllPresent, ImageOK,
         check_consistency, Extends

(* Dropping a write transaction forgets its image and marks its call.      *)
LEMMA AbortKeeps ==
    ASSUME TypeOK, Images, Batched, NEW t \in Thread, writer = Some(t), Abort(t)
    PROVE  Images' /\ Batched'
<1>1. /\ file' = file /\ db' = db /\ writer' = None
      /\ call' = [call EXCEPT ![t] = Failed]
  BY DEF Abort, Release
<1>2. Images'
  BY <1>1 DEF Images
<1>3. ASSUME NEW u \in Thread, call'[u].result = "ok"
      PROVE  call'[u] = call[u]
  BY <1>1, <1>3 DEF TypeOK, Failed, Call
<1>4. Batched'
  BY <1>1, <1>3, SMTT(30) DEF Batched, None, Some, AllPresent, Present
<1> QED
  BY <1>2, <1>4

(* The first block of what is left is the next one of the batch.           *)
LEMMA NextOfBatch ==
    ASSUME TypeOK, NEW t \in Thread, Writing(t), Progress(call[t].batch),
           NEW image, Extends(image, work), Present(image, Head(todo))
    PROVE  LET seen == Len(call[t].batch) - Len(Tail(todo))
           IN  /\ seen \in Nat
               /\ \A i \in 1..Len(Tail(todo)) : Tail(todo)[i] = call[t].batch[seen + i]
               /\ \A i \in 1..seen : Present(image, call[t].batch[i])
<1> DEFINE batch == call[t].batch
           before == Len(batch) - Len(todo)
           seen == Len(batch) - Len(Tail(todo))
<1>1. todo \in Seq(Block \cup Genesis) /\ todo # << >>
  BY DEF TypeOK, Writing
<1>2. /\ Len(todo) \in Nat /\ Len(todo) >= 1
      /\ Len(Tail(todo)) = Len(todo) - 1
      /\ Head(todo) = todo[1]
      /\ \A i \in 1..Len(Tail(todo)) : Tail(todo)[i] = todo[i + 1]
  BY <1>1
<1>3. /\ before \in Nat
      /\ \A i \in 1..Len(todo) : todo[i] = batch[before + i]
      /\ \A i \in 1..before : Present(work, batch[i])
  BY DEF Progress
<1>4. batch \in Seq(Block)
  <2>1. batch \in {<< >>} \cup Batches
    BY DEF TypeOK
  <2>2. << >> \in Seq(Block)
    OBVIOUS
  <2> QED
    BY <2>1, <2>2, BatchIsSeq
<1>5. Len(batch) \in Nat
  BY <1>4
<1>6. seen = before + 1
  BY <1>1, <1>2, <1>5
<1>7. before \in Nat /\ seen \in Nat /\ Len(Tail(todo)) \in Nat
  BY <1>1, <1>2, <1>3, <1>6
<1>8. ASSUME NEW i \in 1..Len(Tail(todo)) PROVE Tail(todo)[i] = batch[seen + i]
  <2> HIDE DEF before, seen, batch
  <2>1. i + 1 \in 1..Len(todo) /\ i \in Nat
    BY <1>2, <1>7
  <2>2. todo[i + 1] = batch[before + (i + 1)]
    BY <2>1, <1>3
  <2>3. before + (i + 1) = seen + i
    BY <2>1, <1>6, <1>7
  <2>4. Tail(todo)[i] = todo[i + 1]
    BY <1>2
  <2> QED
    BY <2>2, <2>3, <2>4
<1>9. ASSUME NEW i \in 1..seen PROVE Present(image, batch[i])
  <2> HIDE DEF before, seen, batch
  <2>1. CASE i = seen
    <3>1. batch[seen] = Head(todo)
      BY <1>2, <1>3, <1>6
    <3> QED
      BY <2>1, <3>1
  <2>2. CASE i # seen
    <3>1. i \in 1..before
      BY <2>2, <1>6, <1>7
    <3> QED
      BY <3>1, <1>3, PresentExtends
  <2> QED
    BY <2>1, <2>2
<1> HIDE DEF before, seen, batch
<1>10. /\ seen \in Nat
       /\ \A i \in 1..Len(Tail(todo)) : Tail(todo)[i] = batch[seen + i]
       /\ \A i \in 1..seen : Present(image, batch[i])
  BY <1>7, <1>8, <1>9
<1> QED
  BY <1>10 DEF before, seen, batch

(* A step of append_blocks that looks at a block, whether it finds it      *)
(* there or inserts it, keeps the transaction's image and its progress.    *)
LEMMA LookAtBlock ==
    ASSUME TypeOK, Images, Batched, NEW t \in Thread, Writing(t),
           UNCHANGED <<file, db, writer, call>>, todo' = Tail(todo),
           ImageOK(work'), Extends(work', work), Present(work', Head(todo))
    PROVE  Images' /\ Batched'
<1>1. Images'
  BY ExtendsTransitive DEF Images, Writing, None, Some
<1>2. Progress(call[t].batch)
  BY DEF Batched, Writing
<1>3. Progress(call[t].batch)'
  BY <1>2, NextOfBatch DEF Progress
<1>4. \A u \in Thread : writer' = Some(u) => u = t
  BY DEF Writing, Some
<1>5. Batched'
  BY <1>3, <1>4 DEF Batched, AllPresent, Present
<1> QED
  BY <1>1, <1>5

(* Every step keeps the images whole and the batches accounted for.        *)
LEMMA StepKeeps ==
    ASSUME TypeOK, Images, Batched, [Next]_vars
    PROVE  Images' /\ Batched'
<1>1. ASSUME NEW g \in Genesis, InitGenesis(g) PROVE Images' /\ Batched'
  <2>1. /\ file # "chain" /\ file' # "chain" /\ writer = None
        /\ UNCHANGED <<db, writer, call>>
    BY <1>1 DEF InitGenesis, TypeOK
  <2> QED
    BY <2>1 DEF Images, Batched, AllPresent, Present, None, Some
<1>2. CASE WriteGenesis
  <2>1. PICK g \in Genesis : todo = <<g>> /\ todo[1] = g
    BY <1>2 DEF WriteGenesis, TypeOK
  <2>2. /\ writer = None /\ DOMAIN db.blocks = {}
        /\ UNCHANGED <<writer, call>>
    BY <1>2 DEF WriteGenesis, TypeOK, Images
  <2>3. CASE UNCHANGED <<db, file>>
    BY <2>2, <2>3 DEF Images, Batched, AllPresent, Present, None, Some
  <2>4. CASE db' = GenesisImage(g) /\ file' = "chain"
    <3>1. Images'
      BY <2>2, <2>4, GenesisIsOK DEF Images
    <3>2. Extends(db', db)
      BY <2>2 DEF Extends
    <3>3. Batched'
      BY <2>2, <3>2, PresentExtends DEF Batched, AllPresent, None, Some
    <3> QED
      BY <3>1, <3>3
  <2> QED
    BY <1>2, <2>1, <2>3, <2>4 DEF WriteGenesis
<1>3. CASE Open \/ Close
  <2>1. Untouched
    BY <1>3 DEF Open, Close, Untouched
  <2> QED
    BY <2>1, UntouchedKeeps
<1>4. CASE Crash
  <2>1. /\ UNCHANGED <<file, db>> /\ writer' = None
        /\ \A t \in Thread : call'[t] \in {Failed, call[t]}
    BY <1>4 DEF Crash, disk
  <2> QED
    BY <2>1 DEF Images, Batched, AllPresent, Present, None, Some, Failed, Call
<1>5. ASSUME NEW t \in Thread, NEW batch \in Batches, BeginAppend(t, batch)
      PROVE  Images' /\ Batched'
  <2>1. /\ UNCHANGED <<file, db>> /\ writer' = Some(t) /\ work' = db
        /\ todo' = batch /\ call' = [call EXCEPT ![t] = Call(batch, "running")]
    BY <1>5 DEF BeginAppend
  <2>2. Images'
    <3>1. file = "chain"
      BY <1>5 DEF BeginAppend, TypeOK
    <3> QED
      BY <2>1, <3>1 DEF Images, Extends
  <2>3. /\ call'[t] = Call(batch, "running")
        /\ \A u \in Thread \ {t} : call'[u] = call[u]
    BY <2>1 DEF TypeOK
  <2>4. Progress(call[t].batch)'
    <3>1. batch \in Seq(Block)
      BY BatchIsSeq
    <3>2. Len(batch) \in Nat
      BY <3>1
    <3> QED
      BY <2>1, <2>3, <3>2 DEF Progress, Call
  <2>5. Batched'
    BY <2>1, <2>3, <2>4, SMTT(30) DEF Batched, AllPresent, Present, Some, Call
  <2> QED
    BY <2>2, <2>5
<1>6. ASSUME NEW t \in Thread, AlreadyPresent(t) PROVE Images' /\ Batched'
  <2>1. ImageOK(work)
    BY <1>6 DEF AlreadyPresent, Writing, Images, None, Some
  <2>2. Head(todo).header.height \in Nat
    BY <1>6, BlockAssumption DEF AlreadyPresent, Writing, TypeOK
  <2>3. Present(work, Head(todo))
    BY <1>6, <2>1, <2>2 DEF AlreadyPresent, offered, ImageOK, Present
  <2>4. work' = work /\ Extends(work, work)
    BY <1>6 DEF AlreadyPresent, Extends
  <2> QED
    BY <1>6, <2>1, <2>3, <2>4, LookAtBlock DEF AlreadyPresent
<1>7. ASSUME NEW t \in Thread, InsertBlock(t) PROVE Images' /\ Batched'
  <2>1. ImageOK(work)
    BY <1>7 DEF InsertBlock, Writing, Images, None, Some
  <2>2. /\ Head(todo).header.height = work.head.height + 1
        /\ work' = insert_block(work, Head(todo))
    BY <1>7 DEF InsertBlock, offered
  <2>3. ImageOK(work') /\ Extends(work', work) /\ Present(work', Head(todo))
    BY <2>1, <2>2, InsertKeeps
  <2> QED
    BY <1>7, <2>3, LookAtBlock DEF InsertBlock
<1>8. ASSUME NEW t \in Thread, Commit(t) PROVE Images' /\ Batched'
  <2>1. /\ file' = file /\ db' = work /\ writer' = None
        /\ writer = Some(t) /\ todo = << >> /\ file = "chain"
        /\ call' = [call EXCEPT ![t] = Call(call[t].batch, "ok")]
    BY <1>8 DEF Commit, Release, TypeOK, None, Some
  <2>2. ImageOK(work) /\ Extends(work, db)
    BY <2>1 DEF Images, None, Some
  <2>3. Images'
    BY <2>1, <2>2 DEF Images
  <2>4. AllPresent(work, call[t].batch)
    <3>1. Progress(call[t].batch) /\ Len(todo) = 0
      BY <2>1 DEF Batched
    <3>2. Len(call[t].batch) \in Nat
      BY BatchIsSeq DEF TypeOK
    <3> QED
      BY <3>1, <3>2 DEF Progress, AllPresent
  <2>5. /\ call'[t] = Call(call[t].batch, "ok")
        /\ \A u \in Thread \ {t} : call'[u] = call[u]
    BY <2>1 DEF TypeOK
  <2>6. ASSUME NEW u \in Thread, call'[u].result = "ok"
        PROVE  AllPresent(db, call[u].batch)'
    <3>1. CASE u = t
      BY <3>1, <2>1, <2>4, <2>5 DEF AllPresent, Present, Call
    <3>2. CASE u # t
      BY <3>2, <2>1, <2>2, <2>5, <2>6, PresentExtends DEF Batched, AllPresent
    <3> QED
      BY <3>1, <3>2
  <2>7. Batched'
    BY <2>1, <2>6 DEF Batched, None, Some
  <2> QED
    BY <2>3, <2>7
<1>9. ASSUME NEW t \in Thread, writer = Some(t), Abort(t) PROVE Images' /\ Batched'
  BY <1>9, AbortKeeps
<1>10. ASSUME NEW t \in Thread,
              \/ ReadHead(t) \/ NextBlock(t) \/ DropRange(t)
              \/ \E start \in 0..(iter[t].end + 1) : iter_blocks(t, start)
       PROVE  Images' /\ Batched'
  BY <1>10, UntouchedKeeps
  DEF ReadHead, NextBlock, DropRange, iter_blocks, Untouched
<1>11. CASE UNCHANGED vars
  BY <1>11, UntouchedKeeps DEF vars, Untouched
<1> QED
  BY <1>1, <1>2, <1>3, <1>4, <1>5, <1>6, <1>7, <1>8, <1>9, <1>10, <1>11
  DEF Next, ForkedHistory, NonContiguous, Refused, DatabaseError, Writing

-----------------------------------------------------------------------------
(* The images stay whole and the batches accounted for in every behaviour. *)
THEOREM StoreInvariant == Spec => []StoreInv
<1>1. Init => Images /\ Batched
  BY DEF Init, Images, Batched, EmptyImage, EmptyTable, NoCall, Call, None, Some
<1>2. TypeOK /\ Images /\ Batched /\ [Next]_vars => Images' /\ Batched'
  BY StepKeeps
<1> QED
  BY <1>1, <1>2, TypeCorrect, PTL DEF Spec, StoreInv

(* Wherever the process dies, and whatever was appended before, the checks *)
(* open makes of a chain hold of the committed image (open, check_         *)
(* consistency): a chain once created can be opened again.                 *)
THEOREM AlwaysOpenable == Spec => []Openable
<1>1. StoreInv => Openable
  BY DEF StoreInv, Images, ImageOK, Openable
<1> QED
  BY <1>1, StoreInvariant, PTL

(* What append_blocks reported as appended or already present is on the    *)
(* chain, however its blocks were spread over batches, and stays there     *)
(* through later batches, refusals, database errors and crashes.           *)
THEOREM NothingAcknowledgedIsLost == Spec => []Acknowledged
<1>1. StoreInv => Acknowledged
  <2> SUFFICES ASSUME StoreInv, NEW t \in Thread, call[t].result = "ok",
                      NEW i \in DOMAIN call[t].batch
               PROVE  LET b == call[t].batch[i]
                      IN  get_block(db, b.header.height) = Found(b)
    BY DEF Acknowledged
  <2>1. call[t].batch \in Seq(Block)
    <3>1. call[t].batch \in {<< >>} \cup Batches
      BY DEF StoreInv, TypeOK
    <3> QED
      BY <3>1, BatchIsSeq
  <2>2. Present(db, call[t].batch[i])
    BY <2>1 DEF StoreInv, Batched, AllPresent
  <2> QED
    BY <2>2 DEF Present, get_block
<1> QED
  BY <1>1, StoreInvariant, PTL

(* No step of any thread, and no crash, changes or drops a committed block *)
(* (append_blocks: "different is a rewrite of history and is refused").    *)
THEOREM HistoryNeverChanges == Spec => HistoryImmutable
<1>1. StoreInv /\ [Next]_vars => [Extends(db', db)]_vars
  <2> SUFFICES ASSUME StoreInv, [Next]_vars PROVE Extends(db', db)
    OBVIOUS
  <2>1. CASE db' = db
    BY <2>1 DEF Extends
  <2>2. CASE WriteGenesis
    BY <2>2 DEF WriteGenesis, StoreInv, TypeOK, Images, Extends
  <2>3. ASSUME NEW t \in Thread, Commit(t) PROVE Extends(db', db)
    BY <2>3 DEF Commit, StoreInv, Images, None, Some
  <2> QED
    BY <2>1, <2>2, <2>3
    DEF Next, vars, InitGenesis, Open, Close, Crash, disk, BeginAppend,
        AlreadyPresent, ForkedHistory, NonContiguous, Refused, InsertBlock,
        DatabaseError, Abort, ReadHead, iter_blocks, NextBlock, DropRange
<1>2. StoreInv /\ [Next]_vars =>
        [\A h \in DOMAIN db.blocks :
            /\ h \in DOMAIN db'.blocks
            /\ db'.blocks[h] = db.blocks[h]]_vars
  BY <1>1 DEF Extends
<1> QED
  BY <1>2, StoreInvariant, PTL DEF Spec, HistoryImmutable

-----------------------------------------------------------------------------
(* The rules of check_block, one by one, where none of them reports.       *)
Unobjectionable(network, previous, committed, block) ==
    LET header == block.header
        txs == block.transactions
    IN  /\ header.version = HEADER_VERSION
        /\ header.network_id = network
        /\ check_linkage(previous, header) = {}
        /\ header.tx_count = Len(txs)
        /\ header.tx_root = compute_root(txs)
        /\ \A i \in DOMAIN txs : txs[i].id = compute_id(txs[i]) /\ txs[i].signed
        /\ \A i, j \in DOMAIN txs : ~(i < j /\ txs[i].id = txs[j].id)
        /\ TxIds(txs) \cap committed = {}

(* A block has no finding exactly when nothing can be objected to it.      *)
LEMMA NoFindings ==
    ASSUME NEW network, NEW previous, NEW committed, NEW block
    PROVE  check_block(network, previous, None, committed, block) = {}
             <=> Unobjectionable(network, previous, committed, block)
<1>1. check_transactions(committed, block) = {} <=>
        LET txs == block.transactions
        IN  /\ \A i \in DOMAIN txs : txs[i].id = compute_id(txs[i]) /\ txs[i].signed
            /\ \A i, j \in DOMAIN txs : ~(i < j /\ txs[i].id = txs[j].id)
            /\ TxIds(txs) \cap committed = {}
  BY DEF check_transactions, When
<1>2. check_transaction_commitments(block) = {} <=>
        /\ block.header.tx_count = Len(block.transactions)
        /\ block.header.tx_root = compute_root(block.transactions)
  BY DEF check_transaction_commitments, When
<1>3. When(\E h \in None : h # HashOf(block), "BlockHashMismatch") = {}
  BY DEF None, When
<1> QED
  BY <1>1, <1>2, <1>3 DEF check_block, Unobjectionable, When

(* A child nothing is found against names the header before it.            *)
LEMMA LinkedChild ==
    ASSUME NEW previous, NEW header, check_linkage(Some(previous), header) = {}
    PROVE  /\ header.height = previous.height + 1
           /\ header.previous_hash = block_hash(previous)
<1>1. child_linkage(previous, header) = {}
  BY DEF check_linkage, Some, None
<1> QED
  BY <1>1 DEF child_linkage, When

(* Looking a block up by its own hash finds nothing more.                  *)
LEMMA ExpectedHash ==
    ASSUME NEW network, NEW previous, NEW committed, NEW block,
           check_block(network, previous, None, committed, block) = {}
    PROVE  check_block(network, previous, Some(HashOf(block)), committed, block) = {}
<1>1. When(\E h \in Some(HashOf(block)) : h # HashOf(block), "BlockHashMismatch") = {}
  BY DEF Some, When
<1> QED
  BY <1>1 DEF check_block

-----------------------------------------------------------------------------
(* The transactions of one block: where its ids are, and how many.         *)
DistinctIds(txs) == \A i, j \in DOMAIN txs : ~(i < j /\ txs[i].id = txs[j].id)

(* In a block of distinct ids every transaction is found at its own place, *)
(* and there are as many ids as transactions.                              *)
LEMMA IdsOfBlock ==
    ASSUME NEW txs \in Seq(Transaction), DistinctIds(txs)
    PROVE  /\ \A i \in DOMAIN txs : IndexIn(txs, txs[i].id) = i - 1
           /\ IsFiniteSet(TxIds(txs))
           /\ Cardinality(TxIds(txs)) = Len(txs)
<1>1. Len(txs) \in Nat /\ DOMAIN txs = 1..Len(txs)
  OBVIOUS
<1>2. \A i, j \in DOMAIN txs : txs[i].id = txs[j].id => i = j
  BY <1>1 DEF DistinctIds
<1>3. ASSUME NEW i \in DOMAIN txs PROVE IndexIn(txs, txs[i].id) = i - 1
  <2> DEFINE Last(k) == /\ txs[k].id = txs[i].id
                        /\ \A j \in DOMAIN txs : txs[j].id = txs[i].id => j <= k
  <2>1. Last(i)
    BY <1>1, <1>2
  <2>2. \A k \in DOMAIN txs : Last(k) => k = i
    BY <1>2
  <2>3. (CHOOSE k \in DOMAIN txs : Last(k)) = i
    <3> HIDE DEF Last
    <3> QED
      BY <2>1, <2>2
  <2> QED
    BY <2>3 DEF IndexIn
<1>4. IsFiniteSet(TxIds(txs)) /\ Cardinality(TxIds(txs)) = Len(txs)
  <2> DEFINE f == [i \in 1..Len(txs) |-> txs[i].id]
  <2>1. f \in Bijection(1..Len(txs), TxIds(txs))
    BY <1>1, <1>2 DEF TxIds, Bijection, Injection, Surjection, IsInjective
  <2>2. IsFiniteSet(1..Len(txs)) /\ Cardinality(1..Len(txs)) = Len(txs)
    BY <1>1, FS_Interval, SMTT(30)
  <2>3. ExistsBijection(1..Len(txs), TxIds(txs))
    BY <2>1 DEF ExistsBijection
  <2> QED
    BY <2>2, <2>3, FS_Bijection
<1> QED
  BY <1>3, <1>4

(* The first n heights of an image: its blocks stand where they say they   *)
(* do, and the indexes and the count say what the block table says.        *)
IndexedTo(image, n) ==
    /\ DOMAIN image.blocks = 0..(n - 1)
    /\ \A h \in 0..(n - 1) :
          image.blocks[h] \in AnyBlock /\ image.blocks[h].header.height = h
    /\ DOMAIN image.height_by_hash = {HashOf(image.blocks[h]) : h \in 0..(n - 1)}
    /\ \A h \in 0..(n - 1) : image.height_by_hash[HashOf(image.blocks[h])] = h
    /\ DOMAIN image.tx_location = IdsBelow(image, n)
    /\ \A h \in 0..(n - 1) : \A i \in DOMAIN image.blocks[h].transactions :
          image.tx_location[image.blocks[h].transactions[i].id]
              = [height |-> h, index |-> i - 1]
    /\ IsFiniteSet(DOMAIN image.tx_location)
    /\ image.transaction_count = Cardinality(DOMAIN image.tx_location)

(* Each of them is unobjectionable after those before it.                  *)
ParentOf(image, height) ==
    IF height = GENESIS THEN None ELSE Some(image.blocks[height - 1].header)

JudgedTo(image, n) ==
    \A h \in 0..(n - 1) :
        Unobjectionable(image.network_id, ParentOf(image, h), IdsBelow(image, h),
                        image.blocks[h])

(* Inserting a block that nothing is found against keeps both.             *)
LEMMA InsertIndexed ==
    ASSUME NEW n \in Nat, NEW image, IndexedTo(image, n), JudgedTo(image, n),
           NEW block \in AnyBlock, block.header.height = n,
           Unobjectionable(image.network_id, ParentOf(image, n),
                           DOMAIN image.tx_location, block)
    PROVE  /\ IndexedTo(insert_block(image, block), n + 1)
           /\ JudgedTo(insert_block(image, block), n + 1)
<1> DEFINE new == insert_block(image, block)
           txs == block.transactions
<1>1. /\ txs \in Seq(Transaction)
      /\ DistinctIds(txs)
      /\ TxIds(txs) \cap DOMAIN image.tx_location = {}
  BY BlockAssumption DEF AnyBlock, Unobjectionable, DistinctIds
<1>2. /\ \A i \in DOMAIN txs : IndexIn(txs, txs[i].id) = i - 1
      /\ IsFiniteSet(TxIds(txs)) /\ Cardinality(TxIds(txs)) = Len(txs)
  BY <1>1, IdsOfBlock
<1>3. /\ new.blocks = Insert(image.blocks, n, block)
      /\ new.height_by_hash = Insert(image.height_by_hash, HashOf(block), n)
      /\ new.tx_location = InsertLocations(image.tx_location, block)
      /\ new.transaction_count = image.transaction_count + Len(txs)
      /\ new.network_id = image.network_id
  BY DEF insert_block
<1>4. 0..n = (0..(n - 1)) \cup {n} /\ n \notin 0..(n - 1) /\ (n + 1) - 1 = n
  OBVIOUS
<1>5. /\ DOMAIN new.blocks = 0..n
      /\ new.blocks[n] = block
      /\ \A h \in 0..(n - 1) : new.blocks[h] = image.blocks[h]
  BY <1>3, <1>4 DEF Insert, IndexedTo
<1>6. \A h \in 0..n : new.blocks[h] \in AnyBlock /\ new.blocks[h].header.height = h
  BY <1>4, <1>5 DEF IndexedTo
<1>7. \A g, h \in 0..n : HashOf(new.blocks[g]) = HashOf(new.blocks[h]) => g = h
  BY <1>6 DEF HashOf, block_hash
<1>8. DOMAIN new.height_by_hash = {HashOf(new.blocks[h]) : h \in 0..n}
  <2>1. DOMAIN new.height_by_hash = DOMAIN image.height_by_hash \cup {HashOf(block)}
    BY <1>3 DEF Insert
  <2>2. DOMAIN image.height_by_hash = {HashOf(image.blocks[h]) : h \in 0..(n - 1)}
    BY DEF IndexedTo
  <2> HIDE DEF new
  <2>3. \A h \in 0..(n - 1) : HashOf(new.blocks[h]) = HashOf(image.blocks[h])
    BY <1>5
  <2>4. {HashOf(image.blocks[h]) : h \in 0..(n - 1)} = {HashOf(new.blocks[h]) : h \in 0..(n - 1)}
    BY <2>3
  <2>5. {HashOf(new.blocks[h]) : h \in 0..n}
          = {HashOf(new.blocks[h]) : h \in 0..(n - 1)} \cup {HashOf(block)}
    BY <1>4, <1>5
  <2> QED
    BY <2>1, <2>2, <2>4, <2>5
<1>9. \A h \in 0..n : new.height_by_hash[HashOf(new.blocks[h])] = h
  <2> SUFFICES ASSUME NEW h \in 0..n
               PROVE  new.height_by_hash[HashOf(new.blocks[h])] = h
    OBVIOUS
  <2>1. HashOf(new.blocks[h]) \in DOMAIN new.height_by_hash
    BY <1>8
  <2>2. CASE h = n
    BY <2>1, <2>2, <1>3, <1>5 DEF Insert
  <2>3. CASE h # n
    <3>1. h \in 0..(n - 1) /\ HashOf(new.blocks[h]) # HashOf(block)
      BY <2>3, <1>4, <1>5, <1>7
    <3>2. /\ HashOf(image.blocks[h]) \in DOMAIN image.height_by_hash
          /\ image.height_by_hash[HashOf(image.blocks[h])] = h
      BY <3>1 DEF IndexedTo
    <3> QED
      BY <3>1, <3>2, <1>3, <1>5 DEF Insert
  <2> QED
    BY <2>2, <2>3
<1>10. \A m \in 0..n : IdsBelow(new, m) = IdsBelow(image, m)
  <2> SUFFICES ASSUME NEW m \in 0..n PROVE IdsBelow(new, m) = IdsBelow(image, m)
    OBVIOUS
  <2>1. \A h \in 0..(m - 1) : new.blocks[h] = image.blocks[h]
    BY <1>5
  <2> QED
    BY <2>1 DEF IdsBelow
<1>11. IdsBelow(new, n + 1) = IdsBelow(image, n) \cup TxIds(txs)
  BY <1>4, <1>5 DEF IdsBelow
<1>12. DOMAIN new.tx_location = DOMAIN image.tx_location \cup TxIds(txs)
  BY <1>3 DEF InsertLocations
<1>13. ASSUME NEW h \in 0..n, NEW i \in DOMAIN new.blocks[h].transactions
       PROVE  new.tx_location[new.blocks[h].transactions[i].id]
                = [height |-> h, index |-> i - 1]
  <2> DEFINE id == new.blocks[h].transactions[i].id
  <2>1. CASE h = n
    <3>1. id = txs[i].id /\ i \in DOMAIN txs /\ id \in TxIds(txs)
      BY <2>1, <1>5, <1>13 DEF TxIds
    <3> QED
      BY <3>1, <2>1, <1>2, <1>3 DEF InsertLocations
  <2>2. CASE h # n
    <3>1. h \in 0..(n - 1) /\ new.blocks[h] = image.blocks[h]
      BY <2>2, <1>4, <1>5
    <3>2. id \in DOMAIN image.tx_location
      <4>1. id \in TxIds(image.blocks[h].transactions)
        BY <3>1, <1>13 DEF TxIds
      <4>2. id \in IdsBelow(image, n)
        BY <3>1, <4>1 DEF IdsBelow
      <4> QED
        BY <4>2 DEF IndexedTo
    <3>3. id \notin TxIds(txs)
      BY <3>2, <1>1
    <3>4. new.tx_location[id] = image.tx_location[id]
      BY <3>2, <3>3, <1>3 DEF InsertLocations
    <3>5. image.tx_location[image.blocks[h].transactions[i].id] = [height |-> h, index |-> i - 1]
      <4>1. i \in DOMAIN image.blocks[h].transactions
        BY <3>1, <1>13
      <4> QED
        BY <3>1, <4>1 DEF IndexedTo
    <3> HIDE DEF new
    <3> QED
      BY <3>1, <3>4, <3>5
  <2> QED
    BY <2>1, <2>2
<1>14. /\ IsFiniteSet(DOMAIN new.tx_location)
       /\ new.transaction_count = Cardinality(DOMAIN new.tx_location)
  <2>1. IsFiniteSet(DOMAIN image.tx_location)
    BY DEF IndexedTo
  <2>2. Cardinality(DOMAIN image.tx_location \cap TxIds(txs)) = 0
    BY <1>1, FS_EmptySet
  <2>3. /\ Cardinality(DOMAIN image.tx_location) \in Nat
        /\ Cardinality(TxIds(txs)) \in Nat
    BY <2>1, <1>2, FS_CardinalityType
  <2>4. /\ IsFiniteSet(DOMAIN image.tx_location \cup TxIds(txs))
        /\ Cardinality(DOMAIN image.tx_location \cup TxIds(txs))
             = Cardinality(DOMAIN image.tx_location) + Cardinality(TxIds(txs))
                 - Cardinality(DOMAIN image.tx_location \cap TxIds(txs))
    BY <2>1, <1>2, FS_Union
  <2>5. image.transaction_count = Cardinality(DOMAIN image.tx_location)
    BY DEF IndexedTo
  <2> HIDE DEF new
  <2> QED
    BY <2>2, <2>3, <2>4, <2>5, <1>2, <1>3, <1>12
<1>15. IndexedTo(new, n + 1)
  <2> HIDE DEF new
  <2> QED
    BY <1>4, <1>5, <1>6, <1>8, <1>9, <1>11, <1>12, <1>13, <1>14 DEF IndexedTo
<1>16. JudgedTo(new, n + 1)
  <2> SUFFICES ASSUME NEW h \in 0..n
               PROVE  Unobjectionable(new.network_id, ParentOf(new, h),
                                      IdsBelow(new, h), new.blocks[h])
    BY <1>4 DEF JudgedTo
  <2>1. ParentOf(new, h) = ParentOf(image, h)
    <3>1. CASE h = GENESIS
      BY <3>1 DEF ParentOf
    <3>2. CASE h # GENESIS
      <4>1. h - 1 \in 0..(n - 1)
        BY <3>2 DEF GENESIS
      <4> QED
        BY <4>1, <1>5 DEF ParentOf
    <3> QED
      BY <3>1, <3>2
  <2>2. CASE h = n
    BY <2>1, <2>2, <1>3, <1>5, <1>10 DEF IndexedTo
  <2>3. CASE h # n
    BY <2>1, <2>3, <1>3, <1>4, <1>5, <1>10 DEF JudgedTo
  <2> QED
    BY <2>2, <2>3
<1> QED
  BY <1>15, <1>16

-----------------------------------------------------------------------------
(* Every image, committed or in the making, is indexed and judged to its   *)
(* head, and what append_blocks keeps beside the one in the making - the   *)
(* ids it inserted, the header it inserted last - is true of it.           *)
SoundImage(image) ==
    /\ IndexedTo(image, image.head.height + 1)
    /\ JudgedTo(image, image.head.height + 1)

SoundImages ==
    /\ file = "chain" => SoundImage(db)
    /\ writer # None =>
          /\ SoundImage(work)
          /\ pending \subseteq DOMAIN work.tx_location
          /\ parent # None => parent = Some(work.blocks[work.head.height].header)

(* The genesis block write_genesis accepts (the rules with no parent).     *)
LEMMA GenesisSound ==
    ASSUME NEW g \in Genesis,
           check_block(g.header.network_id, None, None, {}, g) = {}
    PROVE  SoundImage(GenesisImage(g))
<1> DEFINE base == [EmptyImage EXCEPT !.network_id = g.header.network_id,
                                      !.genesis_hash = HashOf(g)]
<1>1. /\ base.network_id = g.header.network_id
      /\ base.blocks = EmptyTable
      /\ base.height_by_hash = EmptyTable
      /\ base.tx_location = EmptyTable
      /\ base.transaction_count = 0
  BY DEF EmptyImage
<1>2. DOMAIN EmptyTable = {} /\ 0..(0 - 1) = {}
  BY DEF EmptyTable
<1>3. IsFiniteSet({}) /\ Cardinality({}) = 0
  BY FS_EmptySet
<1> HIDE DEF base
<1>4. IndexedTo(base, 0) /\ JudgedTo(base, 0)
  BY <1>1, <1>2, <1>3 DEF IndexedTo, JudgedTo, IdsBelow
<1>5. g \in AnyBlock /\ g.header.height = 0
  BY BlockAssumption DEF AnyBlock, GENESIS
<1>6. Unobjectionable(base.network_id, ParentOf(base, 0), DOMAIN base.tx_location, g)
  BY <1>1, <1>2, NoFindings DEF ParentOf, GENESIS
<1>7. /\ IndexedTo(insert_block(base, g), 0 + 1)
      /\ JudgedTo(insert_block(base, g), 0 + 1)
  BY <1>4, <1>5, <1>6, InsertIndexed
<1>8. insert_block(base, g).head.height = 0
  BY <1>5 DEF insert_block
<1> QED
  BY <1>7, <1>8 DEF SoundImage, GenesisImage, base

(* The block insert_block is called on after the rules of append_blocks.   *)
LEMMA InsertSound ==
    ASSUME TypeOK, Images, SoundImages, NEW t \in Thread, InsertBlock(t)
    PROVE  /\ SoundImage(work')
           /\ pending' \subseteq DOMAIN work'.tx_location
           /\ parent' = Some(work'.blocks[work'.head.height].header)
<1> DEFINE block == Head(todo)
           n == work.head.height + 1
<1>1. /\ work' = insert_block(work, block)
      /\ pending' = pending \cup TxIds(block.transactions)
      /\ parent' = Some(block.header)
      /\ block.header.height = n
      /\ writer # None
  BY DEF InsertBlock, offered, Writing, None, Some
<1>2. work.head.height \in Nat /\ n \in Nat
  BY <1>1 DEF Images, ImageOK
<1>3. SoundImage(work) /\ pending \subseteq DOMAIN work.tx_location
  BY <1>1 DEF SoundImages
<1>4. ParentHeader = ParentOf(work, n)
  <2>1. n # GENESIS /\ n - 1 = work.head.height
    BY <1>2 DEF GENESIS
  <2> QED
    BY <1>1, <2>1 DEF ParentHeader, ParentOf, SoundImages
<1>5. Committed(work, pending) = DOMAIN work.tx_location
  BY <1>3 DEF Committed
<1>6. Unobjectionable(work.network_id, ParentOf(work, n), DOMAIN work.tx_location, block)
  BY <1>4, <1>5, NoFindings DEF InsertBlock, Findings, offered
<1>7. block \in AnyBlock
  BY DEF InsertBlock, Writing, TypeOK, AnyBlock
<1>8. IndexedTo(work', n + 1) /\ JudgedTo(work', n + 1)
  BY <1>1, <1>2, <1>3, <1>6, <1>7, InsertIndexed DEF SoundImage
<1>9. /\ work'.head.height = n
      /\ work'.blocks[n] = block
      /\ DOMAIN work'.tx_location = DOMAIN work.tx_location \cup TxIds(block.transactions)
  BY <1>1 DEF insert_block, Insert, InsertLocations
<1> QED
  BY <1>1, <1>3, <1>8, <1>9 DEF SoundImage

(* Every step leaves a chain of valid blocks, on disk, in memory and in    *)
(* the batch being written.                                                *)
LEMMA StepKeepsSound ==
    ASSUME StoreInv, SoundImages, [Next]_vars
    PROVE  SoundImages'
<1> USE DEF SoundImages
<1>1. ASSUME NEW g \in Genesis, InitGenesis(g) PROVE SoundImages'
  BY <1>1 DEF InitGenesis
<1>2. CASE WriteGenesis
  <2>1. PICK g \in Genesis : todo = <<g>> /\ todo[1] = g
    BY <1>2 DEF WriteGenesis, StoreInv, TypeOK
  <2>2. writer' = None
    BY <1>2 DEF WriteGenesis, StoreInv, TypeOK, None
  <2>3. CASE UNCHANGED <<db, file>>
    BY <2>2, <2>3
  <2>4. CASE /\ check_block(g.header.network_id, None, None, {}, g) = {}
             /\ db' = GenesisImage(g)
    BY <2>2, <2>4, GenesisSound
  <2> QED
    BY <1>2, <2>1, <2>3, <2>4 DEF WriteGenesis
<1>3. CASE Open \/ Close
  BY <1>3 DEF Open, Close
<1>4. CASE Crash
  BY <1>4 DEF Crash, disk
<1>5. ASSUME NEW t \in Thread, NEW batch \in Batches, BeginAppend(t, batch)
      PROVE  SoundImages'
  BY <1>5 DEF BeginAppend, StoreInv, TypeOK
<1>6. ASSUME NEW t \in Thread, AlreadyPresent(t) PROVE SoundImages'
  BY <1>6 DEF AlreadyPresent
<1>7. ASSUME NEW t \in Thread, InsertBlock(t) PROVE SoundImages'
  <2>1. UNCHANGED <<file, db>>
    BY <1>7 DEF InsertBlock
  <2> QED
    BY <1>7, <2>1, InsertSound DEF StoreInv
<1>8. ASSUME NEW t \in Thread, Commit(t) PROVE SoundImages'
  <2>1. db' = work /\ writer' = None /\ writer # None
    BY <1>8 DEF Commit, Release, None, Some
  <2> QED
    BY <2>1
<1>9. ASSUME NEW t \in Thread, Abort(t) PROVE SoundImages'
  BY <1>9 DEF Abort, Release
<1>10. ASSUME NEW t \in Thread,
              \/ ReadHead(t) \/ NextBlock(t) \/ DropRange(t)
              \/ \E start \in 0..(iter[t].end + 1) : iter_blocks(t, start)
       PROVE  SoundImages'
  BY <1>10 DEF ReadHead, NextBlock, DropRange, iter_blocks
<1>11. CASE UNCHANGED vars
  BY <1>11 DEF vars
<1> QED
  BY <1>1, <1>2, <1>3, <1>4, <1>5, <1>6, <1>7, <1>8, <1>9, <1>10, <1>11
  DEF Next, ForkedHistory, NonContiguous, Refused, DatabaseError

(* The indexes and the judgement hold of every committed image.            *)
THEOREM AlwaysSound == Spec => [](StoreInv /\ SoundImages)
<1>1. Init => SoundImages
  BY DEF Init, SoundImages
<1>2. StoreInv /\ SoundImages /\ [Next]_vars => SoundImages'
  BY StepKeepsSound
<1> QED
  BY <1>1, <1>2, StoreInvariant, PTL DEF Spec

(* The indexes answer what the block table says, for every block and       *)
(* transaction ever committed, and the count kept across batches is the    *)
(* number of transactions (insert_block, append_blocks).                   *)
THEOREM IndexesNeverDisagree == Spec => []LookupsAgree
<1>1. StoreInv /\ SoundImages => LookupsAgree
  <2> SUFFICES ASSUME StoreInv, SoundImages, file = "chain" PROVE LookupsAgree
    BY DEF LookupsAgree
  <2> DEFINE top == db.head.height
  <2>1. /\ top \in Nat /\ (top + 1) - 1 = top
        /\ IndexedTo(db, top + 1)
    BY DEF StoreInv, Images, ImageOK, SoundImages, SoundImage
  <2> HIDE DEF top
  <2>2. /\ DOMAIN db.blocks = 0..top
        /\ \A h \in 0..top : db.blocks[h] \in AnyBlock
        /\ DOMAIN db.height_by_hash = {HashOf(db.blocks[h]) : h \in 0..top}
        /\ \A h \in 0..top : db.height_by_hash[HashOf(db.blocks[h])] = h
        /\ DOMAIN db.tx_location = IdsBelow(db, top + 1)
        /\ \A h \in 0..top : \A i \in DOMAIN db.blocks[h].transactions :
              db.tx_location[db.blocks[h].transactions[i].id]
                  = [height |-> h, index |-> i - 1]
        /\ db.transaction_count = Cardinality(DOMAIN db.tx_location)
    BY <2>1 DEF IndexedTo
  <2>3. ASSUME NEW h \in 0..top
        PROVE  /\ get_block(db, h) # NotFound
               /\ get_block_by_hash(db, HashOf(db.blocks[h])) = Found(db.blocks[h])
    BY <2>2 DEF get_block, get_block_by_hash, Found, NotFound
  <2>4. ASSUME NEW h \in 0..top, NEW i \in DOMAIN db.blocks[h].transactions
        PROVE  get_transaction(db, db.blocks[h].transactions[i].id)
                 = Found([height |-> h, index |-> i - 1])
    <3> DEFINE id == db.blocks[h].transactions[i].id
    <3>1. db.blocks[h].transactions \in Seq(Transaction) /\ i \in Nat
      BY <2>2, BlockAssumption DEF AnyBlock
    <3>2. id \in DOMAIN db.tx_location
      <4>1. id \in TxIds(db.blocks[h].transactions)
        BY DEF TxIds
      <4> QED
        BY <4>1, <2>1, <2>2 DEF IdsBelow
    <3>3. db.tx_location[id] = [height |-> h, index |-> i - 1]
      BY <2>2
    <3>4. (i - 1) + 1 = i
      BY <3>1
    <3> HIDE DEF id
    <3>5. db.blocks[h].transactions[i].id = id
      BY DEF id
    <3> DEFINE location == db.tx_location[id]
    <3>6. location.height = h /\ location.index + 1 = i
      BY <3>3, <3>4
    <3>7. /\ location.height \in DOMAIN db.blocks
          /\ location.index + 1 \in DOMAIN db.blocks[location.height].transactions
          /\ db.blocks[location.height].transactions[location.index + 1].id = id
      BY <2>2, <3>5, <3>6
    <3>8. get_transaction(db, id) = Found(location)
      BY <3>2, <3>7 DEF get_transaction
    <3> HIDE DEF location
    <3>9. location = [height |-> h, index |-> i - 1]
      BY <3>3 DEF location
    <3> QED
      BY <3>8, <3>9 DEF id
  <2>5. ASSUME NEW hash \in DOMAIN db.height_by_hash
        PROVE  get_block_by_hash(db, hash) # Inconsistent
    BY <2>2, <2>3 DEF Found, Inconsistent
  <2>6. ASSUME NEW id \in DOMAIN db.tx_location
        PROVE  get_transaction(db, id) # Inconsistent
    <3>1. PICK h \in 0..top : id \in TxIds(db.blocks[h].transactions)
      BY <2>1, <2>2 DEF IdsBelow
    <3>2. PICK i \in DOMAIN db.blocks[h].transactions :
              id = db.blocks[h].transactions[i].id
      BY <3>1 DEF TxIds
    <3>3. get_transaction(db, id) = Found([height |-> h, index |-> i - 1])
      BY <2>4, <3>2
    <3> QED
      BY <3>3 DEF Found, Inconsistent
  <2> QED
    BY <2>2, <2>3, <2>4, <2>5, <2>6 DEF LookupsAgree, Heights, top
<1> QED
  BY <1>1, AlwaysSound, PTL

(* Judged inside a batch against a cached header and pending ids, every    *)
(* committed block passes the rules against the chain it ended up on       *)
(* (append_blocks, check_block).                                           *)
THEOREM CommittedBlocksAreValid == Spec => []ChainValid
<1>1. StoreInv /\ SoundImages => ChainValid
  <2> SUFFICES ASSUME StoreInv, SoundImages, file = "chain", NEW h \in Heights(db)
               PROVE  check_block(db.network_id, ParentOf(db, h),
                                  IF h = db.head.height THEN Some(db.head.hash) ELSE None,
                                  IdsBelow(db, h), db.blocks[h]) = {}
    BY DEF ChainValid, ParentOf
  <2>1. /\ db.head.height \in Nat
        /\ HashOf(db.blocks[db.head.height]) = db.head.hash
    BY DEF StoreInv, Images, ImageOK, check_consistency
  <2>2. h \in 0..((db.head.height + 1) - 1)
    BY <2>1 DEF Heights
  <2>3. Unobjectionable(db.network_id, ParentOf(db, h), IdsBelow(db, h), db.blocks[h])
    BY <2>2 DEF SoundImages, SoundImage, JudgedTo
  <2>4. check_block(db.network_id, ParentOf(db, h), None, IdsBelow(db, h), db.blocks[h]) = {}
    BY <2>3, NoFindings
  <2> QED
    BY <2>1, <2>4, ExpectedHash
<1> QED
  BY <1>1, AlwaysSound, PTL

-----------------------------------------------------------------------------
(* A range in progress: it reads a committed image no shorter than the     *)
(* head it took, has yielded the blocks from its start on in order, and    *)
(* knows what comes next.                                                  *)
RangeOK(r) ==
    /\ r.start \in Nat /\ r.end \in Nat
    /\ r.got \in Seq(AnyBlock)
    /\ r.phase # "failed"
    /\ r.phase # "none" => r.end <= db.head.height
    /\ r.phase = "reading" =>
          /\ \A h \in 0..r.end :
                h \in DOMAIN r.snapshot /\ r.snapshot[h] = db.blocks[h]
          /\ r.start <= r.end + 1
          /\ \/ /\ r.next = Some(r.start + Len(r.got))
                /\ r.start + Len(r.got) <= r.end
             \/ /\ r.next = None
                /\ Len(r.got) = IF r.start <= r.end THEN r.end - r.start + 1 ELSE 0
          /\ \A i \in 1..Len(r.got) : r.got[i] = db.blocks[r.start + i - 1]
    /\ r.phase # "reading" => r.got = << >>

Ranges == \A t \in Thread : RangeOK(iter[t])

(* What only adds to the committed image leaves every range as it was.     *)
LEMMA RangesStay ==
    ASSUME StoreInv, Ranges, Images', iter' = iter,
           \/ db' = db
           \/ file = "chain" /\ file' = "chain" /\ Extends(db', db)
           \/ \A t \in Thread : iter[t].phase = "none"
    PROVE  Ranges'
<1> SUFFICES ASSUME NEW t \in Thread PROVE RangeOK(iter[t])'
  BY DEF Ranges
<1> DEFINE r == iter[t]
<1>1. RangeOK(r) /\ r' = r
  BY DEF Ranges
<1>2. CASE db' = db
  BY <1>1, <1>2 DEF RangeOK
<1>3. CASE file = "chain" /\ file' = "chain" /\ Extends(db', db)
  <2>1. /\ db.head.height \in Nat /\ DOMAIN db.blocks = 0..db.head.height
        /\ db'.head.height \in Nat /\ DOMAIN db'.blocks = 0..db'.head.height
    BY <1>3 DEF StoreInv, Images, ImageOK
  <2>2. \A h \in 0..db.head.height : h \in 0..db'.head.height /\ db'.blocks[h] = db.blocks[h]
    BY <1>3, <2>1 DEF Extends
  <2>3. db.head.height <= db'.head.height
    BY <2>1, <2>2
  <2>4. CASE r.phase # "reading"
    BY <1>1, <2>1, <2>3, <2>4 DEF RangeOK
  <2>5. CASE r.phase = "reading"
    <3>1. /\ r.end \in Nat /\ r.start \in Nat /\ Len(r.got) \in Nat
          /\ r.end <= db.head.height
          /\ r.start + Len(r.got) <= r.end + 1
      BY <1>1, <2>5, SMTT(30) DEF RangeOK, Some, None
    <3>2. \A h \in 0..r.end : db'.blocks[h] = db.blocks[h]
      BY <3>1, <2>1, <2>2
    <3>3. \A i \in 1..Len(r.got) : r.start + i - 1 \in 0..r.end
      <4> DEFINE n == Len(r.got)
                 s == r.start
                 e == r.end
      <4>1. n \in Nat /\ s \in Nat /\ e \in Nat /\ s + n <= e + 1
        BY <3>1
      <4> HIDE DEF n, s, e
      <4>2. \A i \in 1..n : s + i - 1 \in 0..e
        BY <4>1
      <4> QED
        BY <4>2 DEF n, s, e
    <3>4. r.end <= db'.head.height
      BY <3>1, <2>1, <2>3
    <3> QED
      BY <1>1, <2>5, <3>2, <3>3, <3>4 DEF RangeOK
  <2> QED
    BY <2>4, <2>5
<1>4. CASE \A u \in Thread : iter[u].phase = "none"
  BY <1>1, <1>4 DEF RangeOK
<1> QED
  BY <1>2, <1>3, <1>4

(* A step that touches one thread's range leaves the others good.          *)
LEMMA OneRangeMoves ==
    ASSUME Ranges, db' = db, NEW t \in Thread, RangeOK(iter[t])',
           \A u \in Thread \ {t} : iter'[u] = iter[u]
    PROVE  Ranges'
<1> SUFFICES ASSUME NEW u \in Thread PROVE RangeOK(iter[u])'
  BY DEF Ranges
<1>1. CASE u = t
  BY <1>1
<1>2. CASE u # t
  <2>1. RangeOK(iter[u]) /\ iter'[u] = iter[u]
    BY <1>2 DEF Ranges
  <2> QED
    BY <2>1 DEF RangeOK
<1> QED
  BY <1>1, <1>2

(* The range nobody is reading.                                            *)
LEMMA IdleRange ==
    ASSUME NEW t, iter'[t] = NoIter PROVE RangeOK(iter[t])'
<1>1. << >> \in Seq(AnyBlock)
  OBVIOUS
<1> QED
  BY <1>1 DEF NoIter, BlockRange, RangeOK

(* Every step keeps what a reader was given a range of the chain.          *)
LEMMA StepKeepsRanges ==
    ASSUME StoreInv, SoundImages, Ranges, [Next]_vars, StoreInv'
    PROVE  Ranges'
<1>1. CASE /\ iter' = iter
           /\ \/ db' = db
              \/ file = "chain" /\ file' = "chain" /\ Extends(db', db)
              \/ \A t \in Thread : iter[t].phase = "none"
  BY <1>1, RangesStay DEF StoreInv
<1>2. CASE WriteGenesis
  <2>1. iter' = iter /\ \A t \in Thread : iter[t].phase = "none"
    BY <1>2 DEF WriteGenesis, StoreInv, TypeOK
  <2> QED
    BY <1>1, <2>1
<1>3. ASSUME NEW t \in Thread, Commit(t) PROVE Ranges'
  <2>1. /\ iter' = iter /\ file' = file /\ file = "chain"
        /\ Extends(db', db)
    BY <1>3 DEF Commit, Release, StoreInv, TypeOK, Images, None, Some
  <2> QED
    BY <1>1, <2>1
<1>4. CASE Crash
  <2>1. \A t \in Thread : iter'[t] = NoIter
    BY <1>4 DEF Crash
  <2> QED
    BY <2>1, IdleRange DEF Ranges
<1>5. ASSUME NEW t \in Thread, ReadHead(t) PROVE Ranges'
  <2>1. db.head.height \in Nat
    BY <1>5 DEF ReadHead, StoreInv, TypeOK, Images, ImageOK
  <2>2. /\ db' = db
        /\ iter'[t] = BlockRange("head", EmptyTable, 0, db.head.height, None, << >>)
        /\ \A u \in Thread \ {t} : iter'[u] = iter[u]
    BY <1>5 DEF ReadHead, StoreInv, TypeOK
  <2>3. << >> \in Seq(AnyBlock)
    OBVIOUS
  <2>4. RangeOK(iter[t])'
    BY <2>1, <2>2, <2>3 DEF BlockRange, RangeOK
  <2> QED
    BY <2>2, <2>4, OneRangeMoves
<1>6. ASSUME NEW t \in Thread, NEW start \in 0..(iter[t].end + 1), iter_blocks(t, start)
      PROVE  Ranges'
  <2> DEFINE r == iter[t]
  <2>1. /\ r.phase = "head" /\ r.end \in Nat /\ r.end <= db.head.height
        /\ db' = db
        /\ iter' = [iter EXCEPT ![t] =
              BlockRange("reading", db.blocks, start, r.end,
                         IF start <= r.end THEN Some(start) ELSE None, << >>)]
    BY <1>6 DEF iter_blocks, Ranges, RangeOK
  <2>2. /\ db.head.height \in Nat /\ DOMAIN db.blocks = 0..db.head.height
    BY <2>1 DEF StoreInv, TypeOK, Images, ImageOK
  <2>3. start \in Nat /\ start <= r.end + 1
    BY <2>1
  <2>4. iter'[t] = BlockRange("reading", db.blocks, start, r.end,
                              IF start <= r.end THEN Some(start) ELSE None, << >>)
    BY <2>1 DEF StoreInv, TypeOK
  <2>5. RangeOK(iter[t])'
    <3>1. << >> \in Seq(AnyBlock) /\ Len(<< >>) = 0
      OBVIOUS
    <3>2. \A h \in 0..r.end : h \in DOMAIN db.blocks
      BY <2>1, <2>2
    <3> QED
      BY <2>1, <2>3, <2>4, <3>1, <3>2 DEF BlockRange, RangeOK, Some, None
  <2>6. \A u \in Thread \ {t} : iter'[u] = iter[u]
    BY <2>1 DEF StoreInv, TypeOK
  <2> QED
    BY <2>1, <2>5, <2>6, OneRangeMoves
<1>7. ASSUME NEW t \in Thread, NextBlock(t) PROVE Ranges'
  <2> DEFINE r == iter[t]
             k == r.start + Len(r.got)
  <2>1. RangeOK(r) /\ r.phase = "reading" /\ db' = db /\ file' = file
    BY <1>7 DEF NextBlock, Ranges
  <2>2. /\ r.start \in Nat /\ r.end \in Nat /\ r.got \in Seq(AnyBlock)
        /\ Len(r.got) \in Nat /\ k \in Nat
    BY <2>1 DEF RangeOK
  <2>3. r.next = Some(k) /\ k <= r.end
    BY <1>7, <2>1 DEF NextBlock, RangeOK, None
  <2>4. k \in DOMAIN r.snapshot /\ r.snapshot[k] = db.blocks[k]
    BY <2>1, <2>2, <2>3 DEF RangeOK
  <2>5. iter' = [iter EXCEPT ![t] =
           BlockRange("reading", r.snapshot, r.start, r.end,
                      IF k >= r.end THEN None ELSE Some(k + 1),
                      Append(r.got, r.snapshot[k]))]
    <3>1. \A height \in r.next : height = k
      BY <2>3 DEF Some
    <3> HIDE DEF k
    <3> QED
      BY <1>7, <2>4, <3>1 DEF NextBlock
  <2>6. /\ iter'[t] = BlockRange("reading", r.snapshot, r.start, r.end,
                          IF k >= r.end THEN None ELSE Some(k + 1),
                          Append(r.got, r.snapshot[k]))
        /\ \A u \in Thread \ {t} : iter'[u] = iter[u]
    BY <2>5 DEF StoreInv, TypeOK
  <2>7. r.snapshot[k] \in AnyBlock
    <3>1. file = "chain" /\ r.end <= db.head.height /\ db.head.height \in Nat
      BY <2>1 DEF RangeOK, StoreInv, TypeOK, Images, ImageOK
    <3>2. k \in 0..((db.head.height + 1) - 1)
      BY <2>2, <2>3, <3>1
    <3> QED
      BY <2>4, <3>1, <3>2 DEF SoundImages, SoundImage, IndexedTo
  <2>8. /\ Append(r.got, r.snapshot[k]) \in Seq(AnyBlock)
        /\ Len(Append(r.got, r.snapshot[k])) = Len(r.got) + 1
        /\ \A i \in 1..Len(r.got) : Append(r.got, r.snapshot[k])[i] = r.got[i]
        /\ Append(r.got, r.snapshot[k])[Len(r.got) + 1] = r.snapshot[k]
    BY <2>2, <2>7
  <2>9. RangeOK(iter[t])'
    <3> DEFINE got == Append(r.got, r.snapshot[k])
               n == iter'[t]
    <3>1. /\ n.phase = "reading" /\ n.snapshot = r.snapshot /\ n.start = r.start
          /\ n.end = r.end /\ n.got = got
          /\ n.next = IF k >= r.end THEN None ELSE Some(k + 1)
      BY <2>6 DEF BlockRange
    <3>2. \A i \in 1..Len(got) : got[i] = db.blocks[r.start + i - 1]
      <4> SUFFICES ASSUME NEW i \in 1..Len(got) PROVE got[i] = db.blocks[r.start + i - 1]
        OBVIOUS
      <4>1. CASE i = Len(r.got) + 1
        <5>1. r.start + i - 1 = k
          BY <4>1, <2>2
        <5> QED
          BY <5>1, <4>1, <2>4, <2>8
      <4>2. CASE i # Len(r.got) + 1
        <5>1. i \in 1..Len(r.got)
          BY <4>2, <2>2, <2>8
        <5> QED
          BY <5>1, <2>1, <2>8 DEF RangeOK
      <4> QED
        BY <4>1, <4>2
    <3>3. \/ n.next = Some(n.start + Len(got)) /\ n.start + Len(got) <= n.end
          \/ /\ n.next = None
             /\ Len(got) = IF n.start <= n.end THEN n.end - n.start + 1 ELSE 0
      <4>1. CASE k >= r.end
        <5>1. k = r.end /\ r.start <= r.end
          BY <4>1, <2>2, <2>3
        <5>2. Len(got) = r.end - r.start + 1
          BY <5>1, <2>2, <2>8
        <5> QED
          BY <3>1, <4>1, <5>1, <5>2
      <4>2. CASE ~(k >= r.end)
        <5>1. Len(got) = Len(r.got) + 1
          BY <2>8
        <5> HIDE DEF got
        <5>2. k + 1 = r.start + Len(got)
          BY <5>1, <2>2
        <5>3. k + 1 <= r.end
          BY <4>2, <2>2, <2>3
        <5> QED
          BY <3>1, <4>2, <5>2, <5>3
      <4> QED
        BY <4>1, <4>2
    <3> HIDE DEF got, n, k
    <3>4. got \in Seq(AnyBlock) /\ n.got = got
      BY <2>8, <3>1 DEF got
    <3>5. n = iter'[t]
      BY DEF n
    <3> QED
      BY <2>1, <3>1, <3>2, <3>3, <3>4, <3>5 DEF RangeOK
  <2> QED
    BY <2>1, <2>6, <2>9, OneRangeMoves
<1>8. ASSUME NEW t \in Thread, DropRange(t) PROVE Ranges'
  <2>1. /\ db' = db /\ iter'[t] = NoIter
        /\ \A u \in Thread \ {t} : iter'[u] = iter[u]
    BY <1>8 DEF DropRange, StoreInv, TypeOK
  <2> QED
    BY <2>1, IdleRange, OneRangeMoves
<1>9. CASE UNCHANGED vars
  BY <1>1, <1>9 DEF vars
<1> QED
  BY <1>1, <1>2, <1>3, <1>4, <1>5, <1>6, <1>7, <1>8, <1>9
  DEF Next, InitGenesis, Open, Close, BeginAppend, AlreadyPresent, ForkedHistory,
      NonContiguous, Refused, InsertBlock, DatabaseError, Abort, Release

(* A reader that takes the head and then iterates up to it yields a run of *)
(* the committed chain without a gap, although appends run between its two *)
(* snapshots and while it reads (head, iter_blocks, BlockRange::next).     *)
THEOREM RangesReadTheChain == Spec => []RangeIsChain
<1>1. Init => Ranges
  <2> SUFFICES ASSUME Init, NEW t \in Thread PROVE RangeOK(iter[t])
    BY DEF Ranges
  <2>1. iter[t] = NoIter
    BY DEF Init
  <2>2. << >> \in Seq(AnyBlock)
    OBVIOUS
  <2> QED
    BY <2>1, <2>2 DEF RangeOK, NoIter, BlockRange
<1>2. StoreInv /\ SoundImages /\ Ranges /\ [Next]_vars /\ StoreInv' => Ranges'
  BY StepKeepsRanges
<1>3. StoreInv /\ Ranges => RangeIsChain
  <2> SUFFICES ASSUME StoreInv, Ranges, NEW t \in Thread
               PROVE  /\ iter[t].phase # "failed"
                      /\ \A i \in DOMAIN iter[t].got :
                            /\ iter[t].start + i - 1 <= iter[t].end
                            /\ get_block(db, iter[t].start + i - 1) = Found(iter[t].got[i])
                      /\ (iter[t].phase = "reading" /\ iter[t].next = None
                              /\ iter[t].start <= iter[t].end) =>
                            Len(iter[t].got) = iter[t].end - iter[t].start + 1
    BY DEF RangeIsChain
  <2> DEFINE r == iter[t]
  <2>1. RangeOK(r)
    BY DEF Ranges
  <2> HIDE DEF r
  <2>2. CASE r.phase # "reading"
    <3>1. r.got = << >> /\ DOMAIN r.got = {}
      BY <2>1, <2>2 DEF RangeOK
    <3> QED
      BY <2>1, <2>2, <3>1 DEF RangeOK, r
  <2>3. CASE r.phase = "reading"
    <3> DEFINE n == Len(r.got)
    <3>1. /\ file = "chain" /\ db.head.height \in Nat
          /\ DOMAIN db.blocks = 0..db.head.height
      BY <2>3 DEF r, StoreInv, TypeOK, Images, ImageOK
    <3>2. /\ r.start \in Nat /\ r.end \in Nat /\ n \in Nat
          /\ DOMAIN r.got = 1..n
          /\ r.end <= db.head.height /\ r.start + n <= r.end + 1
      BY <2>1, <2>3 DEF RangeOK, None, Some
    <3>3. ASSUME NEW i \in 1..n
          PROVE  /\ r.start + i - 1 <= r.end
                 /\ r.start + i - 1 \in 0..db.head.height
                 /\ r.got[i] = db.blocks[r.start + i - 1]
      <4>1. r.got[i] = db.blocks[r.start + i - 1]
        BY <2>1, <2>3 DEF RangeOK
      <4> HIDE DEF n
      <4>2. r.start + i - 1 <= r.end /\ r.start + i - 1 \in 0..db.head.height
        BY <3>1, <3>2
      <4> QED
        BY <4>1, <4>2
    <3>4. ASSUME r.next = None, r.start <= r.end PROVE n = r.end - r.start + 1
      BY <2>1, <2>3, <3>4 DEF RangeOK, None, Some
    <3> QED
      BY <2>1, <2>3, <3>1, <3>2, <3>3, <3>4 DEF RangeOK, get_block, r
  <2> QED
    BY <2>2, <2>3
<1> QED
  BY <1>1, <1>2, <1>3, AlwaysSound, PTL DEF Spec

-----------------------------------------------------------------------------
(* The store implements the append-only linked ledger.                     *)

View(image) == [i \in 1..(image.head.height + 1) |-> image.blocks[i - 1]]

(* What a sound image holds is a linked chain without repetitions.         *)
LEMMA ViewIsLedger ==
    ASSUME NEW image, ImageOK(image), SoundImage(image)
    PROVE  /\ View(image) \in Seq(AnyBlock)
           /\ Len(View(image)) = image.head.height + 1
           /\ Promise!IsLinked(View(image))
           /\ Promise!NoRepeats(View(image))
<1> DEFINE n == image.head.height + 1
           c == View(image)
<1>1. n \in Nat
  BY DEF ImageOK
<1>2. IndexedTo(image, n) /\ JudgedTo(image, n)
  BY DEF SoundImage
<1> HIDE DEF n
<1>3. /\ \A h \in 0..(n - 1) :
            image.blocks[h] \in AnyBlock /\ image.blocks[h].header.height = h
      /\ \A h \in 0..(n - 1) : \A i \in DOMAIN image.blocks[h].transactions :
            image.tx_location[image.blocks[h].transactions[i].id]
                = [height |-> h, index |-> i - 1]
  BY <1>2 DEF IndexedTo
<1>4. c = [i \in 1..n |-> image.blocks[i - 1]]
  BY DEF View, n
<1>5. \A i \in 1..n : i - 1 \in 0..(n - 1)
  BY <1>1
<1>6. c \in Seq(AnyBlock) /\ Len(c) = n
  BY <1>1, <1>3, <1>4, <1>5
<1> HIDE DEF c
<1>7. \A i \in 1..n : c[i].header.height = i - 1
  BY <1>3, <1>4, <1>5
<1>8. ASSUME NEW i \in 2..n
      PROVE  c[i].header.previous_hash = HashOf(c[i - 1])
  <2>1. /\ i - 1 \in 0..(n - 1) /\ i - 1 # GENESIS
        /\ i \in 1..n /\ i - 1 \in 1..n
    BY <1>1 DEF GENESIS
  <2>2. /\ c[i] = image.blocks[i - 1]
        /\ c[i - 1] = image.blocks[(i - 1) - 1]
    BY <1>4, <2>1
  <2>3. check_linkage(ParentOf(image, i - 1), image.blocks[i - 1].header) = {}
    BY <1>2, <2>1 DEF JudgedTo, Unobjectionable
  <2>4. ParentOf(image, i - 1) = Some(c[i - 1].header)
    BY <2>1, <2>2 DEF ParentOf
  <2> QED
    BY <2>2, <2>3, <2>4, LinkedChild DEF HashOf
<1>9. Promise!IsLinked(c)
  BY <1>6, <1>7, <1>8 DEF Promise!IsLinked, Promise!HashOf, Promise!block_hash,
                          HashOf, block_hash
<1>10. ASSUME NEW i \in 1..n, NEW j \in 1..n,
              NEW id \in TxIds(c[i].transactions) \cap TxIds(c[j].transactions)
       PROVE  i = j
  <2>1. image.tx_location[id].height = i - 1
    <3>1. PICK k \in DOMAIN c[i].transactions : id = c[i].transactions[k].id
      BY <1>10 DEF TxIds
    <3>2. c[i] = image.blocks[i - 1] /\ i - 1 \in 0..(n - 1)
      BY <1>4, <1>5
    <3>3. image.tx_location[id] = [height |-> i - 1, index |-> k - 1]
      BY <3>1, <3>2, <1>3
    <3> QED
      BY <3>3
  <2>2. image.tx_location[id].height = j - 1
    <3>1. PICK k \in DOMAIN c[j].transactions : id = c[j].transactions[k].id
      BY <1>10 DEF TxIds
    <3>2. c[j] = image.blocks[j - 1] /\ j - 1 \in 0..(n - 1)
      BY <1>4, <1>5
    <3>3. image.tx_location[id] = [height |-> j - 1, index |-> k - 1]
      BY <3>1, <3>2, <1>3
    <3> QED
      BY <3>3
  <2> QED
    BY <2>1, <2>2, <1>1
<1>11. Promise!NoRepeats(c)
  BY <1>6, <1>10 DEF Promise!NoRepeats, Promise!TxIds, TxIds
<1> QED
  BY <1>6, <1>9, <1>11 DEF n, c

(* An image that only adds to another is, as a chain, a continuation.      *)
LEMMA ViewGrows ==
    ASSUME NEW base, ImageOK(base), NEW image, ImageOK(image), SoundImage(image),
           Extends(image, base)
    PROVE  \/ View(image) = View(base)
           \/ /\ Len(View(image)) > Len(View(base))
              /\ SubSeq(View(image), 1, Len(View(base))) = View(base)
<1> DEFINE m == base.head.height + 1
           n == image.head.height + 1
<1>1. /\ m \in Nat /\ n \in Nat /\ m >= 1
      /\ DOMAIN base.blocks = 0..(m - 1) /\ DOMAIN image.blocks = 0..(n - 1)
  BY DEF ImageOK
<1>2. /\ View(image) = [i \in 1..n |-> image.blocks[i - 1]]
      /\ View(base) = [i \in 1..m |-> base.blocks[i - 1]]
  BY DEF View
<1> HIDE DEF m, n
<1>3. \A h \in 0..(m - 1) : h \in 0..(n - 1) /\ image.blocks[h] = base.blocks[h]
  BY <1>1 DEF Extends
<1>4. m <= n
  BY <1>1, <1>3
<1>5. \A i \in 1..m : i - 1 \in 0..(m - 1) /\ i \in 1..n
  BY <1>1, <1>4
<1>6. CASE m = n
  BY <1>2, <1>3, <1>5, <1>6
<1>7. CASE m # n
  <2>1. Len(View(image)) = n /\ Len(View(base)) = m
    BY <1>1, <1>2
  <2>2. SubSeq(View(image), 1, m) = [i \in 1..m |-> View(image)[i]]
    BY <1>1
  <2>3. SubSeq(View(image), 1, m) = View(base)
    BY <2>2, <1>2, <1>3, <1>5
  <2> QED
    BY <2>1, <2>3, <1>1, <1>4, <1>7
<1> QED
  BY <1>6, <1>7

(* Each step of the store grows the ledger or leaves it as it was.         *)
LEMMA StepGrows ==
    ASSUME StoreInv, [Next]_vars, StoreInv', SoundImages'
    PROVE  Promise!Grow \/ UNCHANGED chainView
<1>1. CASE \/ file' = file /\ db' = db
           \/ file # "chain" /\ file' # "chain"
  BY <1>1 DEF chainView
<1>2. CASE /\ file # "chain" /\ file' = "chain"
  <2>1. ImageOK(db)' /\ SoundImage(db)'
    BY <1>2 DEF StoreInv, Images, SoundImages
  <2>2. chainView = << >> /\ chainView' = View(db')
    BY <1>2 DEF chainView, View
  <2>3. /\ View(db') \in Seq(AnyBlock) /\ Len(View(db')) = db'.head.height + 1
        /\ Promise!IsLinked(View(db')) /\ Promise!NoRepeats(View(db'))
        /\ db'.head.height \in Nat
    BY <2>1, ViewIsLedger DEF ImageOK
  <2>4. Len(<< >>) = 0 /\ SubSeq(View(db'), 1, 0) = << >>
    BY <2>3
  <2>5. Promise!IsLinked(chainView') /\ Promise!NoRepeats(chainView')
    BY <2>2, <2>3
  <2>6. chainView' \in Seq(Block \cup Genesis)
    BY <2>2, <2>3 DEF AnyBlock
  <2>7. Len(chainView') > Len(chainView)
    BY <2>2, <2>3, <2>4
  <2>8. SubSeq(chainView', 1, Len(chainView)) = chainView
    BY <2>2, <2>4
  <2> QED
    BY <2>5, <2>6, <2>7, <2>8 DEF Promise!Grow
<1>3. ASSUME NEW t \in Thread, Commit(t) PROVE Promise!Grow \/ UNCHANGED chainView
  <2>1. file = "chain" /\ file' = "chain" /\ Extends(db', db)
    BY <1>3 DEF Commit, Release, StoreInv, TypeOK, Images, None, Some
  <2>2. ImageOK(db) /\ ImageOK(db') /\ SoundImage(db')
    BY <2>1 DEF StoreInv, Images, SoundImages
  <2>3. chainView = View(db) /\ chainView' = View(db')
    BY <2>1 DEF chainView, View
  <2>4. /\ View(db') \in Seq(AnyBlock)
        /\ Promise!IsLinked(View(db')) /\ Promise!NoRepeats(View(db'))
    BY <2>2, ViewIsLedger
  <2>5. CASE View(db') = View(db)
    BY <2>3, <2>5
  <2>6. CASE /\ Len(View(db')) > Len(View(db))
             /\ SubSeq(View(db'), 1, Len(View(db))) = View(db)
    BY <2>3, <2>4, <2>6 DEF Promise!Grow, AnyBlock
  <2> QED
    BY <2>2, <2>1, <2>5, <2>6, ViewGrows
<1>4. CASE WriteGenesis
  BY <1>1, <1>2, <1>4 DEF WriteGenesis, StoreInv, TypeOK
<1>5. ASSUME NEW g \in Genesis, InitGenesis(g)
      PROVE  Promise!Grow \/ UNCHANGED chainView
  BY <1>1, <1>5 DEF InitGenesis
<1> QED
  BY <1>1, <1>3, <1>4, <1>5
  DEF Next, vars, Open, Close, Crash, disk, BeginAppend,
      AlreadyPresent, ForkedHistory, NonContiguous, Refused, InsertBlock,
      DatabaseError, Abort, Release, ReadHead, iter_blocks, NextBlock, DropRange

(* The store, with its tables, its write lock, its batches and the crashes *)
(* between any two of its steps, implements the ledger: one sequence that  *)
(* only ever grows at its end, by whole batches, linked and without a      *)
(* transaction occurring twice (append_blocks, init_genesis).              *)
THEOREM StoreImplementsLedger == Spec => ImplementsLedger
<1>1. Init => Promise!Init
  BY DEF Init, chainView, Promise!Init
<1>2. StoreInv /\ SoundImages /\ [Next]_vars /\ StoreInv' /\ SoundImages'
        => [Promise!Next]_chainView
  BY StepGrows DEF Promise!Next
<1> QED
  BY <1>1, <1>2, AlwaysSound, PTL DEF Spec, ImplementsLedger, Promise!Spec

-----------------------------------------------------------------------------

(* A chain as verify_chain meets it: blocks that decode, and a head; no    *)
(* more is assumed of what the file holds.                                 *)
Decodes(block) ==
    /\ block.transactions = [i \in DOMAIN block.transactions |-> block.transactions[i]]
    /\ \A i \in DOMAIN block.transactions :
          LET tx == block.transactions[i]
          IN  tx = [id |-> tx.id, body |-> tx.body, signed |-> tx.signed]

IsSource(image) ==
    /\ image.head.height \in Nat
    /\ \A h \in DOMAIN image.blocks : Decodes(image.blocks[h])

(* Every set of heights that holds one holds a least one. *)
LEMMA LeastHeight ==
    ASSUME NEW S, S \subseteq Nat, S # {}
    PROVE  \E h \in S : \A g \in S : h <= g
  <1> DEFINE R == OpToRel(<, Nat)
  <1>1. IsWellFoundedOn(R, Nat)
    BY NatLessThanWellFounded
  <1>2. \A x, y \in Nat : x < y => <<x, y>> \in R
    BY DEF OpToRel
  <1> HIDE DEF R
  <1>3. PICK m \in S : \A y \in S : ~ (<<y, m>> \in R)
    BY <1>1, WFMin
  <1>4. \A y \in S : m <= y
    <2> SUFFICES ASSUME NEW y \in S PROVE m <= y
      OBVIOUS
    <2>1. ~ (y < m) /\ y \in Nat /\ m \in Nat
      BY <1>2, <1>3
    <2> QED
      BY <2>1
  <1> QED
    BY <1>4

-----------------------------------------------------------------------------
(* What no finding over a range means, height by height.                   *)
Clean(image, from, end) ==
    /\ check_genesis_identity(image) = {}
    /\ from <= end =>
          /\ load_parent(image, from) = {}
          /\ \A h \in from..end : /\ h \in DOMAIN image.blocks
                                  /\ CheckHeight(image, from, h) = {}

(* verify_chain reports nothing exactly when every height of the range     *)
(* holds a block no check objects to.                                      *)
LEMMA NoFindingsAtAll ==
    ASSUME NEW image, NEW from \in Nat, NEW to, RangeEnd(image, to) \in Nat
    PROVE  verify_chain(image, from, to) = {}
              <=> Clean(image, from, RangeEnd(image, to))
  <1> DEFINE end == RangeEnd(image, to)
             unreadable == {h \in from..end : h \notin DOMAIN image.blocks}
             last == IF unreadable = {} THEN end ELSE Least(unreadable) - 1
             orphaned == load_parent(image, from)
             judged == UNION {CheckHeight(image, from, h) : h \in from..last}
             missing == UNION {At(h, {"MissingBlock"}) :
                                  h \in When(unreadable # {}, last + 1)}
             walk == IF from > end THEN {}
                     ELSE IF orphaned # {} THEN orphaned ELSE judged \cup missing
  <1>1. verify_chain(image, from, to) = check_genesis_identity(image) \cup walk
    BY DEF verify_chain
  <1>2. unreadable = {} => missing = {}
    BY DEF When
  <1>3. unreadable # {} => missing # {}
    <2> HIDE DEF unreadable, last
    <2>1. \A h : At(h, {"MissingBlock"}) # {}
      BY DEF At
    <2> QED
      BY <2>1 DEF When
  <1>4. unreadable = {} => (judged = {} <=> \A h \in from..end : CheckHeight(image, from, h) = {})
    <2> SUFFICES ASSUME unreadable = {}
                 PROVE  judged = {} <=> \A h \in from..end : CheckHeight(image, from, h) = {}
      OBVIOUS
    <2>1. last = end
      OBVIOUS
    <2> HIDE DEF last
    <2> QED
      BY <2>1
  <1>5. unreadable = {} <=> \A h \in from..end : h \in DOMAIN image.blocks
    OBVIOUS
  <1>6. from > end <=> ~ (from <= end)
    OBVIOUS
  <1> HIDE DEF judged, missing, unreadable, orphaned, last
  <1>7. walk = {} <=> (from <= end =>
                         /\ orphaned = {}
                         /\ \A h \in from..end : /\ h \in DOMAIN image.blocks
                                                 /\ CheckHeight(image, from, h) = {})
    BY <1>2, <1>3, <1>4, <1>5, <1>6
  <1> HIDE DEF walk
  <1> QED
    BY <1>1, <1>7 DEF Clean, orphaned

-----------------------------------------------------------------------------
(* What no finding at a height means.                                      *)
Before(image, h) == IF h = GENESIS THEN None ELSE Some(image.blocks[h - 1].header)

(* A height is clean exactly when the rules accept its block and the head  *)
(* names it (check_block).                                                 *)
LEMMA NoFindingsAtHeight ==
    ASSUME NEW image, NEW from, NEW h
    PROVE  CheckHeight(image, from, h) = {} <=>
             /\ Unobjectionable(image.network_id, Before(image, h),
                                SeenTransactions(image, from, h), image.blocks[h])
             /\ h = image.head.height => HashOf(image.blocks[h]) = image.head.hash
  <1> DEFINE expected == IF h = image.head.height THEN Some(image.head.hash) ELSE None
             seen == SeenTransactions(image, from, h)
             block == image.blocks[h]
             all == check_block(image.network_id, Before(image, h), expected, seen, block)
  <1>1. CheckHeight(image, from, h) = At(h, all)
    BY DEF CheckHeight, Before
  <1>2. At(h, all) = {} <=> all = {}
    BY DEF At
  <1>3. all = check_block(image.network_id, Before(image, h), None, seen, block)
                \cup When(\E x \in expected : x # HashOf(block), "BlockHashMismatch")
    BY DEF check_block, None, When
  <1>4. When(\E x \in expected : x # HashOf(block), "BlockHashMismatch") = {}
          <=> (h = image.head.height => HashOf(block) = image.head.hash)
    BY DEF When, Some, None
  <1> HIDE DEF all, expected, seen, block
  <1> QED
    BY <1>1, <1>2, <1>3, <1>4, NoFindings DEF seen, block

(* The walk of a whole chain that reports nothing.                         *)
WalksClean(image) ==
    \A h \in 0..image.head.height :
        /\ h \in DOMAIN image.blocks
        /\ Unobjectionable(image.network_id, Before(image, h),
                           SeenTransactions(image, GENESIS, h), image.blocks[h])
        /\ h = image.head.height => HashOf(image.blocks[h]) = image.head.hash

(* A chain verifies whole exactly when its walk is clean.                  *)
LEMMA WholeWalk ==
    ASSUME NEW image, image.head.height \in Nat
    PROVE  verify_chain(image, GENESIS, None) = {}
             <=> check_genesis_identity(image) = {} /\ WalksClean(image)
  <1>1. RangeEnd(image, None) = image.head.height
    BY DEF RangeEnd
  <1>2. GENESIS \in Nat /\ GENESIS = 0 /\ 0 <= image.head.height
    BY DEF GENESIS
  <1>3. verify_chain(image, GENESIS, None) = {}
           <=> Clean(image, GENESIS, image.head.height)
    BY <1>1, <1>2, NoFindingsAtAll
  <1>4. load_parent(image, GENESIS) = {}
    BY DEF load_parent
  <1> QED
    BY <1>2, <1>3, <1>4, NoFindingsAtHeight DEF Clean, WalksClean

(* Along a clean chain every block stands at its height and names the      *)
(* header of the one below.                                                *)
LEMMA CleanIsLinked ==
    ASSUME NEW image, image.head.height \in Nat, WalksClean(image)
    PROVE  \A h \in 0..image.head.height :
              /\ image.blocks[h].header.height = h
              /\ h > 0 => image.blocks[h].header.previous_hash
                             = block_hash(image.blocks[h - 1].header)
  <1> DEFINE H == image.head.height
             header(h) == image.blocks[h].header
             Off0 == {h \in 0..H : header(h).height # h}
  <1>1. ASSUME NEW h \in 0..H, h > 0
        PROVE  /\ header(h).height = header(h - 1).height + 1
               /\ header(h).previous_hash = block_hash(header(h - 1))
    <2>1. check_linkage(Before(image, h), header(h)) = {}
      BY DEF WalksClean, Unobjectionable
    <2>2. Before(image, h) = Some(header(h - 1))
      BY <1>1 DEF Before, GENESIS
    <2> QED
      BY <2>1, <2>2, LinkedChild
  <1>2. header(0).height = 0
    <2>1. 0 \in 0..H
      OBVIOUS
    <2>2. check_linkage(None, header(0)) = {}
      BY <2>1 DEF WalksClean, Unobjectionable, Before, GENESIS
    <2> QED
      BY <2>2 DEF check_linkage, genesis_linkage, When, GENESIS, None
  <1>3. Off0 = {}
    <2> SUFFICES ASSUME Off0 # {} PROVE FALSE
      OBVIOUS
    <2>1. Off0 \subseteq Nat
      OBVIOUS
    <2> HIDE DEF Off0
    <2>2. PICK h \in Off0 : \A g \in Off0 : h <= g
      BY <2>1, LeastHeight
    <2> USE DEF Off0
    <2>3. h \in 0..H /\ header(h).height # h /\ h # 0
      BY <1>2, <2>2
    <2>4. h - 1 \in 0..H /\ h > 0 /\ ~ (h <= h - 1) /\ (h - 1) + 1 = h
      BY <2>3
    <2>5. h - 1 \notin Off0
      BY <2>2, <2>4
    <2>6. header(h - 1).height = h - 1
      BY <2>4, <2>5
    <2> QED
      BY <1>1, <2>3, <2>4, <2>6
  <1> QED
    BY <1>1, <1>3

-----------------------------------------------------------------------------
(* Two blocks alike in all their hash covers, and in all it commits to.    *)
SameBlock(b, c) == b.header = c.header /\ b.transactions = c.transactions

(* The root commits to the ids, and an id to what its transaction says and *)
(* whether it is signed.                                                   *)
LEMMA HeaderFixesBlock ==
    ASSUME NEW b, NEW c, Decodes(b), Decodes(c), b.header = c.header,
           b.header.tx_root = compute_root(b.transactions),
           c.header.tx_root = compute_root(c.transactions),
           \A i \in DOMAIN b.transactions :
              b.transactions[i].id = compute_id(b.transactions[i]),
           \A i \in DOMAIN c.transactions :
              c.transactions[i].id = compute_id(c.transactions[i])
    PROVE  SameBlock(b, c)
  <1> DEFINE s == b.transactions
             t == c.transactions
             ids(u) == [i \in DOMAIN u |-> u[i].id]
  <1>1. ids(s) = ids(t)
    BY DEF compute_root
  <1>2. DOMAIN s = DOMAIN t /\ \A i \in DOMAIN s : s[i].id = t[i].id
    <2>1. DOMAIN ids(s) = DOMAIN s /\ DOMAIN ids(t) = DOMAIN t
      OBVIOUS
    <2>2. \A i \in DOMAIN s : ids(s)[i] = s[i].id
      OBVIOUS
    <2>3. \A i \in DOMAIN t : ids(t)[i] = t[i].id
      OBVIOUS
    <2> HIDE DEF ids
    <2> QED
      BY <1>1, <2>1, <2>2, <2>3
  <1>3. \A i \in DOMAIN s : s[i].body = t[i].body /\ s[i].signed = t[i].signed
    BY <1>2 DEF compute_id
  <1>4. \A i \in DOMAIN s : s[i] = t[i]
    <2> SUFFICES ASSUME NEW i \in DOMAIN s PROVE s[i] = t[i]
      OBVIOUS
    <2>1. /\ s[i] = [id |-> s[i].id, body |-> s[i].body, signed |-> s[i].signed]
          /\ t[i] = [id |-> t[i].id, body |-> t[i].body, signed |-> t[i].signed]
      BY <1>2 DEF Decodes
    <2> QED
      BY <1>2, <1>3, <2>1
  <1>5. s = [i \in DOMAIN s |-> s[i]] /\ t = [i \in DOMAIN t |-> t[i]]
    BY DEF Decodes
  <1>6. s = t
    BY <1>2, <1>4, <1>5
  <1> QED
    BY <1>6 DEF SameBlock

(* Two chains that verify clean and end in one head hash are one chain, as *)
(* long and block by block the same, whatever happened to the files they   *)
(* are read from (verify_chain: the recorded head is the anchor).           *)
THEOREM OneHeadOneChain ==
    ASSUME NEW image, NEW other, IsSource(image), IsSource(other),
           verify_chain(image, GENESIS, None) = {},
           verify_chain(other, GENESIS, None) = {},
           image.head.hash = other.head.hash
    PROVE  /\ image.head.height = other.head.height
           /\ \A h \in 0..image.head.height :
                /\ h \in DOMAIN image.blocks /\ h \in DOMAIN other.blocks
                /\ SameBlock(image.blocks[h], other.blocks[h])
  <1> DEFINE H == image.head.height
             mine(h) == image.blocks[h].header
             theirs(h) == other.blocks[h].header
             Differ == {k \in 0..H : mine(H - k) # theirs(H - k)}
  <1>1. H \in Nat /\ other.head.height \in Nat
    BY DEF IsSource
  <1>2. WalksClean(image) /\ WalksClean(other)
    BY <1>1, WholeWalk
  <1>3. /\ \A h \in 0..H : mine(h).height = h
        /\ \A h \in 0..H : h > 0 => mine(h).previous_hash = block_hash(mine(h - 1))
    BY <1>1, <1>2, CleanIsLinked
  <1>4. /\ \A h \in 0..other.head.height : theirs(h).height = h
        /\ \A h \in 0..other.head.height :
              h > 0 => theirs(h).previous_hash = block_hash(theirs(h - 1))
    BY <1>1, <1>2, CleanIsLinked
  <1>5. mine(H) = theirs(other.head.height)
    <2>1. H \in 0..H /\ other.head.height \in 0..other.head.height
      BY <1>1
    <2>2. HashOf(image.blocks[H]) = HashOf(other.blocks[other.head.height])
      BY <1>2, <2>1 DEF WalksClean
    <2> QED
      BY <2>2 DEF HashOf, block_hash
  <1>6. H = other.head.height
    <2>1. H \in 0..H /\ other.head.height \in 0..other.head.height
      BY <1>1
    <2> QED
      BY <1>3, <1>4, <1>5, <2>1
  <1>7. Differ = {}
    <2> SUFFICES ASSUME Differ # {} PROVE FALSE
      OBVIOUS
    <2>1. Differ \subseteq Nat
      OBVIOUS
    <2> HIDE DEF Differ
    <2>2. PICK k \in Differ : \A j \in Differ : k <= j
      BY <2>1, LeastHeight
    <2> USE DEF Differ
    <2>3. k \in 0..H /\ mine(H - k) # theirs(H - k)
      BY <2>2
    <2>4. k # 0
      BY <1>1, <1>5, <1>6, <2>3
    <2>5. /\ k - 1 \in 0..H /\ ~ (k <= k - 1)
          /\ H - (k - 1) \in 0..H /\ H - (k - 1) > 0 /\ (H - (k - 1)) - 1 = H - k
      BY <1>1, <2>3, <2>4
    <2>6. k - 1 \notin Differ
      BY <2>2, <2>5
    <2>7. mine(H - (k - 1)) = theirs(H - (k - 1))
      BY <2>5, <2>6
    <2>8. block_hash(mine(H - k)) = block_hash(theirs(H - k))
      BY <1>3, <1>4, <1>6, <2>5, <2>7
    <2> QED
      BY <2>3, <2>8 DEF block_hash
  <1>8. \A h \in 0..H : mine(h) = theirs(h)
    <2> SUFFICES ASSUME NEW h \in 0..H PROVE mine(h) = theirs(h)
      OBVIOUS
    <2>1. H - h \in 0..H /\ H - (H - h) = h
      BY <1>1
    <2>2. H - h \notin Differ
      BY <1>7
    <2> QED
      BY <2>1, <2>2
  <1>9. ASSUME NEW h \in 0..H
        PROVE  /\ h \in DOMAIN image.blocks /\ h \in DOMAIN other.blocks
               /\ SameBlock(image.blocks[h], other.blocks[h])
    <2> DEFINE b == image.blocks[h]
               c == other.blocks[h]
    <2>1. /\ h \in DOMAIN image.blocks /\ h \in DOMAIN other.blocks
          /\ b.header.tx_root = compute_root(b.transactions)
          /\ c.header.tx_root = compute_root(c.transactions)
          /\ \A i \in DOMAIN b.transactions :
                b.transactions[i].id = compute_id(b.transactions[i])
          /\ \A i \in DOMAIN c.transactions :
                c.transactions[i].id = compute_id(c.transactions[i])
      BY <1>2, <1>6 DEF WalksClean, Unobjectionable
    <2>2. Decodes(b) /\ Decodes(c)
      BY <2>1 DEF IsSource
    <2>3. b.header = c.header
      BY <1>8
    <2> HIDE DEF b, c
    <2>4. SameBlock(b, c)
      BY <2>1, <2>2, <2>3, HeaderFixesBlock
    <2> QED
      BY <2>1, <2>4 DEF b, c
  <1> QED
    BY <1>6, <1>9

-----------------------------------------------------------------------------
(* The ids in the blocks of a range that can be read.                      *)
IdsIn(image, from, to) ==
    UNION {TxIds(image.blocks[h].transactions) : h \in (from..to) \cap DOMAIN image.blocks}

(* What is seen by the walk of the whole is what its first part saw and    *)
(* what the walk of the second part sees.                                  *)
LEMMA SeenInParts ==
    ASSUME NEW image, NEW k \in Nat, NEW h \in Nat, k <= h
    PROVE  SeenTransactions(image, GENESIS, h)
             = SeenTransactions(image, GENESIS, k) \cup SeenTransactions(image, k, h)
  <1>1. GENESIS..(h - 1) = (GENESIS..(k - 1)) \cup (k..(h - 1))
    BY DEF GENESIS
  <1> QED
    BY <1>1 DEF SeenTransactions

(* Of the ids seen before, a rule asks only that none is repeated.         *)
LEMMA ObjectionsToSeen ==
    ASSUME NEW network, NEW previous, NEW A, NEW B, NEW block
    PROVE  Unobjectionable(network, previous, A \cup B, block)
             <=> /\ Unobjectionable(network, previous, A, block)
                 /\ TxIds(block.transactions) \cap B = {}
  <1>1. TxIds(block.transactions) \cap (A \cup B) = {}
          <=> /\ TxIds(block.transactions) \cap A = {}
              /\ TxIds(block.transactions) \cap B = {}
    OBVIOUS
  <1> QED
    BY <1>1 DEF Unobjectionable

(* A chain verified in two adjacent ranges is verified whole, if no id of  *)
(* the one occurs in the other, and the other way round: what verifying in *)
(* pieces misses is a transaction repeated across them, and nothing else   *)
(* (verify_chain with --from and --to).                                    *)
THEOREM PiecesMeanTheWhole ==
    ASSUME NEW image, image.head.height \in Nat, NEW k \in 1..image.head.height
    PROVE  verify_chain(image, GENESIS, None) = {} <=>
             /\ verify_chain(image, GENESIS, Some(k - 1)) = {}
             /\ verify_chain(image, k, None) = {}
             /\ IdsIn(image, GENESIS, k - 1)
                   \cap IdsIn(image, k, image.head.height) = {}
  <1> DEFINE H == image.head.height
             Named == check_genesis_identity(image) = {}
             Fine(from, h) ==
                /\ h \in DOMAIN image.blocks
                /\ Unobjectionable(image.network_id, Before(image, h),
                                   SeenTransactions(image, from, h), image.blocks[h])
                /\ h = H => HashOf(image.blocks[h]) = image.head.hash
             Apart == IdsIn(image, GENESIS, k - 1) \cap IdsIn(image, k, H) = {}
  <1>1. /\ k \in Nat /\ k - 1 \in Nat /\ 0 <= k - 1 /\ k - 1 <= H /\ k <= H /\ H \in Nat
        /\ GENESIS \in Nat /\ GENESIS = 0
    BY DEF GENESIS
  <1>2. RangeEnd(image, None) = H
    BY DEF RangeEnd
  <1>3. RangeEnd(image, Some(k - 1)) = k - 1
    <2>1. Some(k - 1) # None
      BY DEF Some, None
    <2>2. /\ k - 1 \in Some(k - 1) \cup {H}
          /\ \A g \in Some(k - 1) \cup {H} : k - 1 <= g
      BY <1>1 DEF Some
    <2>3. \A h \in Some(k - 1) \cup {H} :
             (\A g \in Some(k - 1) \cup {H} : h <= g) => h = k - 1
      BY <1>1 DEF Some
    <2>4. Least(Some(k - 1) \cup {H}) = k - 1
      BY <2>2, <2>3 DEF Least
    <2> QED
      BY <2>1, <2>4 DEF RangeEnd
  <1>4. \A from, h : CheckHeight(image, from, h) = {} /\ h \in DOMAIN image.blocks
                        <=> Fine(from, h)
    BY NoFindingsAtHeight
  <1> HIDE DEF Fine
  <1>5. verify_chain(image, GENESIS, None) = {}
          <=> Named /\ \A h \in 0..H : Fine(GENESIS, h)
    <2>1. verify_chain(image, GENESIS, None) = {} <=> Clean(image, GENESIS, H)
      BY <1>1, <1>2, NoFindingsAtAll
    <2>2. load_parent(image, GENESIS) = {}
      BY DEF load_parent
    <2> HIDE DEF H
    <2>3. 0 <= H
      BY <1>1
    <2>4. Clean(image, GENESIS, H)
            <=> Named /\ \A h \in 0..H : Fine(GENESIS, h)
      BY <1>1, <1>4, <2>2, <2>3 DEF Clean
    <2> QED
      BY <2>1, <2>4
  <1>6. verify_chain(image, GENESIS, Some(k - 1)) = {}
          <=> Named /\ \A h \in 0..(k - 1) : Fine(GENESIS, h)
    BY <1>1, <1>3, <1>4, NoFindingsAtAll DEF Clean, load_parent
  <1>7. verify_chain(image, k, None) = {}
          <=> Named /\ k - 1 \in DOMAIN image.blocks /\ \A h \in k..H : Fine(k, h)
    <2>1. load_parent(image, k) = {} <=> k - 1 \in DOMAIN image.blocks
      <3>1. k # GENESIS
        BY <1>1
      <3>2. load_parent(image, k)
              = At(k - 1, When(k - 1 \notin DOMAIN image.blocks, "MissingBlock"))
        BY <3>1 DEF load_parent
      <3>3. \A S : At(k - 1, S) = {} <=> S = {}
        BY DEF At
      <3>4. When(k - 1 \notin DOMAIN image.blocks, "MissingBlock") = {}
              <=> k - 1 \in DOMAIN image.blocks
        BY DEF When
      <3> QED
        BY <3>2, <3>3, <3>4
    <2> QED
      BY <1>1, <1>2, <1>4, <2>1, NoFindingsAtAll DEF Clean
  <1>8. /\ \A h \in 0..H : h \in 0..(k - 1) \/ h \in k..H
        /\ \A h \in 0..(k - 1) : h \in 0..H
        /\ \A h \in k..H : h \in 0..H /\ h \in Nat /\ k <= h
        /\ k - 1 \in 0..(k - 1)
    BY <1>1
  <1>9. ASSUME NEW h \in k..H
        PROVE  Fine(GENESIS, h) <=>
                 /\ Fine(k, h)
                 /\ TxIds(image.blocks[h].transactions)
                       \cap SeenTransactions(image, GENESIS, k) = {}
    <2>1. SeenTransactions(image, GENESIS, h)
             = SeenTransactions(image, k, h) \cup SeenTransactions(image, GENESIS, k)
      <3>1. h \in Nat /\ k <= h
        BY <1>8
      <3>2. SeenTransactions(image, GENESIS, h)
              = SeenTransactions(image, GENESIS, k) \cup SeenTransactions(image, k, h)
        BY <1>1, <3>1, SeenInParts
      <3> QED
        BY <3>2
    <2> QED
      BY <2>1, ObjectionsToSeen DEF Fine
  <1>10. ASSUME \A h \in 0..H : h \in DOMAIN image.blocks
         PROVE  Apart <=> \A h \in k..H :
                            TxIds(image.blocks[h].transactions)
                               \cap SeenTransactions(image, GENESIS, k) = {}
    <2>1. (GENESIS..(k - 1)) \cap DOMAIN image.blocks = GENESIS..(k - 1)
      BY <1>1, <1>8, <1>10
    <2>2. (k..H) \cap DOMAIN image.blocks = k..H
      BY <1>8, <1>10
    <2>3. IdsIn(image, GENESIS, k - 1) = SeenTransactions(image, GENESIS, k)
      BY <2>1 DEF IdsIn, SeenTransactions
    <2>4. IdsIn(image, k, H) = UNION {TxIds(image.blocks[h].transactions) : h \in k..H}
      BY <2>2 DEF IdsIn
    <2> QED
      BY <2>3, <2>4
  <1>11. \A from, h : Fine(from, h) => h \in DOMAIN image.blocks
    BY DEF Fine
  <1> HIDE DEF Apart, Named, H
  <1>12. (\A h \in 0..H : Fine(GENESIS, h)) <=>
            /\ \A h \in 0..(k - 1) : Fine(GENESIS, h)
            /\ k - 1 \in DOMAIN image.blocks
            /\ \A h \in k..H : Fine(k, h)
            /\ Apart
    BY <1>8, <1>9, <1>10, <1>11
  <1> QED
    BY <1>5, <1>6, <1>7, <1>12 DEF Apart, H

-----------------------------------------------------------------------------
(* A chain this store wrote, read by the verifier.                         *)
StoredChainIsClean == file = "chain" => verify_chain(db, GENESIS, None) = {}

(* verify_chain reports nothing on any chain the store ever committed,     *)
(* through all batches, refusals and crashes: the store's judgement inside *)
(* a batch and the verifier's walk agree (append_blocks, verify_chain).    *)
THEOREM StoredChainsVerify == Spec => []StoredChainIsClean
  <1>1. StoreInv /\ ChainValid => StoredChainIsClean
    <2> SUFFICES ASSUME StoreInv, ChainValid, file = "chain"
                 PROVE  verify_chain(db, GENESIS, None) = {}
      BY DEF StoredChainIsClean
    <2>1. /\ db.head.height \in Nat /\ DOMAIN db.blocks = 0..db.head.height
          /\ check_consistency(db)
      BY DEF StoreInv, Images, ImageOK
    <2>2. check_genesis_identity(db) = {}
      BY <2>1 DEF check_genesis_identity, check_consistency, At, When
    <2>3. \A h \in 0..db.head.height : CheckHeight(db, GENESIS, h) = {}
      <3> SUFFICES ASSUME NEW h \in 0..db.head.height PROVE CheckHeight(db, GENESIS, h) = {}
        OBVIOUS
      <3>1. SeenTransactions(db, GENESIS, h) = IdsBelow(db, h)
        BY DEF SeenTransactions, IdsBelow, GENESIS
      <3> QED
        BY <3>1 DEF ChainValid, Heights, CheckHeight, At
    <2>4. WalksClean(db)
      BY <2>1, <2>3, NoFindingsAtHeight DEF WalksClean
    <2> QED
      BY <2>1, <2>2, <2>4, WholeWalk
  <1> QED
    BY <1>1, StoreInvariant, CommittedBlocksAreValid, PTL

(* Whatever a file holds that verifies clean and ends in the head the      *)
(* store recorded is, block by block, what the store committed.            *)
HeadAnchorsTheChain ==
    file = "chain" =>
        \A other :
            (/\ IsSource(other)
             /\ verify_chain(other, GENESIS, None) = {}
             /\ other.head.hash = db.head.hash)
              => /\ other.head.height = db.head.height
                 /\ \A h \in Heights(db) : SameBlock(db.blocks[h], other.blocks[h])

(* The head is the anchor: no damage to a committed block, to a header or  *)
(* to a transaction's words or signature, survives verification under the  *)
(* head the store recorded (verify_chain, check_block).                    *)
THEOREM TheHeadIsTheAnchor == Spec => []HeadAnchorsTheChain
  <1>1. StoreInv /\ SoundImages /\ StoredChainIsClean => HeadAnchorsTheChain
    <2> SUFFICES ASSUME StoreInv, SoundImages, StoredChainIsClean, file = "chain",
                        NEW other, IsSource(other),
                        verify_chain(other, GENESIS, None) = {},
                        other.head.hash = db.head.hash
                 PROVE  /\ other.head.height = db.head.height
                        /\ \A h \in Heights(db) : SameBlock(db.blocks[h], other.blocks[h])
      BY DEF HeadAnchorsTheChain
    <2>1. db.head.height \in Nat /\ DOMAIN db.blocks = 0..db.head.height
      BY DEF StoreInv, Images, ImageOK
    <2>2. \A h \in DOMAIN db.blocks : db.blocks[h] \in AnyBlock
      BY <2>1 DEF SoundImages, SoundImage, IndexedTo
    <2>3. \A b \in AnyBlock : Decodes(b)
      <3> SUFFICES ASSUME NEW b \in AnyBlock PROVE Decodes(b)
        OBVIOUS
      <3>1. b.transactions \in Seq(Transaction)
        BY BlockAssumption DEF AnyBlock
      <3>2. /\ b.transactions = [i \in DOMAIN b.transactions |-> b.transactions[i]]
            /\ \A i \in DOMAIN b.transactions : b.transactions[i] \in Transaction
        BY <3>1
      <3>3. \A tx \in Transaction :
               tx = [id |-> tx.id, body |-> tx.body, signed |-> tx.signed]
        BY DEF Transaction
      <3> QED
        BY <3>2, <3>3 DEF Decodes
    <2>4. IsSource(db)
      BY <2>1, <2>2, <2>3 DEF IsSource
    <2>5. verify_chain(db, GENESIS, None) = {}
      BY DEF StoredChainIsClean
    <2> QED
      BY <2>4, <2>5, OneHeadOneChain DEF Heights
  <1> QED
    BY <1>1, AlwaysSound, StoredChainsVerify, PTL

-----------------------------------------------------------------------------
(* Transfer: the store a document is read from or applied to.              *)

(* A chain nothing but appends has touched.                                *)
ValidImage(image) ==
    /\ image.head.height \in Nat
    /\ DOMAIN image.blocks = 0..image.head.height
    /\ image.blocks = [h \in DOMAIN image.blocks |-> image.blocks[h]]
    /\ check_genesis_identity(image) = {}
    /\ WalksClean(image)
    /\ image.ids = SeenTransactions(image, GENESIS, image.head.height + 1)

(* What an append leaves of the chain it starts from: all of it.           *)
Grown(old, new) ==
    /\ new.network_id = old.network_id
    /\ new.genesis_hash = old.genesis_hash
    /\ old.head.height <= new.head.height
    /\ \A h \in 0..old.head.height : new.blocks[h] = old.blocks[h]

(* Growing twice is growing.                                               *)
LEMMA GrownTransitive ==
    ASSUME NEW a, NEW b, NEW c, a.head.height \in Nat, b.head.height \in Nat,
           c.head.height \in Nat, Grown(a, b), Grown(b, c)
    PROVE  Grown(a, c)
  <1>1. a.head.height <= c.head.height
    BY DEF Grown
  <1>2. \A h \in 0..a.head.height : h \in 0..b.head.height
    BY DEF Grown
  <1> QED
    BY <1>1, <1>2 DEF Grown

(* What the extension of a chain by a block holds.                         *)
Extends1(new, image, block) ==
    LET H == image.head.height
    IN  /\ new.network_id = image.network_id
        /\ new.genesis_hash = image.genesis_hash
        /\ new.head = [height |-> H + 1, hash |-> HashOf(block)]
        /\ new.head.height = H + 1
        /\ new.head.hash = HashOf(block)
        /\ DOMAIN new.blocks = 0..(H + 1)
        /\ new.blocks = [h \in DOMAIN new.blocks |-> new.blocks[h]]
        /\ new.blocks[H + 1] = block
        /\ \A h \in 0..H : new.blocks[h] = image.blocks[h]
        /\ new.ids = image.ids \cup TxIds(block.transactions)

(* insert_block adds the block on the head, and nothing else.              *)
LEMMA ExtendedHolds ==
    ASSUME NEW image, NEW block,
           image.head.height \in Nat, DOMAIN image.blocks = 0..image.head.height,
           block.header.height = image.head.height + 1
    PROVE  Extends1(Extended(image, block), image, block)
  <1> DEFINE H == image.head.height + 1
             old == image.blocks
             blocks == [h \in DOMAIN old \cup {H} |-> IF h = H THEN block ELSE old[h]]
  <1>1. H \in Nat /\ 0..H = (0..image.head.height) \cup {H}
    OBVIOUS
  <1>2. Extended(image, block) =
          [network_id |-> image.network_id, genesis_hash |-> image.genesis_hash,
           head |-> [height |-> H, hash |-> HashOf(block)],
           blocks |-> blocks, ids |-> image.ids \cup TxIds(block.transactions)]
    BY DEF Extended
  <1>3. DOMAIN blocks = 0..H
    BY <1>1
  <1>4. blocks[H] = block
    OBVIOUS
  <1>5. \A h \in 0..image.head.height : blocks[h] = old[h]
    BY <1>1
  <1>6. blocks = [h \in DOMAIN blocks |-> blocks[h]]
    OBVIOUS
  <1> HIDE DEF blocks
  <1> QED
    BY <1>2, <1>3, <1>4, <1>5, <1>6 DEF Extends1

(* The ids up to a height are those below it and the block's own.          *)
LEMMA SeenWithOneMore ==
    ASSUME NEW image, NEW h \in Nat
    PROVE  SeenTransactions(image, GENESIS, h + 1)
             = SeenTransactions(image, GENESIS, h) \cup TxIds(image.blocks[h].transactions)
  <1>1. GENESIS..((h + 1) - 1) = (GENESIS..(h - 1)) \cup {h}
    BY DEF GENESIS
  <1> QED
    BY <1>1 DEF SeenTransactions

(* The ids below a height are a matter of the blocks there.                *)
LEMMA SeenAlike ==
    ASSUME NEW a, NEW b, NEW h \in Nat,
           \A g \in 0..(h - 1) : a.blocks[g] = b.blocks[g]
    PROVE  SeenTransactions(a, GENESIS, h) = SeenTransactions(b, GENESIS, h)
  <1>1. GENESIS = 0
    BY DEF GENESIS
  <1> QED
    BY <1>1 DEF SeenTransactions

(* A block the rules accept on the head keeps a chain valid (append_blocks,*)
(* insert_block).                                                          *)
LEMMA ExtensionIsValid ==
    ASSUME NEW image, NEW block, ValidImage(image),
           block.header.height = image.head.height + 1,
           check_block(image.network_id, Some(image.blocks[image.head.height].header),
                       None, image.ids, block) = {}
    PROVE  ValidImage(Extended(image, block)) /\ Grown(image, Extended(image, block))
  <1> DEFINE new == Extended(image, block)
             H == image.head.height
  <1>1. /\ H \in Nat /\ DOMAIN image.blocks = 0..H
        /\ check_genesis_identity(image) = {} /\ WalksClean(image)
        /\ image.ids = SeenTransactions(image, GENESIS, H + 1)
    BY DEF ValidImage
  <1>2. /\ new.network_id = image.network_id
        /\ new.genesis_hash = image.genesis_hash
        /\ new.head.height = H + 1
        /\ new.head.hash = HashOf(block)
        /\ DOMAIN new.blocks = 0..(H + 1)
        /\ new.blocks = [h \in DOMAIN new.blocks |-> new.blocks[h]]
        /\ new.blocks[H + 1] = block
        /\ \A h \in 0..H : new.blocks[h] = image.blocks[h]
        /\ new.ids = image.ids \cup TxIds(block.transactions)
    <2>1. Extends1(new, image, block)
      BY <1>1, ExtendedHolds
    <2> HIDE DEF new
    <2> QED
      BY <2>1 DEF Extends1
  <1> HIDE DEF new
  <1>3. /\ 0 \in 0..H /\ H + 1 \in Nat /\ H <= H + 1 /\ H \in 0..H
        /\ \A h \in 0..(H + 1) : h \in 0..H \/ h = H + 1
        /\ \A h \in 0..H : h # H + 1
    BY <1>1
  <1>4. check_genesis_identity(new) = {}
    <2>1. GENESIS = 0 /\ GENESIS \in DOMAIN image.blocks /\ GENESIS \in DOMAIN new.blocks
      BY <1>1, <1>2, <1>3 DEF GENESIS
    <2>2. new.blocks[GENESIS] = image.blocks[GENESIS]
      BY <1>2, <1>3, <2>1
    <2>3. check_genesis_identity(new) = check_genesis_identity(image)
      BY <1>2, <2>1, <2>2 DEF check_genesis_identity
    <2> QED
      BY <1>1, <2>3
  <1>5. \A h \in 0..(H + 1) :
          SeenTransactions(new, GENESIS, h) = SeenTransactions(image, GENESIS, h)
    <2> SUFFICES ASSUME NEW h \in 0..(H + 1)
                 PROVE  SeenTransactions(new, GENESIS, h) = SeenTransactions(image, GENESIS, h)
      OBVIOUS
    <2>1. h \in Nat /\ \A g \in 0..(h - 1) : g \in 0..H
      BY <1>1
    <2> QED
      BY <1>2, <2>1, SeenAlike
  <1>6. WalksClean(new)
    <2> SUFFICES ASSUME NEW h \in 0..(H + 1)
                 PROVE  /\ h \in DOMAIN new.blocks
                        /\ Unobjectionable(new.network_id, Before(new, h),
                              SeenTransactions(new, GENESIS, h), new.blocks[h])
                        /\ h = H + 1 => HashOf(new.blocks[h]) = new.head.hash
      BY <1>2 DEF WalksClean
    <2>1. CASE h = H + 1
      <3>1. Before(new, h) = Some(image.blocks[H].header)
        <4>1. h # GENESIS /\ h - 1 = H
          BY <1>1, <2>1 DEF GENESIS
        <4> QED
          BY <1>2, <1>3, <4>1 DEF Before
      <3>2. SeenTransactions(new, GENESIS, h) = image.ids
        BY <1>1, <1>5, <2>1
      <3>3. Unobjectionable(image.network_id, Some(image.blocks[H].header), image.ids, block)
        BY NoFindings
      <3> QED
        BY <1>2, <2>1, <3>1, <3>2, <3>3
    <2>2. CASE h \in 0..H
      <3>1. Before(new, h) = Before(image, h)
        <4>1. h # GENESIS => h - 1 \in 0..H
          BY <1>1, <2>2 DEF GENESIS
        <4> QED
          BY <1>2, <4>1 DEF Before
      <3>2. Unobjectionable(image.network_id, Before(image, h),
                            SeenTransactions(image, GENESIS, h), image.blocks[h])
        BY <1>1, <2>2 DEF WalksClean
      <3> QED
        BY <1>2, <1>3, <1>5, <2>2, <3>1, <3>2
    <2> QED
      BY <1>3, <2>1, <2>2
  <1>7. new.ids = SeenTransactions(new, GENESIS, (H + 1) + 1)
    <2>1. SeenTransactions(new, GENESIS, (H + 1) + 1)
            = SeenTransactions(new, GENESIS, H + 1) \cup TxIds(new.blocks[H + 1].transactions)
      BY <1>3, SeenWithOneMore
    <2>2. SeenTransactions(new, GENESIS, H + 1) = image.ids
      BY <1>1, <1>3, <1>5
    <2> QED
      BY <1>2, <2>1, <2>2
  <1>8. ValidImage(new)
    BY <1>2, <1>3, <1>4, <1>6, <1>7 DEF ValidImage
  <1>9. Grown(image, new)
    BY <1>2, <1>3 DEF Grown
  <1> QED
    BY <1>8, <1>9 DEF new

(* A chain founded on a genesis block the rules accept is valid            *)
(* (write_genesis).                                                        *)
LEMMA FoundedIsValid ==
    ASSUME NEW genesis,
           check_block(genesis.header.network_id, None, None, {}, genesis) = {}
    PROVE  LET new == Founded(genesis)
           IN  /\ ValidImage(new)
               /\ new.network_id = genesis.header.network_id
               /\ new.genesis_hash = HashOf(genesis)
               /\ new.head.height = GENESIS
               /\ new.blocks[GENESIS] = genesis
               /\ new.ids = TxIds(genesis.transactions)
  <1> DEFINE new == Founded(genesis)
             blocks == [h \in {0} |-> genesis]
  <1>1. Unobjectionable(genesis.header.network_id, None, {}, genesis)
    BY NoFindings
  <1>2. genesis.header.height = 0
    BY <1>1 DEF Unobjectionable, check_linkage, genesis_linkage, When, GENESIS, None
  <1>3. new = [network_id |-> genesis.header.network_id, genesis_hash |-> HashOf(genesis),
               head |-> [height |-> 0, hash |-> HashOf(genesis)],
               blocks |-> blocks, ids |-> TxIds(genesis.transactions)]
    <2> DEFINE bare == [NoChain EXCEPT !.network_id = genesis.header.network_id,
                                       !.genesis_hash = HashOf(genesis)]
    <2>1. /\ bare.network_id = genesis.header.network_id
          /\ bare.genesis_hash = HashOf(genesis)
          /\ bare.blocks = [h \in {} |-> h]
          /\ bare.ids = {}
      BY DEF NoChain
    <2>2. new = Extended(bare, genesis)
      BY DEF Founded
    <2> HIDE DEF bare, new
    <2>3. [h \in DOMAIN bare.blocks \cup {0} |->
              IF h = 0 THEN genesis ELSE bare.blocks[h]] = blocks
      BY <2>1
    <2> QED
      BY <1>2, <2>1, <2>2, <2>3 DEF Extended
  <1> HIDE DEF new
  <1>4. /\ new.network_id = genesis.header.network_id
        /\ new.genesis_hash = HashOf(genesis)
        /\ new.head.height = 0 /\ new.head.hash = HashOf(genesis)
        /\ new.ids = TxIds(genesis.transactions)
        /\ DOMAIN new.blocks = 0..0 /\ new.blocks[0] = genesis
        /\ new.blocks = [h \in DOMAIN new.blocks |-> new.blocks[h]]
    BY <1>3
  <1>5. check_genesis_identity(new) = {}
    BY <1>4 DEF check_genesis_identity, At, When, GENESIS
  <1>6. SeenTransactions(new, GENESIS, 0) = {}
    BY DEF SeenTransactions, GENESIS
  <1>7. new.ids = SeenTransactions(new, GENESIS, 0 + 1)
    <2>1. SeenTransactions(new, GENESIS, 0 + 1)
            = SeenTransactions(new, GENESIS, 0) \cup TxIds(new.blocks[0].transactions)
      BY SeenWithOneMore
    <2> QED
      BY <1>4, <1>6, <2>1
  <1>8. WalksClean(new)
    <2> SUFFICES ASSUME NEW h \in 0..0
                 PROVE  /\ h \in DOMAIN new.blocks
                        /\ Unobjectionable(new.network_id, Before(new, h),
                              SeenTransactions(new, GENESIS, h), new.blocks[h])
                        /\ h = 0 => HashOf(new.blocks[h]) = new.head.hash
      BY <1>4 DEF WalksClean
    <2>1. h = 0
      OBVIOUS
    <2>2. Before(new, h) = None
      BY <2>1 DEF Before, GENESIS
    <2> QED
      BY <1>1, <1>4, <1>6, <2>1, <2>2
  <1> QED
    BY <1>4, <1>5, <1>7, <1>8 DEF ValidImage, new, GENESIS

-----------------------------------------------------------------------------
(* The outcomes append_blocks passes through: after no block, after one... *)
Nothing(image) == [ok |-> TRUE, image |-> image, appended |-> 0]

Passes(f, image, blocks, n) ==
    f = [m \in 0..n |-> IF m = 0 THEN Nothing(image)
                        ELSE AppendOne(f[m - 1], blocks[m])]

(* Whatever the length of the batch, it has such outcomes.                 *)
LEMMA PassesExist ==
    ASSUME NEW image, NEW blocks, NEW n \in Nat
    PROVE  \E f : Passes(f, image, blocks, n)
  <1> DEFINE X == {m \in Nat : ~ \E f : Passes(f, image, blocks, m)}
  <1>1. SUFFICES ASSUME X # {} PROVE FALSE
    OBVIOUS
  <1>2. X \subseteq Nat
    OBVIOUS
  <1> HIDE DEF X
  <1>3. PICK m \in X : \A k \in X : m <= k
    BY <1>1, <1>2, LeastHeight
  <1> USE DEF X
  <1>4. CASE m = 0
    <2> DEFINE f == [k \in 0..0 |-> Nothing(image)]
    <2>1. \A k \in 0..0 : k = 0
      OBVIOUS
    <2>2. f = [k \in 0..0 |-> IF k = 0 THEN Nothing(image)
                              ELSE AppendOne(f[k - 1], blocks[k])]
      BY <2>1
    <2>3. Passes(f, image, blocks, m)
      BY <1>4, <2>2 DEF Passes
    <2> QED
      BY <1>3, <2>3
  <1>5. CASE m # 0
    <2>1. m \in Nat /\ m - 1 \in Nat /\ ~ (m <= m - 1)
      BY <1>3, <1>5
    <2>2. m - 1 \notin X
      BY <1>3, <2>1
    <2>3. PICK g : Passes(g, image, blocks, m - 1)
      BY <2>1, <2>2
    <2> DEFINE f == [k \in 0..m |-> IF k = m THEN AppendOne(g[m - 1], blocks[m])
                                    ELSE g[k]]
               h == [k \in 0..m |-> IF k = 0 THEN Nothing(image)
                                    ELSE AppendOne(f[k - 1], blocks[k])]
    <2>4. /\ \A k \in 0..m : k = m \/ k \in 0..(m - 1)
          /\ \A k \in 0..m : k # 0 => k - 1 \in 0..(m - 1) /\ k - 1 \in 0..m /\ k - 1 # m
      BY <2>1
    <2>5. \A k \in 0..(m - 1) : g[k] = IF k = 0 THEN Nothing(image)
                                       ELSE AppendOne(g[k - 1], blocks[k])
      BY <2>3 DEF Passes
    <2>6. \A k \in 0..m : k # 0 => f[k - 1] = g[k - 1]
      BY <2>4
    <2>7. ASSUME NEW k \in 0..m PROVE f[k] = h[k]
      <3>1. CASE k = m
        BY <1>5, <2>6, <3>1
      <3>2. CASE k # m
        <4>1. k \in 0..(m - 1) /\ f[k] = g[k]
          BY <2>4, <3>2
        <4> QED
          BY <2>5, <2>6, <4>1
      <3> QED
        BY <3>1, <3>2
    <2>8. f = h
      BY <2>7
    <2>9. Passes(f, image, blocks, m)
      BY <2>8 DEF Passes
    <2> QED
      BY <1>3, <2>9
  <1> QED
    BY <1>4, <1>5

(* append_blocks answers the last of them.                                 *)
LEMMA AppendIsPasses ==
    ASSUME NEW image, NEW blocks, Len(blocks) \in Nat
    PROVE  \E f : /\ Passes(f, image, blocks, Len(blocks))
                  /\ append_blocks(image, blocks) = f[Len(blocks)]
  <1> DEFINE f == CHOOSE g : Passes(g, image, blocks, Len(blocks))
  <1>1. Passes(f, image, blocks, Len(blocks))
    BY PassesExist
  <1>2. append_blocks(image, blocks) = f[Len(blocks)]
    BY DEF append_blocks, Passes, Nothing
  <1> QED
    BY <1>1, <1>2

(* A passage, block by block.                                              *)
LEMMA PassageSteps ==
    ASSUME NEW f, NEW image, NEW blocks, NEW n \in Nat, Passes(f, image, blocks, n)
    PROVE  /\ f[0] = Nothing(image)
           /\ \A m \in 1..n : f[m] = AppendOne(f[m - 1], blocks[m])
  <1>1. 0 \in 0..n /\ \A m \in 1..n : m \in 0..n /\ m # 0
    OBVIOUS
  <1> QED
    BY <1>1 DEF Passes

-----------------------------------------------------------------------------
(* The height of every block is a number.                                  *)
Heighted(blocks) ==
    /\ Len(blocks) \in Nat
    /\ DOMAIN blocks = 1..Len(blocks)
    /\ \A i \in DOMAIN blocks : blocks[i].header.height \in Nat

(* A chain that holds a block at its height.                               *)
Holds(image, block) ==
    /\ block.header.height <= image.head.height
    /\ image.blocks[block.header.height] = block

(* What append_blocks has to say so far.                                   *)
IsOutcome(outcome) ==
    outcome = [ok |-> outcome.ok, image |-> outcome.image, appended |-> outcome.appended]

(* What one block of a batch makes of a valid chain (append_blocks).       *)
LEMMA OneBlock ==
    ASSUME NEW outcome, NEW block, ValidImage(outcome.image),
           IsOutcome(outcome), block.header.height \in Nat,
           NEW next, next = AppendOne(outcome, block)
    PROVE  /\ IsOutcome(next)
           /\ ValidImage(next.image)
           /\ Grown(outcome.image, next.image)
           /\ next.ok => outcome.ok /\ Holds(next.image, block)
  <1> USE DEF Holds
  <1> DEFINE image == outcome.image
             H == image.head.height
             height == block.header.height
             Fits == /\ height = H + 1
                     /\ check_block(image.network_id, Some(image.blocks[H].header),
                                    None, image.ids, block) = {}
  <1>1. H \in Nat
    BY DEF ValidImage
  <1>2. Grown(image, image)
    BY <1>1 DEF Grown
  <1>3. CASE ~outcome.ok
    <2>1. next = outcome
      BY <1>3 DEF AppendOne
    <2> QED
      BY <1>2, <1>3, <2>1
  <1>4. CASE outcome.ok /\ height <= H /\ image.blocks[height] = block
    <2>1. next = outcome
      BY <1>4 DEF AppendOne
    <2> QED
      BY <1>2, <1>4, <2>1
  <1>5. CASE outcome.ok /\ ~ (height <= H /\ image.blocks[height] = block) /\ Fits
    <2>1. next = [ok |-> TRUE, image |-> Extended(image, block),
                  appended |-> outcome.appended + 1]
      BY <1>5 DEF AppendOne
    <2>2. ValidImage(Extended(image, block)) /\ Grown(image, Extended(image, block))
      BY <1>5, ExtensionIsValid
    <2>3. Extends1(Extended(image, block), image, block)
      BY <1>5, ExtendedHolds DEF ValidImage
    <2>4. next.image = Extended(image, block) /\ IsOutcome(next)
      BY <2>1 DEF IsOutcome
    <2>5. /\ next.image.head.height = H + 1
          /\ next.image.blocks[H + 1] = block
      BY <2>3, <2>4 DEF Extends1
    <2>6. height = H + 1 /\ height <= H + 1
      BY <1>1, <1>5
    <2>7. ValidImage(next.image) /\ Grown(outcome.image, next.image)
      BY <2>2, <2>4
    <2>8. height <= next.image.head.height /\ next.image.blocks[height] = block
      BY <2>5, <2>6
    <2> QED
      BY <1>5, <2>4, <2>7, <2>8
  <1>6. CASE outcome.ok /\ ~ (height <= H /\ image.blocks[height] = block) /\ ~Fits
    <2>1. next = [outcome EXCEPT !.ok = FALSE]
      BY <1>6 DEF AppendOne
    <2>2. next.image = image /\ ~next.ok /\ IsOutcome(next)
      BY <2>1 DEF IsOutcome
    <2> QED
      BY <1>2, <2>2
  <1> QED
    BY <1>3, <1>4, <1>5, <1>6

(* So far so good: the chain is valid and grown, and as long as nothing    *)
(* was refused it holds every block up to here.                            *)
SoFar(outcome, image, blocks, m) ==
    /\ IsOutcome(outcome)
    /\ ValidImage(outcome.image)
    /\ Grown(image, outcome.image)
    /\ outcome.ok => \A i \in 1..m : Holds(outcome.image, blocks[i])

(* A block that is in a chain stays in it.                                 *)
LEMMA HeldForGood ==
    ASSUME NEW a, NEW b, NEW block, block.header.height \in Nat,
           a.head.height \in Nat, b.head.height \in Nat,
           Grown(a, b), Holds(a, block)
    PROVE  Holds(b, block)
  <1>1. block.header.height \in 0..a.head.height
    BY DEF Holds
  <1>2. block.header.height <= b.head.height
    BY <1>1 DEF Grown
  <1> QED
    BY <1>1, <1>2 DEF Grown, Holds

(* Every step of a batch's passage is so: the chain as far as it came      *)
(* (append_blocks).                                                        *)
LEMMA PassageHolds ==
    ASSUME NEW f, NEW image, NEW blocks, ValidImage(image), Heighted(blocks),
           Passes(f, image, blocks, Len(blocks))
    PROVE  \A m \in 0..Len(blocks) : SoFar(f[m], image, blocks, m)
  <1> DEFINE n == Len(blocks)
             X == {m \in 0..n : ~ SoFar(f[m], image, blocks, m)}
  <1>1. n \in Nat /\ DOMAIN blocks = 1..n
    BY DEF Heighted
  <1>2. /\ f[0] = Nothing(image)
        /\ \A m \in 1..n : f[m] = AppendOne(f[m - 1], blocks[m])
    BY <1>1, PassageSteps
  <1>3. SUFFICES ASSUME X # {} PROVE FALSE
    OBVIOUS
  <1>4. X \subseteq Nat
    BY <1>1
  <1> HIDE DEF X
  <1>5. PICK m \in X : \A k \in X : m <= k
    BY <1>3, <1>4, LeastHeight
  <1> USE DEF X
  <1>6. CASE m = 0
    <2>1. f[0].ok /\ f[0].image = image /\ IsOutcome(f[0])
      BY <1>2 DEF Nothing, IsOutcome
    <2>2. Grown(image, image)
      BY DEF Grown, ValidImage
    <2>3. \A i \in 1..0 : FALSE
      OBVIOUS
    <2>4. SoFar(f[0], image, blocks, 0)
      BY <2>1, <2>2, <2>3 DEF SoFar
    <2> QED
      BY <1>5, <1>6, <2>4
  <1>7. CASE m # 0
    <2>1. m \in 1..n /\ m - 1 \in 0..n /\ ~ (m <= m - 1)
          /\ \A i \in 1..m : i = m \/ i \in 1..(m - 1)
      BY <1>1, <1>5, <1>7
    <2>2. SoFar(f[m - 1], image, blocks, m - 1)
      BY <1>5, <2>1
    <2>3. f[m] = AppendOne(f[m - 1], blocks[m])
      BY <1>2, <2>1
    <2>4. \A i \in 1..m : i \in DOMAIN blocks /\ blocks[i].header.height \in Nat
      BY <1>1, <2>1 DEF Heighted
    <2>5. /\ IsOutcome(f[m]) /\ ValidImage(f[m].image)
          /\ Grown(f[m - 1].image, f[m].image)
          /\ f[m].ok => f[m - 1].ok /\ Holds(f[m].image, blocks[m])
      <3>1. blocks[m].header.height \in Nat
        BY <2>1, <2>4
      <3> QED
        BY <2>2, <2>3, <3>1, OneBlock DEF SoFar
    <2>6. Grown(image, f[m].image)
      BY <2>2, <2>5, GrownTransitive DEF SoFar, ValidImage
    <2>7. ASSUME f[m].ok, NEW i \in 1..m PROVE Holds(f[m].image, blocks[i])
      <3>1. CASE i = m
        BY <2>5, <2>7, <3>1
      <3>2. CASE i \in 1..(m - 1)
        <4>1. Holds(f[m - 1].image, blocks[i])
          BY <2>2, <2>5, <2>7, <3>2 DEF SoFar
        <4>2. f[m - 1].image.head.height \in Nat /\ f[m].image.head.height \in Nat
          BY <2>2, <2>5 DEF SoFar, ValidImage
        <4> QED
          BY <2>4, <2>5, <2>7, <4>1, <4>2, HeldForGood
      <3> QED
        BY <2>1, <3>1, <3>2
    <2>8. SoFar(f[m], image, blocks, m)
      BY <2>5, <2>6, <2>7 DEF SoFar
    <2> QED
      BY <1>5, <2>8
  <1> QED
    BY <1>6, <1>7

(* append_blocks leaves a valid chain that has only grown, and a batch it  *)
(* accepts is in it, block for block.                                      *)
LEMMA AppendKeeps ==
    ASSUME NEW image, NEW blocks, ValidImage(image), Heighted(blocks)
    PROVE  SoFar(append_blocks(image, blocks), image, blocks, Len(blocks))
  <1>1. Len(blocks) \in Nat /\ Len(blocks) \in 0..Len(blocks)
    BY DEF Heighted
  <1>2. PICK f : /\ Passes(f, image, blocks, Len(blocks))
                 /\ append_blocks(image, blocks) = f[Len(blocks)]
    BY <1>1, AppendIsPasses
  <1> QED
    BY <1>1, <1>2, PassageHolds

(* A batch of one block is that block.                                     *)
LEMMA AppendOfOne ==
    ASSUME NEW image, NEW block
    PROVE  append_blocks(image, <<block>>) = AppendOne(Nothing(image), block)
  <1>1. Len(<<block>>) = 1 /\ 1 \in Nat /\ <<block>>[1] = block
    OBVIOUS
  <1>2. PICK f : /\ Passes(f, image, <<block>>, 1)
                 /\ append_blocks(image, <<block>>) = f[1]
    BY <1>1, AppendIsPasses
  <1>3. f[0] = Nothing(image) /\ f[1] = AppendOne(f[1 - 1], <<block>>[1])
    BY <1>1, <1>2, PassageSteps
  <1> QED
    BY <1>1, <1>2, <1>3

-----------------------------------------------------------------------------
(* What a loop has kept after each element it looked at.                   *)
Keeps(g, s, I, n) ==
    g = [m \in 0..n |-> IF m = 0 THEN << >>
                        ELSE IF m \in I THEN Append(g[m - 1], s[m])
                        ELSE g[m - 1]]

(* However long the list, the loop gets there.                             *)
LEMMA KeepsExist ==
    ASSUME NEW s, NEW I, NEW n \in Nat
    PROVE  \E g : Keeps(g, s, I, n)
  <1> DEFINE X == {m \in Nat : ~ \E g : Keeps(g, s, I, m)}
  <1>1. SUFFICES ASSUME X # {} PROVE FALSE
    OBVIOUS
  <1>2. X \subseteq Nat
    OBVIOUS
  <1> HIDE DEF X
  <1>3. PICK m \in X : \A k \in X : m <= k
    BY <1>1, <1>2, LeastHeight
  <1> USE DEF X
  <1>4. CASE m = 0
    <2> DEFINE f == [k \in 0..0 |-> << >>]
    <2>1. \A k \in 0..0 : k = 0
      OBVIOUS
    <2>2. f = [k \in 0..0 |-> IF k = 0 THEN << >>
                              ELSE IF k \in I THEN Append(f[k - 1], s[k]) ELSE f[k - 1]]
      BY <2>1
    <2>3. Keeps(f, s, I, m)
      BY <1>4, <2>2 DEF Keeps
    <2> QED
      BY <1>3, <2>3
  <1>5. CASE m # 0
    <2>1. m \in Nat /\ m - 1 \in Nat /\ ~ (m <= m - 1)
      BY <1>3, <1>5
    <2>2. m - 1 \notin X
      BY <1>3, <2>1
    <2>3. PICK g : Keeps(g, s, I, m - 1)
      BY <2>1, <2>2
    <2> DEFINE Step(p, k) == IF k \in I THEN Append(p[k - 1], s[k]) ELSE p[k - 1]
               f == [k \in 0..m |-> IF k = m THEN Step(g, m) ELSE g[k]]
               h == [k \in 0..m |-> IF k = 0 THEN << >> ELSE Step(f, k)]
    <2>4. /\ \A k \in 0..m : k = m \/ k \in 0..(m - 1)
          /\ \A k \in 0..m : k # 0 => k - 1 \in 0..(m - 1) /\ k - 1 \in 0..m /\ k - 1 # m
      BY <2>1
    <2>5. \A k \in 0..(m - 1) : g[k] = IF k = 0 THEN << >> ELSE Step(g, k)
      BY <2>3 DEF Keeps
    <2>6. \A k \in 0..m : k # 0 => Step(f, k) = Step(g, k)
      BY <2>4
    <2>7. ASSUME NEW k \in 0..m PROVE f[k] = h[k]
      <3> HIDE DEF Step
      <3>1. CASE k = m
        BY <1>5, <2>6, <3>1
      <3>2. CASE k # m
        <4>1. k \in 0..(m - 1) /\ f[k] = g[k]
          BY <2>4, <3>2
        <4> QED
          BY <2>5, <2>6, <4>1
      <3> QED
        BY <3>1, <3>2
    <2>8. f = h
      BY <2>7
    <2>9. Keeps(f, s, I, m)
      BY <2>8 DEF Keeps
    <2> QED
      BY <1>3, <2>9
  <1> QED
    BY <1>4, <1>5

(* Kept is what it has at the end.                                         *)
LEMMA KeptIsKeeps ==
    ASSUME NEW s, NEW I, Len(s) \in Nat
    PROVE  \E g : /\ Kept(s, I) = g[Len(s)]
                  /\ g[0] = << >>
                  /\ \A m \in 1..Len(s) :
                        g[m] = IF m \in I THEN Append(g[m - 1], s[m]) ELSE g[m - 1]
  <1> DEFINE n == Len(s)
             g == CHOOSE f : Keeps(f, s, I, n)
  <1>1. Keeps(g, s, I, n)
    BY KeepsExist
  <1>2. Kept(s, I) = g[n]
    BY DEF Kept, Keeps
  <1> HIDE DEF g
  <1>3. 0 \in 0..n /\ \A m \in 1..n : m \in 0..n /\ m # 0
    OBVIOUS
  <1>4. g[0] = << >> /\ \A m \in 1..n : g[m] = IF m \in I THEN Append(g[m - 1], s[m]) ELSE g[m - 1]
    BY <1>1, <1>3 DEF Keeps
  <1> QED
    BY <1>2, <1>4

(* It keeps nothing but elements of the list.                              *)
LEMMA KeptIsSeq ==
    ASSUME NEW s, NEW I, NEW E, Len(s) \in Nat, \A i \in 1..Len(s) : s[i] \in E
    PROVE  Kept(s, I) \in Seq(E)
  <1>1. PICK g : /\ Kept(s, I) = g[Len(s)]
                 /\ g[0] = << >>
                 /\ \A m \in 1..Len(s) :
                       g[m] = IF m \in I THEN Append(g[m - 1], s[m]) ELSE g[m - 1]
    BY KeptIsKeeps
  <1> DEFINE n == Len(s)
             X == {m \in 0..n : g[m] \notin Seq(E)}
  <1>2. X = {}
    <2> SUFFICES ASSUME X # {} PROVE FALSE
      OBVIOUS
    <2>1. X \subseteq Nat
      OBVIOUS
    <2> HIDE DEF X
    <2>2. PICK m \in X : \A k \in X : m <= k
      BY <2>1, LeastHeight
    <2> USE DEF X
    <2>3. m # 0
      <3>1. << >> \in Seq(E)
        OBVIOUS
      <3> QED
        BY <1>1, <2>2, <3>1
    <2>4. m \in 1..n /\ m - 1 \in 0..n /\ ~ (m <= m - 1)
      BY <2>2, <2>3
    <2>5. g[m - 1] \in Seq(E)
      BY <2>2, <2>4
    <2>6. g[m] \in Seq(E)
      <3> DEFINE a == g[m - 1]
                 e == s[m]
      <3>1. a \in Seq(E) /\ e \in E
        BY <2>4, <2>5
      <3>2. g[m] = IF m \in I THEN Append(a, e) ELSE a
        BY <1>1, <2>4
      <3> HIDE DEF a, e
      <3>3. Append(a, e) \in Seq(E)
        BY <3>1
      <3> QED
        BY <3>1, <3>2, <3>3
    <2> QED
      BY <2>2, <2>6
  <1>3. n \in 0..n
    OBVIOUS
  <1> QED
    BY <1>1, <1>2, <1>3

(* The end of a list, from behind its first k elements.                    *)
IsEnd(r, s, k, n) ==
    /\ Len(r) = n - k
    /\ DOMAIN r = 1..(n - k)
    /\ \A j \in 1..(n - k) : r[j] = s[k + j]

(* Where the elements to keep are all behind the first k, what is kept is  *)
(* the end of the list.                                                    *)
LEMMA KeptIsEnd ==
    ASSUME NEW s, NEW I, Len(s) \in Nat, NEW k \in 0..Len(s),
           \A i \in 1..Len(s) : i \in I <=> i > k
    PROVE  IsEnd(Kept(s, I), s, k, Len(s)) /\ (k = Len(s) => Kept(s, I) = << >>)
  <1>1. PICK g : /\ Kept(s, I) = g[Len(s)]
                 /\ g[0] = << >>
                 /\ \A m \in 1..Len(s) :
                       g[m] = IF m \in I THEN Append(g[m - 1], s[m]) ELSE g[m - 1]
    BY KeptIsKeeps
  <1> DEFINE n == Len(s)
             E == {s[i] : i \in 1..n}
             Fine(m) == IF m <= k THEN g[m] = << >>
                        ELSE g[m] \in Seq(E) /\ IsEnd(g[m], s, k, m)
             X == {m \in 0..n : ~Fine(m)}
  <1>2. X = {}
    <2> SUFFICES ASSUME X # {} PROVE FALSE
      OBVIOUS
    <2>1. X \subseteq Nat
      OBVIOUS
    <2> HIDE DEF X
    <2>2. PICK m \in X : \A j \in X : m <= j
      BY <2>1, LeastHeight
    <2> USE DEF X
    <2>3. m # 0
      BY <1>1, <2>2
    <2>4. m \in 1..n /\ m - 1 \in 0..n /\ ~ (m <= m - 1)
      BY <2>2, <2>3
    <2>5. Fine(m - 1)
      BY <2>2, <2>4
    <2>6. g[m] = IF m > k THEN Append(g[m - 1], s[m]) ELSE g[m - 1]
      BY <1>1, <2>4
    <2>7. CASE m <= k
      <3>1. g[m] = g[m - 1] /\ m - 1 <= k
        BY <2>4, <2>6, <2>7
      <3>2. Fine(m)
        BY <2>5, <2>7, <3>1
      <3> QED
        BY <2>2, <3>2
    <2>8. CASE m > k
      <3> DEFINE a == g[m - 1]
                 e == s[m]
                 l == m - 1 - k
      <3>1. g[m] = Append(a, e) /\ e \in E
        BY <2>4, <2>6, <2>8
      <3>2. /\ l \in Nat /\ m - k = l + 1 /\ k + (l + 1) = m
            /\ \A j \in 1..(l + 1) : j \in 1..l \/ j = l + 1
        BY <2>4, <2>8
      <3>3. a \in Seq(E) /\ Len(a) = l /\ DOMAIN a = 1..l /\ \A j \in 1..l : a[j] = s[k + j]
        <4>1. CASE m - 1 <= k
          <5>1. a = << >> /\ l = 0
            BY <2>4, <2>5, <2>8, <4>1
          <5> QED
            BY <5>1
        <4>2. CASE ~ (m - 1 <= k)
          BY <2>5, <4>2 DEF IsEnd
        <4> QED
          BY <4>1, <4>2
      <3> HIDE DEF a, e, l, E
      <3> DEFINE r == Append(a, e)
      <3>4. /\ r \in Seq(E) /\ Len(r) = l + 1 /\ DOMAIN r = 1..(l + 1)
            /\ \A j \in 1..l : r[j] = a[j]
            /\ r[l + 1] = e
        BY <3>1, <3>2, <3>3
      <3> HIDE DEF r
      <3>5. \A j \in 1..(l + 1) : r[j] = s[k + j]
        BY <3>2, <3>3, <3>4 DEF e
      <3>6. IsEnd(r, s, k, m)
        BY <3>2, <3>4, <3>5 DEF IsEnd
      <3>7. ~ (m <= k)
        BY <2>4, <2>8
      <3>8. Fine(m)
        BY <3>1, <3>4, <3>6, <3>7 DEF r
      <3> QED
        BY <2>2, <3>8
    <2> QED
      BY <2>4, <2>7, <2>8
  <1>3. Fine(n)
    <2>1. n \in 0..n
      OBVIOUS
    <2> HIDE DEF Fine
    <2> QED
      BY <1>2, <2>1
  <1>4. CASE k = n
    <2>1. Kept(s, I) = << >>
      BY <1>1, <1>3, <1>4
    <2>2. n - k = 0
      BY <1>4
    <2>3. IsEnd(<< >>, s, k, n)
      BY <2>2 DEF IsEnd
    <2> QED
      BY <2>1, <2>3
  <1>5. CASE k # n
    BY <1>1, <1>3, <1>5
  <1> QED
    BY <1>4, <1>5

-----------------------------------------------------------------------------
(* A document's blocks as the reader lets them pass: one above the other.  *)
Ascending(blocks) ==
    /\ Heighted(blocks)
    /\ \E from \in Nat : \A i \in DOMAIN blocks : blocks[i].header.height = from + i - 1

(* The blocks a chain lacks are the document's last.                       *)
LacksFrom(image, blocks, run, k) ==
    /\ k \in 0..Len(blocks)
    /\ \A i \in 1..Len(blocks) : blocks[i].header.height <= image.head.height <=> i <= k
    /\ IsEnd(run, blocks, k, Len(blocks))
    /\ k = Len(blocks) => run = << >>

(* Of a document in ascending order a plan lists the blocks from one       *)
(* place to the end (plan_import).                                         *)
LEMMA WhatIsLacking ==
    ASSUME NEW image, image.head.height \in Nat, NEW document,
           Ascending(BlocksOf(document))
    PROVE  \E k : LacksFrom(image, BlocksOf(document), ToAppend(image, document), k)
  <1> DEFINE blocks == BlocksOf(document)
             n == Len(blocks)
             H == image.head.height
  <1> HIDE DEF blocks
  <1>1. n \in Nat /\ DOMAIN blocks = 1..n
    BY DEF Ascending, Heighted, blocks
  <1>2. PICK from \in Nat : \A i \in 1..n : blocks[i].header.height = from + i - 1
    BY <1>1 DEF Ascending, blocks
  <1> DEFINE I == {i \in DOMAIN blocks : blocks[i].header.height > H}
  <1>3. ToAppend(image, document) = Kept(blocks, I)
    BY DEF ToAppend, blocks
  <1>4. \A i \in 1..n : blocks[i].header.height <= H <=> ~ (blocks[i].header.height > H)
    BY <1>2
  <1>5. \E k \in 0..n : \A i \in 1..n : blocks[i].header.height <= H <=> i <= k
    <2>1. CASE H < from
      <3>1. 0 \in 0..n /\ \A i \in 1..n : ~ (from + i - 1 <= H) /\ ~ (i <= 0)
        BY <1>1, <2>1
      <3> QED
        BY <1>2, <3>1
    <2>2. CASE from <= H /\ H - from + 1 <= n
      <3>1. H - from + 1 \in 0..n /\ \A i \in 1..n : from + i - 1 <= H <=> i <= H - from + 1
        BY <1>1, <2>2
      <3> QED
        BY <1>2, <3>1
    <2>3. CASE from <= H /\ ~ (H - from + 1 <= n)
      <3>1. n \in 0..n /\ \A i \in 1..n : from + i - 1 <= H /\ i <= n
        BY <1>1, <2>3
      <3> QED
        BY <1>2, <3>1
    <2> QED
      BY <1>2, <2>1, <2>2, <2>3
  <1>6. PICK k \in 0..n : \A i \in 1..n : blocks[i].header.height <= H <=> i <= k
    BY <1>5
  <1>7. \A i \in 1..n : i \in I <=> i > k
    <2> SUFFICES ASSUME NEW i \in 1..n PROVE i \in I <=> i > k
      OBVIOUS
    <2>1. i > k <=> ~ (i <= k)
      BY <1>1
    <2> QED
      BY <1>1, <1>4, <1>6, <2>1
  <1> HIDE DEF I
  <1>8. IsEnd(Kept(blocks, I), blocks, k, n) /\ (k = n => Kept(blocks, I) = << >>)
    BY <1>1, <1>7, KeptIsEnd
  <1> QED
    BY <1>3, <1>6, <1>8 DEF LacksFrom, blocks

(* What it means that plan_import refuses nothing.                         *)
Passed(image, document, run) ==
    /\ check_document_identity(image, document) = {}
    /\ check_declared_hashes(document) = {}
    /\ \A i \in DOMAIN BlocksOf(document) :
          LET block == BlocksOf(document)[i]
          IN  block.header.height <= image.head.height
                => image.blocks[block.header.height] = block
    /\ run # << >> =>
          /\ run[1].header.height = image.head.height + 1
          /\ \A i \in DOMAIN run :
                check_block(image.network_id,
                            Some(IF i = 1 THEN image.blocks[image.head.height].header
                                 ELSE run[i - 1].header),
                            None, PendingAware(image, run, i), run[i]) = {}

(* An empty plan, spelt out (plan_import).                                 *)
LEMMA PlanPassed ==
    ASSUME NEW image, NEW document
    PROVE  plan_import(image, document) = {}
             <=> Passed(image, document, ToAppend(image, document))
  <1> DEFINE blocks == BlocksOf(document)
             run == ToAppend(image, document)
             identity == check_document_identity(image, document)
                         \cup check_declared_hashes(document)
             forks == {i \in DOMAIN blocks :
                         /\ blocks[i].header.height <= image.head.height
                         /\ image.blocks[blocks[i].header.height] # blocks[i]}
             judged(i) == check_block(image.network_id,
                            Some(IF i = 1 THEN image.blocks[image.head.height].header
                                 ELSE run[i - 1].header),
                            None, PendingAware(image, run, i), run[i])
  <1>1. validate_run(image, run) = {} <=> \A i \in DOMAIN run : judged(i) = {}
    <2>1. validate_run(image, run) = UNION {judged(i) : i \in DOMAIN run}
      BY DEF validate_run
    <2> HIDE DEF judged, run
    <2> QED
      BY <2>1
  <1>2. plan_import(image, document) =
          IF identity # {} THEN identity
          ELSE IF forks # {} THEN {"Fork"}
          ELSE IF run = << >> THEN {}
          ELSE IF run[1].header.height # image.head.height + 1 THEN {"Gap"}
          ELSE validate_run(image, run)
    BY DEF plan_import
  <1>3. forks = {} <=> \A i \in DOMAIN blocks :
                          blocks[i].header.height <= image.head.height
                            => image.blocks[blocks[i].header.height] = blocks[i]
    OBVIOUS
  <1>4. identity = {} <=> /\ check_document_identity(image, document) = {}
                          /\ check_declared_hashes(document) = {}
    OBVIOUS
  <1>5. Passed(image, document, run) <=>
          /\ identity = {}
          /\ forks = {}
          /\ run # << >> => /\ run[1].header.height = image.head.height + 1
                            /\ \A i \in DOMAIN run : judged(i) = {}
    <2> HIDE DEF run, forks, identity
    <2> QED
      BY <1>3, <1>4 DEF Passed
  <1> HIDE DEF blocks, run, identity, forks, judged
  <1>6. plan_import(image, document) = {}
          <=> /\ identity = {}
              /\ forks = {}
              /\ run # << >> => /\ run[1].header.height = image.head.height + 1
                                /\ \A i \in DOMAIN run : judged(i) = {}
    BY <1>1, <1>2
  <1> QED
    BY <1>5, <1>6 DEF run

(* One block that continues the chain and breaks no rule is appended.      *)
LEMMA OneMore ==
    ASSUME NEW outcome, NEW block, ValidImage(outcome.image), outcome.ok,
           block.header.height = outcome.image.head.height + 1,
           check_block(outcome.image.network_id,
                       Some(outcome.image.blocks[outcome.image.head.height].header),
                       None, outcome.image.ids, block) = {},
           NEW next, next = AppendOne(outcome, block)
    PROVE  /\ next.ok /\ next.appended = outcome.appended + 1
           /\ Extends1(next.image, outcome.image, block)
  <1> DEFINE image == outcome.image
             H == image.head.height
  <1>1. H \in Nat /\ DOMAIN image.blocks = 0..H
    BY DEF ValidImage
  <1>2. ~ (block.header.height <= H)
    BY <1>1
  <1>3. next = [ok |-> TRUE, image |-> Extended(image, block),
                appended |-> outcome.appended + 1]
    BY <1>2 DEF AppendOne
  <1>4. Extends1(Extended(image, block), image, block)
    BY <1>1, ExtendedHolds
  <1>5. next.ok /\ next.appended = outcome.appended + 1 /\ next.image = Extended(image, block)
    BY <1>3
  <1> HIDE DEF image
  <1> QED
    BY <1>4, <1>5 DEF image

(* Where a batch stands that a plan let pass: the blocks the chain has     *)
(* change nothing, and each later one is on the head.                      *)
Arrived(outcome, image, blocks, run, k, m) ==
    IF m <= k THEN outcome = Nothing(image)
    ELSE /\ outcome.ok
         /\ outcome.appended = m - k
         /\ outcome.image.network_id = image.network_id
         /\ outcome.image.head = [height |-> blocks[m].header.height,
                                  hash |-> HashOf(blocks[m])]
         /\ outcome.image.head.height = blocks[m].header.height
         /\ outcome.image.blocks[blocks[m].header.height] = blocks[m]
         /\ outcome.image.ids = PendingAware(image, run, m - k + 1)

(* Where a plan passed, each block the plan skipped is present, and each   *)
(* block it lists is appended in its turn (append_blocks).                 *)
LEMMA Arrives ==
    ASSUME NEW image, ValidImage(image), NEW document,
           Ascending(BlocksOf(document)),
           NEW run, Passed(image, document, run),
           NEW k, LacksFrom(image, BlocksOf(document), run, k),
           NEW f, Passes(f, image, BlocksOf(document), Len(BlocksOf(document)))
    PROVE  \A m \in 0..Len(BlocksOf(document)) :
              Arrived(f[m], image, BlocksOf(document), run, k, m)
  <1> DEFINE blocks == BlocksOf(document)
             n == Len(blocks)
             H == image.head.height
             X == {m \in 0..n : ~Arrived(f[m], image, blocks, run, k, m)}
  <1> HIDE DEF blocks
  <1>1. n \in Nat /\ DOMAIN blocks = 1..n /\ H \in Nat /\ k \in 0..n
        /\ \A i \in 1..n : blocks[i].header.height \in Nat
    BY DEF Ascending, Heighted, blocks, ValidImage, LacksFrom
  <1>2. PICK from \in Nat : \A i \in 1..n : blocks[i].header.height = from + i - 1
    BY <1>1 DEF Ascending, blocks
  <1>3. /\ f[0] = Nothing(image)
        /\ \A m \in 1..n : f[m] = AppendOne(f[m - 1], blocks[m])
    BY <1>1, PassageSteps DEF blocks
  <1>4. \A m \in 0..n : ValidImage(f[m].image)
    <2>1. \A m \in 0..n : SoFar(f[m], image, blocks, m)
      BY PassageHolds DEF blocks, Ascending
    <2> QED
      BY <2>1 DEF SoFar
  <1>5. /\ \A i \in 1..n : blocks[i].header.height <= H <=> i <= k
        /\ DOMAIN run = 1..(n - k) /\ \A j \in 1..(n - k) : run[j] = blocks[k + j]
    BY DEF LacksFrom, IsEnd, blocks
  <1>6. \A i \in 1..n : blocks[i].header.height <= H
                            => image.blocks[blocks[i].header.height] = blocks[i]
    BY <1>1 DEF Passed, blocks
  <1>7. n > k => /\ run[1].header.height = H + 1
                 /\ \A i \in 1..(n - k) :
                      check_block(image.network_id,
                            Some(IF i = 1 THEN image.blocks[H].header
                                 ELSE run[i - 1].header),
                            None, PendingAware(image, run, i), run[i]) = {}
    <2> SUFFICES ASSUME n > k
                 PROVE  /\ run[1].header.height = H + 1
                        /\ \A i \in 1..(n - k) :
                              check_block(image.network_id,
                                    Some(IF i = 1 THEN image.blocks[H].header
                                         ELSE run[i - 1].header),
                                    None, PendingAware(image, run, i), run[i]) = {}
      OBVIOUS
    <2>1. run # << >>
      <3>1. 1 \in DOMAIN run
        BY <1>1, <1>5
      <3> QED
        BY <3>1
    <2> QED
      BY <1>5, <2>1 DEF Passed
  <1>8. SUFFICES ASSUME X # {} PROVE FALSE
    BY DEF blocks
  <1>9. X \subseteq Nat
    BY <1>1
  <1> HIDE DEF X
  <1>10. PICK m \in X : \A j \in X : m <= j
    BY <1>8, <1>9, LeastHeight
  <1> USE DEF X
  <1>11. CASE m = 0
    <2>1. Arrived(f[0], image, blocks, run, k, 0)
      BY <1>1, <1>3 DEF Arrived
    <2> QED
      BY <1>10, <1>11, <2>1
  <1>12. CASE m # 0
    <2> DEFINE o == f[m - 1]
               b == blocks[m]
    <2>1. m \in 1..n /\ m - 1 \in 0..n /\ ~ (m <= m - 1)
      BY <1>1, <1>10, <1>12
    <2>2. Arrived(o, image, blocks, run, k, m - 1)
      BY <1>10, <2>1
    <2>3. f[m] = AppendOne(o, b)
      BY <1>3, <2>1
    <2> HIDE DEF o
    <2>4. CASE m <= k
      <3>1. o = Nothing(image)
        BY <1>1, <2>1, <2>2, <2>4 DEF Arrived
      <3>2. b.header.height <= H /\ image.blocks[b.header.height] = b
        BY <1>5, <1>6, <2>1, <2>4
      <3>3. o.ok /\ o.image = image
        BY <3>1 DEF Nothing
      <3>4. f[m] = o
        BY <2>3, <3>2, <3>3 DEF AppendOne
      <3>5. Arrived(f[m], image, blocks, run, k, m)
        BY <2>4, <3>1, <3>4 DEF Arrived
      <3> QED
        BY <1>10, <3>5
    <2>5. CASE ~ (m <= k)
      <3> DEFINE l == m - 1 - k
      <3>1. /\ l \in Nat /\ m - k = l + 1 /\ l + 1 \in 1..(n - k) /\ n > k /\ k + (l + 1) = m
            /\ (l + 1) - 1 = l /\ m - 1 - k = l
        BY <1>1, <2>1, <2>5
      <3>2. b = run[l + 1]
        BY <1>5, <3>1
      <3>3. /\ o.ok /\ o.appended = l
            /\ o.image.network_id = image.network_id
            /\ b.header.height = o.image.head.height + 1
            /\ o.image.blocks[o.image.head.height].header
                 = (IF l + 1 = 1 THEN image.blocks[H].header ELSE run[(l + 1) - 1].header)
            /\ o.image.ids = PendingAware(image, run, l + 1)
        <4>1. CASE l = 0
          <5>1. o = Nothing(image)
            <6>1. m - 1 <= k
              BY <1>1, <2>1, <4>1
            <6> QED
              BY <2>2, <6>1 DEF Arrived
          <5>2. o.ok /\ o.image = image /\ o.appended = 0
            BY <5>1 DEF Nothing
          <5>3. PendingAware(image, run, 1) = image.ids
            BY DEF PendingAware
          <5> HIDE DEF l
          <5>4. b.header.height = H + 1
            BY <1>7, <3>1, <3>2, <4>1
          <5> QED
            BY <4>1, <5>2, <5>3, <5>4
        <4>2. CASE l # 0
          <5>1. ~ (m - 1 <= k) /\ m - 1 \in 1..n /\ l \in 1..(n - k) /\ k + l = m - 1
            <6>1. l > 0 /\ m = k + l + 1 /\ m <= n /\ k \in Nat /\ n \in Nat /\ m \in Nat
              BY <1>1, <2>1, <3>1, <4>2
            <6> HIDE DEF l
            <6> QED
              BY <3>1, <6>1
          <5>2. /\ o.ok
                /\ o.appended = (m - 1) - k
                /\ o.image.network_id = image.network_id
                /\ o.image.head.height = blocks[m - 1].header.height
                /\ o.image.blocks[blocks[m - 1].header.height] = blocks[m - 1]
                /\ o.image.ids = PendingAware(image, run, (m - 1) - k + 1)
            BY <2>2, <5>1 DEF Arrived
          <5>3. b.header.height = blocks[m - 1].header.height + 1
            <6>1. b.header.height = from + m - 1 /\ blocks[m - 1].header.height = from + (m - 1) - 1
              BY <1>2, <2>1, <5>1
            <6> QED
              BY <2>1, <6>1
          <5>4. run[l] = blocks[m - 1]
            BY <1>5, <5>1
          <5>5. (m - 1) - k = l /\ l + 1 # 1
            BY <1>1, <2>1, <3>1, <4>2
          <5> HIDE DEF l
          <5> QED
            BY <3>1, <5>2, <5>3, <5>4, <5>5
        <4> QED
          BY <4>1, <4>2
      <3>4. check_block(o.image.network_id, Some(o.image.blocks[o.image.head.height].header),
                        None, o.image.ids, b) = {}
        <4> HIDE DEF l
        <4> QED
          BY <1>7, <3>1, <3>2, <3>3
      <3>5. ValidImage(o.image)
        BY <1>4, <2>1 DEF o
      <3>6. /\ f[m].ok /\ f[m].appended = l + 1
            /\ Extends1(f[m].image, o.image, b)
        <4> HIDE DEF l, b
        <4> QED
          BY <2>3, <3>3, <3>4, <3>5, OneMore
      <3>7. /\ f[m].image.network_id = image.network_id
            /\ f[m].image.head = [height |-> b.header.height, hash |-> HashOf(b)]
            /\ f[m].image.head.height = b.header.height
            /\ f[m].image.blocks[b.header.height] = b
            /\ f[m].image.ids = o.image.ids \cup TxIds(b.transactions)
        <4> HIDE DEF l, b
        <4> QED
          BY <3>3, <3>6 DEF Extends1
      <3>8. PendingAware(image, run, l + 1) \cup TxIds(b.transactions)
              = PendingAware(image, run, l + 1 + 1)
        <4>1. 1..((l + 1 + 1) - 1) = 1..((l + 1) - 1) \cup {l + 1}
          BY <3>1
        <4> HIDE DEF l, b
        <4> QED
          BY <3>2, <4>1 DEF PendingAware
      <3>9. Arrived(f[m], image, blocks, run, k, m)
        <4> HIDE DEF l
        <4>1. m - k = l + 1 /\ f[m].appended = m - k
          BY <3>1, <3>6
        <4>2. f[m].image.ids = PendingAware(image, run, m - k + 1)
          <5> HIDE DEF o, b
          <5>1. f[m].image.ids = PendingAware(image, run, l + 1 + 1)
            BY <3>3, <3>7, <3>8
          <5>2. m - k + 1 = l + 1 + 1
            BY <4>1
          <5> QED
            BY <5>1, <5>2
        <4>3. /\ f[m].ok
              /\ f[m].image.network_id = image.network_id
              /\ f[m].image.head = [height |-> blocks[m].header.height,
                                    hash |-> HashOf(blocks[m])]
              /\ f[m].image.head.height = blocks[m].header.height
              /\ f[m].image.blocks[blocks[m].header.height] = blocks[m]
          BY <3>6, <3>7, Zenon
        <4> HIDE DEF o, b
        <4> QED
          BY <2>5, <4>1, <4>2, <4>3, Zenon DEF Arrived
      <3> QED
        BY <1>10, <3>9
    <2> QED
      BY <2>4, <2>5
  <1> QED
    BY <1>11, <1>12

(* What plan_import lets pass, append_blocks takes, and ends at the head   *)
(* the plan announced.                                                     *)
KeepsItsWord(image, document) ==
    LET outcome == append_blocks(image, BlocksOf(document))
    IN  /\ outcome.ok
        /\ outcome.image.head = resulting_head(image, document)
        /\ outcome.appended = Len(ToAppend(image, document))

(* What a plan let pass is applied as planned (plan_import, import).       *)
LEMMA PlansAreKept ==
    ASSUME NEW image, ValidImage(image), NEW document,
           Ascending(BlocksOf(document)), plan_import(image, document) = {}
    PROVE  KeepsItsWord(image, document)
  <1> DEFINE blocks == BlocksOf(document)
             n == Len(blocks)
             run == ToAppend(image, document)
             outcome == append_blocks(image, blocks)
  <1> HIDE DEF blocks, run, outcome
  <1>1. n \in Nat
    BY DEF Ascending, Heighted, blocks
  <1>2. Passed(image, document, run)
    BY PlanPassed DEF run
  <1>3. PICK k : LacksFrom(image, blocks, run, k)
    BY WhatIsLacking DEF ValidImage, blocks, run
  <1>4. PICK f : Passes(f, image, blocks, n) /\ outcome = f[n]
    BY <1>1, AppendIsPasses DEF outcome
  <1>5. Arrived(outcome, image, blocks, run, k, n)
    <2>1. n \in 0..n
      BY <1>1
    <2> QED
      BY <1>2, <1>3, <1>4, <2>1, Arrives DEF blocks
  <1>6. k \in 0..n /\ Len(run) = n - k /\ (k = n => run = << >>)
    BY <1>3 DEF LacksFrom, IsEnd
  <1>7. resulting_head(image, document) =
          IF run = << >> THEN image.head
          ELSE [height |-> run[Len(run)].header.height, hash |-> HashOf(run[Len(run)])]
    BY DEF resulting_head, run
  <1>8. /\ outcome.ok
        /\ outcome.image.head = resulting_head(image, document)
        /\ outcome.appended = Len(run)
    <2>1. CASE k = n
      <3>1. outcome = Nothing(image)
        BY <1>5, <1>6, <2>1 DEF Arrived
      <3>2. Len(run) = 0
        BY <1>6, <2>1
      <3> QED
        BY <1>6, <1>7, <2>1, <3>1, <3>2 DEF Nothing
    <2>2. CASE k # n
      <3>1. n - k \in 1..(n - k) /\ ~ (n <= k) /\ k + (n - k) = n
        BY <1>1, <1>6, <2>2
      <3>2. run[n - k] = blocks[n]
        BY <1>3, <3>1 DEF LacksFrom, IsEnd
      <3>3. run # << >>
        <4>1. n - k \in DOMAIN run
          BY <1>3, <3>1 DEF LacksFrom, IsEnd
        <4> QED
          BY <3>1, <4>1
      <3>4. /\ outcome.ok /\ outcome.appended = n - k
            /\ outcome.image.head = [height |-> blocks[n].header.height,
                                     hash |-> HashOf(blocks[n])]
        BY <1>5, <3>1 DEF Arrived
      <3> QED
        BY <1>6, <1>7, <3>2, <3>3, <3>4
    <2> QED
      BY <2>1, <2>2
  <1> QED
    BY <1>8 DEF KeepsItsWord, outcome, run, blocks

-----------------------------------------------------------------------------
(* The document format: what is written is what is read.                   *)

(* Two lists joined: the one, then the other.                              *)
IsJoin(c, a, z) ==
    /\ DOMAIN c = 1..(Len(a) + Len(z))
    /\ Len(c) = Len(a) + Len(z)
    /\ \A i \in 1..Len(a) : c[i] = a[i]
    /\ \A i \in 1..Len(z) : c[Len(a) + i] = z[i]

(* That is what \o makes of them.                                          *)
LEMMA Joined ==
    ASSUME NEW E, NEW a \in Seq(E), NEW z \in Seq(E)
    PROVE  a \o z \in Seq(E) /\ IsJoin(a \o z, a, z)
  <1> DEFINE c == a \o z
  <1>1. c \in Seq(E) /\ Len(c) = Len(a) + Len(z)
    OBVIOUS
  <1>2. \A i \in 1..Len(a) : c[i] = a[i]
    OBVIOUS
  <1>3. ASSUME NEW i \in 1..Len(z) PROVE c[Len(a) + i] = z[i]
    <2> DEFINE k == Len(a) + i
    <2>1. k \in 1..(Len(a) + Len(z)) /\ ~ (k <= Len(a)) /\ k - Len(a) = i
      OBVIOUS
    <2> HIDE DEF k
    <2>2. (a \o z)[k] = z[k - Len(a)]
      BY <2>1
    <2> QED
      BY <2>1, <2>2 DEF k
  <1>4. DOMAIN c = 1..(Len(a) + Len(z))
    <2> HIDE DEF c
    <2> QED
      BY <1>1
  <1> QED
    BY <1>1, <1>2, <1>3, <1>4 DEF IsJoin

(* A token between two white spaces.                                       *)
LEMMA Between ==
    ASSUME NEW x, NEW s
    PROVE  LET c == <<s>> \o <<x>> \o <<s>>
           IN  DOMAIN c = 1..3 /\ c[1] = s /\ c[2] = x /\ c[3] = s
  <1> DEFINE E == {x, s}
             u == <<s>>
             v == <<x>>
             a == u \o v
             c == a \o u
  <1>1. /\ u \in Seq(E) /\ Len(u) = 1 /\ u[1] = s
        /\ v \in Seq(E) /\ Len(v) = 1 /\ v[1] = x
    OBVIOUS
  <1> HIDE DEF u, v, E
  <1>2. a \in Seq(E) /\ IsJoin(a, u, v)
    BY <1>1, Joined
  <1> HIDE DEF a
  <1>3. IsJoin(c, a, u)
    BY <1>1, <1>2, Joined
  <1> HIDE DEF c
  <1>4. Len(a) = 2 /\ a[1] = s /\ a[2] = x
    <2>1. 1 \in 1..1 /\ 1 + 1 = 2
      OBVIOUS
    <2>2. a[1] = u[1] /\ a[1 + 1] = v[1]
      BY <1>1, <1>2, <2>1 DEF IsJoin
    <2> QED
      BY <1>1, <1>2, <2>1, <2>2 DEF IsJoin
  <1>5. DOMAIN c = 1..3 /\ c[1] = s /\ c[2] = x /\ c[3] = s
    <2>1. 1 \in 1..1 /\ 1 \in 1..2 /\ 2 \in 1..2 /\ 2 + 1 = 3
      OBVIOUS
    <2>2. c[1] = a[1] /\ c[2] = a[2] /\ c[2 + 1] = u[1] /\ DOMAIN c = 1..(2 + 1)
      BY <1>1, <1>3, <1>4, <2>1 DEF IsJoin
    <2> QED
      BY <1>1, <1>4, <2>1, <2>2
  <1> QED
    BY <1>5 DEF c, a, u, v

(* A single token stands alone, and alone between two white spaces.        *)
LEMMA TokenAlone ==
    ASSUME NEW x, x # Space, NEW content,
           content = <<x>> \/ content = <<Space>> \o <<x>> \o <<Space>>
    PROVE  \E i \in DOMAIN content : Solid(content) = {i} /\ content[i] = x
  <1>1. CASE content = <<x>>
    <2>1. DOMAIN content = {1} /\ content[1] = x
      BY <1>1
    <2> QED
      BY <2>1 DEF Solid
  <1>2. CASE content = <<Space>> \o <<x>> \o <<Space>>
    <2> DEFINE c == <<Space>> \o <<x>> \o <<Space>>
    <2>2. DOMAIN c = 1..3 /\ c[1] = Space /\ c[2] = x /\ c[3] = Space
      BY Between
    <2> HIDE DEF c
    <2>3. Solid(c) = {2}
      BY <2>2 DEF Solid
    <2>4. content = c
      BY <1>2 DEF c
    <2> QED
      BY <2>2, <2>3, <2>4
  <1> QED
    BY <1>1, <1>2

(* A content of one token is read for what the token is.                   *)
LEMMA TokenRead ==
    ASSUME NEW content, NEW i \in DOMAIN content, Solid(content) = {i}
    PROVE  /\ content[i][1] = "element" => nested_payload(content) = {<<content[i]>>}
           /\ content[i][1] = "base64" => binary_text(content) = {content[i][2]}
  <1>1. ASSUME content[i][1] = "element" PROVE nested_payload(content) = {<<content[i]>>}
    <2>1. {j \in Solid(content) : Solid(content) = {j} /\ content[j][1] = "element"} = {i}
      BY <1>1
    <2> QED
      BY <2>1 DEF nested_payload
  <1>2. ASSUME content[i][1] = "base64" PROVE binary_text(content) = {content[i][2]}
    <2>1. {j \in Solid(content) : Solid(content) = {j} /\ content[j][1] = "base64"} = {i}
      BY <1>2
    <2>2. Solid(content) # {}
      OBVIOUS
    <2> QED
      BY <2>1, <2>2 DEF binary_text
  <1> QED
    BY <1>1, <1>2

(* A payload is read back as it was written, laid out or not; version 1    *)
(* reads it so or not at all (write_payload, Parser::transaction).         *)
LEMMA PayloadsReadBack ==
    ASSUME NEW p, IsList(p), NEW version, NEW element,
           element = write_payload(p) \/ element = Spaced(write_payload(p))
    PROVE  /\ version # 1 => read_payload(version, element) = {p}
           /\ read_payload(version, element) # {} => read_payload(version, element) = {p}
  <1> DEFINE w == write_payload(p)
             c == element.content
             enc == payload_encoding(version, element)
             Read(e) == IF e = "xml" THEN nested_payload(c) ELSE binary_text(c)
  <1>1. read_payload(version, element) = UNION {Read(e) : e \in enc}
    BY DEF read_payload
  <1>2. CASE p = << >>
    <2>1. w = [encoding |-> None, content |-> << >>]
      BY <1>2 DEF write_payload
    <2>2. element = [encoding |-> None, content |-> << >>]
      BY <2>1 DEF Spaced
    <2>3. enc = {"base64"}
      BY <2>2 DEF payload_encoding, Some
    <2>4. c = << >> /\ Solid(c) = {}
      BY <2>2 DEF Solid
    <2>5. Read("base64") = {p}
      BY <1>2, <2>4 DEF binary_text, Some
    <2> HIDE DEF Read, enc
    <2> QED
      BY <1>1, <2>3, <2>5
  <1>3. CASE p # << >>
    <2> DEFINE kind == choose(p)
               x == IF kind = "xml" THEN p[1] ELSE base64(p)
    <2>1. kind \in {"xml", "base64"} /\ (kind = "xml" <=> is_single_element(p))
      BY DEF choose
    <2>2. kind = "xml" => p = <<p[1]>> /\ p[1][1] = "element"
      <3>1. ASSUME is_single_element(p) PROVE p = <<p[1]>> /\ p[1][1] = "element"
        <4>1. Len(p) = 1 /\ p[1][1] = "element"
          BY <3>1 DEF is_single_element
        <4>2. p = [i \in 1..1 |-> p[i]]
          BY <4>1 DEF IsList
        <4>3. p = <<p[1]>>
          BY <4>2
        <4> QED
          BY <4>1, <4>3
      <3> QED
        BY <2>1, <3>1
    <2>3. w = [encoding |-> {kind}, content |-> <<x>>]
      <3> HIDE DEF kind
      <3>1. w = [encoding |-> {kind}, content |-> IF kind = "xml" THEN p ELSE <<base64(p)>>]
        BY <1>3 DEF write_payload, Some, kind
      <3> QED
        BY <2>2, <3>1
    <2>4. x # Space
      <3>1. Space[1] = "space" /\ base64(p)[1] = "base64"
        BY DEF Space, base64
      <3> HIDE DEF kind
      <3> QED
        BY <2>2, <3>1
    <2> HIDE DEF x, kind, w
    <2>5. <<x>> # << >>
      OBVIOUS
    <2>6. Spaced(w) = [encoding |-> {kind}, content |-> <<Space>> \o <<x>> \o <<Space>>]
      BY <2>3, <2>5 DEF Spaced
    <2>7. element.encoding = {kind} /\ (c = <<x>> \/ c = <<Space>> \o <<x>> \o <<Space>>)
      BY <2>3, <2>6 DEF w
    <2>8. enc = (IF version = 1 THEN {} ELSE {kind})
      <3>1. element.encoding # None
        BY <2>7 DEF None
      <3>2. {kind} \cap {"base64", "xml"} = {kind}
        BY <2>1
      <3> QED
        BY <2>7, <3>1, <3>2 DEF payload_encoding, None
    <2> HIDE DEF c
    <2>9. PICK i \in DOMAIN c : Solid(c) = {i} /\ c[i] = x
      BY <2>4, <2>7, TokenAlone
    <2>10. Read(kind) = {p}
      <3>1. CASE kind = "xml"
        <4>1. x = p[1] /\ x[1] = "element" /\ <<x>> = p
          BY <2>2, <3>1 DEF x
        <4> QED
          BY <2>9, <3>1, <4>1, TokenRead
      <3>2. CASE kind = "base64"
        <4>1. x = <<"base64", p>>
          BY <3>2 DEF x, base64
        <4>2. x[1] = "base64" /\ x[2] = p
          BY <4>1
        <4> QED
          BY <2>9, <3>2, <4>2, TokenRead
      <3> QED
        BY <2>1, <3>1, <3>2
    <2> HIDE DEF Read, enc
    <2>11. CASE version = 1
      BY <1>1, <2>8, <2>11
    <2>12. CASE version # 1
      BY <1>1, <2>8, <2>10, <2>12
    <2> QED
      BY <2>11, <2>12
  <1> QED
    BY <1>2, <1>3

-----------------------------------------------------------------------------
(* A transaction's element, and a block's, as a writer or a formatter      *)
(* leaves them.                                                            *)
RendersTx(element, index, tx) ==
    /\ element.index = index
    /\ element.id = tx.id
    /\ element.namespace = tx.body.namespace
    /\ element.nonce = tx.body.nonce
    /\ element.signature = tx.signed
    /\ \/ element.payload = write_payload(tx.body.payload)
       \/ element.payload = Spaced(write_payload(tx.body.payload))

RendersTxs(element, block) ==
    LET elements == element.transactions
        txs == block.transactions
    IN  /\ elements = [j \in DOMAIN txs |-> elements[j]]
        /\ \A j \in DOMAIN txs : RendersTx(elements[j], j - 1, txs[j])

RendersHeader(element, header) ==
    /\ element.height = header.height
    /\ element.header = [version |-> header.version,
                         previous_hash |-> header.previous_hash,
                         tx_root |-> header.tx_root, tx_count |-> header.tx_count,
                         timestamp |-> header.timestamp]

RendersBlock(element, block) ==
    /\ element.hash = HashOf(block)
    /\ RendersHeader(element, block.header)
    /\ RendersTxs(element, block)

(* The block the reader makes of an element.                               *)
ReadBlock(version, network, element) ==
    [header |-> read_header(network, element),
     transactions |-> [j \in DOMAIN element.transactions |->
                          read_transaction(version, element.transactions[j])]]

(* Transactions are read back as they were written, where they are read at *)
(* all (Parser::transaction).                                              *)
LEMMA TxsReadBack ==
    ASSUME NEW block, IsBlock(block), NEW element, RendersTxs(element, block),
           NEW version, NEW network, block_readable(version, element)
    PROVE  ReadBlock(version, network, element).transactions = block.transactions
  <1> DEFINE txs == block.transactions
             elements == element.transactions
             readback == [j \in DOMAIN elements |-> read_transaction(version, elements[j])]
  <1>1. DOMAIN elements = DOMAIN txs
    BY DEF RendersTxs
  <1>2. txs = [j \in DOMAIN txs |-> txs[j]]
    <2>1. txs = [j \in 1..Len(txs) |-> txs[j]]
      BY DEF IsBlock, IsList
    <2> HIDE DEF txs
    <2>2. DOMAIN txs = 1..Len(txs)
      BY <2>1
    <2> QED
      BY <2>1, <2>2
  <1>3. ASSUME NEW j \in DOMAIN txs PROVE read_transaction(version, elements[j]) = txs[j]
    <2> DEFINE e == elements[j]
               tx == txs[j]
               p == tx.body.payload
    <2>1. RendersTx(e, j - 1, tx)
      BY <1>3 DEF RendersTxs
    <2>2. IsTransaction(tx)
      BY <1>3 DEF IsBlock
    <2>3. read_payload(version, e.payload) # {}
      BY <1>1, <1>3 DEF block_readable, transaction_readable, None
    <2> HIDE DEF e, tx
    <2>4. read_payload(version, e.payload) = {p}
      BY <2>1, <2>2, <2>3, PayloadsReadBack DEF RendersTx, IsTransaction
    <2>5. (CHOOSE q \in read_payload(version, e.payload) : TRUE) = p
      BY <2>4
    <2>6. read_transaction(version, e)
            = [id |-> tx.id, signed |-> tx.signed,
               body |-> [namespace |-> tx.body.namespace, nonce |-> tx.body.nonce,
                         payload |-> p]]
      BY <2>1, <2>5 DEF read_transaction, RendersTx
    <2> QED
      BY <2>2, <2>6 DEF IsTransaction, e, tx
  <1>4. readback = [j \in DOMAIN txs |-> txs[j]]
    BY <1>1, <1>3
  <1>5. ReadBlock(version, network, element).transactions = readback
    BY DEF ReadBlock
  <1> HIDE DEF txs, readback
  <1> QED
    BY <1>2, <1>4, <1>5 DEF txs

(* A header is read back as it was written, in the network of the document.*)
LEMMA HeaderReadsBack ==
    ASSUME NEW block, IsBlock(block), NEW element, RendersHeader(element, block.header)
    PROVE  read_header(block.header.network_id, element) = block.header
  BY DEF IsBlock, RendersHeader, read_header

(* Version 2 reads every element it writes, within the reader's limit.     *)
LEMMA BlocksAreReadable ==
    ASSUME NEW block, IsBlock(block), NEW element, RendersTxs(element, block),
           Len(block.transactions) <= MAX_TRANSACTIONS_PER_BLOCK
    PROVE  block_readable(FORMAT_VERSION, element)
  <1> DEFINE txs == block.transactions
             elements == element.transactions
  <1>1. Len(txs) \in Nat /\ DOMAIN txs = 1..Len(txs)
    <2>1. Len(txs) \in Nat /\ txs = [j \in 1..Len(txs) |-> txs[j]]
      BY DEF IsBlock, IsList
    <2> HIDE DEF txs
    <2> QED
      BY <2>1
  <1>2. elements = [j \in 1..Len(txs) |-> elements[j]]
    BY <1>1 DEF RendersTxs
  <1>3. DOMAIN elements = 1..Len(txs) /\ Len(elements) = Len(txs)
    <2> HIDE DEF elements, txs
    <2>1. elements = [j \in 1..Len(txs) |-> elements[j]] /\ Len(txs) \in Nat
      BY <1>1, <1>2
    <2> QED
      BY <2>1
  <1>4. ASSUME NEW j \in DOMAIN elements
        PROVE  transaction_readable(FORMAT_VERSION, elements[j], j - 1)
    <2> DEFINE e == elements[j]
               tx == txs[j]
    <2>1. j \in DOMAIN txs
      BY <1>1, <1>3
    <2>2. RendersTx(e, j - 1, tx)
      BY <2>1 DEF RendersTxs
    <2>3. IsTransaction(tx)
      BY <2>1 DEF IsBlock
    <2> HIDE DEF e, tx
    <2>4. FORMAT_VERSION # 1
      BY DEF FORMAT_VERSION
    <2>5. read_payload(FORMAT_VERSION, e.payload) = {tx.body.payload}
      BY <2>2, <2>3, <2>4, PayloadsReadBack DEF RendersTx, IsTransaction
    <2>6. read_payload(FORMAT_VERSION, e.payload) # None
      BY <2>5 DEF None
    <2>7. transaction_readable(FORMAT_VERSION, e, j - 1)
      BY <2>2, <2>6 DEF transaction_readable, RendersTx
    <2> QED
      BY <2>7 DEF e
  <1> QED
    BY <1>3, <1>4 DEF block_readable

-----------------------------------------------------------------------------
(* What export makes of a chain: blocks that stand one above the other,    *)
(* each with the hash of its header.                                       *)
IsExport(document) ==
    LET n == document.range_end - document.range_start + 1
        blocks == document.blocks
    IN  /\ document.format_version = FORMAT_VERSION
        /\ document.kind \in {"full", "range", "projection"}
        /\ document.kind = "projection" <=> document.projection # None
        /\ document.network_id = Founding.header.network_id
        /\ document.genesis_hash = HashOf(Founding)
        /\ document.range_start \in Nat /\ document.range_end \in Nat
        /\ document.range_start <= document.range_end
        /\ document.kind = "full" => document.range_start = GENESIS
        /\ blocks = [i \in 1..n |-> [block |-> blocks[i].block,
                                     declared_hash |-> HashOf(blocks[i].block)]]
        /\ \A i \in 1..n : /\ IsBlock(blocks[i].block)
                           /\ blocks[i].block.header.height = document.range_start + i - 1

(* A text whose blocks render the document's.                              *)
RendersBlocks(t, document) ==
    /\ t.blocks = [i \in DOMAIN document.blocks |-> t.blocks[i]]
    /\ \A i \in DOMAIN document.blocks :
          RendersBlock(t.blocks[i], document.blocks[i].block)

Renders(t, document) ==
    /\ t.namespace = namespace_for_version(FORMAT_VERSION)
    /\ t.format_version = FORMAT_VERSION
    /\ t.kind = document.kind
    /\ t.network_id = document.network_id
    /\ t.genesis_hash = document.genesis_hash
    /\ t.range_start = document.range_start
    /\ t.range_end = document.range_end
    /\ t.block_count = Len(document.blocks)
    /\ t.projection = document.projection
    /\ RendersBlocks(t, document)

(* How many blocks an export has.                                          *)
LEMMA ExportHasBlocks ==
    ASSUME NEW document, IsExport(document)
    PROVE  LET n == document.range_end - document.range_start + 1
           IN  /\ n \in Nat /\ n > 0
               /\ DOMAIN document.blocks = 1..n
               /\ Len(document.blocks) = n
               /\ \A i \in 1..n : document.blocks[i].declared_hash
                                    = HashOf(document.blocks[i].block)
  <1> DEFINE n == document.range_end - document.range_start + 1
             blocks == document.blocks
             entry(i) == [block |-> blocks[i].block, declared_hash |-> HashOf(blocks[i].block)]
  <1>1. n \in Nat /\ n > 0
    BY DEF IsExport
  <1>2. blocks = [i \in 1..n |-> entry(i)]
    BY DEF IsExport
  <1> HIDE DEF n, blocks
  <1>3. DOMAIN blocks = 1..n /\ \A i \in 1..n : blocks[i] = entry(i)
    <2> HIDE DEF entry
    <2> QED
      BY <1>2
  <1>4. Len(blocks) = n
    <2> HIDE DEF entry
    <2> QED
      BY <1>1, <1>2
  <1>5. \A i \in 1..n : blocks[i].declared_hash = HashOf(blocks[i].block)
    BY <1>3
  <1> QED
    BY <1>1, <1>3, <1>4, <1>5 DEF n, blocks

(* The writer renders what it is given (write_document).                   *)
LEMMA WriterRenders ==
    ASSUME NEW document, IsExport(document)
    PROVE  Renders(write_document(document), document)
  <1> DEFINE n == document.range_end - document.range_start + 1
             blocks == document.blocks
             t == write_document(document)
  <1>1. /\ DOMAIN blocks = 1..n
        /\ \A i \in 1..n : blocks[i].declared_hash = HashOf(blocks[i].block)
        /\ \A i \in 1..n : IsBlock(blocks[i].block)
    BY ExportHasBlocks DEF IsExport
  <1>2. /\ t.blocks = [i \in DOMAIN blocks |-> render_block(blocks[i], document.kind)]
        /\ t.namespace = namespace_for_version(FORMAT_VERSION)
        /\ t.format_version = FORMAT_VERSION
        /\ t.kind = document.kind
        /\ t.network_id = document.network_id
        /\ t.genesis_hash = document.genesis_hash
        /\ t.range_start = document.range_start
        /\ t.range_end = document.range_end
        /\ t.block_count = Len(blocks)
        /\ t.projection = document.projection
    BY DEF write_document, block_count
  <1> HIDE DEF t, n, blocks
  <1>3. ASSUME NEW i \in DOMAIN blocks PROVE RendersBlock(t.blocks[i], blocks[i].block)
    <2> DEFINE entry == blocks[i]
               header == entry.block.header
               txs == entry.block.transactions
               e == render_block(entry, document.kind)
    <2>1. entry.declared_hash = HashOf(entry.block) /\ IsBlock(entry.block)
      BY <1>1, <1>3
    <2> HIDE DEF entry
    <2>2. /\ e.height = header.height
          /\ e.hash = entry.declared_hash
          /\ e.header = [version |-> header.version,
                         previous_hash |-> header.previous_hash,
                         tx_root |-> header.tx_root, tx_count |-> header.tx_count,
                         timestamp |-> header.timestamp]
          /\ e.transactions = [j \in DOMAIN txs |-> render_transaction(j - 1, txs[j])]
      BY DEF render_block
    <2> HIDE DEF e
    <2>3. \A j \in DOMAIN txs : RendersTx(render_transaction(j - 1, txs[j]), j - 1, txs[j])
      BY DEF render_transaction, RendersTx
    <2>4. RendersTxs(e, entry.block)
      BY <2>2, <2>3 DEF RendersTxs
    <2>5. RendersBlock(e, entry.block)
      BY <2>1, <2>2, <2>4 DEF RendersBlock, RendersHeader
    <2> QED
      BY <1>2, <2>5 DEF entry, e
  <1>4. RendersBlocks(t, document)
    BY <1>2, <1>3 DEF RendersBlocks, blocks
  <1> QED
    BY <1>2, <1>4 DEF Renders, t, blocks

(* White space once added, a text still renders its document.              *)
LEMMA FormatterRenders ==
    ASSUME NEW document, IsExport(document)
    PROVE  Renders(Reformatted(write_document(document)), document)
  <1> DEFINE t == write_document(document)
             blocks == document.blocks
             laid(e) == SpacedBlock(e)
             new == [t EXCEPT !.blocks = [i \in DOMAIN t.blocks |-> laid(t.blocks[i])]]
  <1>1. Reformatted(t) = new
    BY DEF Reformatted, laid
  <1>2. t.blocks = [i \in DOMAIN blocks |-> render_block(blocks[i], document.kind)]
    BY DEF write_document
  <1>3. t = [namespace |-> t.namespace, format_version |-> t.format_version, kind |-> t.kind,
             network_id |-> t.network_id, genesis_hash |-> t.genesis_hash,
             range_start |-> t.range_start, range_end |-> t.range_end,
             block_count |-> t.block_count, projection |-> t.projection, blocks |-> t.blocks]
    BY DEF write_document
  <1>4. Renders(t, document)
    BY WriterRenders
  <1> HIDE DEF t, blocks
  <1>5. /\ new.blocks = [i \in DOMAIN t.blocks |-> laid(t.blocks[i])]
        /\ new.namespace = t.namespace
        /\ new.format_version = t.format_version
        /\ new.kind = t.kind
        /\ new.network_id = t.network_id
        /\ new.genesis_hash = t.genesis_hash
        /\ new.range_start = t.range_start
        /\ new.range_end = t.range_end
        /\ new.block_count = t.block_count
        /\ new.projection = t.projection
    <2> HIDE DEF laid
    <2> QED
      BY <1>3
  <1>6. DOMAIN t.blocks = DOMAIN blocks
    BY <1>2
  <1>7. ASSUME NEW i \in DOMAIN blocks PROVE RendersBlock(laid(t.blocks[i]), blocks[i].block)
    <2> DEFINE b == blocks[i].block
               txs == b.transactions
               e == t.blocks[i]
               es == e.transactions
               f == laid(e)
    <2>1. e = render_block(blocks[i], document.kind)
      BY <1>2, <1>7
    <2>2. RendersBlock(e, b)
      BY <1>4, <1>7 DEF Renders, RendersBlocks, blocks
    <2>3. /\ es = [j \in DOMAIN txs |-> render_transaction(j - 1, txs[j])]
          /\ e = [height |-> e.height, hash |-> e.hash, header |-> e.header,
                  included_count |-> e.included_count, transactions |-> es]
      BY <2>1 DEF render_block
    <2> HIDE DEF e, b
    <2> USE DEF SpacedBlock
    <2>4. f.height = e.height /\ f.hash = e.hash /\ f.header = e.header
          /\ f.transactions = [j \in DOMAIN es |-> [es[j] EXCEPT !.payload = Spaced(es[j].payload)]]
      BY <2>3
    <2> HIDE DEF f
    <2>5. ASSUME NEW j \in DOMAIN txs
          PROVE  RendersTx([es[j] EXCEPT !.payload = Spaced(es[j].payload)], j - 1, txs[j])
      <3> DEFINE x == render_transaction(j - 1, txs[j])
      <3>1. es[j] = x
        BY <2>3, <2>5
      <3>2. x = [index |-> j - 1, id |-> txs[j].id, namespace |-> txs[j].body.namespace,
                 nonce |-> txs[j].body.nonce, signature |-> txs[j].signed,
                 payload |-> write_payload(txs[j].body.payload)]
        BY DEF render_transaction
      <3> QED
        BY <3>1, <3>2 DEF RendersTx
    <2>6. RendersTxs(f, b)
      <3>1. DOMAIN es = DOMAIN txs
        BY <2>3
      <3> QED
        BY <2>4, <2>5, <3>1 DEF RendersTxs
    <2>7. RendersBlock(f, b)
      BY <2>2, <2>4, <2>6 DEF RendersBlock, RendersHeader
    <2> QED
      BY <2>7 DEF f, e, b
  <1>8. RendersBlocks(new, document)
    <2> HIDE DEF laid
    <2>1. new.blocks = [i \in DOMAIN blocks |-> laid(t.blocks[i])]
      BY <1>5, <1>6
    <2> HIDE DEF new
    <2> QED
      BY <1>7, <2>1 DEF RendersBlocks, blocks
  <1> HIDE DEF new, laid
  <1>9. Renders(new, document)
    BY <1>4, <1>5, <1>8 DEF Renders
  <1> QED
    BY <1>1, <1>9 DEF t

-----------------------------------------------------------------------------
(* What an alteration leaves of a text: every block element is one that    *)
(* was written, or one whose hash was not changed into another hash; and   *)
(* then the root is as it was.                                             *)
Traces(t, document) ==
    \A i \in DOMAIN t.blocks : \E k \in DOMAIN document.blocks :
        LET block == document.blocks[k].block
        IN  \/ RendersBlock(t.blocks[i], block)
            \/ /\ t.kind = document.kind
               /\ t.blocks[i].hash = ZERO \/ t.blocks[i].hash = HashOf(block)

(* A text that is a list of elements, each with a height.                  *)
Listed(t) ==
    /\ Len(t.blocks) \in Nat
    /\ DOMAIN t.blocks = 1..Len(t.blocks)
    /\ \A i \in DOMAIN t.blocks : t.blocks[i].height \in Nat

(* A changed block keeps its hash or loses it, and its height is a number. *)
LEMMA AlteredElement ==
    ASSUME NEW e, NEW x \in AlteredBlock(e), e.height \in Nat,
           e = [height |-> e.height, hash |-> e.hash, header |-> e.header,
                included_count |-> e.included_count, transactions |-> e.transactions]
    PROVE  (x.hash = ZERO \/ x.hash = e.hash) /\ x.height \in Nat
  <1> DEFINE Kept1(y) == (y.hash = ZERO \/ y.hash = e.hash) /\ y.height \in Nat
  <1>1. Kept1([e EXCEPT !.hash = ZERO])
    OBVIOUS
  <1>2. Kept1([e EXCEPT !.height = e.height + 1])
    OBVIOUS
  <1>3. \A v : Kept1([e EXCEPT !.header = v])
    OBVIOUS
  <1>4. \A v : Kept1([e EXCEPT !.transactions = v])
    OBVIOUS
  <1> DEFINE Headers == {[e EXCEPT !.header = h] : h \in AlteredHeader(e.header)}
             Txs == {[e EXCEPT !.transactions = txs] : txs \in AlteredTransactions(e.transactions)}
  <1>5. AlteredBlock(e) = {[e EXCEPT !.hash = ZERO], [e EXCEPT !.height = e.height + 1]}
                             \cup Headers \cup Txs
    BY DEF AlteredBlock
  <1>6. x \in Headers => Kept1(x)
    <2> SUFFICES ASSUME NEW h \in AlteredHeader(e.header), x = [e EXCEPT !.header = h]
                 PROVE  Kept1(x)
      BY Zenon
    <2> QED
      BY <1>3
  <1>7. x \in Txs => Kept1(x)
    <2> SUFFICES ASSUME NEW txs \in AlteredTransactions(e.transactions),
                        x = [e EXCEPT !.transactions = txs]
                 PROVE  Kept1(x)
      BY Zenon
    <2> QED
      BY <1>4
  <1> HIDE DEF Kept1, Headers, Txs
  <1>8. Kept1(x)
    <2>1. x = [e EXCEPT !.hash = ZERO] \/ x = [e EXCEPT !.height = e.height + 1]
          \/ x \in Headers \/ x \in Txs
      BY <1>5, Zenon
    <2> QED
      BY <1>1, <1>2, <1>6, <1>7, <2>1, Zenon
  <1> QED
    BY <1>8 DEF Kept1

(* The elements a writer writes.                                           *)
Written(elements, document) ==
    /\ Len(elements) \in Nat /\ Len(elements) > 0
    /\ DOMAIN elements = 1..Len(elements)
    /\ DOMAIN elements = DOMAIN document.blocks
    /\ elements = [i \in DOMAIN elements |-> elements[i]]
    /\ \A i \in DOMAIN elements :
          LET e == elements[i]
          IN  /\ RendersBlock(e, document.blocks[i].block)
              /\ e.height \in Nat
              /\ e = [height |-> e.height, hash |-> e.hash, header |-> e.header,
                      included_count |-> e.included_count, transactions |-> e.transactions]

(* The writer emits just that of every export (write_document).            *)
LEMMA WriterWrites ==
    ASSUME NEW document, IsExport(document)
    PROVE  Written(write_document(document).blocks, document)
  <1> DEFINE w == write_document(document)
             blocks == document.blocks
             elements == w.blocks
             n == Len(blocks)
  <1>1. n \in Nat /\ n > 0 /\ DOMAIN blocks = 1..n
    BY ExportHasBlocks
  <1>2. elements = [i \in 1..n |-> render_block(blocks[i], document.kind)]
    BY <1>1 DEF write_document
  <1>3. \A i \in 1..n : RendersBlock(elements[i], blocks[i].block)
    BY <1>1, WriterRenders DEF Renders, RendersBlocks
  <1>4. \A i \in 1..n : blocks[i].block.header.height \in Nat
    <2>1. n = document.range_end - document.range_start + 1
      BY ExportHasBlocks
    <2> HIDE DEF n, blocks
    <2>2. \A i \in 1..n : IsBlock(document.blocks[i].block)
      BY <2>1 DEF IsExport
    <2> QED
      BY <2>2 DEF IsBlock, blocks
  <1> HIDE DEF elements, n, blocks
  <1>5. DOMAIN elements = 1..n /\ Len(elements) = n
    BY <1>1, <1>2
  <1>6. elements = [i \in DOMAIN elements |-> elements[i]]
    BY <1>2
  <1>7. \A i \in 1..n : elements[i].height \in Nat
    BY <1>3, <1>4 DEF RendersBlock, RendersHeader
  <1>8. ASSUME NEW i \in 1..n
        PROVE  LET e == elements[i]
               IN  e = [height |-> e.height, hash |-> e.hash, header |-> e.header,
                        included_count |-> e.included_count, transactions |-> e.transactions]
    <2>1. elements[i] = render_block(blocks[i], document.kind)
      BY <1>2
    <2> QED
      BY <2>1 DEF render_block
  <1> QED
    BY <1>1, <1>3, <1>5, <1>6, <1>7, <1>8 DEF Written, elements, blocks

(* A list with one element left out holds what the list held.              *)
LEMMA WithoutOne ==
    ASSUME NEW s, Len(s) \in Nat, Len(s) > 0, NEW i
    PROVE  /\ Len(Without(s, i)) = Len(s) - 1
           /\ DOMAIN Without(s, i) = 1..(Len(s) - 1)
           /\ \A k \in DOMAIN Without(s, i) : \E j \in 1..Len(s) : Without(s, i)[k] = s[j]
  <1> DEFINE n == Len(s)
             value(k) == IF k < i THEN s[k] ELSE s[k + 1]
             u == [k \in 1..(n - 1) |-> value(k)]
  <1>1. Without(s, i) = u
    BY DEF Without
  <1>2. n - 1 \in Nat
    OBVIOUS
  <1>3. Len(u) = n - 1 /\ DOMAIN u = 1..(n - 1)
    <2> HIDE DEF value, n
    <2> QED
      BY <1>2
  <1>4. ASSUME NEW k \in 1..(n - 1) PROVE \E j \in 1..n : u[k] = s[j]
    <2>1. k \in 1..n /\ k + 1 \in 1..n
      BY <1>4
    <2>2. u[k] = value(k)
      BY <1>4
    <2> QED
      BY <2>1, <2>2
  <1> QED
    BY <1>1, <1>3, <1>4

(* A change of the root leaves the run of blocks, and the genesis hash or   *)
(* takes it away.                                                          *)
LEMMA AlteredRootHow ==
    ASSUME NEW w, NEW t \in AlteredRoot(w),
           w = [namespace |-> w.namespace, format_version |-> w.format_version, kind |-> w.kind,
                network_id |-> w.network_id, genesis_hash |-> w.genesis_hash,
                range_start |-> w.range_start, range_end |-> w.range_end,
                block_count |-> w.block_count, projection |-> w.projection, blocks |-> w.blocks]
    PROVE  /\ t.blocks = w.blocks
           /\ t.genesis_hash = ZERO \/ t.genesis_hash = w.genesis_hash
  <1> DEFINE Same(x) == /\ x.blocks = w.blocks
                        /\ x.genesis_hash = ZERO \/ x.genesis_hash = w.genesis_hash
             Kinds == {[w EXCEPT !.kind = k] : k \in {"full", "range", "projection"}}
             Plain == {[w EXCEPT !.kind = k, !.projection = None] : k \in {"full", "range"}}
             Fields == {[w EXCEPT !.network_id = "elsewhere"],
                        [w EXCEPT !.genesis_hash = ZERO],
                        [w EXCEPT !.format_version = 1, !.namespace = namespace_for_version(1)],
                        [w EXCEPT !.format_version = 3],
                        [w EXCEPT !.block_count = w.block_count + 1],
                        [w EXCEPT !.range_end = w.range_end + 1,
                                  !.block_count = w.block_count + 1]}
  <1>1. t \in Kinds \/ t \in Plain \/ t \in Fields
    BY Zenon DEF AlteredRoot
  <1>2. CASE t \in Kinds
    <2>1. PICK k \in {"full", "range", "projection"} : t = [w EXCEPT !.kind = k]
      BY <1>2, Zenon
    <2> QED
      BY <2>1
  <1>3. CASE t \in Plain
    <2>1. PICK k \in {"full", "range"} : t = [w EXCEPT !.kind = k, !.projection = None]
      BY <1>3, Zenon
    <2> QED
      BY <2>1
  <1>4. CASE t \in Fields
    <2>1. Same([w EXCEPT !.network_id = "elsewhere"])
      OBVIOUS
    <2>2. Same([w EXCEPT !.genesis_hash = ZERO])
      OBVIOUS
    <2>3. Same([w EXCEPT !.format_version = 1, !.namespace = namespace_for_version(1)])
      OBVIOUS
    <2>4. Same([w EXCEPT !.format_version = 3])
      OBVIOUS
    <2>5. Same([w EXCEPT !.block_count = w.block_count + 1])
      OBVIOUS
    <2>6. Same([w EXCEPT !.range_end = w.range_end + 1, !.block_count = w.block_count + 1])
      OBVIOUS
    <2> HIDE DEF Same
    <2>7. Same(t)
      BY <1>4, <2>1, <2>2, <2>3, <2>4, <2>5, <2>6, Zenon
    <2> QED
      BY <2>7 DEF Same
  <1> QED
    BY <1>1, <1>2, <1>3, <1>4

(* The three ways a document file may be altered: its root alone, its run  *)
(* of blocks, one block.                                                   *)
LEMMA AlteredHow ==
    ASSUME NEW w, NEW t \in Altered(w),
           w = [namespace |-> w.namespace, format_version |-> w.format_version, kind |-> w.kind,
                network_id |-> w.network_id, genesis_hash |-> w.genesis_hash,
                range_start |-> w.range_start, range_end |-> w.range_end,
                block_count |-> w.block_count, projection |-> w.projection, blocks |-> w.blocks]
    PROVE  \/ t.blocks = w.blocks
           \/ \E i : t.blocks = Without(w.blocks, i)
           \/ \E i \in DOMAIN w.blocks : \E b \in AlteredBlock(w.blocks[i]) :
                 t.kind = w.kind /\ t.blocks = [w.blocks EXCEPT ![i] = b]
  <1> DEFINE Blocks == UNION {{[w EXCEPT !.blocks[i] = b] : b \in AlteredBlock(w.blocks[i])}
                                : i \in DOMAIN w.blocks}
  <1>1. t \in AlteredRoot(w) \/ t \in AlteredRun(w) \/ t \in Blocks
    BY Zenon DEF Altered
  <1>2. ASSUME t \in AlteredRoot(w) PROVE t.blocks = w.blocks
    BY <1>2, AlteredRootHow
  <1>3. ASSUME t \in AlteredRun(w) PROVE \E i : t.blocks = Without(w.blocks, i)
    <2> DEFINE Less(x) == \E i : x.blocks = Without(w.blocks, i)
               n == Len(w.blocks)
    <2>1. \A i : Less([w EXCEPT !.blocks = Without(w.blocks, i)])
      OBVIOUS
    <2>2. Less(WithBlocks([w EXCEPT !.range_end = w.range_end - 1], Without(w.blocks, n)))
      BY DEF WithBlocks
    <2>3. Less(WithBlocks([w EXCEPT !.range_start = w.range_start + 1], Without(w.blocks, 1)))
      BY DEF WithBlocks
    <2> HIDE DEF Less
    <2>4. Less(t)
      BY <1>3, <2>1, <2>2, <2>3, Zenon DEF AlteredRun
    <2> QED
      BY <2>4 DEF Less
  <1>4. ASSUME t \in Blocks
        PROVE  \E i \in DOMAIN w.blocks : \E b \in AlteredBlock(w.blocks[i]) :
                  t.kind = w.kind /\ t.blocks = [w.blocks EXCEPT ![i] = b]
    <2>0. PICK i \in DOMAIN w.blocks : \E b \in AlteredBlock(w.blocks[i]) :
             t = [w EXCEPT !.blocks[i] = b]
      BY <1>4, Zenon
    <2>1. PICK b \in AlteredBlock(w.blocks[i]) : t = [w EXCEPT !.blocks[i] = b]
      BY <2>0, Zenon
    <2>2. t.kind = w.kind /\ t.blocks = [w.blocks EXCEPT ![i] = b]
      BY <2>1
    <2> QED
      BY <2>2
  <1> QED
    BY <1>1, <1>2, <1>3, <1>4

(* Every altered text is a list of elements that trace back to blocks of   *)
(* the export.                                                             *)
LEMMA AlteredTraces ==
    ASSUME NEW document, IsExport(document), NEW t \in Altered(write_document(document))
    PROVE  Traces(t, document) /\ Listed(t)
  <1> DEFINE w == write_document(document)
             elements == w.blocks
             n == Len(elements)
  <1>1. Written(elements, document)
    BY WriterWrites
  <1>2. w.kind = document.kind
    BY DEF write_document
  <1>3. w = [namespace |-> w.namespace, format_version |-> w.format_version, kind |-> w.kind,
             network_id |-> w.network_id, genesis_hash |-> w.genesis_hash,
             range_start |-> w.range_start, range_end |-> w.range_end,
             block_count |-> w.block_count, projection |-> w.projection, blocks |-> w.blocks]
    BY DEF write_document
  <1> HIDE DEF w
  <1>4. /\ n \in Nat /\ n > 0 /\ DOMAIN elements = 1..n /\ DOMAIN document.blocks = 1..n
        /\ elements = [i \in 1..n |-> elements[i]]
        /\ \A i \in 1..n : /\ RendersBlock(elements[i], document.blocks[i].block)
                           /\ elements[i].height \in Nat
    BY <1>1 DEF Written
  <1> DEFINE Sane(x) == Traces(x, document) /\ Listed(x)
  <1>5. CASE t.blocks = elements
    BY <1>4, <1>5 DEF Traces, Listed
  <1>6. CASE \E i : t.blocks = Without(elements, i)
    <2>1. PICK i : t.blocks = Without(elements, i)
      BY <1>6
    <2> DEFINE u == t.blocks
    <2> HIDE DEF elements
    <2>6. u = Without(elements, i) /\ Len(elements) \in Nat /\ Len(elements) > 0
      BY <1>4, <2>1
    <2> HIDE DEF u
    <2>7. /\ Len(Without(elements, i)) = Len(elements) - 1
          /\ DOMAIN Without(elements, i) = 1..(Len(elements) - 1)
          /\ \A k \in DOMAIN Without(elements, i) :
                \E j \in 1..Len(elements) : Without(elements, i)[k] = elements[j]
      BY <2>6, WithoutOne
    <2>2. /\ Len(u) = n - 1
          /\ DOMAIN u = 1..(n - 1)
          /\ \A k \in DOMAIN u : \E j \in 1..n : u[k] = elements[j]
      BY <2>6, <2>7
    <2>3. n - 1 \in Nat
      BY <1>4
    <2>4. Listed(t)
      BY <1>4, <2>2, <2>3 DEF Listed, u
    <2>5. Traces(t, document)
      BY <1>4, <2>2 DEF Traces, u
    <2> QED
      BY <2>4, <2>5
  <1>7. CASE \E i \in DOMAIN elements : \E b \in AlteredBlock(elements[i]) :
                t.kind = w.kind /\ t.blocks = [elements EXCEPT ![i] = b]
    <2>0. PICK i \in DOMAIN elements : \E b \in AlteredBlock(elements[i]) :
             t.kind = w.kind /\ t.blocks = [elements EXCEPT ![i] = b]
      BY <1>7, Zenon
    <2>1. PICK b \in AlteredBlock(elements[i]) :
             t.kind = w.kind /\ t.blocks = [elements EXCEPT ![i] = b]
      BY <2>0, Zenon
    <2>2. (b.hash = ZERO \/ b.hash = elements[i].hash) /\ b.height \in Nat
      <3> DEFINE e == elements[i]
      <3>1. /\ e.height \in Nat
            /\ e = [height |-> e.height, hash |-> e.hash, header |-> e.header,
                    included_count |-> e.included_count, transactions |-> e.transactions]
        BY <1>1 DEF Written
      <3> HIDE DEF e
      <3>2. b \in AlteredBlock(e)
        BY DEF e
      <3>3. (b.hash = ZERO \/ b.hash = e.hash) /\ b.height \in Nat
        BY <3>1, <3>2, AlteredElement
      <3> QED
        BY <3>3 DEF e
    <2> DEFINE u == t.blocks
    <2> HIDE DEF elements
    <2>3. /\ DOMAIN u = 1..n /\ u[i] = b
          /\ \A k \in 1..n : k # i => u[k] = elements[k]
      BY <1>4, <2>1
    <2>4. Len(u) = n
      <3>1. u = [k \in 1..n |-> u[k]]
        BY <1>4, <2>1
      <3> HIDE DEF u
      <3> QED
        BY <1>4, <3>1
    <2>5. Listed(t)
      BY <1>4, <2>2, <2>3, <2>4 DEF Listed
    <2>6. elements[i].hash = HashOf(document.blocks[i].block)
      BY <1>4 DEF RendersBlock
    <2>7. Traces(t, document)
      <3> SUFFICES ASSUME NEW k \in 1..n
                   PROVE  LET block == document.blocks[k].block
                          IN  \/ RendersBlock(t.blocks[k], block)
                              \/ /\ t.kind = document.kind
                                 /\ t.blocks[k].hash = ZERO \/ t.blocks[k].hash = HashOf(block)
        BY <1>4, <2>3 DEF Traces
      <3>1. CASE k = i
        BY <1>2, <2>1, <2>2, <2>3, <2>6, <3>1
      <3>2. CASE k # i
        BY <1>4, <2>3, <3>2
      <3> QED
        BY <3>1, <3>2
    <2> QED
      BY <2>5, <2>7
  <1> QED
    BY <1>3, <1>5, <1>6, <1>7, AlteredHow DEF w

-----------------------------------------------------------------------------
(* What the reader makes of a text.                                        *)
ReadAs(document, t) ==
    /\ document.kind = t.kind
    /\ document.network_id = t.network_id
    /\ document.genesis_hash = t.genesis_hash
    /\ DOMAIN document.blocks = DOMAIN t.blocks
    /\ DOMAIN BlocksOf(document) = DOMAIN t.blocks
    /\ Listed(t) => Len(BlocksOf(document)) = Len(t.blocks)
    /\ \A i \in DOMAIN t.blocks :
          /\ document.blocks[i].block
               = ReadBlock(t.format_version, t.network_id, t.blocks[i])
          /\ document.blocks[i].declared_hash = t.blocks[i].hash
          /\ BlocksOf(document)[i] = document.blocks[i].block

(* The reader yields just that of every text (Parser::document).           *)
LEMMA ReaderReads ==
    ASSUME NEW t
    PROVE  ReadAs(read_document(t), t)
  <1> DEFINE d == read_document(t)
             entry(i) == [block |-> ReadBlock(t.format_version, t.network_id, t.blocks[i]),
                          declared_hash |-> t.blocks[i].hash]
  <1>1. /\ d.kind = t.kind
        /\ d.network_id = t.network_id
        /\ d.genesis_hash = t.genesis_hash
        /\ d.blocks = [i \in DOMAIN t.blocks |-> entry(i)]
    BY DEF read_document, ReadBlock
  <1> HIDE DEF d
  <1>2. DOMAIN d.blocks = DOMAIN t.blocks /\ \A i \in DOMAIN t.blocks : d.blocks[i] = entry(i)
    <2> HIDE DEF entry
    <2> QED
      BY <1>1
  <1>3. \A i \in DOMAIN t.blocks :
          /\ d.blocks[i].block = ReadBlock(t.format_version, t.network_id, t.blocks[i])
          /\ d.blocks[i].declared_hash = t.blocks[i].hash
    <2> SUFFICES ASSUME NEW i \in DOMAIN t.blocks
                 PROVE  /\ d.blocks[i].block
                             = ReadBlock(t.format_version, t.network_id, t.blocks[i])
                        /\ d.blocks[i].declared_hash = t.blocks[i].hash
      OBVIOUS
    <2> DEFINE b == ReadBlock(t.format_version, t.network_id, t.blocks[i])
               h == t.blocks[i].hash
    <2>1. d.blocks[i] = [block |-> b, declared_hash |-> h]
      BY <1>2
    <2> HIDE DEF b, h
    <2>2. d.blocks[i].block = b /\ d.blocks[i].declared_hash = h
      BY <2>1
    <2> QED
      BY <2>2 DEF b, h
  <1>4. BlocksOf(d) = [i \in DOMAIN t.blocks |-> d.blocks[i].block]
    BY <1>2 DEF BlocksOf
  <1>5. Listed(t) => Len(BlocksOf(d)) = Len(t.blocks)
    BY <1>4 DEF Listed
  <1>6. DOMAIN BlocksOf(d) = DOMAIN t.blocks
        /\ \A i \in DOMAIN t.blocks : BlocksOf(d)[i] = d.blocks[i].block
    BY <1>4
  <1> QED
    BY <1>1, <1>2, <1>3, <1>5, <1>6 DEF ReadAs, d

(* A strict reader yields blocks that stand one above the other            *)
(* (Parser::document).                                                     *)
LEMMA ReadAscends ==
    ASSUME NEW t, Listed(t), Readable(t)
    PROVE  Ascending(BlocksOf(read_document(t)))
  <1> DEFINE n == Len(t.blocks)
             height(i) == t.blocks[i].height
             d == read_document(t)
             X == {i \in 1..n : height(i) # height(1) + i - 1}
  <1>1. /\ n \in Nat /\ DOMAIN t.blocks = 1..n /\ n # 0
        /\ \A i \in 1..n : height(i) \in Nat
    <2>1. t.blocks # << >>
      BY DEF Readable, finish
    <2>2. n \in Nat /\ DOMAIN t.blocks = 1..n /\ \A i \in 1..n : height(i) \in Nat
      BY DEF Listed
    <2>3. \E i : i \in DOMAIN t.blocks
      <3>1. t.block_count = t.range_end - t.range_start + 1
        BY DEF Readable, root_attributes
      <3>2. DOMAIN t.blocks = {} => FALSE
        BY <2>1, <2>2 DEF Readable, finish
      <3> QED
        BY <3>2
    <2> QED
      BY <2>2, <2>3
  <1>2. \A i \in 1..n : i > 1 => height(i) = height(i - 1) + 1
    BY <1>1 DEF Readable, Contiguous
  <1>3. X = {}
    <2> SUFFICES ASSUME X # {} PROVE FALSE
      OBVIOUS
    <2>1. X \subseteq Nat
      BY <1>1
    <2> HIDE DEF X
    <2>2. PICK i \in X : \A k \in X : i <= k
      BY <2>1, LeastHeight
    <2> USE DEF X
    <2>3. i \in 1..n /\ height(i) # height(1) + i - 1 /\ 1 \in 1..n /\ height(1) \in Nat
      BY <1>1, <2>2
    <2>4. i # 1
      BY <2>3
    <2>5. i > 1 /\ i - 1 \in 1..n /\ ~ (i <= i - 1)
      BY <1>1, <2>3, <2>4
    <2>6. height(i - 1) = height(1) + (i - 1) - 1
      BY <2>2, <2>5
    <2>7. height(i) = height(i - 1) + 1
      BY <1>2, <2>3, <2>5
    <2> HIDE DEF height
    <2> QED
      BY <1>1, <2>3, <2>5, <2>6, <2>7
  <1>4. ReadAs(d, t)
    BY ReaderReads
  <1> HIDE DEF d
  <1>5. \A i \in 1..n : BlocksOf(d)[i].header.height = height(i)
    <2>1. \A i \in 1..n : BlocksOf(d)[i] = ReadBlock(t.format_version, t.network_id, t.blocks[i])
      BY <1>1, <1>4 DEF ReadAs
    <2>2. \A version, network, e : ReadBlock(version, network, e).header.height = e.height
      BY DEF ReadBlock, read_header
    <2> QED
      BY <2>1, <2>2
  <1>6. Len(BlocksOf(d)) = n /\ DOMAIN BlocksOf(d) = 1..n
    BY <1>1, <1>4 DEF ReadAs
  <1>7. height(1) \in Nat /\ \A i \in 1..n : height(i) = height(1) + i - 1
    BY <1>1, <1>3
  <1> HIDE DEF height
  <1> QED
    BY <1>1, <1>5, <1>6, <1>7 DEF Ascending, Heighted, d

(* Where the declared hashes hold, a block is read with the header of the  *)
(* block its element renders, and so is that block (check_declared_hashes).*)
LEMMA RenderedIsRead ==
    ASSUME NEW block, IsBlock(block), NEW element, RendersTxs(element, block),
           NEW version, NEW network, block_readable(version, element),
           NEW got, got = ReadBlock(version, network, element),
           HashOf(got) = HashOf(block)
    PROVE  got = block
  <1>1. got.transactions = block.transactions
    BY TxsReadBack
  <1>2. got.header = block.header
    BY DEF HashOf, block_hash
  <1>3. got = [header |-> got.header, transactions |-> got.transactions]
    BY DEF ReadBlock
  <1> QED
    BY <1>1, <1>2, <1>3 DEF IsBlock

(* What a block's own header commits to is in it.                          *)
Sound(block) ==
    /\ block.header.tx_root = compute_root(block.transactions)
    /\ \A i \in DOMAIN block.transactions :
          block.transactions[i].id = compute_id(block.transactions[i])

(* A sound block is decoded from every rendering of it (Parser::block).    *)
LEMMA BlockDecodes ==
    ASSUME NEW block, IsBlock(block)
    PROVE  Decodes(block)
  <1> DEFINE txs == block.transactions
  <1>1. txs = [i \in 1..Len(txs) |-> txs[i]] /\ \A i \in DOMAIN txs : IsTransaction(txs[i])
    BY DEF IsBlock, IsList
  <1>2. \A i \in DOMAIN txs :
          txs[i] = [id |-> txs[i].id, body |-> txs[i].body, signed |-> txs[i].signed]
    <2> SUFFICES ASSUME NEW i \in DOMAIN txs
                 PROVE  txs[i] = [id |-> txs[i].id, body |-> txs[i].body,
                                  signed |-> txs[i].signed]
      OBVIOUS
    <2> DEFINE tx == txs[i]
               body == [namespace |-> tx.body.namespace, nonce |-> tx.body.nonce,
                        payload |-> tx.body.payload]
    <2>1. tx = [id |-> tx.id, signed |-> tx.signed, body |-> body]
      BY <1>1 DEF IsTransaction
    <2> HIDE DEF tx, body
    <2>2. tx.body = body
      BY <2>1
    <2>3. tx = [id |-> tx.id, body |-> tx.body, signed |-> tx.signed]
      BY <2>1, <2>2
    <2> QED
      BY <2>3 DEF tx
  <1> HIDE DEF txs
  <1>3. txs = [i \in DOMAIN txs |-> txs[i]]
    BY <1>1
  <1> QED
    BY <1>2, <1>3 DEF Decodes, txs

(* So does a block that was read.                                          *)
LEMMA ReadDecodes ==
    ASSUME NEW version, NEW network, NEW element,
           NEW got, got = ReadBlock(version, network, element)
    PROVE  Decodes(got)
  <1>1. got.transactions = [j \in DOMAIN element.transactions |->
                              read_transaction(version, element.transactions[j])]
        /\ got = [header |-> got.header, transactions |-> got.transactions]
    BY DEF ReadBlock
  <1> QED
    <2> DEFINE txs == got.transactions
               N == DOMAIN element.transactions
               one(j) == read_transaction(version, element.transactions[j])
    <2>1. txs = [j \in N |-> one(j)]
      BY <1>1
    <2>2. \A j \in N : one(j) = [id |-> one(j).id, body |-> one(j).body,
                                signed |-> one(j).signed]
      <3>1. \A v, e : LET tx == read_transaction(v, e)
                     IN  tx = [id |-> tx.id, body |-> tx.body, signed |-> tx.signed]
        BY DEF read_transaction
      <3> QED
        BY <3>1
    <2> HIDE DEF txs, N, one
    <2>3. txs = [j \in DOMAIN txs |-> txs[j]] /\ \A j \in DOMAIN txs : txs[j] = one(j)
      BY <2>1
    <2>4. \A j \in DOMAIN txs : txs[j] = [id |-> txs[j].id, body |-> txs[j].body,
                                         signed |-> txs[j].signed]
      BY <2>1, <2>2, <2>3
    <2> QED
      BY <2>3, <2>4 DEF Decodes, txs

(* Two sound blocks of one hash are one block, however one was read        *)
(* (compute_root, compute_id).                                             *)
LEMMA SoundIsRead ==
    ASSUME NEW block, IsBlock(block), Sound(block), NEW element,
           NEW version, NEW network,
           NEW got, got = ReadBlock(version, network, element), Sound(got),
           HashOf(got) = HashOf(block)
    PROVE  got = block
  <1>1. got.header = block.header
    BY DEF HashOf, block_hash
  <1>2. Decodes(block)
    BY BlockDecodes
  <1>3. got = [header |-> got.header, transactions |-> got.transactions]
    BY DEF ReadBlock
  <1>4. Decodes(got)
    BY ReadDecodes
  <1>5. SameBlock(got, block)
    BY <1>1, <1>2, <1>4, HeaderFixesBlock DEF Sound
  <1> QED
    BY <1>3, <1>5 DEF SameBlock, IsBlock

(* An element of a text, and the block it goes back to: it renders it, or  *)
(* the block is sound and the element declares its hash or none.           *)
ComesFrom(element, block) ==
    \/ RendersBlock(element, block)
    \/ /\ Sound(block)
       /\ element.hash = ZERO \/ element.hash = HashOf(block)

(* What is read under its declared hash and is sound is the block the      *)
(* element goes back to.                                                   *)
LEMMA ElementIsRead ==
    ASSUME NEW block, IsBlock(block), NEW element, ComesFrom(element, block),
           NEW version, NEW network, block_readable(version, element),
           NEW got, got = ReadBlock(version, network, element),
           HashOf(got) = element.hash, Sound(got)
    PROVE  got = block
  <1>1. HashOf(got) # ZERO
    BY DEF HashOf, block_hash, ZERO
  <1>2. CASE RendersBlock(element, block)
    BY <1>2, RenderedIsRead DEF RendersBlock
  <1>3. CASE Sound(block) /\ element.hash = HashOf(block)
    BY <1>3, SoundIsRead
  <1> QED
    BY <1>1, <1>2, <1>3 DEF ComesFrom

(* A text all of whose elements go back to blocks of an export, if it can  *)
(* be imported at all.                                                     *)
Traced(t, document) ==
    /\ Listed(t)
    /\ \A i \in DOMAIN t.blocks : \E k \in DOMAIN document.blocks :
          is_importable(t.kind) => ComesFrom(t.blocks[i], document.blocks[k].block)

(* Whatever was done to the file, blocks that come out of it with their    *)
(* declared hashes and break no rule are blocks of the export              *)
(* (check_declared_hashes, check_block).                                   *)
LEMMA ReadIsExported ==
    ASSUME NEW document, IsExport(document), NEW t, Traced(t, document), Readable(t),
           NEW got, got = read_document(t), is_importable(got.kind),
           check_declared_hashes(got) = {},
           \A i \in DOMAIN BlocksOf(got) : Sound(BlocksOf(got)[i])
    PROVE  \A i \in DOMAIN got.blocks : \E k \in DOMAIN BlocksOf(document) :
              got.blocks[i].block = BlocksOf(document)[k]
  <1>1. ReadAs(got, t)
    BY ReaderReads
  <1>2. DOMAIN BlocksOf(document) = DOMAIN document.blocks
        /\ \A k \in DOMAIN document.blocks : BlocksOf(document)[k] = document.blocks[k].block
    BY DEF BlocksOf
  <1>3. \A k \in DOMAIN document.blocks : IsBlock(document.blocks[k].block)
    BY ExportHasBlocks DEF IsExport
  <1> SUFFICES ASSUME NEW i \in DOMAIN got.blocks
               PROVE  \E k \in DOMAIN BlocksOf(document) :
                         got.blocks[i].block = BlocksOf(document)[k]
    OBVIOUS
  <1>4. i \in DOMAIN t.blocks /\ is_importable(t.kind)
    BY <1>1 DEF ReadAs
  <1>5. PICK k \in DOMAIN document.blocks : ComesFrom(t.blocks[i], document.blocks[k].block)
    BY <1>4 DEF Traced
  <1> DEFINE b == got.blocks[i].block
  <1>6. b = ReadBlock(t.format_version, t.network_id, t.blocks[i])
    BY <1>1, <1>4 DEF ReadAs
  <1>7. HashOf(b) = t.blocks[i].hash
    <2>1. HashOf(b) = got.blocks[i].declared_hash
      BY DEF check_declared_hashes, When
    <2> QED
      BY <1>1, <1>4, <2>1 DEF ReadAs
  <1>8. Sound(b)
    BY <1>1, <1>4 DEF ReadAs
  <1>9. block_readable(t.format_version, t.blocks[i])
    BY <1>4 DEF Readable
  <1> HIDE DEF b
  <1>10. b = document.blocks[k].block
    BY <1>3, <1>5, <1>6, <1>7, <1>8, <1>9, ElementIsRead
  <1> QED
    BY <1>2, <1>5, <1>10 DEF b

(* A text that renders an export goes back to it.                          *)
LEMMA RenderedIsTraced ==
    ASSUME NEW document, IsExport(document), NEW t, Renders(t, document)
    PROVE  Traced(t, document)
  <1>1. DOMAIN t.blocks = DOMAIN document.blocks
        /\ \A i \in DOMAIN t.blocks : RendersBlock(t.blocks[i], document.blocks[i].block)
    BY DEF Renders, RendersBlocks
  <1> DEFINE n == document.range_end - document.range_start + 1
  <1>2. n \in Nat /\ DOMAIN document.blocks = 1..n
        /\ \A i \in 1..n : IsBlock(document.blocks[i].block)
    BY ExportHasBlocks DEF IsExport
  <1> HIDE DEF n
  <1>3. Listed(t)
    <2>1. t.blocks = [i \in 1..n |-> t.blocks[i]]
      BY <1>2 DEF Renders, RendersBlocks
    <2>2. Len(t.blocks) = n
      BY <1>2, <2>1
    <2>3. \A i \in 1..n : t.blocks[i].height \in Nat
      BY <1>1, <1>2 DEF RendersBlock, RendersHeader, IsBlock
    <2> QED
      BY <1>1, <1>2, <2>2, <2>3 DEF Listed
  <1> QED
    BY <1>1, <1>3 DEF Traced, ComesFrom

(* So does an altered one, as long as an importable export is of a chain   *)
(* whose blocks are sound.                                                 *)
LEMMA AlteredIsTraced ==
    ASSUME NEW document, IsExport(document), NEW t \in Altered(write_document(document)),
           document.kind # "projection" =>
              \A k \in DOMAIN document.blocks : Sound(document.blocks[k].block)
    PROVE  Traced(t, document)
  <1>1. Traces(t, document) /\ Listed(t)
    BY AlteredTraces
  <1>2. is_importable(document.kind) => document.kind # "projection"
    BY DEF is_importable
  <1> QED
    BY <1>1, <1>2 DEF Traces, Traced, ComesFrom
-----------------------------------------------------------------------------
(* The source: the chain as it was committed, and the file it is read from.*)
IsImage(s) ==
    /\ s = [network_id |-> s.network_id, genesis_hash |-> s.genesis_hash,
            head |-> s.head, blocks |-> s.blocks, ids |-> s.ids]
    /\ s.head = [height |-> s.head.height, hash |-> s.head.hash]

SourceOK(s, blocks) ==
    /\ IsImage(s)
    /\ s.network_id = Founding.header.network_id
    /\ s.genesis_hash = HashOf(Founding)
    /\ s.head.height \in Nat
    /\ DOMAIN s.blocks \subseteq 0..s.head.height
    /\ s.blocks = [h \in DOMAIN s.blocks |-> s.blocks[h]]
    /\ \A h \in DOMAIN s.blocks : IsBlock(s.blocks[h]) /\ s.blocks[h].header.height = h
    /\ \E committed : /\ ValidImage(committed)
                      /\ committed.blocks = blocks
                      /\ committed.head.height = s.head.height
                      /\ committed.network_id = s.network_id
                      /\ committed.genesis_hash = s.genesis_hash
    /\ \A h \in DOMAIN blocks : IsBlock(blocks[h])
    /\ blocks[GENESIS] = Founding
    /\ s.blocks = blocks => ValidImage(s)

(* Every image insert_block leaves is such a record.                       *)
LEMMA ExtendedIsImage ==
    ASSUME NEW image, NEW block
    PROVE  IsImage(Extended(image, block))
  <1> DEFINE s == Extended(image, block)
             N == image.network_id
             G == image.genesis_hash
             height == block.header.height
             hash == HashOf(block)
             B == [h \in DOMAIN image.blocks \cup {height} |->
                      IF h = height THEN block ELSE image.blocks[h]]
             I == image.ids \cup TxIds(block.transactions)
  <1>1. s = [network_id |-> N, genesis_hash |-> G,
             head |-> [height |-> height, hash |-> hash], blocks |-> B, ids |-> I]
    BY DEF Extended
  <1> HIDE DEF s, N, G, height, hash, B, I
  <1>2. s.network_id = N /\ s.genesis_hash = G /\ s.blocks = B /\ s.ids = I
        /\ s.head = [height |-> height, hash |-> hash]
    BY <1>1
  <1>3. s.head.height = height /\ s.head.hash = hash
    BY <1>2
  <1> QED
    BY <1>1, <1>2, <1>3 DEF IsImage, s

(* A valid chain of well-formed blocks is its own record.                  *)
LEMMA UndamagedIsOK ==
    ASSUME NEW s, IsImage(s), ValidImage(s), s.network_id = Founding.header.network_id,
           s.genesis_hash = HashOf(Founding), s.blocks[GENESIS] = Founding,
           \A h \in DOMAIN s.blocks : IsBlock(s.blocks[h])
    PROVE  SourceOK(s, s.blocks)
  <1>1. s.head.height \in Nat /\ DOMAIN s.blocks = 0..s.head.height
        /\ s.blocks = [h \in DOMAIN s.blocks |-> s.blocks[h]]
    BY DEF ValidImage
  <1>2. \A h \in DOMAIN s.blocks : s.blocks[h].header.height = h
    BY <1>1, CleanIsLinked DEF ValidImage
  <1> QED
    BY <1>1, <1>2 DEF SourceOK

(* A store is created with one (write_genesis).                            *)
LEMMA FoundedIsOK ==
    SourceOK(Founded(Founding), Founded(Founding).blocks)
  <1> DEFINE s == Founded(Founding)
  <1>1. /\ ValidImage(s) /\ s.network_id = Founding.header.network_id
        /\ s.genesis_hash = HashOf(Founding) /\ s.head.height = GENESIS
        /\ s.blocks[GENESIS] = Founding
    BY FoundedIsValid, FoundingAssumption
  <1>3. IsImage(s)
    BY ExtendedIsImage DEF Founded
  <1> HIDE DEF s
  <1>2. \A h \in DOMAIN s.blocks : IsBlock(s.blocks[h])
    BY <1>1, FoundingAssumption DEF ValidImage, GENESIS
  <1> QED
    BY <1>1, <1>2, <1>3, UndamagedIsOK DEF s

(* The block an append builds is one, at the height above the head         *)
(* (Block::build).                                                         *)
LEMMA NewBlockIsNext ==
    ASSUME NEW image, ValidImage(image), NEW txs, NEW now
    PROVE  /\ NewBlock(image, txs, now).header.height = image.head.height + 1
           /\ NewBlock(image, txs, now).header.height \in Nat
           /\ IsList(txs) /\ (\A i \in DOMAIN txs : IsTransaction(txs[i]))
                => IsBlock(NewBlock(image, txs, now))
  <1> DEFINE head == image.blocks[image.head.height].header
             time == IF now > head.timestamp THEN now ELSE head.timestamp
  <1>1. image.head.height \in Nat /\ head.height = image.head.height
    <2>1. image.head.height \in Nat /\ image.head.height \in 0..image.head.height
      BY DEF ValidImage
    <2> QED
      BY <2>1, CleanIsLinked DEF ValidImage
  <1>2. NewBlock(image, txs, now)
          = [header |-> [version |-> HEADER_VERSION, network_id |-> head.network_id,
                         height |-> head.height + 1, previous_hash |-> block_hash(head),
                         tx_root |-> compute_root(txs), tx_count |-> Len(txs),
                         timestamp |-> time],
             transactions |-> txs]
    BY DEF NewBlock, ChildBlock, BuildBlock
  <1> HIDE DEF head, time
  <1> DEFINE b == NewBlock(image, txs, now)
             h == [version |-> HEADER_VERSION, network_id |-> head.network_id,
                   height |-> head.height + 1, previous_hash |-> block_hash(head),
                   tx_root |-> compute_root(txs), tx_count |-> Len(txs),
                   timestamp |-> time]
  <1>3. b = [header |-> h, transactions |-> txs]
    BY <1>2
  <1>4. /\ h.height = head.height + 1
        /\ h = [version |-> h.version, network_id |-> h.network_id,
                height |-> h.height, previous_hash |-> h.previous_hash,
                tx_root |-> h.tx_root, tx_count |-> h.tx_count,
                timestamp |-> h.timestamp]
    OBVIOUS
  <1> HIDE DEF b, h
  <1>5. b.header = h /\ b.transactions = txs
    BY <1>3
  <1>6. b = [header |-> b.header, transactions |-> b.transactions]
    BY <1>3, <1>5
  <1>7. h.height = image.head.height + 1 /\ h.height \in Nat
    BY <1>1, <1>4
  <1>8. IsList(txs) /\ (\A i \in DOMAIN txs : IsTransaction(txs[i])) => IsBlock(b)
    BY <1>4, <1>5, <1>6, <1>7 DEF IsBlock
  <1> QED
    BY <1>5, <1>7, <1>8 DEF b

(* The command append on an undamaged source (append_blocks).              *)
LEMMA SourceGrows ==
    ASSUME NEW s, SourceOK(s, s.blocks), NEW txs, NEW now, IsList(txs),
           \A i \in DOMAIN txs : IsTransaction(txs[i]),
           Append1(s, txs, now).ok
    PROVE  SourceOK(Append1(s, txs, now).image, Append1(s, txs, now).image.blocks)
  <1> DEFINE H == s.head.height
             block == NewBlock(s, txs, now)
             outcome == Append1(s, txs, now)
             new == Extended(s, block)
  <1>1. ValidImage(s) /\ H \in Nat /\ DOMAIN s.blocks = 0..H
    BY DEF SourceOK, ValidImage
  <1>2. block.header.height = H + 1 /\ IsBlock(block)
    BY <1>1, NewBlockIsNext
  <1>3. outcome = AppendOne(Nothing(s), block)
    BY AppendOfOne DEF Append1
  <1> HIDE DEF block
  <1>4. /\ outcome.image = new
        /\ check_block(s.network_id, Some(s.blocks[H].header), None, s.ids, block) = {}
    <2>1. ~ (H + 1 <= H)
      BY <1>1
    <2> HIDE DEF new, H
    <2>2. /\ Nothing(s).ok /\ Nothing(s).image = s
          /\ Nothing(s) = [ok |-> TRUE, image |-> s, appended |-> 0]
      BY DEF Nothing
    <2>3. CASE check_block(s.network_id, Some(s.blocks[H].header), None, s.ids, block) = {}
      BY <1>2, <1>3, <2>1, <2>2, <2>3 DEF AppendOne, new, H
    <2>4. CASE check_block(s.network_id, Some(s.blocks[H].header), None, s.ids, block) # {}
      <3>1. outcome = [Nothing(s) EXCEPT !.ok = FALSE]
        BY <1>2, <1>3, <2>1, <2>2, <2>4 DEF AppendOne, H
      <3>2. outcome.ok = FALSE
        BY <2>2, <3>1
      <3> QED
        BY <3>2
    <2> QED
      BY <2>3, <2>4
  <1> HIDE DEF outcome, new
  <1>5. ValidImage(new) /\ Grown(s, new)
    BY <1>1, <1>2, <1>4, ExtensionIsValid DEF new
  <1>6. Extends1(new, s, block)
    BY <1>1, <1>2, ExtendedHolds DEF new
  <1>7. \A h \in DOMAIN new.blocks : IsBlock(new.blocks[h])
    <2>1. \A h \in 0..H : IsBlock(new.blocks[h])
      BY <1>1, <1>6 DEF Extends1, SourceOK
    <2>2. DOMAIN new.blocks = 0..(H + 1) /\ new.blocks[H + 1] = block
      BY <1>6 DEF Extends1
    <2> HIDE DEF H
    <2>3. \A h \in 0..(H + 1) : h \in 0..H \/ h = H + 1
      BY <1>1
    <2> QED
      BY <1>2, <2>1, <2>2, <2>3
  <1>8. /\ new.network_id = Founding.header.network_id
        /\ new.genesis_hash = HashOf(Founding)
        /\ new.blocks[GENESIS] = Founding
    <2>1. 0 \in 0..H
      BY <1>1
    <2> QED
      BY <2>1, <1>6 DEF Extends1, SourceOK, GENESIS
  <1>9. SourceOK(new, new.blocks)
    <2>1. IsImage(new)
      BY ExtendedIsImage DEF new
    <2> QED
      BY <1>5, <1>7, <1>8, <2>1, UndamagedIsOK
  <1> QED
    BY <1>4, <1>9 DEF outcome

(* A block damaged or lost, a head rewritten with it: the record stands.   *)
LEMMA DamagedIsOK ==
    ASSUME NEW s, SourceOK(s, s.blocks), NEW height \in DOMAIN s.blocks, NEW new,
           \/ new = [s EXCEPT !.blocks = [h \in DOMAIN @ \ {height} |-> @[h]]]
           \/ \E b \in Damages :
                 /\ b.header.height = height /\ b # s.blocks[height]
                 /\ \/ new = [s EXCEPT !.blocks[height] = b]
                    \/ /\ height = s.head.height
                       /\ new = [s EXCEPT !.blocks[height] = b,
                                          !.head = [height |-> height, hash |-> HashOf(b)]]
    PROVE  SourceOK(new, s.blocks) /\ new.blocks # s.blocks
  <1> DEFINE D == DOMAIN s.blocks
             same(n) == /\ n.network_id = s.network_id
                        /\ n.genesis_hash = s.genesis_hash
                        /\ n.head.height = s.head.height
                        /\ IsImage(n)
             tabled(t) == /\ DOMAIN t \subseteq 0..s.head.height
                          /\ t = [h \in DOMAIN t |-> t[h]]
                          /\ \A h \in DOMAIN t : IsBlock(t[h]) /\ t[h].header.height = h
  <1>1. ASSUME same(new), tabled(new.blocks), new.blocks # s.blocks
        PROVE  SourceOK(new, s.blocks)
    <2>1. PICK committed : /\ ValidImage(committed)
                           /\ committed.blocks = s.blocks
                           /\ committed.head.height = s.head.height
                           /\ committed.network_id = s.network_id
                           /\ committed.genesis_hash = s.genesis_hash
      BY DEF SourceOK
    <2>2. \E record : /\ ValidImage(record)
                      /\ record.blocks = s.blocks
                      /\ record.head.height = new.head.height
                      /\ record.network_id = new.network_id
                      /\ record.genesis_hash = new.genesis_hash
      BY <1>1, <2>1
    <2>3. /\ new.network_id = Founding.header.network_id
          /\ new.genesis_hash = HashOf(Founding)
          /\ new.head.height \in Nat
          /\ \A h \in DOMAIN s.blocks : IsBlock(s.blocks[h])
          /\ s.blocks[GENESIS] = Founding
      BY <1>1 DEF SourceOK
    <2> QED
      BY <1>1, <2>2, <2>3 DEF SourceOK
  <1>2. CASE new = [s EXCEPT !.blocks = [h \in D \ {height} |-> s.blocks[h]]]
    <2> DEFINE B == [h \in D \ {height} |-> s.blocks[h]]
    <2>1. DOMAIN B = D \ {height} /\ \A h \in D \ {height} : B[h] = s.blocks[h]
      OBVIOUS
    <2>2. B = [h \in DOMAIN B |-> B[h]]
      OBVIOUS
    <2> HIDE DEF B
    <2>3. new.blocks = B /\ same(new)
      BY <1>2 DEF B, SourceOK, IsImage
    <2>4. B # s.blocks
      BY <2>1
    <2>5. \A h \in D : IsBlock(s.blocks[h]) /\ s.blocks[h].header.height = h
      BY DEF SourceOK
    <2>6. D \subseteq 0..s.head.height
      BY DEF SourceOK
    <2>7. tabled(B)
      <3> HIDE DEF D
      <3>1. DOMAIN B \subseteq 0..s.head.height
        BY <2>1, <2>6
      <3>2. \A h \in DOMAIN B : IsBlock(B[h]) /\ B[h].header.height = h
        BY <2>1, <2>5
      <3> QED
        BY <2>2, <3>1, <3>2
    <2> HIDE DEF same, tabled
    <2> QED
      BY <1>1, <2>3, <2>4, <2>7
  <1>3. ASSUME NEW b \in Damages, b.header.height = height, b # s.blocks[height],
               \/ new = [s EXCEPT !.blocks[height] = b]
               \/ /\ height = s.head.height
                  /\ new = [s EXCEPT !.blocks[height] = b,
                                     !.head = [height |-> height, hash |-> HashOf(b)]]
        PROVE  SourceOK(new, s.blocks) /\ new.blocks # s.blocks
    <2> DEFINE B == [s.blocks EXCEPT ![height] = b]
    <2>1. DOMAIN B = D /\ B[height] = b /\ \A h \in D : h # height => B[h] = s.blocks[h]
      BY DEF SourceOK
    <2>2. B = [h \in DOMAIN B |-> B[h]]
      OBVIOUS
    <2>3. new.blocks = B /\ same(new)
      <3>1. CASE new = [s EXCEPT !.blocks[height] = b]
        BY <3>1 DEF SourceOK, IsImage
      <3>2. CASE /\ height = s.head.height
                 /\ new = [s EXCEPT !.blocks[height] = b,
                                    !.head = [height |-> height, hash |-> HashOf(b)]]
        <4> DEFINE head == [height |-> height, hash |-> HashOf(b)]
        <4>1. head = [height |-> head.height, hash |-> head.hash]
              /\ head.height = height
          OBVIOUS
        <4> HIDE DEF head
        <4>2. new = [s EXCEPT !.blocks[height] = b, !.head = head]
          BY <3>2 DEF head
        <4>3. /\ new.network_id = s.network_id /\ new.genesis_hash = s.genesis_hash
              /\ new.head = head /\ new.blocks = B /\ new.ids = s.ids
              /\ new = [network_id |-> new.network_id, genesis_hash |-> new.genesis_hash,
                        head |-> new.head, blocks |-> new.blocks, ids |-> new.ids]
          BY <4>2 DEF SourceOK, IsImage
        <4> HIDE DEF B
        <4> QED
          BY <3>2, <4>1, <4>3 DEF IsImage
      <3> QED
        BY <1>3, <3>1, <3>2
    <2> HIDE DEF B, same
    <2>4. B # s.blocks
      BY <1>3, <2>1
    <2>5. IsBlock(b)
      BY SourceAssumption
    <2>6. \A h \in DOMAIN B : IsBlock(B[h]) /\ B[h].header.height = h
      <3>1. \A h \in D : IsBlock(s.blocks[h]) /\ s.blocks[h].header.height = h
        BY DEF SourceOK
      <3> HIDE DEF D
      <3> TAKE h \in DOMAIN B
      <3>2. CASE h = height
        BY <1>3, <2>1, <2>5, <3>2
      <3>3. CASE h # height
        BY <2>1, <3>1, <3>3
      <3> QED
        BY <3>2, <3>3
    <2>7. DOMAIN B \subseteq 0..s.head.height
      BY <2>1 DEF SourceOK
    <2>8. tabled(B)
      BY <2>2, <2>6, <2>7
    <2> HIDE DEF tabled
    <2> QED
      BY <1>1, <2>3, <2>4, <2>8
  <1> QED
    BY <1>2, <1>3
-----------------------------------------------------------------------------
(* What an export reads.                                                   *)

(* The range an export is asked for is a range of heights.                 *)
LEMMA RangeIsOfHeights ==
    ASSUME NEW request \in Requests, NEW head, head.height \in Nat
    PROVE  ExportFrom(request) \in Nat /\ ExportTo(request, head) \in Nat
  <1>1. ExportFrom(request) \in Nat
    BY RequestAssumption DEF ExportFrom, GENESIS, None
  <1> DEFINE ends == request.to \cup {head.height}
  <1>2. ends \subseteq Nat /\ ends # {}
    BY RequestAssumption
  <1> HIDE DEF ends
  <1>3. \E h \in ends : \A g \in ends : h <= g
    BY <1>2, LeastHeight
  <1>4. (CHOOSE h \in ends : \A g \in ends : h <= g) \in ends
    BY <1>3
  <1>5. ExportTo(request, head) \in ends
    BY <1>4 DEF ExportTo, ends
  <1> QED
    BY <1>1, <1>2, <1>5

(* A projection of a block is a block of the same header; without a        *)
(* namespace it is the block (project_block).                              *)
LEMMA ProjectionIsBlock ==
    ASSUME NEW request, NEW block, IsBlock(block)
    PROVE  /\ IsBlock(Projected(request, block))
           /\ Projected(request, block).header = block.header
           /\ request.namespace = None => Projected(request, block) = block
  <1>1. CASE request.namespace = None
    BY <1>1 DEF Projected
  <1>2. CASE request.namespace # None
    <2> DEFINE txs == block.transactions
               I == {i \in DOMAIN txs : txs[i].body.namespace \in request.namespace}
               E == {txs[i] : i \in DOMAIN txs}
               kept == Kept(txs, I)
               p == Projected(request, block)
    <2>1. /\ block = [header |-> block.header, transactions |-> txs]
          /\ Len(txs) \in Nat /\ DOMAIN txs = 1..Len(txs)
          /\ \A i \in DOMAIN txs : IsTransaction(txs[i])
      BY DEF IsBlock, IsList
    <2>2. p = [block EXCEPT !.transactions = kept]
      BY <1>2 DEF Projected
    <2>3. kept \in Seq(E)
      <3>1. \A i \in 1..Len(txs) : txs[i] \in E
        BY <2>1
      <3> HIDE DEF txs, I, E
      <3> QED
        BY <2>1, <3>1, KeptIsSeq
    <2> HIDE DEF txs, I, p, kept
    <2>4. IsList(kept) /\ \A i \in DOMAIN kept : IsTransaction(kept[i])
      <3>1. Len(kept) \in Nat /\ kept = [i \in 1..Len(kept) |-> kept[i]]
            /\ \A i \in DOMAIN kept : kept[i] \in E
        BY <2>3
      <3> QED
        BY <2>1, <3>1 DEF IsList
    <2>5. p = [header |-> block.header, transactions |-> kept]
      BY <2>1, <2>2
    <2>6. p.header = block.header /\ p.transactions = kept
      BY <2>5
    <2>7. IsBlock(p)
      BY <2>4, <2>5, <2>6 DEF IsBlock
    <2> QED
      BY <1>2, <2>6, <2>7 DEF p
  <1> QED
    BY <1>1, <1>2

(* The blocks of an export that is no projection are the chain's.          *)
Excerpt(document, s) ==
    \A i \in DOMAIN document.blocks :
        document.blocks[i].block = s.blocks[document.range_start + i - 1]

(* What export builds of a source, damaged or not (export).                *)
LEMMA ExportIsExport ==
    ASSUME NEW s, NEW recorded, SourceOK(s, recorded), NEW request \in Requests,
           NEW head, head.height \in Nat,
           ExportFrom(request) <= ExportTo(request, head),
           ExportFrom(request)..ExportTo(request, head) \subseteq DOMAIN s.blocks,
           NEW document, document = export(s, head, request)
    PROVE  /\ IsExport(document)
           /\ document.kind # "projection" => Excerpt(document, s)
           /\ document.range_start = ExportFrom(request)
           /\ document.range_end = ExportTo(request, head)
  <1> DEFINE from == ExportFrom(request)
             to == ExportTo(request, head)
             kind == KindOf(request, head)
             n == to - from + 1
             stored(i) == s.blocks[from + i - 1]
             entry(i) == [block |-> Projected(request, stored(i)),
                          declared_hash |-> HashOf(stored(i))]
             blocks == [i \in 1..n |-> entry(i)]
  <1>1. from \in Nat /\ to \in Nat /\ from <= to
    BY RangeIsOfHeights
  <1>2. /\ kind \in {"full", "range", "projection"}
        /\ kind = "projection" <=> request.namespace # None
        /\ kind = "full" => from = GENESIS
    BY DEF KindOf
  <1>3. document = [format_version |-> FORMAT_VERSION, kind |-> kind,
                    network_id |-> s.network_id, genesis_hash |-> s.genesis_hash,
                    range_start |-> from, range_end |-> to,
                    projection |-> request.namespace, blocks |-> blocks]
    BY DEF export
  <1>4. \A i \in 1..n : /\ IsBlock(stored(i))
                        /\ stored(i).header.height = from + i - 1
    <2> SUFFICES ASSUME NEW i \in 1..n
                 PROVE  IsBlock(stored(i)) /\ stored(i).header.height = from + i - 1
      OBVIOUS
    <2> HIDE DEF from, to
    <2>1. from + i - 1 \in from..to
      BY <1>1
    <2>2. from + i - 1 \in DOMAIN s.blocks
      BY <2>1 DEF from, to
    <2> QED
      BY <2>2 DEF SourceOK
  <1> HIDE DEF from, to, kind, stored
  <1>5. \A i \in 1..n : /\ entry(i).block = Projected(request, stored(i))
                        /\ entry(i).declared_hash = HashOf(stored(i))
                        /\ entry(i) = [block |-> entry(i).block,
                                       declared_hash |-> entry(i).declared_hash]
    OBVIOUS
  <1> HIDE DEF entry
  <1>6. \A i \in 1..n : /\ IsBlock(entry(i).block)
                        /\ entry(i).block.header = stored(i).header
                        /\ request.namespace = None => entry(i).block = stored(i)
    BY <1>4, <1>5, ProjectionIsBlock
  <1>7. \A i \in 1..n : entry(i) = [block |-> entry(i).block,
                                   declared_hash |-> HashOf(entry(i).block)]
    BY <1>5, <1>6 DEF HashOf
  <1> HIDE DEF n
  <1>8. /\ DOMAIN blocks = 1..n
        /\ \A i \in 1..n : blocks[i] = entry(i)
    OBVIOUS
  <1>9. blocks = [i \in 1..n |-> [block |-> blocks[i].block,
                                  declared_hash |-> HashOf(blocks[i].block)]]
    BY <1>7, <1>8
  <1>10. \A i \in 1..n : /\ IsBlock(blocks[i].block)
                         /\ blocks[i].block.header.height = from + i - 1
                         /\ request.namespace = None => blocks[i].block = stored(i)
    BY <1>4, <1>6, <1>8
  <1> HIDE DEF blocks
  <1>11. /\ document.format_version = FORMAT_VERSION /\ document.kind = kind
         /\ document.network_id = s.network_id /\ document.genesis_hash = s.genesis_hash
         /\ document.range_start = from /\ document.range_end = to
         /\ document.projection = request.namespace /\ document.blocks = blocks
    BY <1>3
  <1>12. IsExport(document)
    BY <1>1, <1>2, <1>9, <1>10, <1>11 DEF IsExport, SourceOK, n
  <1>13. document.kind # "projection" => Excerpt(document, s)
    BY <1>2, <1>8, <1>10, <1>11 DEF Excerpt, stored
  <1> QED
    BY <1>11, <1>12, <1>13 DEF from, to

(* A chain that verifies and starts with the source's genesis block.       *)
Whole(s) ==
    /\ s.head.height \in Nat
    /\ s.network_id = Founding.header.network_id
    /\ s.blocks[GENESIS] = Founding
    /\ WalksClean(s)

(* Two blocks of one hash, each sound, are one block.                      *)
LEMMA SoundBlocksAreOne ==
    ASSUME NEW b, NEW c, IsBlock(b), IsBlock(c), Sound(b), Sound(c),
           HashOf(b) = HashOf(c)
    PROVE  b = c
  <1>1. b.header = c.header
    BY DEF HashOf, block_hash
  <1>2. SameBlock(b, c)
    BY <1>1, BlockDecodes, HeaderFixesBlock DEF Sound
  <1> QED
    BY <1>2 DEF SameBlock, IsBlock

(* Blocks no rule objects to are sound.                                    *)
LEMMA CleanIsSound ==
    ASSUME NEW s, s.head.height \in Nat, WalksClean(s)
    PROVE  \A h \in 0..s.head.height : Sound(s.blocks[h])
  BY DEF WalksClean, Unobjectionable, Sound

(* The founding block is one.                                              *)
LEMMA FoundingIsSound == Sound(Founding)
  BY FoundingAssumption, NoFindings DEF Unobjectionable, Sound

(* A source that verifies is whole, whatever happened to its file          *)
(* (verify_chain).                                                         *)
LEMMA VerifiedIsWhole ==
    ASSUME NEW s, NEW recorded, SourceOK(s, recorded),
           verify_chain(s, GENESIS, None) = {}
    PROVE  Whole(s)
  <1>1. s.head.height \in Nat
    BY DEF SourceOK
  <1>2. check_genesis_identity(s) = {} /\ WalksClean(s)
    BY <1>1, WholeWalk
  <1>3. 0 \in DOMAIN s.blocks /\ Sound(s.blocks[0])
    <2>1. 0 \in 0..s.head.height
      BY <1>1
    <2> QED
      BY <1>1, <1>2, <2>1, CleanIsSound DEF WalksClean
  <1>4. HashOf(s.blocks[0]) = HashOf(Founding)
    <2> DEFINE hash == HashOf(s.blocks[0])
               genesis == HashOf(Founding)
    <2>1. s.genesis_hash = genesis
      BY DEF SourceOK
    <2> HIDE DEF genesis
    <2>2. hash # genesis => "GenesisMismatch" \in When(hash # genesis, "GenesisMismatch")
      BY DEF When
    <2>3. hash # genesis => FALSE
      <3>1. At(GENESIS, When(hash # genesis, "GenesisMismatch")
                       \cup When(s.blocks[0].header.network_id # s.network_id,
                                 "NetworkMismatch")) = {}
        BY <1>2, <1>3, <2>1 DEF check_genesis_identity, GENESIS
      <3> HIDE DEF hash
      <3> QED
        BY <2>2, <3>1 DEF At
    <2> QED
      BY <2>3 DEF genesis
  <1>5. s.blocks[0] = Founding
    BY <1>3, <1>4, SoundBlocksAreOne, FoundingIsSound, FoundingAssumption DEF SourceOK
  <1> QED
    BY <1>1, <1>2, <1>5 DEF Whole, SourceOK, GENESIS
-----------------------------------------------------------------------------
(* A full export of a chain that verified: its first blocks, from genesis. *)
BackedUp(document) ==
    \E s : /\ Whole(s)
           /\ Excerpt(document, s)
           /\ document.range_end <= s.head.height

WithinLimits(document) ==
    /\ Len(document.blocks) <= MAX_BLOCKS
    /\ \A i \in DOMAIN document.blocks :
          Len(document.blocks[i].block.transactions) <= MAX_TRANSACTIONS_PER_BLOCK

(* What is written within the reader's limits can be read (write_document, *)
(* read_document).                                                         *)
LEMMA WrittenIsReadable ==
    ASSUME NEW document, IsExport(document), WithinLimits(document),
           NEW t, Renders(t, document)
    PROVE  Readable(t)
  <1> DEFINE from == document.range_start
             to == document.range_end
             n == to - from + 1
  <1>1. /\ n \in Nat /\ n > 0 /\ DOMAIN document.blocks = 1..n
        /\ Len(document.blocks) = n /\ from \in Nat /\ to \in Nat /\ from <= to
    BY ExportHasBlocks DEF IsExport
  <1>2. \A i \in 1..n : /\ IsBlock(document.blocks[i].block)
                        /\ document.blocks[i].block.header.height = from + i - 1
    BY DEF IsExport
  <1>3. /\ t.blocks = [i \in 1..n |-> t.blocks[i]]
        /\ DOMAIN t.blocks = 1..n
        /\ \A i \in 1..n : RendersBlock(t.blocks[i], document.blocks[i].block)
    BY <1>1 DEF Renders, RendersBlocks
  <1>4. /\ t.range_start = from /\ t.range_end = to /\ t.block_count = n
        /\ t.format_version = FORMAT_VERSION /\ t.kind = document.kind
        /\ t.projection = document.projection
        /\ t.namespace = namespace_for_version(FORMAT_VERSION)
    BY <1>1 DEF Renders
  <1> HIDE DEF from, to
  <1>5. Len(t.blocks) = n
    <2> HIDE DEF n
    <2> QED
      BY <1>1, <1>3
  <1>6. \A i \in 1..n : t.blocks[i].height = from + i - 1
    BY <1>2, <1>3 DEF RendersBlock, RendersHeader
  <1>7. root_attributes(t)
    BY <1>1, <1>4 DEF root_attributes, WithinLimits, FORMAT_VERSION,
                      SUPPORTED_FORMAT_VERSIONS
  <1>8. \A i \in 1..n : block_readable(t.format_version, t.blocks[i])
    BY <1>1, <1>2, <1>3, <1>4, BlocksAreReadable DEF RendersBlock, WithinLimits
  <1>9. Contiguous(t)
    <2> SUFFICES ASSUME NEW i \in 1..n, i > 1
                 PROVE  t.blocks[i].height = t.blocks[i - 1].height + 1
      BY <1>3 DEF Contiguous
    <2>1. i - 1 \in 1..n /\ i \in 1..n
      BY <1>1
    <2>2. t.blocks[i].height = from + i - 1 /\ t.blocks[i - 1].height = from + (i - 1) - 1
      BY <1>6, <2>1
    <2> QED
      BY <1>1, <2>1, <2>2
  <1>10. finish(t)
    <2>1. 1 \in 1..n /\ n \in 1..n
      BY <1>1
    <2>2. t.blocks[1].height = from /\ t.blocks[n].height = to
      BY <1>1, <1>6, <2>1
    <2>3. t.blocks # << >>
      BY <1>1, <1>3
    <2>4. document.kind = "full" => from = GENESIS
      BY DEF IsExport, from
    <2>5. document.kind = "projection" <=> document.projection # None
      BY DEF IsExport
    <2> HIDE DEF n
    <2> QED
      BY <1>4, <1>5, <2>2, <2>3, <2>4, <2>5 DEF finish
  <1>11. Len(t.blocks) <= MAX_BLOCKS
    BY <1>1, <1>5 DEF WithinLimits
  <1> HIDE DEF n
  <1> QED
    BY <1>3, <1>4, <1>7, <1>8, <1>9, <1>10, <1>11 DEF Readable

(* A document that says what the backup did.                               *)
Restores(got, document) ==
    /\ got.kind = "full"
    /\ got.network_id = Founding.header.network_id
    /\ got.genesis_hash = HashOf(Founding)
    /\ BlocksOf(got) = BlocksOf(document)
    /\ got.blocks[1].block = document.blocks[1].block
    /\ check_declared_hashes(got) = {}

(* A backup is read back block for block, laid out anew or not             *)
(* (read_document).                                                        *)
LEMMA BackupReadsBack ==
    ASSUME NEW document, IsExport(document), document.kind = "full",
           BackedUp(document), NEW t, Renders(t, document), Readable(t),
           NEW got, got = read_document(t)
    PROVE  Restores(got, document)
  <1> DEFINE n == document.range_end - document.range_start + 1
             read(i) == ReadBlock(t.format_version, t.network_id, t.blocks[i])
             written(i) == document.blocks[i].block
  <1>1. PICK s : Whole(s) /\ Excerpt(document, s) /\ document.range_end <= s.head.height
    BY DEF BackedUp
  <1>2. /\ n \in Nat /\ n > 0 /\ DOMAIN document.blocks = 1..n
        /\ document.range_start = 0
        /\ document.range_end \in Nat
    BY ExportHasBlocks DEF IsExport, GENESIS
  <1>3. ReadAs(got, t)
    BY ReaderReads
  <1>4. /\ DOMAIN t.blocks = 1..n
        /\ \A i \in 1..n : RendersBlock(t.blocks[i], written(i))
        /\ t.kind = "full" /\ t.network_id = Founding.header.network_id
        /\ t.genesis_hash = HashOf(Founding)
    BY <1>2 DEF Renders, RendersBlocks, IsExport
  <1>5. \A i \in 1..n : written(i).header.network_id = t.network_id
    <2> SUFFICES ASSUME NEW i \in 1..n
                 PROVE  written(i).header.network_id = t.network_id
      OBVIOUS
    <2>1. written(i) = s.blocks[0 + i - 1]
      BY <1>1, <1>2 DEF Excerpt
    <2>2. 0 + i - 1 \in 0..s.head.height
      BY <1>1, <1>2 DEF Whole
    <2>3. s.blocks[0 + i - 1].header.network_id = s.network_id
      BY <1>1, <2>2 DEF Whole, WalksClean, Unobjectionable
    <2> QED
      BY <1>1, <1>4, <2>1, <2>3 DEF Whole
  <1>6. \A i \in 1..n : read(i) = written(i)
    <2> SUFFICES ASSUME NEW i \in 1..n PROVE read(i) = written(i)
      OBVIOUS
    <2>1. IsBlock(written(i)) /\ RendersBlock(t.blocks[i], written(i))
      BY <1>2, <1>4 DEF IsExport
    <2>2. read(i).header = written(i).header
      <3>1. read_header(written(i).header.network_id, t.blocks[i]) = written(i).header
        BY <2>1, HeaderReadsBack DEF RendersBlock
      <3> QED
        BY <1>5, <3>1 DEF ReadBlock
    <2>3. read(i).transactions = written(i).transactions
      <3>1. block_readable(t.format_version, t.blocks[i])
        BY <1>4 DEF Readable
      <3> QED
        BY <2>1, <3>1, TxsReadBack DEF RendersBlock
    <2>4. read(i) = [header |-> read(i).header, transactions |-> read(i).transactions]
      BY DEF ReadBlock
    <2> HIDE DEF read, written
    <2> QED
      BY <2>1, <2>2, <2>3, <2>4 DEF IsBlock
  <1> HIDE DEF read, n
  <1>7. \A i \in 1..n : BlocksOf(got)[i] = written(i) /\ got.blocks[i].block = written(i)
    BY <1>3, <1>4, <1>6 DEF ReadAs, read
  <1>8. BlocksOf(got) = BlocksOf(document)
    <2>1. BlocksOf(document) = [i \in 1..n |-> written(i)]
      BY <1>2 DEF BlocksOf
    <2>2. DOMAIN got.blocks = 1..n
      BY <1>3, <1>4 DEF ReadAs
    <2>3. BlocksOf(got) = [i \in 1..n |-> got.blocks[i].block]
      BY <2>2 DEF BlocksOf
    <2> QED
      BY <1>7, <2>1, <2>3
  <1>9. check_declared_hashes(got) = {}
    <2>1. \A i \in DOMAIN got.blocks :
             HashOf(got.blocks[i].block) = got.blocks[i].declared_hash
      BY <1>3, <1>4, <1>7 DEF ReadAs, RendersBlock
    <2> QED
      BY <2>1 DEF check_declared_hashes, When
  <1>10. got.blocks[1].block = document.blocks[1].block
    BY <1>2, <1>7
  <1> QED
    BY <1>3, <1>4, <1>8, <1>9, <1>10 DEF Restores, ReadAs

(* A chain of a genesis block only, and that block the source's.           *)
JustFounded(image) ==
    /\ ValidImage(image)
    /\ image.head.height = GENESIS
    /\ image.network_id = Founding.header.network_id
    /\ image.genesis_hash = HashOf(Founding)
    /\ image.blocks[GENESIS] = Founding

(* An export's blocks stand one above the other.                           *)
LEMMA ExportAscends ==
    ASSUME NEW document, IsExport(document)
    PROVE  Ascending(BlocksOf(document))
  <1> DEFINE n == document.range_end - document.range_start + 1
             from == document.range_start
  <1>1. /\ n \in Nat /\ DOMAIN document.blocks = 1..n /\ from \in Nat
        /\ \A i \in 1..n : document.blocks[i].block.header.height = from + i - 1
    BY ExportHasBlocks DEF IsExport
  <1>2. BlocksOf(document) = [i \in 1..n |-> document.blocks[i].block]
    BY <1>1 DEF BlocksOf
  <1> HIDE DEF n, from
  <1>3. Len(BlocksOf(document)) = n /\ DOMAIN BlocksOf(document) = 1..n
        /\ \A i \in 1..n : BlocksOf(document)[i].header.height = from + i - 1
    BY <1>1, <1>2
  <1>4. \A i \in 1..n : from + i - 1 \in Nat
    BY <1>1
  <1> QED
    BY <1>1, <1>3, <1>4 DEF Ascending, Heighted

(* The genesis block rebuilt from a backup is the one it was taken of      *)
(* (restore).                                                              *)
LEMMA FoundingIsRebuilt ==
    GenesisBlock(Founding.header.network_id, Founding.header.timestamp,
                 Founding.transactions) = Founding
  <1> DEFINE h == Founding.header
             txs == Founding.transactions
  <1>1. Unobjectionable(h.network_id, None, {}, Founding)
    BY FoundingAssumption, NoFindings
  <1>2. h.height = GENESIS /\ h.previous_hash = ZERO
    BY <1>1 DEF Unobjectionable, check_linkage, genesis_linkage, When, None
  <1>3. h.version = HEADER_VERSION /\ h.tx_count = Len(txs) /\ h.tx_root = compute_root(txs)
    BY <1>1 DEF Unobjectionable
  <1>4. /\ Founding = [header |-> h, transactions |-> txs]
        /\ h = [version |-> h.version, network_id |-> h.network_id,
                height |-> h.height, previous_hash |-> h.previous_hash,
                tx_root |-> h.tx_root, tx_count |-> h.tx_count,
                timestamp |-> h.timestamp]
    BY FoundingAssumption DEF IsBlock
  <1> HIDE DEF h, txs
  <1>5. GenesisBlock(h.network_id, h.timestamp, txs)
          = [header |-> [version |-> HEADER_VERSION, network_id |-> h.network_id,
                         height |-> GENESIS, previous_hash |-> ZERO,
                         tx_root |-> compute_root(txs), tx_count |-> Len(txs),
                         timestamp |-> h.timestamp],
             transactions |-> txs]
    BY DEF GenesisBlock, BuildBlock
  <1>6. h = [version |-> HEADER_VERSION, network_id |-> h.network_id,
             height |-> GENESIS, previous_hash |-> ZERO,
             tx_root |-> compute_root(txs), tx_count |-> Len(txs),
             timestamp |-> h.timestamp]
    BY <1>2, <1>3, <1>4
  <1>7. GenesisBlock(h.network_id, h.timestamp, txs) = Founding
    BY <1>4, <1>5, <1>6
  <1> QED
    BY <1>7 DEF h, txs

(* A full export starts with the founding block.                           *)
LEMMA BackupStarts ==
    ASSUME NEW document, IsExport(document), document.kind = "full",
           BackedUp(document)
    PROVE  document.blocks[1].block = Founding
  <1>1. 1 \in DOMAIN document.blocks /\ document.range_start = 0
    BY ExportHasBlocks DEF IsExport, GENESIS
  <1>2. PICK s : Whole(s) /\ Excerpt(document, s)
    BY DEF BackedUp
  <1> QED
    BY <1>1, <1>2 DEF Excerpt, Whole, GENESIS

(* What restore rebuilds from a backup is the genesis the source stands    *)
(* on, and it can be restored (restore).                                   *)
LEMMA BackupFounds ==
    ASSUME NEW document, IsExport(document), document.kind = "full",
           BackedUp(document), NEW got, Restores(got, document)
    PROVE  Rebuilt(got) = Founding /\ ~NotRestorable(got)
  <1>1. got.blocks[1].block = Founding
    BY BackupStarts DEF Restores
  <1>2. Rebuilt(got) = Founding
    BY <1>1, FoundingIsRebuilt DEF Rebuilt
  <1>3. Founding.header.height = GENESIS
    BY FoundingAssumption, NoFindings DEF Unobjectionable, check_linkage,
       genesis_linkage, When, None
  <1> QED
    BY <1>1, <1>2, <1>3 DEF NotRestorable, Restores

(* On the chain restore has just founded, no rule objects to the rest of   *)
(* the backup (plan_import, validate_run).                                 *)
LEMMA BackupPlans ==
    ASSUME NEW document, IsExport(document), document.kind = "full",
           BackedUp(document), NEW got, Restores(got, document),
           NEW image, JustFounded(image)
    PROVE  plan_import(image, got) = {}
  <1> DEFINE blocks == BlocksOf(got)
             run == ToAppend(image, got)
             n == document.range_end - document.range_start + 1
  <1>1. /\ n \in Nat /\ n > 0 /\ DOMAIN document.blocks = 1..n
        /\ document.range_start = 0 /\ document.range_end \in Nat
        /\ n = document.range_end + 1
    BY ExportHasBlocks DEF IsExport, GENESIS
  <1>2. blocks = [i \in 1..n |-> document.blocks[i].block]
    BY <1>1 DEF Restores, BlocksOf
  <1>3. Ascending(blocks)
    BY ExportAscends DEF Restores
  <1>4. PICK k : LacksFrom(image, blocks, run, k)
    <2>1. image.head.height \in Nat
      BY DEF JustFounded, GENESIS
    <2> HIDE DEF blocks, run
    <2> QED
      BY <1>3, <2>1, WhatIsLacking DEF blocks, run
  <1>5. PICK s : /\ Whole(s)
                 /\ Excerpt(document, s)
                 /\ document.range_end <= s.head.height
    BY DEF BackedUp
  <1>6. Len(blocks) = n /\ DOMAIN blocks = 1..n
        /\ \A i \in 1..n : blocks[i] = s.blocks[i - 1]
    <2>1. \A i \in 1..n : document.blocks[i].block = s.blocks[0 + i - 1]
      BY <1>1, <1>5 DEF Excerpt
    <2>2. \A i \in 1..n : 0 + i - 1 = i - 1
      BY <1>1
    <2> HIDE DEF n, blocks
    <2>3. Len(blocks) = n /\ DOMAIN blocks = 1..n
          /\ \A i \in 1..n : blocks[i] = document.blocks[i].block
      BY <1>1, <1>2
    <2> QED
      BY <2>1, <2>2, <2>3
  <1> HIDE DEF blocks, run, n
  <1>7. s.head.height \in Nat
        /\ \A h \in 0..s.head.height :
              /\ s.blocks[h].header.height = h
              /\ Unobjectionable(s.network_id, Before(s, h),
                                 SeenTransactions(s, GENESIS, h), s.blocks[h])
    BY <1>5, CleanIsLinked DEF Whole, WalksClean
  <1>8. \A i \in 1..n : i - 1 \in 0..s.head.height /\ blocks[i].header.height = i - 1
    <2>1. \A i \in 1..n : i - 1 \in 0..s.head.height
      BY <1>1, <1>5, <1>7
    <2> QED
      BY <1>6, <1>7, <2>1
  <1>9. k = 1
    <2>1. \A i \in 1..n : i - 1 <= 0 <=> i <= k
      BY <1>4, <1>6, <1>8 DEF LacksFrom, JustFounded, GENESIS
    <2>2. k \in 0..n
      BY <1>4, <1>6 DEF LacksFrom
    <2>3. 1 \in 1..n
      BY <1>1
    <2>4. 1 <= k
      BY <2>1, <2>3
    <2>5. CASE k > 1
      <3>1. 2 \in 1..n
        BY <1>1, <2>2, <2>5
      <3>2. ~ (2 - 1 <= 0) /\ 2 <= k
        BY <2>2, <2>5
      <3> QED
        BY <2>1, <3>1, <3>2
    <2> QED
      BY <2>2, <2>4, <2>5
  <1>10. /\ DOMAIN run = 1..(n - 1)
         /\ \A i \in 1..(n - 1) : run[i] = s.blocks[i] /\ i \in 0..s.head.height
    <2>1. DOMAIN run = 1..(n - 1) /\ \A i \in 1..(n - 1) : run[i] = blocks[1 + i]
      BY <1>4, <1>6, <1>9 DEF LacksFrom, IsEnd
    <2> SUFFICES ASSUME NEW i \in 1..(n - 1)
                 PROVE  run[i] = s.blocks[i] /\ i \in 0..s.head.height
      BY <2>1
    <2>2. 1 + i \in 1..n /\ 1 + i - 1 = i
      BY <1>1
    <2> QED
      BY <1>6, <1>8, <2>1, <2>2
  <1>11. image.ids = TxIds(s.blocks[0].transactions)
    <2>1. image.ids = SeenTransactions(image, GENESIS, 0 + 1)
      BY DEF JustFounded, ValidImage, GENESIS
    <2>2. SeenTransactions(image, GENESIS, 0 + 1)
            = SeenTransactions(image, GENESIS, 0) \cup TxIds(image.blocks[0].transactions)
      BY SeenWithOneMore
    <2>3. SeenTransactions(image, GENESIS, 0) = {}
      BY DEF SeenTransactions, GENESIS
    <2>4. image.blocks[0] = s.blocks[0]
      BY <1>5 DEF JustFounded, Whole, GENESIS
    <2> QED
      BY <2>1, <2>2, <2>3, <2>4
  <1>12. \A i \in 1..(n - 1) :
            PendingAware(image, run, i) = SeenTransactions(s, GENESIS, i)
    <2> SUFFICES ASSUME NEW i \in 1..(n - 1)
                 PROVE  PendingAware(image, run, i) = SeenTransactions(s, GENESIS, i)
      OBVIOUS
    <2> DEFINE ids(h) == TxIds(s.blocks[h].transactions)
    <2>1. \A j \in 1..(i - 1) : run[j] = s.blocks[j]
      <3>1. \A j \in 1..(i - 1) : j \in 1..(n - 1)
        BY <1>1
      <3> QED
        BY <1>10, <3>1
    <2>2. PendingAware(image, run, i) = ids(0) \cup UNION {ids(j) : j \in 1..(i - 1)}
      <3>1. UNION {TxIds(run[j].transactions) : j \in 1..(i - 1)}
              = UNION {ids(j) : j \in 1..(i - 1)}
        BY <2>1
      <3> QED
        BY <1>11, <3>1 DEF PendingAware
    <2>3. SeenTransactions(s, GENESIS, i) = UNION {ids(j) : j \in 0..(i - 1)}
      BY DEF SeenTransactions, GENESIS
    <2>4. 0..(i - 1) = {0} \cup 1..(i - 1)
      BY <1>1
    <2> HIDE DEF ids
    <2> QED
      BY <2>2, <2>3, <2>4
  <1>13. \A i \in 1..(n - 1) :
            check_block(image.network_id,
                        Some(IF i = 1 THEN image.blocks[image.head.height].header
                             ELSE run[i - 1].header),
                        None, PendingAware(image, run, i), run[i]) = {}
    <2> SUFFICES ASSUME NEW i \in 1..(n - 1)
                 PROVE  check_block(image.network_id,
                            Some(IF i = 1 THEN image.blocks[image.head.height].header
                                 ELSE run[i - 1].header),
                            None, PendingAware(image, run, i), run[i]) = {}
      OBVIOUS
    <2>1. run[i] = s.blocks[i] /\ i \in 0..s.head.height /\ i # 0
      BY <1>1, <1>10
    <2>2. image.network_id = s.network_id
      BY <1>5 DEF JustFounded, Whole
    <2>3. Some(IF i = 1 THEN image.blocks[image.head.height].header
               ELSE run[i - 1].header) = Before(s, i)
      <3>1. CASE i = 1
        BY <1>5, <2>1, <3>1 DEF JustFounded, Whole, Before, GENESIS
      <3>2. CASE i # 1
        <4>1. i - 1 \in 1..(n - 1)
          BY <1>1, <3>2
        <4> QED
          BY <1>10, <2>1, <3>2, <4>1 DEF Before, GENESIS
      <3> QED
        BY <3>1, <3>2
    <2>4. check_block(s.network_id, Before(s, i), None,
                      SeenTransactions(s, GENESIS, i), s.blocks[i]) = {}
      BY <1>7, <2>1, NoFindings
    <2> QED
      BY <1>12, <2>1, <2>2, <2>3, <2>4
  <1>14. run # << >> => run[1].header.height = image.head.height + 1
    <2>1. run # << >> => 1 \in 1..(n - 1)
      <3>1. n - 1 = 0 => run = << >>
        BY <1>4, <1>6, <1>9 DEF LacksFrom
      <3> QED
        BY <1>1, <3>1
    <2>2. image.head.height + 1 = 1
      BY DEF JustFounded, GENESIS
    <2> QED
      BY <1>7, <1>10, <2>1, <2>2
  <1>15. \A i \in DOMAIN blocks :
            blocks[i].header.height <= image.head.height
               => image.blocks[blocks[i].header.height] = blocks[i]
    <2> SUFFICES ASSUME NEW i \in 1..n, blocks[i].header.height <= image.head.height
                 PROVE  image.blocks[blocks[i].header.height] = blocks[i]
      BY <1>6
    <2>1. blocks[i].header.height = 0 /\ i = 1
      BY <1>8 DEF JustFounded, GENESIS
    <2> QED
      BY <1>5, <1>6, <2>1 DEF JustFounded, Whole, GENESIS
  <1>16. check_document_identity(image, got) = {} /\ check_declared_hashes(got) = {}
    BY DEF check_document_identity, is_importable, When, Restores, JustFounded
  <1>17. Passed(image, got, run)
    BY <1>10, <1>13, <1>14, <1>15, <1>16 DEF Passed, blocks
  <1> QED
    BY <1>17, PlanPassed DEF run
-----------------------------------------------------------------------------
(* The document file on its way, and what is known of it.                  *)

(* An alteration leaves the declared genesis hash, or takes it away.       *)
LEMMA AlteredGenesis ==
    ASSUME NEW w, NEW t \in Altered(w),
           w = [namespace |-> w.namespace, format_version |-> w.format_version, kind |-> w.kind,
                network_id |-> w.network_id, genesis_hash |-> w.genesis_hash,
                range_start |-> w.range_start, range_end |-> w.range_end,
                block_count |-> w.block_count, projection |-> w.projection, blocks |-> w.blocks]
    PROVE  t.genesis_hash = ZERO \/ t.genesis_hash = w.genesis_hash
  <1> DEFINE Same(x) == x.genesis_hash = ZERO \/ x.genesis_hash = w.genesis_hash
             Blocks == UNION {{[w EXCEPT !.blocks[i] = b] : b \in AlteredBlock(w.blocks[i])}
                                : i \in DOMAIN w.blocks}
  <1>1. t \in AlteredRoot(w) \/ t \in AlteredRun(w) \/ t \in Blocks
    BY Zenon DEF Altered
  <1>2. ASSUME t \in AlteredRoot(w) PROVE Same(t)
    BY <1>2, AlteredRootHow
  <1>3. ASSUME t \in AlteredRun(w) PROVE Same(t)
    <2> DEFINE n == Len(w.blocks)
    <2>1. \A i : Same([w EXCEPT !.blocks = Without(w.blocks, i)])
      OBVIOUS
    <2>2. Same(WithBlocks([w EXCEPT !.range_end = w.range_end - 1], Without(w.blocks, n)))
      BY DEF WithBlocks
    <2>3. Same(WithBlocks([w EXCEPT !.range_start = w.range_start + 1], Without(w.blocks, 1)))
      BY DEF WithBlocks
    <2> HIDE DEF Same
    <2> QED
      BY <1>3, <2>1, <2>2, <2>3, Zenon DEF AlteredRun
  <1>4. ASSUME t \in Blocks PROVE Same(t)
    <2>1. PICK i \in DOMAIN w.blocks : \E b \in AlteredBlock(w.blocks[i]) :
             t = [w EXCEPT !.blocks[i] = b]
      BY <1>4, Zenon
    <2>2. PICK b \in AlteredBlock(w.blocks[i]) : t = [w EXCEPT !.blocks[i] = b]
      BY <2>1, Zenon
    <2> QED
      BY <2>2
  <1> QED
    BY <1>1, <1>2, <1>3, <1>4

AllSound(document) ==
    document.kind # "projection" =>
        \A k \in DOMAIN document.blocks : Sound(document.blocks[k].block)

(* A text, what is known of it, and the export it came from.               *)
Carried(t, origin, document) ==
    /\ IsExport(document)
    /\ origin.kind = document.kind
    /\ origin.blocks = BlocksOf(document)
    /\ origin.clean /\ document.kind = "full" => BackedUp(document)
    /\ origin.altered => AllSound(document) /\ t \in Altered(write_document(document))
    /\ ~origin.altered => Renders(t, document)
    /\ ~origin.altered /\ ~origin.reformatted => t = write_document(document)

(* Its elements go back to the export's blocks, and it names the source's  *)
(* genesis block or none.                                                  *)
LEMMA CarriedIsTraced ==
    ASSUME NEW t, NEW origin, NEW document, Carried(t, origin, document)
    PROVE  /\ Traced(t, document)
           /\ t.genesis_hash = ZERO \/ t.genesis_hash = HashOf(Founding)
  <1>1. IsExport(document) /\ document.genesis_hash = HashOf(Founding)
    BY DEF Carried, IsExport
  <1>2. CASE origin.altered
    <2> DEFINE w == write_document(document)
    <2>1. /\ w = [namespace |-> w.namespace, format_version |-> w.format_version,
                  kind |-> w.kind, network_id |-> w.network_id,
                  genesis_hash |-> w.genesis_hash, range_start |-> w.range_start,
                  range_end |-> w.range_end, block_count |-> w.block_count,
                  projection |-> w.projection, blocks |-> w.blocks]
          /\ w.genesis_hash = document.genesis_hash
      BY DEF write_document
    <2>2. t \in Altered(w) /\ AllSound(document)
      BY <1>2 DEF Carried
    <2>3. Traced(t, document)
      BY <1>1, <2>2, AlteredIsTraced DEF AllSound
    <2> HIDE DEF w
    <2> QED
      BY <1>1, <2>1, <2>2, <2>3, AlteredGenesis
  <1>3. CASE ~origin.altered
    BY <1>1, <1>3, RenderedIsTraced DEF Carried, Renders
  <1> QED
    BY <1>2, <1>3

(* A document read from such a text.                                       *)
WasRead(document, origin) ==
    \E t : /\ Readable(t)
           /\ document = read_document(t)
           /\ \E d : Carried(t, origin, d)

(* A document that was read lists its blocks in ascending order.           *)
LEMMA ReadDocumentAscends ==
    ASSUME NEW document, NEW origin, WasRead(document, origin)
    PROVE  Ascending(BlocksOf(document))
  BY CarriedIsTraced, ReadAscends DEF WasRead, Traced

(* Blocks that come with their declared hashes in an importable document,  *)
(* and are sound, are the export's (check_declared_hashes).                *)
LEMMA ReadBlocksWereSent ==
    ASSUME NEW document, NEW origin, WasRead(document, origin),
           is_importable(document.kind), check_declared_hashes(document) = {},
           \A i \in DOMAIN BlocksOf(document) : Sound(BlocksOf(document)[i])
    PROVE  \A i \in DOMAIN document.blocks : \E k \in DOMAIN origin.blocks :
              document.blocks[i].block = origin.blocks[k]
  <1>1. PICK t : /\ Readable(t) /\ document = read_document(t)
                 /\ \E d : Carried(t, origin, d)
    BY DEF WasRead
  <1>2. PICK d : Carried(t, origin, d)
    BY <1>1
  <1>3. Traced(t, d) /\ IsExport(d) /\ origin.blocks = BlocksOf(d)
    BY <1>2, CarriedIsTraced DEF Carried
  <1> QED
    BY <1>1, <1>3, ReadIsExported

(* What is read of a backup restores it.                                   *)
LEMMA BackupIsRead ==
    ASSUME NEW document, NEW origin, WasRead(document, origin), IsBackup(origin)
    PROVE  \E d : /\ IsExport(d) /\ d.kind = "full" /\ BackedUp(d)
                  /\ Restores(document, d)
                  /\ origin.blocks = BlocksOf(d)
  <1>1. PICK t : /\ Readable(t) /\ document = read_document(t)
                 /\ \E d : Carried(t, origin, d)
    BY DEF WasRead
  <1>2. PICK d : Carried(t, origin, d)
    BY <1>1
  <1>3. IsExport(d) /\ d.kind = "full" /\ BackedUp(d) /\ Renders(t, d)
        /\ origin.blocks = BlocksOf(d)
    BY <1>2 DEF Carried, IsBackup
  <1> QED
    BY <1>1, <1>3, BackupReadsBack

(* And a backup can be read.                                               *)
LEMMA BackupIsReadable ==
    ASSUME NEW t, NEW origin, NEW document, Carried(t, origin, document),
           IsBackup(origin)
    PROVE  Readable(t)
  <1>1. /\ IsExport(document) /\ Renders(t, document)
        /\ origin.blocks = BlocksOf(document)
    BY DEF Carried, IsBackup
  <1> DEFINE n == document.range_end - document.range_start + 1
  <1>2. n \in Nat /\ DOMAIN document.blocks = 1..n /\ Len(document.blocks) = n
    BY <1>1, ExportHasBlocks
  <1>3. origin.blocks = [i \in 1..n |-> document.blocks[i].block]
    BY <1>1, <1>2 DEF BlocksOf
  <1> HIDE DEF n
  <1>4. Len(origin.blocks) = n /\ DOMAIN origin.blocks = 1..n
        /\ \A i \in 1..n : origin.blocks[i] = document.blocks[i].block
    BY <1>2, <1>3
  <1>5. WithinLimits(document)
    BY <1>2, <1>4 DEF IsBackup, WithinLimits
  <1> QED
    BY <1>1, <1>5, WrittenIsReadable

(* The genesis block restore rebuilds under the hash a document names, and *)
(* the rules accept, is the source's (restore).                            *)
LEMMA OnlyFoundingIsRestored ==
    ASSUME NEW document, NEW origin, WasRead(document, origin),
           ~NotRestorable(document),
           NEW genesis, genesis = Rebuilt(document),
           check_block(genesis.header.network_id, None, None, {}, genesis) = {}
    PROVE  genesis = Founding
  <1>1. PICK t : /\ Readable(t) /\ document = read_document(t)
                 /\ \E d : Carried(t, origin, d)
    BY DEF WasRead
  <1>2. t.genesis_hash = ZERO \/ t.genesis_hash = HashOf(Founding)
    BY <1>1, CarriedIsTraced
  <1>3. ReadAs(document, t)
    BY <1>1, ReaderReads
  <1>4. HashOf(genesis) = HashOf(Founding)
    <2>1. HashOf(genesis) = t.genesis_hash
      BY <1>3 DEF NotRestorable, ReadAs
    <2>2. HashOf(genesis) # ZERO
      BY DEF HashOf, block_hash, ZERO
    <2> QED
      BY <1>2, <2>1, <2>2
  <1> DEFINE first == document.blocks[1].block
  <1>5. /\ genesis = [header |-> genesis.header, transactions |-> genesis.transactions]
        /\ genesis.transactions = first.transactions
    BY DEF Rebuilt, GenesisBlock, BuildBlock
  <1>6. Decodes(genesis)
    <2>1. 1 \in DOMAIN t.blocks
      BY <1>1, CarriedIsTraced DEF Traced, Listed, Readable, finish
    <2>2. first = ReadBlock(t.format_version, t.network_id, t.blocks[1])
      BY <1>3, <2>1 DEF ReadAs
    <2> HIDE DEF first
    <2> QED
      BY <1>5, <2>2, ReadDecodes DEF Decodes
  <1>7. Sound(genesis)
    BY NoFindings DEF Unobjectionable, Sound
  <1>8. genesis.header = Founding.header
    BY <1>4 DEF HashOf, block_hash
  <1>9. SameBlock(genesis, Founding)
    BY <1>6, <1>7, <1>8, FoundingIsSound, FoundingAssumption, BlockDecodes,
       HeaderFixesBlock DEF Sound
  <1> QED
    BY <1>5, <1>9, FoundingAssumption DEF SameBlock, IsBlock
-----------------------------------------------------------------------------
(* The invariant of a transfer, part by part.                              *)

(* An export that has begun has read a head, and a range up to it.         *)
ExporterOK(x) ==
    x.phase = "head" =>
        \E head, request :
            /\ x.head = Some(head) /\ x.request = Some(request)
            /\ request \in Requests /\ head.height \in Nat
            /\ ExportFrom(request) <= ExportTo(request, head)

(* The file carries an export, and of an undamaged chain a sound one.      *)
FileOK(texts, origin, undamaged) ==
    /\ origin = [kind |-> origin.kind, blocks |-> origin.blocks, clean |-> origin.clean,
                 altered |-> origin.altered, reformatted |-> origin.reformatted]
    /\ \A t \in texts : \E d :
          Carried(t, origin, d) /\ (undamaged /\ ~origin.altered => AllSound(d))

(* The target is a valid chain on the source's genesis block, if it is one.*)
Anchored(image) ==
    /\ ValidImage(image)
    /\ image.network_id = Founding.header.network_id
    /\ image.genesis_hash = HashOf(Founding)
    /\ image.blocks[GENESIS] = Founding

TargetOK(p, image) == p = "chain" => Anchored(image)

AllHeld(image, blocks) == \A i \in DOMAIN blocks : Holds(image, blocks[i])

SaysItself(image, document) ==
    /\ check_document_identity(image, document) = {}
    /\ check_declared_hashes(document) = {}

(* A running import has read its document from the file; restore's plan is *)
(* made on the chain it has just founded, whose lock it holds.             *)
ImporterOK(x, p, image) ==
    /\ x = [command |-> x.command, phase |-> x.phase, document |-> x.document,
            origin |-> x.origin]
    /\ x.phase \in {"idle", "read", "creating", "open", "planned"}
    /\ x.phase # "idle" => \E document : /\ x.document = Some(document)
                                         /\ WasRead(document, x.origin)
    /\ x.phase = "creating" =>
          /\ x.command = "create" /\ p = "empty"
          /\ \A document \in x.document : ~NotRestorable(document)
    /\ x.phase \in {"open", "planned"} => p = "chain"
    /\ x.phase \in {"open", "planned"} /\ x.command = "create" => image.head.height = GENESIS
    /\ x.phase = "planned" => \A document \in x.document : SaysItself(image, document)
    /\ x.phase = "planned" /\ x.command = "create" =>
          \A document \in x.document : plan_import(image, document) = {}

(* What an import has applied was sent, and is in the chain; and a backup  *)
(* was refused for the path's sake only.                                   *)
Sincere(r) ==
    \A document \in r.document :
        \A i \in DOMAIN document.blocks :
            \E k \in DOMAIN r.origin.blocks :
                document.blocks[i].block = r.origin.blocks[k]

ResultOK(r, p, image) ==
    /\ \A document \in r.document : WasRead(document, r.origin)
    /\ r.outcome = "ok" =>
          /\ p = "chain"
          /\ Sincere(r)
          /\ \E document : /\ r.document = Some(document)
                           /\ AllHeld(image, BlocksOf(document))
    /\ r.outcome = "refused" /\ r.command = "create" /\ IsBackup(r.origin)
          => r.why = {"AlreadyExists"}

AppliedOK(documents, p, image) ==
    \A document \in documents :
        /\ p = "chain"
        /\ Heighted(BlocksOf(document))
        /\ AllHeld(image, BlocksOf(document))
        /\ SaysItself(image, document)

TransferInv ==
    /\ SourceOK(source, honest)
    /\ ExporterOK(exporter)
    /\ FileOK(text, sent, ~Damaged)
    /\ TargetOK(path, target)
    /\ ImporterOK(importer, path, target)
    /\ ResultOK(result, path, target)
    /\ AppliedOK(applied, path, target)

-----------------------------------------------------------------------------
(* What a growing target leaves as it is.                                  *)
LEMMA AnchoredGrows ==
    ASSUME NEW old, NEW new, Anchored(old), ValidImage(new), Grown(old, new)
    PROVE  Anchored(new)
  <1>1. old.head.height \in Nat /\ 0 \in 0..old.head.height
    BY DEF Anchored, ValidImage
  <1> QED
    BY <1>1 DEF Anchored, Grown, GENESIS

(* A target that grows goes on holding what it held.                       *)
LEMMA AllHeldGrows ==
    ASSUME NEW old, NEW new, ValidImage(old), ValidImage(new), Grown(old, new),
           NEW blocks, Heighted(blocks), AllHeld(old, blocks)
    PROVE  AllHeld(new, blocks)
  <1> SUFFICES ASSUME NEW i \in DOMAIN blocks PROVE Holds(new, blocks[i])
    BY DEF AllHeld
  <1>1. blocks[i].header.height \in Nat /\ Holds(old, blocks[i])
    BY DEF Heighted, AllHeld
  <1> QED
    BY <1>1, HeldForGood DEF ValidImage

(* A document that names the target's chain names it still when the        *)
(* target has grown (check_document_identity).                             *)
LEMMA SaysItselfGrows ==
    ASSUME NEW old, NEW new, Grown(old, new), NEW document, SaysItself(old, document)
    PROVE  SaysItself(new, document)
  BY DEF SaysItself, Grown, check_document_identity

(* A report, and a document applied, stay true of a target that grows.     *)
LEMMA ReportGrows ==
    ASSUME NEW old, NEW new, ValidImage(old), ValidImage(new), Grown(old, new), NEW p
    PROVE  /\ \A r : ResultOK(r, p, old) => ResultOK(r, p, new)
           /\ \A documents : AppliedOK(documents, p, old) => AppliedOK(documents, p, new)
  <1>1. ASSUME NEW r, ResultOK(r, p, old) PROVE ResultOK(r, p, new)
    <2>1. ASSUME r.outcome = "ok"
          PROVE  /\ p = "chain"
                 /\ Sincere(r)
                 /\ \E document : /\ r.document = Some(document)
                                  /\ AllHeld(new, BlocksOf(document))
      <3>1. PICK document : /\ r.document = Some(document)
                            /\ AllHeld(old, BlocksOf(document))
        BY <1>1, <2>1 DEF ResultOK
      <3>2. WasRead(document, r.origin)
        BY <1>1, <3>1 DEF ResultOK, Some
      <3>3. Heighted(BlocksOf(document))
        BY <3>2, ReadDocumentAscends DEF Ascending
      <3>4. AllHeld(new, BlocksOf(document))
        BY <3>1, <3>3, AllHeldGrows
      <3> QED
        BY <1>1, <2>1, <3>1, <3>4 DEF ResultOK
    <2> QED
      BY <1>1, <2>1 DEF ResultOK
  <1>2. ASSUME NEW documents, AppliedOK(documents, p, old)
        PROVE  AppliedOK(documents, p, new)
    <2> SUFFICES ASSUME NEW document \in documents
                 PROVE  /\ p = "chain"
                        /\ Heighted(BlocksOf(document))
                        /\ AllHeld(new, BlocksOf(document))
                        /\ SaysItself(new, document)
      BY DEF AppliedOK
    <2>1. /\ p = "chain" /\ Heighted(BlocksOf(document))
          /\ AllHeld(old, BlocksOf(document)) /\ SaysItself(old, document)
      BY <1>2 DEF AppliedOK
    <2> QED
      BY <2>1, AllHeldGrows, SaysItselfGrows
  <1> QED
    BY <1>1, <1>2

(* What a batch does to a target.                                          *)
LEMMA TargetAfter ==
    ASSUME NEW image, Anchored(image), NEW blocks, Heighted(blocks),
           NEW outcome, outcome = append_blocks(image, blocks)
    PROVE  /\ Anchored(outcome.image)
           /\ Grown(image, outcome.image)
           /\ ValidImage(outcome.image)
           /\ outcome.ok => AllHeld(outcome.image, blocks)
  <1>1. SoFar(outcome, image, blocks, Len(blocks))
    BY AppendKeeps DEF Anchored
  <1>2. Anchored(outcome.image)
    BY <1>1, AnchoredGrows DEF SoFar
  <1> QED
    BY <1>1, <1>2 DEF SoFar, AllHeld, Heighted
-----------------------------------------------------------------------------
(* The invariant holds at first, and through every step.                   *)
LEMMA TransferStarts == TransferInit => TransferInv
  <1> SUFFICES ASSUME TransferInit PROVE TransferInv
    OBVIOUS
  <1>1. SourceOK(source, honest)
    BY FoundedIsOK DEF TransferInit
  <1>2. ExporterOK(exporter)
    BY DEF TransferInit, NotExporting, ExporterOK
  <1>3. FileOK(text, sent, ~Damaged)
    BY DEF TransferInit, NothingSent, FileOK, None
  <1>4. TargetOK(path, target)
    <2>1. Anchored(Founded(Founding))
      <3> DEFINE s == Founded(Founding)
      <3>1. /\ ValidImage(s) /\ s.network_id = Founding.header.network_id
            /\ s.genesis_hash = HashOf(Founding)
            /\ s.blocks[GENESIS] = Founding
        BY FoundedIsValid, FoundingAssumption
      <3> HIDE DEF s
      <3> QED
        BY <3>1 DEF Anchored, s
    <2> QED
      BY <2>1 DEF TransferInit, TargetOK
  <1>5. ImporterOK(importer, path, target)
    BY DEF TransferInit, Idle, ImporterOK
  <1>6. ResultOK(result, path, target)
    BY DEF TransferInit, NoResult, ResultOK, None
  <1>7. AppliedOK(applied, path, target)
    BY DEF TransferInit, AppliedOK, None
  <1> QED
    BY <1>1, <1>2, <1>3, <1>4, <1>5, <1>6, <1>7 DEF TransferInv

(* prunella append at the source: what is honest grows with the chain.     *)
LEMMA SourceAppendHolds ==
    ASSUME TransferInv, NEW txs \in SourceTxs, SourceAppend(txs, Now)
    PROVE  TransferInv'
  <1>1. SourceOK(source', honest')
    <2>1. SourceOK(source, source.blocks)
      BY DEF TransferInv, SourceAppend, Damaged
    <2>2. Append1(source, txs, Now).ok
          /\ source' = Append1(source, txs, Now).image
          /\ honest' = Append1(source, txs, Now).image.blocks
      BY DEF SourceAppend
    <2>3. IsList(txs) /\ \A i \in DOMAIN txs : IsTransaction(txs[i])
      BY SourceAssumption
    <2> QED
      BY <2>1, <2>2, <2>3, SourceGrows
  <1>2. FileOK(text', sent', ~Damaged')
    <2>1. FileOK(text, sent, TRUE)
      BY DEF TransferInv, SourceAppend, FileOK
    <2> QED
      BY <2>1 DEF SourceAppend, fileVars, FileOK
  <1> QED
    BY <1>1, <1>2 DEF TransferInv, SourceAppend, fileVars, targetVars

(* prunella append at the target: plans and reports outlive it.            *)
LEMMA TargetAppendHolds ==
    ASSUME TransferInv, NEW txs \in LocalTxs, TargetAppend(txs, Now)
    PROVE  TransferInv'
  <1> DEFINE blocks == <<NewBlock(target, txs, Now)>>
             outcome == append_blocks(target, blocks)
  <1>1. path = "chain" /\ importer.command # "create" /\ target' = outcome.image
        /\ UNCHANGED <<sourceVars, fileVars, path, importer, result, applied>>
    BY DEF TargetAppend, Append1
  <1>2. Anchored(target)
    BY <1>1 DEF TransferInv, TargetOK
  <1>3. Heighted(blocks)
    <2>1. NewBlock(target, txs, Now).header.height \in Nat
      BY <1>2, NewBlockIsNext DEF Anchored
    <2> QED
      BY <2>1 DEF Heighted
  <1> HIDE DEF blocks
  <1>4. Anchored(target') /\ Grown(target, target') /\ ValidImage(target')
    BY <1>1, <1>2, <1>3, TargetAfter
  <1>5. ImporterOK(importer, path, target')
    BY <1>1, <1>4, SaysItselfGrows DEF TransferInv, ImporterOK
  <1>6. ResultOK(result, path, target') /\ AppliedOK(applied, path, target')
    BY <1>2, <1>4, ReportGrows DEF TransferInv, Anchored
  <1> QED
    BY <1>1, <1>4, <1>5, <1>6
    DEF TransferInv, TargetOK, sourceVars, fileVars, Damaged

(* A block of the source's file replaced: the file is damaged for good,    *)
(* and nothing more is claimed of documents exported from it.              *)
LEMMA DamageHolds ==
    ASSUME TransferInv, NEW height, Damage(height)
    PROVE  TransferInv'
  <1>1. SourceOK(source, source.blocks) /\ source.blocks = honest /\ honest' = honest
        /\ height \in DOMAIN source.blocks
    BY DEF TransferInv, Damage, Damaged
  <1>2. SourceOK(source', source.blocks) /\ source'.blocks # source.blocks
    BY <1>1, DamagedIsOK DEF Damage
  <1>3. FileOK(text', sent', ~Damaged')
    <2>1. Damaged'
      BY <1>1, <1>2 DEF Damaged
    <2>2. FileOK(text, sent, FALSE)
      BY DEF TransferInv, FileOK
    <2> QED
      BY <2>1, <2>2 DEF Damage, fileVars, FileOK
  <1> QED
    BY <1>1, <1>2, <1>3 DEF TransferInv, Damage, fileVars, targetVars

(* An export that has read the head and passed the range checks.           *)
LEMMA BeginExportHolds ==
    ASSUME TransferInv, NEW request \in Requests, BeginExport(request)
    PROVE  TransferInv'
  <1>1. source.head.height \in Nat
    BY DEF TransferInv, SourceOK
  <1>2. ExporterOK(exporter')
    <2>1. exporter'.phase = "head" /\ exporter'.head = Some(source.head)
          /\ exporter'.request = Some(request)
          /\ ExportFrom(request) <= ExportTo(request, source.head)
      BY DEF BeginExport
    <2> QED
      BY <1>1, <2>1 DEF ExporterOK
  <1> QED
    BY <1>2 DEF TransferInv, BeginExport, fileVars, targetVars, Damaged

(* An export that writes its document, or finds the range unreadable.      *)
LEMMA FinishExportHolds ==
    ASSUME TransferInv, FinishExport
    PROVE  TransferInv'
  <1>1. ExporterOK(exporter')
    BY DEF FinishExport, NotExporting, ExporterOK
  <1>2. PICK head, request :
          /\ exporter.head = Some(head) /\ exporter.request = Some(request)
          /\ request \in Requests /\ head.height \in Nat
          /\ ExportFrom(request) <= ExportTo(request, head)
    BY DEF TransferInv, ExporterOK, FinishExport
  <1> DEFINE range == ExportFrom(request)..ExportTo(request, head)
             document == export(source, head, request)
             clean == verify_chain(source, GENESIS, None) = {}
  <1>3. UNCHANGED <<source, honest, targetVars, importer, result, applied>>
    BY DEF FinishExport
  <1>4. CASE range \subseteq DOMAIN source.blocks
    <2>1. text' = Some(write_document(document)) /\ sent' = Sent(document, clean)
      BY <1>2, <1>4 DEF FinishExport, Some
    <2>2. SourceOK(source, honest)
      BY DEF TransferInv
    <2>3. /\ IsExport(document)
          /\ document.kind # "projection" => Excerpt(document, source)
          /\ document.range_start = ExportFrom(request)
          /\ document.range_end = ExportTo(request, head)
      BY <1>2, <1>4, <2>2, ExportIsExport
    <2> HIDE DEF document
    <2>4. \A i \in DOMAIN document.blocks :
             document.range_start + i - 1 \in DOMAIN source.blocks
      <3> DEFINE from == ExportFrom(request)
                 to == ExportTo(request, head)
      <3>1. from \in Nat /\ to \in Nat /\ DOMAIN document.blocks = 1..(to - from + 1)
        BY <2>3, ExportHasBlocks DEF IsExport
      <3> HIDE DEF from, to
      <3>2. \A i \in 1..(to - from + 1) : from + i - 1 \in from..to
        BY <3>1
      <3> QED
        BY <1>4, <2>3, <3>1, <3>2 DEF from, to
    <2>5. clean /\ document.kind = "full" => BackedUp(document)
      <3> SUFFICES ASSUME clean, document.kind = "full" PROVE BackedUp(document)
        OBVIOUS
      <3>1. Whole(source)
        BY <2>2, VerifiedIsWhole
      <3>2. document.range_end <= source.head.height
        <4>1. ExportTo(request, head) \in range
          BY <1>2, RangeIsOfHeights
        <4> QED
          BY <1>4, <2>2, <2>3, <4>1 DEF SourceOK
      <3> QED
        BY <2>3, <3>1, <3>2 DEF BackedUp
    <2>6. ~Damaged => AllSound(document)
      <3> SUFFICES ASSUME ~Damaged, document.kind # "projection",
                          NEW k \in DOMAIN document.blocks
                   PROVE  Sound(document.blocks[k].block)
        BY DEF AllSound
      <3>1. ValidImage(source)
        BY <2>2 DEF SourceOK, Damaged
      <3>2. document.range_start + k - 1 \in 0..source.head.height
        BY <2>2, <2>4 DEF SourceOK
      <3>3. document.blocks[k].block = source.blocks[document.range_start + k - 1]
        BY <2>3 DEF Excerpt
      <3> QED
        BY <3>1, <3>2, <3>3, CleanIsSound DEF ValidImage
    <2>7. /\ sent'.kind = document.kind /\ sent'.blocks = BlocksOf(document)
          /\ sent'.clean = clean /\ sent'.altered = FALSE /\ sent'.reformatted = FALSE
          /\ sent' = [kind |-> sent'.kind, blocks |-> sent'.blocks, clean |-> sent'.clean,
                      altered |-> sent'.altered, reformatted |-> sent'.reformatted]
      BY <2>1 DEF Sent
    <2>8. Carried(write_document(document), sent', document)
      BY <2>3, <2>5, <2>7, WriterRenders DEF Carried
    <2>9. FileOK(text', sent', ~Damaged')
      <3>1. Damaged' = Damaged
        BY <1>3 DEF Damaged
      <3> QED
        BY <2>1, <2>6, <2>7, <2>8, <3>1 DEF FileOK, Some
    <2> QED
      BY <1>1, <1>3, <2>9 DEF TransferInv, targetVars
  <1>5. CASE ~(range \subseteq DOMAIN source.blocks)
    <2>1. UNCHANGED <<text, sent>>
      BY <1>2, <1>5 DEF FinishExport, Some
    <2> QED
      BY <1>1, <1>3, <2>1 DEF TransferInv, targetVars, Damaged
  <1> QED
    BY <1>4, <1>5

(* A formatter run over the document: it still carries the same export.    *)
LEMMA ReformatHolds ==
    ASSUME TransferInv, Reformat
    PROVE  TransferInv'
  <1>1. PICK t \in text : text' = Some(Reformatted(t))
    BY DEF Reformat
  <1>2. ~sent.reformatted /\ ~sent.altered /\ sent' = [sent EXCEPT !.reformatted = TRUE]
    BY DEF Reformat
  <1>3. PICK d : Carried(t, sent, d) /\ (~Damaged /\ ~sent.altered => AllSound(d))
    BY DEF TransferInv, FileOK
  <1>4. t = write_document(d) /\ IsExport(d)
    BY <1>2, <1>3 DEF Carried
  <1>5. /\ sent'.kind = sent.kind /\ sent'.blocks = sent.blocks
        /\ sent'.clean = sent.clean /\ sent'.altered = sent.altered
        /\ sent'.reformatted = TRUE
        /\ sent' = [kind |-> sent'.kind, blocks |-> sent'.blocks, clean |-> sent'.clean,
                    altered |-> sent'.altered, reformatted |-> sent'.reformatted]
    BY <1>2 DEF TransferInv, FileOK
  <1>6. Carried(Reformatted(t), sent', d)
    BY <1>2, <1>3, <1>4, <1>5, FormatterRenders DEF Carried
  <1>7. Damaged' = Damaged
    BY DEF Reformat, sourceVars, Damaged
  <1>8. FileOK(text', sent', ~Damaged')
    BY <1>1, <1>2, <1>3, <1>5, <1>6, <1>7 DEF FileOK, Some
  <1> QED
    BY <1>8 DEF TransferInv, Reformat, sourceVars, targetVars

(* One place of the document changed: what it carries is traced to the     *)
(* export all the same.                                                    *)
LEMMA AlterHolds ==
    ASSUME TransferInv, Alter
    PROVE  TransferInv'
  <1>1. PICK t \in text : \E other \in Altered(t) : text' = Some(other)
    BY DEF Alter
  <1>2. PICK other \in Altered(t) : text' = Some(other)
    BY <1>1
  <1>3. ~sent.reformatted /\ ~sent.altered /\ ~Damaged
        /\ sent' = [sent EXCEPT !.altered = TRUE]
    BY DEF Alter
  <1>4. PICK d : Carried(t, sent, d) /\ (~Damaged /\ ~sent.altered => AllSound(d))
    BY DEF TransferInv, FileOK
  <1>5. t = write_document(d) /\ AllSound(d)
    BY <1>3, <1>4 DEF Carried
  <1>6. /\ sent'.kind = sent.kind /\ sent'.blocks = sent.blocks
        /\ sent'.clean = sent.clean /\ sent'.altered = TRUE
        /\ sent' = [kind |-> sent'.kind, blocks |-> sent'.blocks, clean |-> sent'.clean,
                    altered |-> sent'.altered, reformatted |-> sent'.reformatted]
    BY <1>3 DEF TransferInv, FileOK
  <1>7. Carried(other, sent', d)
    BY <1>2, <1>4, <1>5, <1>6 DEF Carried
  <1>8. FileOK(text', sent', ~Damaged')
    BY <1>2, <1>6, <1>7 DEF FileOK, Some
  <1> QED
    BY <1>8 DEF TransferInv, Alter, sourceVars, targetVars

(* A command that ends, other than with a success.                         *)
LEMMA ReportHolds ==
    ASSUME ImporterOK(importer, path, target), importer.phase # "idle",
           NEW outcome, NEW why, Report(outcome, why), outcome # "ok",
           outcome = "refused" /\ importer.command = "create" /\ IsBackup(importer.origin)
             => why = {"AlreadyExists"},
           NEW p, NEW image
    PROVE  ImporterOK(importer', p, image) /\ ResultOK(result', p, image)
  <1>1. importer' = Idle
        /\ result' = [command |-> importer.command, outcome |-> outcome, why |-> why,
                      document |-> importer.document, origin |-> importer.origin]
    BY DEF Report
  <1>2. ImporterOK(importer', p, image)
    BY <1>1 DEF Idle, ImporterOK
  <1>3. /\ result'.command = importer.command /\ result'.outcome = outcome
        /\ result'.why = why /\ result'.document = importer.document
        /\ result'.origin = importer.origin
    BY <1>1
  <1>4. \A document \in importer.document : WasRead(document, importer.origin)
    BY DEF ImporterOK, Some
  <1> QED
    BY <1>2, <1>3, <1>4 DEF ResultOK

(* What is known of an importer's document.                                *)
LEMMA TheDocument ==
    ASSUME NEW x, NEW p, NEW image, ImporterOK(x, p, image), x.phase # "idle"
    PROVE  \E document : /\ x.document = Some(document)
                         /\ \A other : other \in x.document <=> other = document
                         /\ WasRead(document, x.origin)
  BY DEF ImporterOK, Some

(* The importer reads the document, or refuses it as malformed.            *)
LEMMA ReadDocumentHolds ==
    ASSUME TransferInv, NEW command, ReadDocument(command)
    PROVE  TransferInv'
  <1>1. UNCHANGED <<sourceVars, fileVars, targetVars, applied>>
    BY DEF ReadDocument
  <1>2. PICK t \in text :
          IF Readable(t)
          THEN /\ importer' = [command |-> command, phase |-> "read",
                               document |-> Some(read_document(t)), origin |-> sent]
               /\ result' = NoResult
          ELSE /\ importer' = Idle
               /\ result' = [command |-> command, outcome |-> "refused",
                             why |-> {"Malformed"}, document |-> None, origin |-> sent]
    BY DEF ReadDocument
  <1>3. PICK d : Carried(t, sent, d)
    BY DEF TransferInv, FileOK
  <1>4. CASE Readable(t)
    <2> DEFINE document == read_document(t)
    <2>1. WasRead(document, sent)
      BY <1>3, <1>4 DEF WasRead
    <2> HIDE DEF document
    <2>2. importer' = [command |-> command, phase |-> "read",
                       document |-> Some(document), origin |-> sent]
          /\ result' = NoResult
      BY <1>2, <1>4 DEF document
    <2>3. ImporterOK(importer', path, target)
      BY <2>1, <2>2 DEF ImporterOK
    <2>4. ResultOK(result', path, target)
      BY <2>2 DEF NoResult, ResultOK, None
    <2> QED
      BY <1>1, <2>3, <2>4 DEF TransferInv, sourceVars, fileVars, targetVars, Damaged
  <1>5. CASE ~Readable(t)
    <2>1. ~IsBackup(sent)
      BY <1>3, <1>5, BackupIsReadable
    <2>2. ImporterOK(importer', path, target)
      BY <1>2, <1>5 DEF Idle, ImporterOK
    <2>3. ResultOK(result', path, target)
      BY <1>2, <1>5, <2>1 DEF ResultOK, None
    <2> QED
      BY <1>1, <2>2, <2>3 DEF TransferInv, sourceVars, fileVars, targetVars, Damaged
  <1> QED
    BY <1>4, <1>5

(* restore creates the file, or refuses a document or an occupied path.    *)
LEMMA RestoreCreatesHolds ==
    ASSUME TransferInv, RestoreCreates
    PROVE  TransferInv'
  <1>1. importer.phase = "read" /\ importer.command = "create"
        /\ UNCHANGED <<sourceVars, fileVars, target, applied>>
    BY DEF RestoreCreates
  <1>2. ImporterOK(importer, path, target)
    BY DEF TransferInv
  <1>3. PICK document : /\ importer.document = Some(document)
                        /\ \A other : other \in importer.document <=> other = document
                        /\ WasRead(document, importer.origin)
    BY <1>1, <1>2, TheDocument
  <1>4. IF NotRestorable(document)
        THEN Report("refused", {"NotRestorable"}) /\ UNCHANGED path
        ELSE IF path # "absent"
        THEN Report("refused", {"AlreadyExists"}) /\ UNCHANGED path
        ELSE Proceed("creating") /\ path' = "empty"
    BY <1>3 DEF RestoreCreates
  <1>5. IsBackup(importer.origin) => ~NotRestorable(document)
    BY <1>3, BackupIsRead, BackupFounds
  <1>6. CASE NotRestorable(document) \/ path # "absent"
    <2>1. path' = path
      BY <1>4, <1>6
    <2>2. ImporterOK(importer', path, target) /\ ResultOK(result', path, target)
      <3>1. CASE NotRestorable(document)
        BY <1>1, <1>2, <1>4, <1>5, <3>1, ReportHolds
      <3>2. CASE ~NotRestorable(document)
        BY <1>1, <1>2, <1>4, <1>6, <3>2, ReportHolds
      <3> QED
        BY <3>1, <3>2
    <2> QED
      BY <1>1, <2>1, <2>2 DEF TransferInv, sourceVars, fileVars, Damaged
  <1>7. CASE ~NotRestorable(document) /\ path = "absent"
    <2>1. path' = "empty" /\ importer' = [importer EXCEPT !.phase = "creating"]
          /\ result' = result
      BY <1>4, <1>7 DEF Proceed
    <2>2. /\ importer'.command = "create" /\ importer'.phase = "creating"
          /\ importer'.document = importer.document /\ importer'.origin = importer.origin
          /\ importer' = [command |-> importer'.command, phase |-> importer'.phase,
                          document |-> importer'.document, origin |-> importer'.origin]
      BY <1>1, <1>2, <2>1 DEF ImporterOK
    <2>3. ImporterOK(importer', path', target)
      BY <1>3, <1>7, <2>1, <2>2 DEF ImporterOK
    <2>4. ResultOK(result', path', target) /\ AppliedOK(applied, path', target)
      BY <1>7, <2>1 DEF TransferInv, ResultOK, AppliedOK
    <2> QED
      BY <1>1, <2>1, <2>3, <2>4
      DEF TransferInv, sourceVars, fileVars, Damaged, TargetOK
  <1> QED
    BY <1>6, <1>7

(* write_genesis founds the target, or refuses what it was given.          *)
LEMMA RestoreFoundsHolds ==
    ASSUME TransferInv, RestoreFounds
    PROVE  TransferInv'
  <1>1. importer.phase = "creating" /\ UNCHANGED <<sourceVars, fileVars, applied>>
    BY DEF RestoreFounds
  <1>2. ImporterOK(importer, path, target)
    BY DEF TransferInv
  <1>3. PICK document : /\ importer.document = Some(document)
                        /\ \A other : other \in importer.document <=> other = document
                        /\ WasRead(document, importer.origin)
    BY <1>1, <1>2, TheDocument
  <1>4. importer.command = "create" /\ path = "empty" /\ ~NotRestorable(document)
    BY <1>1, <1>2, <1>3 DEF ImporterOK
  <1> DEFINE genesis == Rebuilt(document)
             findings == check_block(genesis.header.network_id, None, None, {}, genesis)
  <1>5. IF findings = {}
        THEN /\ path' = "chain"
             /\ target' = Founded(genesis)
             /\ Proceed("open")
        ELSE Report("refused", findings) /\ UNCHANGED targetVars
    BY <1>3 DEF RestoreFounds
  <1>6. findings = {} => genesis = Founding
    BY <1>3, <1>4, OnlyFoundingIsRestored
  <1>7. IsBackup(importer.origin) => findings = {}
    BY <1>3, BackupIsRead, BackupFounds, FoundingAssumption
  <1> HIDE DEF genesis, findings
  <1>8. CASE findings = {}
    <2> DEFINE new == Founded(Founding)
    <2>1. /\ ValidImage(new) /\ new.network_id = Founding.header.network_id
          /\ new.genesis_hash = HashOf(Founding) /\ new.head.height = GENESIS
          /\ new.blocks[GENESIS] = Founding
      BY FoundedIsValid, FoundingAssumption
    <2>2. target' = new /\ path' = "chain" /\ result' = result
          /\ importer' = [importer EXCEPT !.phase = "open"]
      BY <1>5, <1>6, <1>8 DEF Proceed
    <2> HIDE DEF new
    <2>3. TargetOK(path', target')
      BY <2>1, <2>2 DEF TargetOK, Anchored
    <2>4. /\ importer'.command = "create" /\ importer'.phase = "open"
          /\ importer'.document = importer.document /\ importer'.origin = importer.origin
          /\ importer' = [command |-> importer'.command, phase |-> importer'.phase,
                          document |-> importer'.document, origin |-> importer'.origin]
      BY <1>2, <1>4, <2>2 DEF ImporterOK
    <2>5. ImporterOK(importer', path', target')
      BY <1>3, <2>1, <2>2, <2>4 DEF ImporterOK
    <2>6. ResultOK(result', path', target') /\ AppliedOK(applied, path', target')
      BY <1>4, <2>2 DEF TransferInv, ResultOK, AppliedOK
    <2> QED
      BY <1>1, <2>3, <2>5, <2>6 DEF TransferInv, sourceVars, fileVars, Damaged
  <1>9. CASE findings # {}
    <2>1. Report("refused", findings) /\ path' = path /\ target' = target
      BY <1>5, <1>9 DEF targetVars
    <2>2. ImporterOK(importer', path, target) /\ ResultOK(result', path, target)
      BY <1>1, <1>2, <1>7, <1>9, <2>1, ReportHolds
    <2> QED
      BY <1>1, <2>1, <2>2 DEF TransferInv, sourceVars, fileVars, Damaged
  <1> QED
    BY <1>8, <1>9

(* A plain import opens the target, or finds no chain there.               *)
LEMMA OpenTargetHolds ==
    ASSUME TransferInv, OpenTarget
    PROVE  TransferInv'
  <1>1. importer.phase = "read" /\ importer.command # "create"
        /\ UNCHANGED <<sourceVars, fileVars, targetVars, applied>>
    BY DEF OpenTarget
  <1>2. ImporterOK(importer, path, target)
    BY DEF TransferInv
  <1>3. CASE path = "chain"
    <2>1. importer' = [importer EXCEPT !.phase = "open"] /\ result' = result
      BY <1>3 DEF OpenTarget, Proceed
    <2>2. /\ importer'.command = importer.command /\ importer'.phase = "open"
          /\ importer'.document = importer.document /\ importer'.origin = importer.origin
          /\ importer' = [command |-> importer'.command, phase |-> importer'.phase,
                          document |-> importer'.document, origin |-> importer'.origin]
      BY <1>2, <2>1 DEF ImporterOK
    <2>3. ImporterOK(importer', path, target)
      BY <1>1, <1>2, <1>3, <2>2 DEF ImporterOK
    <2> QED
      BY <1>1, <2>1, <2>3 DEF TransferInv, sourceVars, fileVars, targetVars, Damaged
  <1>4. CASE path # "chain"
    <2>1. Report("refused", {"NotAChain"})
      BY <1>4 DEF OpenTarget
    <2>2. ImporterOK(importer', path, target) /\ ResultOK(result', path, target)
      BY <1>1, <1>2, <2>1, ReportHolds
    <2> QED
      BY <1>1, <2>2 DEF TransferInv, sourceVars, fileVars, targetVars, Damaged
  <1> QED
    BY <1>3, <1>4

(* plan_import judges the document; a dry run ends with its answer.        *)
LEMMA PlanHolds ==
    ASSUME TransferInv, Plan
    PROVE  TransferInv'
  <1>1. importer.phase = "open" /\ UNCHANGED <<sourceVars, fileVars, targetVars, applied>>
    BY DEF Plan
  <1>2. ImporterOK(importer, path, target)
    BY DEF TransferInv
  <1>3. PICK document : /\ importer.document = Some(document)
                        /\ \A other : other \in importer.document <=> other = document
                        /\ WasRead(document, importer.origin)
    BY <1>1, <1>2, TheDocument
  <1> DEFINE why == plan_import(target, document)
  <1>4. IF why # {} THEN Report("refused", why)
        ELSE IF importer.command = "dry-run" THEN Report("passed", {})
        ELSE Proceed("planned")
    BY <1>3 DEF Plan
  <1>5. Anchored(target)
    BY <1>1, <1>2 DEF ImporterOK, TransferInv, TargetOK
  <1>6. importer.command = "create" /\ IsBackup(importer.origin) => why = {}
    <2> SUFFICES ASSUME importer.command = "create", IsBackup(importer.origin)
                 PROVE  why = {}
      OBVIOUS
    <2>1. JustFounded(target)
      BY <1>1, <1>2, <1>5 DEF ImporterOK, Anchored, JustFounded
    <2> QED
      BY <1>3, <2>1, BackupIsRead, BackupPlans
  <1>7. why = {} => SaysItself(target, document)
    BY PlanPassed DEF Passed, SaysItself
  <1> HIDE DEF why
  <1>8. CASE why # {} \/ importer.command = "dry-run"
    <2>1. ImporterOK(importer', path, target) /\ ResultOK(result', path, target)
      <3>1. CASE why # {}
        BY <1>1, <1>2, <1>4, <1>6, <3>1, ReportHolds
      <3>2. CASE why = {}
        BY <1>1, <1>2, <1>4, <1>8, <3>2, ReportHolds
      <3> QED
        BY <3>1, <3>2
    <2> QED
      BY <1>1, <2>1 DEF TransferInv, sourceVars, fileVars, targetVars, Damaged
  <1>9. CASE why = {} /\ importer.command # "dry-run"
    <2>1. importer' = [importer EXCEPT !.phase = "planned"] /\ result' = result
      BY <1>4, <1>9 DEF Proceed
    <2>2. /\ importer'.command = importer.command /\ importer'.phase = "planned"
          /\ importer'.document = importer.document /\ importer'.origin = importer.origin
          /\ importer' = [command |-> importer'.command, phase |-> importer'.phase,
                          document |-> importer'.document, origin |-> importer'.origin]
      BY <1>2, <2>1 DEF ImporterOK
    <2>3. \A other \in importer.document :
             SaysItself(target, other) /\ plan_import(target, other) = {}
      BY <1>3, <1>7, <1>9 DEF why
    <2>4. ImporterOK(importer', path, target)
      BY <1>1, <1>2, <2>2, <2>3 DEF ImporterOK
    <2> QED
      BY <1>1, <2>1, <2>4 DEF TransferInv, sourceVars, fileVars, targetVars, Damaged
  <1> QED
    BY <1>8, <1>9

(* append_blocks takes the blocks, or refuses them whole.                  *)
LEMMA ImportBlocksHolds ==
    ASSUME TransferInv, ImportBlocks
    PROVE  TransferInv'
  <1>1. importer.phase = "planned" /\ UNCHANGED <<sourceVars, fileVars, path>>
    BY DEF ImportBlocks
  <1>2. ImporterOK(importer, path, target)
    BY DEF TransferInv
  <1>3. PICK document : /\ importer.document = Some(document)
                        /\ \A other : other \in importer.document <=> other = document
                        /\ WasRead(document, importer.origin)
    BY <1>1, <1>2, TheDocument
  <1> DEFINE blocks == BlocksOf(document)
             outcome == append_blocks(target, blocks)
  <1>4. IF outcome.ok
        THEN /\ Report("ok", {})
             /\ target' = outcome.image
             /\ applied' = Some(document)
        ELSE Report("refused", {"Store"}) /\ UNCHANGED <<target, applied>>
    BY <1>3 DEF ImportBlocks
  <1>5. Anchored(target) /\ path = "chain" /\ SaysItself(target, document)
    BY <1>1, <1>2, <1>3 DEF ImporterOK, TransferInv, TargetOK
  <1>6. Ascending(blocks) /\ Heighted(blocks)
    BY <1>3, ReadDocumentAscends DEF Ascending
  <1>7. importer.command = "create" => outcome.ok
    <2>1. importer.command = "create" => plan_import(target, document) = {}
      BY <1>1, <1>2, <1>3 DEF ImporterOK
    <2> QED
      BY <1>5, <1>6, <2>1, PlansAreKept DEF Anchored, KeepsItsWord
  <1>8. /\ Anchored(outcome.image) /\ Grown(target, outcome.image)
        /\ ValidImage(outcome.image)
        /\ outcome.ok => AllHeld(outcome.image, blocks)
    BY <1>5, <1>6, TargetAfter
  <1> HIDE DEF outcome
  <1>9. CASE outcome.ok
    <2>1. target' = outcome.image /\ applied' = Some(document) /\ importer' = Idle
          /\ result' = [command |-> importer.command, outcome |-> "ok", why |-> {},
                        document |-> importer.document, origin |-> importer.origin]
      BY <1>4, <1>9 DEF Report
    <2>2. ImporterOK(importer', path, target')
      BY <2>1 DEF Idle, ImporterOK
    <2>3. \A i \in DOMAIN blocks : Sound(blocks[i])
      <3> SUFFICES ASSUME NEW i \in DOMAIN blocks PROVE Sound(blocks[i])
        OBVIOUS
      <3>1. blocks[i].header.height \in Nat /\ Holds(outcome.image, blocks[i])
        BY <1>6, <1>8, <1>9 DEF AllHeld, Heighted
      <3>2. outcome.image.head.height \in Nat /\ WalksClean(outcome.image)
        BY <1>8 DEF ValidImage
      <3>3. blocks[i].header.height \in 0..outcome.image.head.height
        BY <3>1, <3>2 DEF Holds
      <3> QED
        BY <3>1, <3>2, <3>3, CleanIsSound DEF Holds
    <2>4. is_importable(document.kind) /\ check_declared_hashes(document) = {}
      BY <1>5 DEF SaysItself, check_document_identity, When
    <2>5. \A i \in DOMAIN document.blocks : \E k \in DOMAIN importer.origin.blocks :
             document.blocks[i].block = importer.origin.blocks[k]
      BY <1>3, <2>3, <2>4, ReadBlocksWereSent
    <2>6. SaysItself(outcome.image, document)
      BY <1>5, <1>8, SaysItselfGrows
    <2> HIDE DEF blocks
    <2>7. /\ result'.outcome = "ok" /\ result'.document = importer.document
          /\ result'.origin = importer.origin
      BY <2>1
    <2>8. Sincere(result')
      BY <1>3, <2>5, <2>7 DEF Sincere
    <2>9. ResultOK(result', path, target')
      BY <1>3, <1>5, <1>8, <1>9, <2>1, <2>7, <2>8 DEF ResultOK, blocks
    <2>10. AppliedOK(applied', path, target')
      BY <1>5, <1>6, <1>8, <1>9, <2>1, <2>6 DEF AppliedOK, Some, blocks
    <2>11. TargetOK(path, target')
      BY <1>8, <2>1 DEF TargetOK
    <2> QED
      BY <1>1, <2>2, <2>9, <2>10, <2>11 DEF TransferInv, sourceVars, fileVars, Damaged
  <1>10. CASE ~outcome.ok
    <2>1. Report("refused", {"Store"}) /\ target' = target /\ applied' = applied
      BY <1>4, <1>10
    <2>2. ImporterOK(importer', path, target) /\ ResultOK(result', path, target)
      BY <1>1, <1>2, <1>7, <1>10, <2>1, ReportHolds
    <2> QED
      BY <1>1, <2>1, <2>2 DEF TransferInv, sourceVars, fileVars, Damaged
  <1> QED
    BY <1>9, <1>10

(* The importing process dies: nothing it has not committed remains.       *)
LEMMA ImporterDiesHolds ==
    ASSUME TransferInv, ImporterDies
    PROVE  TransferInv'
  <1>1. importer.phase # "idle" /\ Report("crashed", {})
        /\ UNCHANGED <<sourceVars, fileVars, targetVars, applied>>
    BY DEF ImporterDies
  <1>2. ImporterOK(importer', path, target) /\ ResultOK(result', path, target)
    BY <1>1, ReportHolds DEF TransferInv
  <1> QED
    BY <1>1, <1>2 DEF TransferInv, sourceVars, fileVars, targetVars, Damaged

(* However chains grow, files change hands and commands die.               *)
THEOREM TransferInvariant == TransferSpec => []TransferInv
  <1>1. TransferInv /\ [TransferNext]_transferVars => TransferInv'
    <2> SUFFICES ASSUME TransferInv, [TransferNext]_transferVars PROVE TransferInv'
      OBVIOUS
    <2>1. CASE UNCHANGED transferVars
      BY <2>1 DEF transferVars, TransferInv, Damaged
    <2>2. ASSUME NEW txs \in SourceTxs, SourceAppend(txs, Now) PROVE TransferInv'
      BY <2>2, SourceAppendHolds
    <2>3. ASSUME NEW txs \in LocalTxs, TargetAppend(txs, Now) PROVE TransferInv'
      BY <2>3, TargetAppendHolds
    <2>4. ASSUME NEW h \in 0..MaxHeight, Damage(h) PROVE TransferInv'
      BY <2>4, DamageHolds
    <2>5. ASSUME NEW request \in Requests, BeginExport(request) PROVE TransferInv'
      BY <2>5, BeginExportHolds
    <2>6. ASSUME NEW command \in {"import", "dry-run", "create"}, ReadDocument(command)
          PROVE  TransferInv'
      BY <2>6, ReadDocumentHolds
    <2> QED
      BY <2>1, <2>2, <2>3, <2>4, <2>5, <2>6, FinishExportHolds, ReformatHolds,
         AlterHolds, RestoreCreatesHolds, RestoreFoundsHolds, OpenTargetHolds,
         PlanHolds, ImportBlocksHolds, ImporterDiesHolds
      DEF TransferNext, ImporterStep
  <1> QED
    BY <1>1, TransferStarts, PTL DEF TransferSpec
-----------------------------------------------------------------------------
(* The promises of a transfer.                                             *)

(* Verifying a source in two ranges, damaged or not, says what verifying   *)
(* it whole does, but for an id that occurs in both (verify_chain).        *)
THEOREM PiecesOfASource == TransferSpec => []RangesMeanWhole
  <1>1. TransferInv => RangesMeanWhole
    <2> SUFFICES ASSUME TransferInv, NEW k \in 1..source.head.height
                 PROVE  verify_chain(source, GENESIS, None) = {} <=>
                          /\ verify_chain(source, GENESIS, Some(k - 1)) = {}
                          /\ verify_chain(source, k, None) = {}
                          /\ IdsIn(source, GENESIS, k - 1)
                               \cap IdsIn(source, k, source.head.height) = {}
      BY DEF RangesMeanWhole, IdsIn
    <2>1. source.head.height \in Nat
      BY DEF TransferInv, SourceOK
    <2> QED
      BY <2>1, PiecesMeanTheWhole
  <1> QED
    BY <1>1, TransferInvariant, PTL

(* A source that verifies clean under the head once recorded is the one    *)
(* that was committed, block by block: no block of the file was replaced   *)
(* or lost (verify_chain).                                                 *)
THEOREM NoDamageUnderTheHead == TransferSpec => []HeadIsTheAnchor
  <1>1. TransferInv => HeadIsTheAnchor
    <2> SUFFICES ASSUME TransferInv, verify_chain(source, GENESIS, None) = {},
                        source.head.hash = HashOf(honest[source.head.height])
                 PROVE  source.blocks = honest
      BY DEF HeadIsTheAnchor, Damaged
    <2> DEFINE H == source.head.height
    <2>1. /\ SourceOK(source, honest) /\ H \in Nat
          /\ DOMAIN source.blocks \subseteq 0..H
          /\ source.blocks = [h \in DOMAIN source.blocks |-> source.blocks[h]]
          /\ \A h \in DOMAIN source.blocks : IsBlock(source.blocks[h])
          /\ \A h \in DOMAIN honest : IsBlock(honest[h])
      BY DEF TransferInv, SourceOK
    <2>2. PICK committed : /\ ValidImage(committed) /\ committed.blocks = honest
                           /\ committed.head.height = H
      BY <2>1 DEF SourceOK
    <2>3. DOMAIN honest = 0..H /\ honest = [h \in DOMAIN honest |-> honest[h]]
          /\ H \in 0..H
      BY <2>1, <2>2 DEF ValidImage
    <2>4. committed.head.hash = HashOf(honest[H])
      BY <2>2, <2>3 DEF ValidImage, WalksClean
    <2>5. verify_chain(committed, GENESIS, None) = {}
      BY <2>1, <2>2, WholeWalk DEF ValidImage
    <2>6. IsSource(source) /\ IsSource(committed)
      BY <2>1, <2>2, BlockDecodes DEF IsSource
    <2>7. \A h \in 0..H : /\ h \in DOMAIN source.blocks
                          /\ SameBlock(source.blocks[h], honest[h])
      BY <2>2, <2>4, <2>5, <2>6, OneHeadOneChain
    <2> HIDE DEF H
    <2>8. \A h \in 0..H : source.blocks[h] = honest[h]
      BY <2>1, <2>3, <2>7 DEF SameBlock, IsBlock
    <2>9. DOMAIN source.blocks = 0..H
      BY <2>1, <2>7
    <2> QED
      BY <2>1, <2>3, <2>8, <2>9
  <1> QED
    BY <1>1, TransferInvariant, PTL

(* A document whose blocks are all in a chain it agrees with has nothing   *)
(* more to say to it.                                                      *)
LEMMA NothingToAppend ==
    ASSUME NEW image, image.head.height \in Nat, NEW document,
           Heighted(BlocksOf(document)), AllHeld(image, BlocksOf(document)),
           SaysItself(image, document)
    PROVE  plan_import(image, document) = {} /\ ToAppend(image, document) = << >>
  <1> DEFINE blocks == BlocksOf(document)
             I == {i \in DOMAIN blocks : blocks[i].header.height > image.head.height}
  <1>1. Len(blocks) \in Nat /\ DOMAIN blocks = 1..Len(blocks)
        /\ \A i \in DOMAIN blocks : blocks[i].header.height \in Nat
    BY DEF Heighted
  <1>2. \A i \in DOMAIN blocks :
           /\ blocks[i].header.height <= image.head.height
           /\ image.blocks[blocks[i].header.height] = blocks[i]
    BY DEF AllHeld, Holds
  <1>3. ToAppend(image, document) = Kept(blocks, I)
    BY DEF ToAppend
  <1>4. \A i \in 1..Len(blocks) : i \in I <=> i > Len(blocks)
    <2>1. \A i \in DOMAIN blocks : i \notin I
      BY <1>1, <1>2
    <2> HIDE DEF I
    <2> QED
      BY <1>1, <2>1
  <1> HIDE DEF I
  <1>5. Kept(blocks, I) = << >>
    <2> HIDE DEF blocks
    <2>1. Len(blocks) \in 0..Len(blocks)
      BY <1>1
    <2> QED
      BY <1>1, <1>4, <2>1, KeptIsEnd
  <1>6. Passed(image, document, << >>)
    BY <1>2 DEF Passed, SaysItself
  <1> QED
    BY <1>3, <1>5, <1>6, PlanPassed

(* What was applied once, a plan passes ever after, with nothing to append *)
(* (plan_import).                                                          *)
THEOREM AppliedForGood == TransferSpec => []ReimportIsNoOp
  <1>1. TransferInv => ReimportIsNoOp
    <2> SUFFICES ASSUME TransferInv, NEW document \in applied
                 PROVE  /\ plan_import(target, document) = {}
                        /\ ToAppend(target, document) = << >>
      BY DEF ReimportIsNoOp
    <2>1. /\ path = "chain" /\ Heighted(BlocksOf(document))
          /\ AllHeld(target, BlocksOf(document)) /\ SaysItself(target, document)
      BY DEF TransferInv, AppliedOK
    <2>2. target.head.height \in Nat
      BY <2>1 DEF TransferInv, TargetOK, Anchored, ValidImage
    <2> QED
      BY <2>1, <2>2, NothingToAppend
  <1> QED
    BY <1>1, TransferInvariant, PTL

(* What a plan passes on the chain as it stands, append_blocks accepts, at *)
(* the head and with the blocks the plan announced (plan_import, import).  *)
THEOREM PlansKeepTheirWord == TransferSpec => []DryRunHonest
  <1>1. TransferInv => DryRunHonest
    <2> SUFFICES ASSUME TransferInv, importer.phase \in {"open", "planned"},
                        NEW document \in importer.document,
                        plan_import(target, document) = {}
                 PROVE  KeepsItsWord(target, document)
      BY DEF DryRunHonest, KeepsItsWord
    <2>1. ImporterOK(importer, path, target)
      BY DEF TransferInv
    <2>2. WasRead(document, importer.origin)
      BY <2>1, TheDocument
    <2>3. ValidImage(target)
      BY <2>1 DEF ImporterOK, TransferInv, TargetOK, Anchored
    <2> QED
      BY <2>2, <2>3, ReadDocumentAscends, PlansAreKept
  <1> QED
    BY <1>1, TransferInvariant, PTL

(* An import that succeeds has applied only blocks the export had read,    *)
(* whichever single change was made to the file (check_declared_hashes,    *)
(* check_block).                                                           *)
THEOREM OnlyWhatWasSent == TransferSpec => []AlteredNeverApplied
  <1>1. TransferInv => AlteredNeverApplied
    BY DEF TransferInv, ResultOK, Sincere, AlteredNeverApplied
  <1> QED
    BY <1>1, TransferInvariant, PTL

(* A full export of a source that verified restores it: it is refused for  *)
(* an occupied path only, what it founds is the exported chain, and where  *)
(* the command died after founding, importing finishes it (restore).       *)
THEOREM BackupsRestore == TransferSpec => []BackupRestores
  <1>1. TransferInv => BackupRestores
    <2> SUFFICES ASSUME TransferInv, IsBackup(result.origin), result.command = "create"
                 PROVE  /\ result.outcome = "refused" => result.why = {"AlreadyExists"}
                        /\ result.outcome = "ok" =>
                              \A h \in 0..(Len(result.origin.blocks) - 1) :
                                  target.blocks[h] = result.origin.blocks[h + 1]
                        /\ (/\ result.outcome = "crashed" /\ path = "chain"
                            /\ target.head.height = GENESIS) =>
                              \A document \in result.document :
                                  plan_import(target, document) = {}
      BY DEF BackupRestores
    <2>1. ResultOK(result, path, target)
      BY DEF TransferInv
    <2>2. result.outcome = "refused" => result.why = {"AlreadyExists"}
      BY <2>1 DEF ResultOK
    <2>3. ASSUME result.outcome = "ok", NEW h \in 0..(Len(result.origin.blocks) - 1)
          PROVE  target.blocks[h] = result.origin.blocks[h + 1]
      <3> DEFINE blocks == result.origin.blocks
      <3>1. PICK document : /\ result.document = Some(document)
                            /\ AllHeld(target, BlocksOf(document))
        BY <2>1, <2>3 DEF ResultOK
      <3>2. WasRead(document, result.origin)
        BY <2>1, <3>1 DEF ResultOK, Some
      <3>3. PICK d : /\ IsExport(d) /\ d.kind = "full" /\ Restores(document, d)
                     /\ blocks = BlocksOf(d)
        BY <3>2, BackupIsRead
      <3>4. BlocksOf(document) = blocks
        BY <3>3 DEF Restores
      <3> DEFINE n == d.range_end - d.range_start + 1
      <3>5. /\ n \in Nat /\ DOMAIN d.blocks = 1..n /\ d.range_start = 0
            /\ \A i \in 1..n : d.blocks[i].block.header.height = d.range_start + i - 1
        BY <3>3, ExportHasBlocks DEF IsExport, GENESIS
      <3>6. blocks = [i \in 1..n |-> d.blocks[i].block]
        BY <3>3, <3>5 DEF BlocksOf
      <3> HIDE DEF n
      <3>7. Len(blocks) = n /\ DOMAIN blocks = 1..n
            /\ \A i \in 1..n : blocks[i] = d.blocks[i].block
        BY <3>5, <3>6
      <3>8. h + 1 \in 1..n /\ h \in Nat
        BY <3>5, <3>7
      <3>9. blocks[h + 1].header.height = h
        BY <3>5, <3>7, <3>8
      <3>10. Holds(target, blocks[h + 1])
        BY <3>1, <3>4, <3>7, <3>8 DEF AllHeld
      <3> QED
        BY <3>9, <3>10 DEF Holds
    <2>4. ASSUME path = "chain", target.head.height = GENESIS,
                 NEW document \in result.document
          PROVE  plan_import(target, document) = {}
      <3>1. JustFounded(target)
        BY <2>4 DEF TransferInv, TargetOK, Anchored, JustFounded
      <3>2. WasRead(document, result.origin)
        BY <2>1 DEF ResultOK
      <3> QED
        BY <3>1, <3>2, BackupIsRead, BackupPlans
    <2> QED
      BY <2>2, <2>3, <2>4
  <1> QED
    BY <1>1, TransferInvariant, PTL

-----------------------------------------------------------------------------
(* The transaction tree.                                                   *)

(* Doubling, as far as m rounds of split_point's loop.                     *)
DoubleOf(last, n) == IF last * 2 < n THEN last * 2 ELSE last

Doubles(f, n, m) ==
    f = [i \in 0..m |-> IF i = 0 THEN 1 ELSE DoubleOf(f[i - 1], n)]

(* However many rounds, the loop gets there.                               *)
LEMMA DoublesExist ==
    ASSUME NEW n \in Nat, NEW limit \in Nat
    PROVE  \E f : Doubles(f, n, limit)
  <1> DEFINE X == {m \in Nat : ~ \E f : Doubles(f, n, m)}
  <1>1. SUFFICES ASSUME X # {} PROVE FALSE
    OBVIOUS
  <1>2. PICK m \in X : \A k \in X : m <= k
    <2>1. X \subseteq Nat
      OBVIOUS
    <2> HIDE DEF X
    <2> QED
      BY <1>1, <2>1, LeastHeight
  <1>3. CASE m = 0
    <2> DEFINE f == [i \in 0..0 |-> 1]
    <2>1. \A i \in 0..0 : i = 0
      OBVIOUS
    <2>2. f = [i \in 0..0 |-> IF i = 0 THEN 1 ELSE DoubleOf(f[i - 1], n)]
      BY <2>1
    <2> QED
      BY <1>2, <1>3, <2>2 DEF Doubles
  <1>4. CASE m # 0
    <2>1. m \in Nat /\ m - 1 \in Nat /\ ~ (m <= m - 1)
      BY <1>2, <1>4
    <2>2. m - 1 \notin X
      BY <1>2, <2>1
    <2>3. PICK g : Doubles(g, n, m - 1)
      BY <2>1, <2>2
    <2> DEFINE f == [i \in 0..m |-> IF i = m THEN DoubleOf(g[m - 1], n) ELSE g[i]]
               h == [i \in 0..m |-> IF i = 0 THEN 1 ELSE DoubleOf(f[i - 1], n)]
    <2>4. /\ \A i \in 0..m : i = m \/ i \in 0..(m - 1)
          /\ \A i \in 0..m : i # 0 => i - 1 \in 0..(m - 1) /\ i - 1 \in 0..m /\ i - 1 # m
      BY <2>1
    <2>5. \A i \in 0..(m - 1) : g[i] = IF i = 0 THEN 1 ELSE DoubleOf(g[i - 1], n)
      BY <2>3 DEF Doubles
    <2>6. \A i \in 0..m : i # 0 => f[i - 1] = g[i - 1]
      BY <2>4
    <2>7. ASSUME NEW i \in 0..m PROVE f[i] = h[i]
      BY <1>4, <2>4, <2>5, <2>6
    <2>8. f = h
      BY <2>7
    <2> QED
      BY <1>2, <2>8 DEF Doubles
  <1> QED
    BY <1>3, <1>4

(* The split of two leaves or more leaves some on either side              *)
(* (split_point).                                                          *)
LEMMA SplitSplits ==
    ASSUME NEW n \in Nat, n > 1
    PROVE  /\ split_point(n) \in Nat
           /\ split_point(n) >= 1 /\ split_point(n) < n
           /\ n - split_point(n) \in Nat
           /\ n - split_point(n) >= 1 /\ n - split_point(n) < n
  <1> DEFINE f == CHOOSE g : Doubles(g, n, n)
             X == {i \in 0..n : ~ (f[i] \in Nat /\ f[i] >= 1 /\ f[i] < n)}
  <1>1. Doubles(f, n, n)
    BY DoublesExist
  <1>2. split_point(n) = f[n]
    BY DEF split_point, Doubles, DoubleOf
  <1> HIDE DEF f
  <1>3. X = {}
    <2> SUFFICES ASSUME X # {} PROVE FALSE
      OBVIOUS
    <2>1. PICK i \in X : \A k \in X : i <= k
      <3>1. X \subseteq Nat
        OBVIOUS
      <3> HIDE DEF X
      <3> QED
        BY <3>1, LeastHeight
    <2>2. f[i] = IF i = 0 THEN 1 ELSE DoubleOf(f[i - 1], n)
      BY <1>1, <2>1 DEF Doubles
    <2>3. i # 0
      BY <2>1, <2>2
    <2>4. i - 1 \in 0..n /\ ~ (i <= i - 1)
      BY <2>1, <2>3
    <2>5. f[i - 1] \in Nat /\ f[i - 1] >= 1 /\ f[i - 1] < n
      BY <2>1, <2>4
    <2> QED
      BY <2>1, <2>2, <2>3, <2>5 DEF DoubleOf
  <1>4. n \in 0..n
    OBVIOUS
  <1>5. f[n] \in Nat /\ f[n] >= 1 /\ f[n] < n
    BY <1>3, <1>4
  <1> QED
    BY <1>2, <1>5

-----------------------------------------------------------------------------
(* The roots of lists, for n leaves, out of f for fewer; and as far as m   *)
(* leaves.                                                                 *)
RootsFrom(f, n) ==
    [list \in ListsOf(n) |->
        IF n = 0 THEN empty_root
        ELSE IF n = 1 THEN leaf_hash(list[1])
        ELSE node_hash(f[split_point(n)][LeftOf(n, list)],
                       f[n - split_point(n)][RightOf(n, list)])]

Roots(f, m) == f = [n \in 0..m |-> RootsFrom(f, n)]

(* They are made of those of the two halves alone.                         *)
LEMMA RootsAlike ==
    ASSUME NEW f, NEW g, NEW n \in Nat,
           n > 1 => /\ f[split_point(n)] = g[split_point(n)]
                    /\ f[n - split_point(n)] = g[n - split_point(n)]
    PROVE  RootsFrom(f, n) = RootsFrom(g, n)
  BY DEF RootsFrom

(* The recursion gets as far as any count.                                 *)
LEMMA RootsExist ==
    ASSUME NEW limit \in Nat
    PROVE  \E f : Roots(f, limit)
  <1> DEFINE X == {m \in Nat : ~ \E f : Roots(f, m)}
  <1>1. SUFFICES ASSUME X # {} PROVE FALSE
    OBVIOUS
  <1>2. PICK m \in X : \A k \in X : m <= k
    <2>1. X \subseteq Nat
      OBVIOUS
    <2> HIDE DEF X
    <2> QED
      BY <1>1, <2>1, LeastHeight
  <1>3. \E g : Roots(g, m - 1)
    <2>1. CASE m = 0
      <3> DEFINE g == [n \in 0..(0 - 1) |-> 0]
      <3>1. \A n \in 0..(0 - 1) : FALSE
        OBVIOUS
      <3>2. g = [n \in 0..(0 - 1) |-> RootsFrom(g, n)]
        BY <3>1
      <3> QED
        BY <2>1, <3>2 DEF Roots
    <2>2. CASE m # 0
      <3>1. m - 1 \in Nat /\ ~ (m <= m - 1)
        BY <1>2, <2>2
      <3> QED
        BY <1>2, <3>1
    <2> QED
      BY <2>1, <2>2
  <1>4. PICK g : Roots(g, m - 1)
    BY <1>3
  <1> DEFINE f == [n \in 0..m |-> IF n = m THEN RootsFrom(g, m) ELSE g[n]]
  <1>5. m \in Nat
    BY <1>2
  <1>6. ASSUME NEW n \in 0..m PROVE f[n] = RootsFrom(f, n)
    <2>1. n \in Nat /\ (n = m \/ n \in 0..(m - 1))
      BY <1>5, <1>6
    <2>2. \A k \in 0..(m - 1) : f[k] = g[k]
      BY <1>5
    <2>3. f[n] = RootsFrom(g, n)
      BY <1>4, <1>6, <2>1 DEF Roots
    <2>4. n > 1 => split_point(n) \in 0..(m - 1) /\ n - split_point(n) \in 0..(m - 1)
      BY <1>5, <1>6, <2>1, SplitSplits
    <2> HIDE DEF f
    <2> QED
      BY <2>1, <2>2, <2>3, <2>4, RootsAlike
  <1>7. Roots(f, m)
    BY <1>6 DEF Roots
  <1> QED
    BY <1>2, <1>7

(* However far it went, it found the same.                                 *)
LEMMA RootsAgree ==
    ASSUME NEW i \in Nat, NEW j \in Nat, NEW f, Roots(f, i), NEW g, Roots(g, j),
           NEW l \in Nat, l <= i, l <= j
    PROVE  f[l] = g[l]
  <1> DEFINE X == {n \in Nat : n <= i /\ n <= j /\ f[n] # g[n]}
  <1>1. SUFFICES ASSUME X # {} PROVE FALSE
    OBVIOUS
  <1>2. PICK n \in X : \A k \in X : n <= k
    <2>1. X \subseteq Nat
      OBVIOUS
    <2> HIDE DEF X
    <2> QED
      BY <1>1, <2>1, LeastHeight
  <1>3. f[n] = RootsFrom(f, n) /\ g[n] = RootsFrom(g, n)
    <2>1. n \in 0..i /\ n \in 0..j
      BY <1>2
    <2>2. f = [k \in 0..i |-> RootsFrom(f, k)] /\ g = [k \in 0..j |-> RootsFrom(g, k)]
      BY DEF Roots
    <2>3. f[n] = RootsFrom(f, n)
      BY <2>1, <2>2
    <2>4. g[n] = RootsFrom(g, n)
      BY <2>1, <2>2
    <2> QED
      BY <2>3, <2>4
  <1>4. \A k \in Nat : k < n => f[k] = g[k]
    BY <1>2
  <1>5. n > 1 => /\ f[split_point(n)] = g[split_point(n)]
                 /\ f[n - split_point(n)] = g[n - split_point(n)]
    BY <1>2, <1>4, SplitSplits
  <1> QED
    BY <1>2, <1>3, <1>5, RootsAlike

(* So root_of is what root computes.                                       *)
LEMMA RootsAre == \A n \in Nat : root_of[n] = RootsFrom(root_of, n)
  <1> DEFINE upto(m) == CHOOSE f : Roots(f, m)
             F == [n \in Nat |-> upto(n)[n]]
  <1>1. \A m \in Nat : Roots(upto(m), m)
    BY RootsExist
  <1> HIDE DEF upto
  <1>2. ASSUME NEW n \in Nat PROVE F[n] = RootsFrom(F, n)
    <2>1. F[n] = RootsFrom(upto(n), n)
      BY <1>1 DEF Roots
    <2>2. \A k \in Nat : k < n => F[k] = upto(n)[k]
      <3> SUFFICES ASSUME NEW k \in Nat, k < n PROVE F[k] = upto(n)[k]
        OBVIOUS
      <3>1. F[k] = upto(k)[k]
        OBVIOUS
      <3>2. Roots(upto(k), k) /\ Roots(upto(n), n)
        BY <1>1
      <3> QED
        BY <3>1, <3>2, RootsAgree
    <2>3. n > 1 => /\ F[split_point(n)] = upto(n)[split_point(n)]
                   /\ F[n - split_point(n)] = upto(n)[n - split_point(n)]
      BY <2>2, SplitSplits
    <2> HIDE DEF F
    <2> QED
      BY <2>1, <2>3, RootsAlike
  <1>3. F = [n \in Nat |-> RootsFrom(F, n)]
    BY <1>2
  <1> HIDE DEF F
  <1>4. \E f : f = [n \in Nat |-> RootsFrom(f, n)]
    BY <1>3
  <1> DEFINE C == CHOOSE f : f = [n \in Nat |-> RootsFrom(f, n)]
  <1>5. C = [n \in Nat |-> RootsFrom(C, n)]
    BY <1>4
  <1>6. root_of = C
    BY DEF root_of, RootsFrom
  <1> HIDE DEF C
  <1> QED
    BY <1>5, <1>6

-----------------------------------------------------------------------------
(* The audit paths of lists, for n leaves, out of f for fewer; and as far  *)
(* as m leaves.                                                            *)
PathsFrom(f, n) ==
    [list \in ListsOf(n) |->
        [index \in 0..(n - 1) |->
            IF n <= 1 THEN << >>
            ELSE IF index < split_point(n)
            THEN Append(f[split_point(n)][LeftOf(n, list)][index],
                        ProofStep("Right", root(RightOf(n, list))))
            ELSE Append(f[n - split_point(n)][RightOf(n, list)][index - split_point(n)],
                        ProofStep("Left", root(LeftOf(n, list))))]]

Paths(f, m) == f = [n \in 0..m |-> PathsFrom(f, n)]

(* They are made of those of the two halves alone.                         *)
LEMMA PathsAlike ==
    ASSUME NEW f, NEW g, NEW n \in Nat,
           n > 1 => /\ f[split_point(n)] = g[split_point(n)]
                    /\ f[n - split_point(n)] = g[n - split_point(n)]
    PROVE  PathsFrom(f, n) = PathsFrom(g, n)
  BY DEF PathsFrom

(* The recursion gets as far as any count.                                 *)
LEMMA PathsExist ==
    ASSUME NEW limit \in Nat
    PROVE  \E f : Paths(f, limit)
  <1> DEFINE X == {m \in Nat : ~ \E f : Paths(f, m)}
  <1>1. SUFFICES ASSUME X # {} PROVE FALSE
    OBVIOUS
  <1>2. PICK m \in X : \A k \in X : m <= k
    <2>1. X \subseteq Nat
      OBVIOUS
    <2> HIDE DEF X
    <2> QED
      BY <1>1, <2>1, LeastHeight
  <1>3. \E g : Paths(g, m - 1)
    <2>1. CASE m = 0
      <3> DEFINE g == [n \in 0..(0 - 1) |-> 0]
      <3>1. \A n \in 0..(0 - 1) : FALSE
        OBVIOUS
      <3>2. g = [n \in 0..(0 - 1) |-> PathsFrom(g, n)]
        BY <3>1
      <3> QED
        BY <2>1, <3>2 DEF Paths
    <2>2. CASE m # 0
      <3>1. m - 1 \in Nat /\ ~ (m <= m - 1)
        BY <1>2, <2>2
      <3> QED
        BY <1>2, <3>1
    <2> QED
      BY <2>1, <2>2
  <1>4. PICK g : Paths(g, m - 1)
    BY <1>3
  <1> DEFINE f == [n \in 0..m |-> IF n = m THEN PathsFrom(g, m) ELSE g[n]]
  <1>5. m \in Nat
    BY <1>2
  <1>6. ASSUME NEW n \in 0..m PROVE f[n] = PathsFrom(f, n)
    <2>1. n \in Nat /\ (n = m \/ n \in 0..(m - 1))
      BY <1>5, <1>6
    <2>2. \A k \in 0..(m - 1) : f[k] = g[k]
      BY <1>5
    <2>3. f[n] = PathsFrom(g, n)
      BY <1>4, <1>6, <2>1 DEF Paths
    <2>4. n > 1 => split_point(n) \in 0..(m - 1) /\ n - split_point(n) \in 0..(m - 1)
      BY <1>5, <1>6, <2>1, SplitSplits
    <2> HIDE DEF f
    <2> QED
      BY <2>1, <2>2, <2>3, <2>4, PathsAlike
  <1>7. Paths(f, m)
    BY <1>6 DEF Paths
  <1> QED
    BY <1>2, <1>7

(* However far it went, it found the same.                                 *)
LEMMA PathsAgree ==
    ASSUME NEW i \in Nat, NEW j \in Nat, NEW f, Paths(f, i), NEW g, Paths(g, j),
           NEW l \in Nat, l <= i, l <= j
    PROVE  f[l] = g[l]
  <1> DEFINE X == {n \in Nat : n <= i /\ n <= j /\ f[n] # g[n]}
  <1>1. SUFFICES ASSUME X # {} PROVE FALSE
    OBVIOUS
  <1>2. PICK n \in X : \A k \in X : n <= k
    <2>1. X \subseteq Nat
      OBVIOUS
    <2> HIDE DEF X
    <2> QED
      BY <1>1, <2>1, LeastHeight
  <1>3. f[n] = PathsFrom(f, n) /\ g[n] = PathsFrom(g, n)
    <2>1. n \in 0..i /\ n \in 0..j
      BY <1>2
    <2>2. f = [k \in 0..i |-> PathsFrom(f, k)] /\ g = [k \in 0..j |-> PathsFrom(g, k)]
      BY DEF Paths
    <2>3. f[n] = PathsFrom(f, n)
      BY <2>1, <2>2
    <2>4. g[n] = PathsFrom(g, n)
      BY <2>1, <2>2
    <2> QED
      BY <2>3, <2>4
  <1>4. \A k \in Nat : k < n => f[k] = g[k]
    BY <1>2
  <1>5. n > 1 => /\ f[split_point(n)] = g[split_point(n)]
                 /\ f[n - split_point(n)] = g[n - split_point(n)]
    BY <1>2, <1>4, SplitSplits
  <1> QED
    BY <1>2, <1>3, <1>5, PathsAlike

(* So path_of is what audit_path computes.                                 *)
LEMMA PathsAre == \A n \in Nat : path_of[n] = PathsFrom(path_of, n)
  <1> DEFINE upto(m) == CHOOSE f : Paths(f, m)
             F == [n \in Nat |-> upto(n)[n]]
  <1>1. \A m \in Nat : Paths(upto(m), m)
    BY PathsExist
  <1> HIDE DEF upto
  <1>2. ASSUME NEW n \in Nat PROVE F[n] = PathsFrom(F, n)
    <2>1. F[n] = PathsFrom(upto(n), n)
      BY <1>1 DEF Paths
    <2>2. \A k \in Nat : k < n => F[k] = upto(n)[k]
      <3> SUFFICES ASSUME NEW k \in Nat, k < n PROVE F[k] = upto(n)[k]
        OBVIOUS
      <3>1. F[k] = upto(k)[k]
        OBVIOUS
      <3>2. Paths(upto(k), k) /\ Paths(upto(n), n)
        BY <1>1
      <3> QED
        BY <3>1, <3>2, PathsAgree
    <2>3. n > 1 => /\ F[split_point(n)] = upto(n)[split_point(n)]
                   /\ F[n - split_point(n)] = upto(n)[n - split_point(n)]
      BY <2>2, SplitSplits
    <2> HIDE DEF F
    <2> QED
      BY <2>1, <2>3, PathsAlike
  <1>3. F = [n \in Nat |-> PathsFrom(F, n)]
    BY <1>2
  <1> HIDE DEF F
  <1>4. \E f : f = [n \in Nat |-> PathsFrom(f, n)]
    BY <1>3
  <1> DEFINE C == CHOOSE f : f = [n \in Nat |-> PathsFrom(f, n)]
  <1>5. C = [n \in Nat |-> PathsFrom(C, n)]
    BY <1>4
  <1>6. path_of = C
    BY DEF path_of, PathsFrom
  <1> HIDE DEF C
  <1> QED
    BY <1>5, <1>6

-----------------------------------------------------------------------------
(* The sides of paths, for n leaves, out of f for fewer; and as far as m   *)
(* leaves.                                                                 *)
SidesFrom(f, n) ==
    [index \in Nat |->
        IF n <= 1 THEN << >>
        ELSE IF index < split_point(n)
        THEN Append(f[split_point(n)][index], "Right")
        ELSE Append(f[n - split_point(n)][index - split_point(n)], "Left")]

SidesAt(f, m) == f = [n \in 0..m |-> SidesFrom(f, n)]

(* They are made of those of the two halves alone.                         *)
LEMMA SidesAtAlike ==
    ASSUME NEW f, NEW g, NEW n \in Nat,
           n > 1 => /\ f[split_point(n)] = g[split_point(n)]
                    /\ f[n - split_point(n)] = g[n - split_point(n)]
    PROVE  SidesFrom(f, n) = SidesFrom(g, n)
  BY DEF SidesFrom

(* The recursion gets as far as any count.                                 *)
LEMMA SidesAtExist ==
    ASSUME NEW limit \in Nat
    PROVE  \E f : SidesAt(f, limit)
  <1> DEFINE X == {m \in Nat : ~ \E f : SidesAt(f, m)}
  <1>1. SUFFICES ASSUME X # {} PROVE FALSE
    OBVIOUS
  <1>2. PICK m \in X : \A k \in X : m <= k
    <2>1. X \subseteq Nat
      OBVIOUS
    <2> HIDE DEF X
    <2> QED
      BY <1>1, <2>1, LeastHeight
  <1>3. \E g : SidesAt(g, m - 1)
    <2>1. CASE m = 0
      <3> DEFINE g == [n \in 0..(0 - 1) |-> 0]
      <3>1. \A n \in 0..(0 - 1) : FALSE
        OBVIOUS
      <3>2. g = [n \in 0..(0 - 1) |-> SidesFrom(g, n)]
        BY <3>1
      <3> QED
        BY <2>1, <3>2 DEF SidesAt
    <2>2. CASE m # 0
      <3>1. m - 1 \in Nat /\ ~ (m <= m - 1)
        BY <1>2, <2>2
      <3> QED
        BY <1>2, <3>1
    <2> QED
      BY <2>1, <2>2
  <1>4. PICK g : SidesAt(g, m - 1)
    BY <1>3
  <1> DEFINE f == [n \in 0..m |-> IF n = m THEN SidesFrom(g, m) ELSE g[n]]
  <1>5. m \in Nat
    BY <1>2
  <1>6. ASSUME NEW n \in 0..m PROVE f[n] = SidesFrom(f, n)
    <2>1. n \in Nat /\ (n = m \/ n \in 0..(m - 1))
      BY <1>5, <1>6
    <2>2. \A k \in 0..(m - 1) : f[k] = g[k]
      BY <1>5
    <2>3. f[n] = SidesFrom(g, n)
      BY <1>4, <1>6, <2>1 DEF SidesAt
    <2>4. n > 1 => split_point(n) \in 0..(m - 1) /\ n - split_point(n) \in 0..(m - 1)
      BY <1>5, <1>6, <2>1, SplitSplits
    <2> HIDE DEF f
    <2> QED
      BY <2>1, <2>2, <2>3, <2>4, SidesAtAlike
  <1>7. SidesAt(f, m)
    BY <1>6 DEF SidesAt
  <1> QED
    BY <1>2, <1>7

(* However far it went, it found the same.                                 *)
LEMMA SidesAtAgree ==
    ASSUME NEW i \in Nat, NEW j \in Nat, NEW f, SidesAt(f, i), NEW g, SidesAt(g, j),
           NEW l \in Nat, l <= i, l <= j
    PROVE  f[l] = g[l]
  <1> DEFINE X == {n \in Nat : n <= i /\ n <= j /\ f[n] # g[n]}
  <1>1. SUFFICES ASSUME X # {} PROVE FALSE
    OBVIOUS
  <1>2. PICK n \in X : \A k \in X : n <= k
    <2>1. X \subseteq Nat
      OBVIOUS
    <2> HIDE DEF X
    <2> QED
      BY <1>1, <2>1, LeastHeight
  <1>3. f[n] = SidesFrom(f, n) /\ g[n] = SidesFrom(g, n)
    <2>1. n \in 0..i /\ n \in 0..j
      BY <1>2
    <2>2. f = [k \in 0..i |-> SidesFrom(f, k)] /\ g = [k \in 0..j |-> SidesFrom(g, k)]
      BY DEF SidesAt
    <2>3. f[n] = SidesFrom(f, n)
      BY <2>1, <2>2
    <2>4. g[n] = SidesFrom(g, n)
      BY <2>1, <2>2
    <2> QED
      BY <2>3, <2>4
  <1>4. \A k \in Nat : k < n => f[k] = g[k]
    BY <1>2
  <1>5. n > 1 => /\ f[split_point(n)] = g[split_point(n)]
                 /\ f[n - split_point(n)] = g[n - split_point(n)]
    BY <1>2, <1>4, SplitSplits
  <1> QED
    BY <1>2, <1>3, <1>5, SidesAtAlike

(* So sides_of is what expected_sides computes.                            *)
LEMMA SidesAtAre == \A n \in Nat : sides_of[n] = SidesFrom(sides_of, n)
  <1> DEFINE upto(m) == CHOOSE f : SidesAt(f, m)
             F == [n \in Nat |-> upto(n)[n]]
  <1>1. \A m \in Nat : SidesAt(upto(m), m)
    BY SidesAtExist
  <1> HIDE DEF upto
  <1>2. ASSUME NEW n \in Nat PROVE F[n] = SidesFrom(F, n)
    <2>1. F[n] = SidesFrom(upto(n), n)
      BY <1>1 DEF SidesAt
    <2>2. \A k \in Nat : k < n => F[k] = upto(n)[k]
      <3> SUFFICES ASSUME NEW k \in Nat, k < n PROVE F[k] = upto(n)[k]
        OBVIOUS
      <3>1. F[k] = upto(k)[k]
        OBVIOUS
      <3>2. SidesAt(upto(k), k) /\ SidesAt(upto(n), n)
        BY <1>1
      <3> QED
        BY <3>1, <3>2, SidesAtAgree
    <2>3. n > 1 => /\ F[split_point(n)] = upto(n)[split_point(n)]
                   /\ F[n - split_point(n)] = upto(n)[n - split_point(n)]
      BY <2>2, SplitSplits
    <2> HIDE DEF F
    <2> QED
      BY <2>1, <2>3, SidesAtAlike
  <1>3. F = [n \in Nat |-> SidesFrom(F, n)]
    BY <1>2
  <1> HIDE DEF F
  <1>4. \E f : f = [n \in Nat |-> SidesFrom(f, n)]
    BY <1>3
  <1> DEFINE C == CHOOSE f : f = [n \in Nat |-> SidesFrom(f, n)]
  <1>5. C = [n \in Nat |-> SidesFrom(C, n)]
    BY <1>4
  <1>6. sides_of = C
    BY DEF sides_of, SidesFrom
  <1> HIDE DEF C
  <1> QED
    BY <1>5, <1>6

-----------------------------------------------------------------------------
(* A half of a list is a list.                                             *)
LEMMA HalvesAreLists ==
    ASSUME NEW n \in Nat, n > 1, NEW list \in ListsOf(n)
    PROVE  /\ LeftOf(n, list) \in ListsOf(split_point(n))
           /\ RightOf(n, list) \in ListsOf(n - split_point(n))
           /\ \A i \in 1..split_point(n) : LeftOf(n, list)[i] = list[i]
           /\ \A i \in 1..(n - split_point(n)) :
                 RightOf(n, list)[i] = list[split_point(n) + i]
  <1> DEFINE k == split_point(n)
  <1>1. k \in Nat /\ k >= 1 /\ k < n /\ n - k \in Nat
    BY SplitSplits
  <1>2. LeftOf(n, list) = [i \in 1..k |-> list[i]]
        /\ RightOf(n, list) = [i \in 1..(n - k) |-> list[k + i]]
    BY DEF LeftOf, RightOf
  <1> HIDE DEF k
  <1>3. \A i \in 1..k : i \in 1..n
    BY <1>1
  <1>4. \A i \in 1..(n - k) : k + i \in 1..n
    BY <1>1
  <1>5. \A i \in 1..n : list[i] \in MerkleId
    BY DEF ListsOf
  <1>6. [i \in 1..k |-> list[i]] \in [1..k -> MerkleId]
    BY <1>3, <1>5
  <1>7. [i \in 1..(n - k) |-> list[k + i]] \in [1..(n - k) -> MerkleId]
    BY <1>4, <1>5
  <1>8. LeftOf(n, list) \in ListsOf(k) /\ RightOf(n, list) \in ListsOf(n - k)
    BY <1>2, <1>6, <1>7 DEF ListsOf
  <1> QED
    BY <1>2, <1>8 DEF k

(* A list of n has n elements.                                             *)
LEMMA LengthOfList ==
    ASSUME NEW n \in Nat, NEW list \in ListsOf(n)
    PROVE  Len(list) = n /\ DOMAIN list = 1..n /\ list = [i \in 1..n |-> list[i]]
  BY DEF ListsOf

(* What root computes: of nothing, of one leaf, of two halves.             *)
LEMMA RootOf ==
    ASSUME NEW n \in Nat, NEW list \in ListsOf(n)
    PROVE  /\ n = 0 => root(list) = empty_root
           /\ n = 1 => root(list) = leaf_hash(list[1])
           /\ n > 1 => root(list) = node_hash(root(LeftOf(n, list)), root(RightOf(n, list)))
  <1>1. root(list) = root_of[n][list] /\ root_of[n] = RootsFrom(root_of, n)
    BY LengthOfList, RootsAre DEF root
  <1>2. root(list) = IF n = 0 THEN empty_root
                     ELSE IF n = 1 THEN leaf_hash(list[1])
                     ELSE node_hash(root_of[split_point(n)][LeftOf(n, list)],
                                    root_of[n - split_point(n)][RightOf(n, list)])
    BY <1>1 DEF RootsFrom
  <1>3. ASSUME n > 1
        PROVE  /\ root(LeftOf(n, list)) = root_of[split_point(n)][LeftOf(n, list)]
               /\ root(RightOf(n, list)) = root_of[n - split_point(n)][RightOf(n, list)]
    BY <1>3, SplitSplits, HalvesAreLists, LengthOfList DEF root
  <1> QED
    BY <1>2, <1>3

(* What audit_path yields: nothing, or one step more than in the half the  *)
(* leaf is in.                                                             *)
LEMMA PathOf ==
    ASSUME NEW n \in Nat, NEW list \in ListsOf(n), NEW index \in 0..(n - 1)
    PROVE  /\ n = 1 => audit_path(list, index) = << >>
           /\ n > 1 /\ index < split_point(n) =>
                 audit_path(list, index)
                   = Append(audit_path(LeftOf(n, list), index),
                            ProofStep("Right", root(RightOf(n, list))))
           /\ n > 1 /\ index >= split_point(n) =>
                 audit_path(list, index)
                   = Append(audit_path(RightOf(n, list), index - split_point(n)),
                            ProofStep("Left", root(LeftOf(n, list))))
  <1>1. audit_path(list, index) = path_of[n][list][index] /\ path_of[n] = PathsFrom(path_of, n)
    BY LengthOfList, PathsAre DEF audit_path
  <1>2. path_of[n][list][index]
          = IF n <= 1 THEN << >>
            ELSE IF index < split_point(n)
            THEN Append(path_of[split_point(n)][LeftOf(n, list)][index],
                        ProofStep("Right", root(RightOf(n, list))))
            ELSE Append(path_of[n - split_point(n)][RightOf(n, list)][index - split_point(n)],
                        ProofStep("Left", root(LeftOf(n, list))))
    BY <1>1 DEF PathsFrom
  <1>3. ASSUME n > 1
        PROVE  /\ \A i : audit_path(LeftOf(n, list), i)
                           = path_of[split_point(n)][LeftOf(n, list)][i]
               /\ \A i : audit_path(RightOf(n, list), i)
                           = path_of[n - split_point(n)][RightOf(n, list)][i]
    BY <1>3, SplitSplits, HalvesAreLists, LengthOfList DEF audit_path
  <1> QED
    <2>1. CASE n = 1
      BY <1>1, <1>2, <2>1
    <2>2. CASE n > 1
      <3>1. ~ (n <= 1) /\ n # 1 /\ split_point(n) \in Nat /\ index \in Nat
        BY <2>2, SplitSplits
      <3>2. ASSUME index < split_point(n)
            PROVE  audit_path(list, index)
                     = Append(audit_path(LeftOf(n, list), index),
                              ProofStep("Right", root(RightOf(n, list))))
        BY <1>1, <1>2, <1>3, <2>2, <3>1, <3>2
      <3>3. ASSUME ~ (index < split_point(n))
            PROVE  audit_path(list, index)
                     = Append(audit_path(RightOf(n, list), index - split_point(n)),
                              ProofStep("Left", root(LeftOf(n, list))))
        BY <1>1, <1>2, <1>3, <2>2, <3>1, <3>3
      <3>4. index >= split_point(n) <=> ~ (index < split_point(n))
        BY <3>1
      <3> QED
        BY <3>1, <3>2, <3>3, <3>4
    <2> QED
      BY <2>1, <2>2

(* What expected_sides yields, in the same way.                            *)
LEMMA SidesOf ==
    ASSUME NEW n \in Nat, NEW index \in 0..(n - 1)
    PROVE  /\ n = 1 => expected_sides(n, index) = << >>
           /\ n > 1 /\ index < split_point(n) =>
                 expected_sides(n, index) = Append(expected_sides(split_point(n), index), "Right")
           /\ n > 1 /\ index >= split_point(n) =>
                 expected_sides(n, index)
                   = Append(expected_sides(n - split_point(n), index - split_point(n)), "Left")
  <1>1. expected_sides(n, index) = sides_of[n][index] /\ sides_of[n] = SidesFrom(sides_of, n)
        /\ index \in Nat
    BY SidesAtAre DEF expected_sides
  <1>2. sides_of[n][index]
          = IF n <= 1 THEN << >>
            ELSE IF index < split_point(n)
            THEN Append(sides_of[split_point(n)][index], "Right")
            ELSE Append(sides_of[n - split_point(n)][index - split_point(n)], "Left")
    BY <1>1 DEF SidesFrom
  <1>3. CASE n = 1
    BY <1>1, <1>2, <1>3
  <1>4. CASE n > 1
    <2>1. ~ (n <= 1) /\ n # 1 /\ split_point(n) \in Nat
      BY <1>4, SplitSplits
    <2>2. CASE index < split_point(n)
      BY <1>1, <1>2, <2>1, <2>2 DEF expected_sides
    <2>3. CASE ~ (index < split_point(n))
      BY <1>1, <1>2, <2>1, <2>3 DEF expected_sides
    <2> QED
      BY <2>1, <2>2, <2>3, <1>1
  <1> QED
    BY <1>3, <1>4

-----------------------------------------------------------------------------
(* The hash on the way up a path, step by step.                            *)
Climb(running, step) ==
    IF step.side = "Left" THEN node_hash(step.hash, running)
    ELSE node_hash(running, step.hash)

Climbs(f, leaf, steps, m) ==
    f = [i \in 0..m |-> IF i = 0 THEN leaf_hash(leaf) ELSE Climb(f[i - 1], steps[i])]

(* However long the path, the loop gets to its end.                        *)
LEMMA ClimbsExist ==
    ASSUME NEW leaf, NEW steps, NEW limit \in Nat
    PROVE  \E f : Climbs(f, leaf, steps, limit)
  <1> DEFINE X == {m \in Nat : ~ \E f : Climbs(f, leaf, steps, m)}
  <1>1. SUFFICES ASSUME X # {} PROVE FALSE
    OBVIOUS
  <1>2. PICK m \in X : \A k \in X : m <= k
    <2>1. X \subseteq Nat
      OBVIOUS
    <2> HIDE DEF X
    <2> QED
      BY <1>1, <2>1, LeastHeight
  <1>3. CASE m = 0
    <2> DEFINE f == [i \in 0..0 |-> leaf_hash(leaf)]
    <2>1. \A i \in 0..0 : i = 0
      OBVIOUS
    <2>2. f = [i \in 0..0 |-> IF i = 0 THEN leaf_hash(leaf) ELSE Climb(f[i - 1], steps[i])]
      BY <2>1
    <2> QED
      BY <1>2, <1>3, <2>2 DEF Climbs
  <1>4. CASE m # 0
    <2>1. m \in Nat /\ m - 1 \in Nat /\ ~ (m <= m - 1)
      BY <1>2, <1>4
    <2>2. m - 1 \notin X
      BY <1>2, <2>1
    <2>3. PICK g : Climbs(g, leaf, steps, m - 1)
      BY <2>1, <2>2
    <2> DEFINE f == [i \in 0..m |-> IF i = m THEN Climb(g[m - 1], steps[m]) ELSE g[i]]
               h == [i \in 0..m |-> IF i = 0 THEN leaf_hash(leaf)
                                    ELSE Climb(f[i - 1], steps[i])]
    <2>4. /\ \A i \in 0..m : i = m \/ i \in 0..(m - 1)
          /\ \A i \in 0..m : i # 0 => i - 1 \in 0..(m - 1) /\ i - 1 \in 0..m /\ i - 1 # m
      BY <2>1
    <2>5. \A i \in 0..(m - 1) : g[i] = IF i = 0 THEN leaf_hash(leaf)
                                       ELSE Climb(g[i - 1], steps[i])
      BY <2>3 DEF Climbs
    <2>6. \A i \in 0..m : i # 0 => f[i - 1] = g[i - 1]
      BY <2>4
    <2>7. ASSUME NEW i \in 0..m PROVE f[i] = h[i]
      BY <1>4, <2>4, <2>5, <2>6
    <2>8. f = h
      BY <2>7
    <2> QED
      BY <1>2, <2>8 DEF Climbs
  <1> QED
    BY <1>3, <1>4

(* A climb hash by hash, and where it ends.                                *)
ClimbedBy(f, leaf, steps, n) ==
    /\ Fold(leaf, steps) = f[n]
    /\ f[0] = leaf_hash(leaf)
    /\ \A i \in 1..n : f[i] = Climb(f[i - 1], steps[i])

(* Fold is where the climb ends.                                           *)
LEMMA FoldIsClimb ==
    ASSUME NEW leaf, NEW steps, NEW n \in Nat, Len(steps) = n
    PROVE  \E f : ClimbedBy(f, leaf, steps, n)
  <1> DEFINE f == CHOOSE g : Climbs(g, leaf, steps, n)
  <1>1. Climbs(f, leaf, steps, n)
    BY ClimbsExist
  <1>2. Fold(leaf, steps) = f[n]
    BY DEF Fold, Climbs, Climb
  <1> HIDE DEF f
  <1>3. 0 \in 0..n /\ \A i \in 1..n : i \in 0..n /\ i # 0
    OBVIOUS
  <1>4. ClimbedBy(f, leaf, steps, n)
    BY <1>1, <1>2, <1>3 DEF Climbs, ClimbedBy
  <1> QED
    BY <1>4

(* No path ends in the leaf.                                               *)
LEMMA FoldOfNothing ==
    ASSUME NEW leaf, NEW steps, Len(steps) = 0
    PROVE  Fold(leaf, steps) = leaf_hash(leaf)
  BY FoldIsClimb DEF ClimbedBy

(* One step more is one hash more.                                         *)
LEMMA FoldOfLast ==
    ASSUME NEW leaf, NEW steps, NEW front, NEW m \in Nat,
           Len(steps) = m + 1, Len(front) = m,
           \A i \in 1..m : front[i] = steps[i]
    PROVE  Fold(leaf, steps) = Climb(Fold(leaf, front), steps[m + 1])
  <1>1. PICK f : ClimbedBy(f, leaf, steps, m + 1)
    <2>1. m + 1 \in Nat
      OBVIOUS
    <2> QED
      BY <2>1, FoldIsClimb
  <1>2. PICK g : ClimbedBy(g, leaf, front, m)
    BY FoldIsClimb
  <1> USE DEF ClimbedBy
  <1> DEFINE X == {i \in 0..m : f[i] # g[i]}
  <1>3. X = {}
    <2> SUFFICES ASSUME X # {} PROVE FALSE
      OBVIOUS
    <2>1. PICK i \in X : \A k \in X : i <= k
      <3>1. X \subseteq Nat
        OBVIOUS
      <3> HIDE DEF X
      <3> QED
        BY <3>1, LeastHeight
    <2>2. i # 0
      BY <1>1, <1>2, <2>1
    <2>3. i \in 1..m /\ i \in 1..(m + 1) /\ i - 1 \in 0..m /\ ~ (i <= i - 1)
      BY <2>1, <2>2
    <2>4. f[i - 1] = g[i - 1]
      BY <2>1, <2>3
    <2>5. f[i] = Climb(f[i - 1], steps[i]) /\ g[i] = Climb(g[i - 1], front[i])
          /\ front[i] = steps[i]
      BY <1>1, <1>2, <2>3
    <2> QED
      BY <2>1, <2>4, <2>5
  <1>4. m \in 0..m /\ m + 1 \in 1..(m + 1) /\ (m + 1) - 1 = m
    OBVIOUS
  <1>5. f[m] = g[m]
    BY <1>3, <1>4
  <1> QED
    BY <1>1, <1>2, <1>4, <1>5

(* Paths as lists of steps, and a path without its last step.              *)
IsPath(steps) ==
    /\ IsList(steps)
    /\ \A i \in DOMAIN steps : steps[i] = ProofStep(steps[i].side, steps[i].hash)

SidesIn(steps) == [i \in DOMAIN steps |-> steps[i].side]
ButLast(s) == [i \in 1..(Len(s) - 1) |-> s[i]]

(* A list of one element more.                                             *)
LEMMA ListGrows ==
    ASSUME NEW s, IsList(s), NEW e
    PROVE  /\ IsList(Append(s, e))
           /\ Len(Append(s, e)) = Len(s) + 1
           /\ \A i \in 1..Len(s) : Append(s, e)[i] = s[i]
           /\ Append(s, e)[Len(s) + 1] = e
  <1> DEFINE n == Len(s)
             E == {s[i] : i \in 1..n} \cup {e}
             t == Append(s, e)
  <1>1. n \in Nat /\ s = [i \in 1..n |-> s[i]]
    BY DEF IsList
  <1>2. e \in E /\ \A i \in 1..n : s[i] \in E
    OBVIOUS
  <1> HIDE DEF E
  <1>3. s \in Seq(E)
    <2> HIDE DEF n
    <2>1. [i \in 1..n |-> s[i]] \in [1..n -> E]
      BY <1>2
    <2>2. s \in [1..n -> E]
      BY <1>1, <2>1
    <2> QED
      BY <1>1, <2>2
  <1>4. t \in Seq(E) /\ Len(t) = n + 1 /\ (\A i \in 1..n : t[i] = s[i]) /\ t[n + 1] = e
    BY <1>2, <1>3
  <1> HIDE DEF t
  <1>5. IsList(t)
    BY <1>4 DEF IsList
  <1> QED
    BY <1>4, <1>5 DEF t

(* What is put together again is the list it was.                          *)
LEMMA ListShrinks ==
    ASSUME NEW s, IsList(s), Len(s) > 0
    PROVE  /\ IsList(ButLast(s))
           /\ Len(ButLast(s)) = Len(s) - 1
           /\ \A i \in 1..(Len(s) - 1) : ButLast(s)[i] = s[i]
           /\ s = Append(ButLast(s), s[Len(s)])
  <1> DEFINE n == Len(s)
             t == ButLast(s)
  <1>1. n \in Nat /\ n > 0 /\ s = [i \in 1..n |-> s[i]]
    BY DEF IsList
  <1>2. t = [i \in 1..(n - 1) |-> s[i]]
    BY DEF ButLast
  <1> HIDE DEF n, t
  <1>3. Len(t) = n - 1 /\ IsList(t) /\ \A i \in 1..(n - 1) : t[i] = s[i]
    BY <1>1, <1>2 DEF IsList
  <1> DEFINE u == Append(t, s[n])
  <1>4. Len(u) = n /\ IsList(u) /\ (\A i \in 1..(n - 1) : u[i] = s[i]) /\ u[n] = s[n]
    <2>1. /\ IsList(u)
          /\ Len(u) = Len(t) + 1
          /\ \A i \in 1..Len(t) : u[i] = t[i]
          /\ u[Len(t) + 1] = s[n]
      BY <1>3, ListGrows, Zenon
    <2> HIDE DEF u
    <2>2. Len(t) + 1 = n
      BY <1>1, <1>3
    <2> QED
      BY <1>3, <2>1, <2>2
  <1> HIDE DEF u
  <1>5. \A i \in 1..n : u[i] = s[i]
    BY <1>1, <1>4
  <1>6. u = s
    BY <1>1, <1>4, <1>5 DEF IsList
  <1> QED
    BY <1>3, <1>6 DEF n, t, u

(* A path of one step more is a path, and leads one hash further up.       *)
LEMMA PathGrows ==
    ASSUME NEW steps, IsPath(steps), NEW side, NEW hash
    PROVE  LET more == Append(steps, ProofStep(side, hash))
           IN  /\ IsPath(more)
               /\ SidesIn(more) = Append(SidesIn(steps), side)
               /\ \A leaf : Fold(leaf, more) = Climb(Fold(leaf, steps), ProofStep(side, hash))
  <1> DEFINE e == ProofStep(side, hash)
             more == Append(steps, e)
             n == Len(steps)
  <1>1. e = ProofStep(e.side, e.hash) /\ e.side = side
    BY DEF ProofStep
  <1>2. n \in Nat /\ DOMAIN steps = 1..n /\ IsList(steps)
    BY DEF IsPath, IsList
  <1> HIDE DEF e
  <1>3. IsList(more) /\ Len(more) = n + 1 /\ (\A i \in 1..n : more[i] = steps[i])
        /\ more[n + 1] = e
    BY <1>2, ListGrows
  <1> HIDE DEF more, n
  <1>4. DOMAIN more = 1..(n + 1)
    BY <1>3 DEF IsList
  <1>5. IsPath(more)
    <2> SUFFICES ASSUME NEW i \in 1..(n + 1)
                 PROVE  more[i] = ProofStep(more[i].side, more[i].hash)
      BY <1>3, <1>4 DEF IsPath
    <2>1. CASE i = n + 1
      BY <1>1, <1>3, <2>1
    <2>2. CASE i # n + 1
      <3>1. i \in 1..n
        BY <1>2, <2>2
      <3> QED
        BY <1>2, <1>3, <3>1 DEF IsPath
    <2> QED
      BY <2>1, <2>2
  <1>6. SidesIn(more) = Append(SidesIn(steps), side)
    <2> DEFINE a == SidesIn(steps)
               b == SidesIn(more)
    <2>1. a = [i \in 1..n |-> steps[i].side] /\ b = [i \in 1..(n + 1) |-> more[i].side]
      BY <1>2, <1>4 DEF SidesIn
    <2> HIDE DEF a, b
    <2>2. IsList(a) /\ Len(a) = n
      BY <1>2, <2>1 DEF IsList
    <2>3. IsList(Append(a, side)) /\ Len(Append(a, side)) = n + 1
          /\ (\A i \in 1..n : Append(a, side)[i] = a[i]) /\ Append(a, side)[n + 1] = side
      BY <2>2, ListGrows
    <2>4. Append(a, side) = [i \in 1..(n + 1) |-> Append(a, side)[i]]
      BY <2>3 DEF IsList
    <2>5. \A i \in 1..(n + 1) : Append(a, side)[i] = more[i].side
      <3> TAKE i \in 1..(n + 1)
      <3>1. CASE i = n + 1
        BY <1>1, <1>3, <2>3, <3>1
      <3>2. CASE i # n + 1
        <4>1. i \in 1..n
          BY <1>2, <3>2
        <4> QED
          BY <1>3, <2>1, <2>3, <4>1
      <3> QED
        BY <3>1, <3>2
    <2> QED
      BY <2>1, <2>4, <2>5 DEF a, b
  <1>7. \A leaf : Fold(leaf, more) = Climb(Fold(leaf, steps), e)
    BY <1>2, <1>3, FoldOfLast DEF n
  <1> QED
    BY <1>5, <1>6, <1>7 DEF e, more

(* A path that is not empty is a path and a last step.                     *)
LEMMA PathShrinks ==
    ASSUME NEW steps, IsPath(steps), Len(steps) > 0
    PROVE  LET front == ButLast(steps)
               last == steps[Len(steps)]
           IN  /\ IsPath(front)
               /\ last = ProofStep(last.side, last.hash)
               /\ steps = Append(front, last)
               /\ Len(front) = Len(steps) - 1
  <1> DEFINE front == ButLast(steps)
             n == Len(steps)
  <1>1. n \in Nat /\ n > 0 /\ DOMAIN steps = 1..n /\ IsList(steps) /\ n \in 1..n
    BY DEF IsPath, IsList
  <1>2. IsList(front) /\ Len(front) = n - 1 /\ (\A i \in 1..(n - 1) : front[i] = steps[i])
        /\ steps = Append(front, steps[n])
    BY <1>1, ListShrinks
  <1> HIDE DEF front, n
  <1>3. DOMAIN front = 1..(n - 1)
    BY <1>2 DEF IsList
  <1>4. \A i \in 1..(n - 1) : i \in 1..n
    BY <1>1
  <1>5. IsPath(front)
    BY <1>1, <1>2, <1>3, <1>4 DEF IsPath
  <1>6. steps[n] = ProofStep(steps[n].side, steps[n].hash)
    BY <1>1 DEF IsPath
  <1> QED
    BY <1>2, <1>5, <1>6 DEF front, n

-----------------------------------------------------------------------------
(* Leaves, inner nodes and the empty root are told apart, and a node holds *)
(* its halves.                                                             *)
LEMMA TagsTell ==
    /\ \A a, b : leaf_hash(a) = leaf_hash(b) => a = b
    /\ \A a, b, c, d : node_hash(a, b) = node_hash(c, d) => a = c /\ b = d
    /\ \A a, b, c : leaf_hash(a) # node_hash(b, c)
    /\ \A a : leaf_hash(a) # empty_root
    /\ \A a, b : node_hash(a, b) # empty_root
  BY DEF leaf_hash, node_hash, empty_root

(* Which half a leaf is in, and where in it.                               *)
InLeft(n, index) == index \in 0..(split_point(n) - 1)
InRight(n, index) == index - split_point(n) \in 0..(n - split_point(n) - 1)

(* The leaf is in the left half or in the right.                           *)
LEMMA LeafIsInAHalf ==
    ASSUME NEW n \in Nat, n > 1, NEW index \in 0..(n - 1), NEW list \in ListsOf(n)
    PROVE  /\ index < split_point(n) =>
                 /\ InLeft(n, index)
                 /\ LeftOf(n, list)[index + 1] = list[index + 1]
           /\ index >= split_point(n) =>
                 /\ InRight(n, index)
                 /\ RightOf(n, list)[index - split_point(n) + 1] = list[index + 1]
  <1> DEFINE k == split_point(n)
  <1>1. k \in Nat /\ k >= 1 /\ k < n /\ n - k \in Nat
    BY SplitSplits
  <1>2. (\A i \in 1..k : LeftOf(n, list)[i] = list[i])
        /\ (\A i \in 1..(n - k) : RightOf(n, list)[i] = list[k + i])
    BY HalvesAreLists
  <1> HIDE DEF k
  <1>3. index < k => index \in 0..(k - 1) /\ index + 1 \in 1..k
    BY <1>1
  <1>4. index >= k => /\ index - k \in 0..(n - k - 1) /\ index - k + 1 \in 1..(n - k)
                      /\ k + (index - k + 1) = index + 1
    BY <1>1
  <1> QED
    BY <1>2, <1>3, <1>4 DEF InLeft, InRight, k

(* An audit path has the expected sides, and climbs from its leaf to the   *)
(* root.                                                                   *)
Proves(n, list, index) ==
    /\ IsPath(audit_path(list, index))
    /\ SidesIn(audit_path(list, index)) = expected_sides(n, index)
    /\ Fold(list[index + 1], audit_path(list, index)) = root(list)

(* Every leaf of every list (audit_path, expected_sides, verify_with).     *)
LEMMA PathsProve ==
    ASSUME NEW size \in Nat, NEW full \in ListsOf(size), NEW place \in 0..(size - 1)
    PROVE  Proves(size, full, place)
  <1> DEFINE X == {n \in Nat : \E list \in ListsOf(n) : \E index \in 0..(n - 1) :
                                 ~ Proves(n, list, index)}
  <1>1. SUFFICES ASSUME X # {} PROVE FALSE
    OBVIOUS
  <1>2. PICK n \in X : \A m \in X : n <= m
    <2>1. X \subseteq Nat
      OBVIOUS
    <2> HIDE DEF X
    <2> QED
      BY <1>1, <2>1, LeastHeight
  <1>3. PICK list \in ListsOf(n), index \in 0..(n - 1) : ~ Proves(n, list, index)
    BY <1>2
  <1>4. \A m \in Nat : m < n => \A l \in ListsOf(m) : \A i \in 0..(m - 1) : Proves(m, l, i)
    BY <1>2
  <1>5. n \in Nat /\ index \in Nat /\ index < n
    BY <1>2
  <1> HIDE DEF X
  <1> DEFINE k == split_point(n)
             way == audit_path(list, index)
  <1>6. CASE n = 1
    <2>1. way = << >> /\ expected_sides(n, index) = << >> /\ index = 0
      <3>1. way = << >>
        BY <1>5, <1>6, PathOf
      <3>2. expected_sides(n, index) = << >>
        BY <1>5, <1>6, SidesOf
      <3> QED
        BY <1>5, <1>6, <3>1, <3>2
    <2>2. IsPath(way) /\ SidesIn(way) = << >> /\ Len(way) = 0
      BY <2>1 DEF IsPath, IsList, SidesIn
    <2>3. Fold(list[index + 1], way) = leaf_hash(list[1])
      BY <2>1, <2>2, FoldOfNothing
    <2>4. root(list) = leaf_hash(list[1])
      BY <1>5, <1>6, RootOf
    <2> QED
      BY <1>3, <2>1, <2>2, <2>3, <2>4 DEF Proves
  <1>7. CASE n > 1 /\ index < k
    <2> DEFINE left == LeftOf(n, list)
               part == audit_path(left, index)
    <2>1. k \in Nat /\ k < n /\ left \in ListsOf(k) /\ index \in 0..(k - 1)
          /\ left[index + 1] = list[index + 1]
      BY <1>5, <1>7, SplitSplits, HalvesAreLists, LeafIsInAHalf DEF InLeft
    <2>2. Proves(k, left, index)
      BY <1>4, <2>1
    <2>3. way = Append(part, ProofStep("Right", root(RightOf(n, list))))
      BY <1>5, <1>7, PathOf
    <2>4. expected_sides(n, index) = Append(expected_sides(k, index), "Right")
      BY <1>5, <1>7, SidesOf
    <2>5. root(list) = node_hash(root(left), root(RightOf(n, list)))
      BY <1>5, <1>7, RootOf
    <2> HIDE DEF left, part, way, k
    <2>6. IsPath(way) /\ SidesIn(way) = Append(SidesIn(part), "Right")
          /\ \A leaf : Fold(leaf, way)
                         = Climb(Fold(leaf, part), ProofStep("Right", root(RightOf(n, list))))
      BY <2>2, <2>3, PathGrows DEF Proves, part
    <2>7. SidesIn(way) = expected_sides(n, index)
      BY <2>2, <2>4, <2>6 DEF Proves, part
    <2>8. Fold(list[index + 1], part) = root(left)
      BY <2>1, <2>2 DEF Proves, part
    <2>9. Fold(list[index + 1], way) = root(list)
      BY <2>5, <2>6, <2>8 DEF Climb, ProofStep
    <2> QED
      BY <1>3, <2>6, <2>7, <2>9 DEF Proves, way
  <1>8. CASE n > 1 /\ index >= k
    <2> DEFINE right == RightOf(n, list)
               part == audit_path(right, index - k)
    <2>1. n - k \in Nat /\ n - k < n /\ right \in ListsOf(n - k) /\ index - k \in 0..(n - k - 1)
          /\ right[index - k + 1] = list[index + 1]
      BY <1>5, <1>8, SplitSplits, HalvesAreLists, LeafIsInAHalf DEF InRight
    <2>2. Proves(n - k, right, index - k)
      BY <1>4, <2>1
    <2>3. way = Append(part, ProofStep("Left", root(LeftOf(n, list))))
      BY <1>5, <1>8, PathOf
    <2>4. expected_sides(n, index) = Append(expected_sides(n - k, index - k), "Left")
      BY <1>5, <1>8, SidesOf
    <2>5. root(list) = node_hash(root(LeftOf(n, list)), root(right))
      BY <1>5, <1>8, RootOf
    <2> HIDE DEF right, part, way, k
    <2>6. IsPath(way) /\ SidesIn(way) = Append(SidesIn(part), "Left")
          /\ \A leaf : Fold(leaf, way)
                         = Climb(Fold(leaf, part), ProofStep("Left", root(LeftOf(n, list))))
      BY <2>2, <2>3, PathGrows DEF Proves, part
    <2>7. SidesIn(way) = expected_sides(n, index)
      BY <2>2, <2>4, <2>6 DEF Proves, part
    <2>8. Fold(list[index + 1], part) = root(right)
      BY <2>1, <2>2 DEF Proves, part
    <2>9. Fold(list[index + 1], way) = root(list)
      BY <2>5, <2>6, <2>8 DEF Climb, ProofStep
    <2> QED
      BY <1>3, <2>6, <2>7, <2>9 DEF Proves, way
  <1>9. n = 1 \/ (n > 1 /\ index < k) \/ (n > 1 /\ index >= k)
    BY <1>5, SplitSplits
  <1> QED
    BY <1>6, <1>7, <1>8, <1>9

(* What a path with the expected sides and the root at its end is.         *)
Accepted(n, list, index, steps, leaf) ==
    /\ IsPath(steps)
    /\ SidesIn(steps) = expected_sides(n, index)
    /\ Fold(leaf, steps) = root(list)

IsTheProof(list, index, steps, leaf) ==
    leaf = list[index + 1] /\ steps = audit_path(list, index)

(* A path taken apart as its expected sides are.                           *)
LEMMA LastSide ==
    ASSUME NEW steps, IsPath(steps), NEW sides, IsList(sides), NEW side,
           SidesIn(steps) = Append(sides, side)
    PROVE  \E front, hash : /\ IsPath(front)
                            /\ SidesIn(front) = sides
                            /\ steps = Append(front, ProofStep(side, hash))
  <1> DEFINE n == Len(steps)
             front == ButLast(steps)
             last == steps[n]
  <1>1. n \in Nat /\ DOMAIN steps = 1..n
    BY DEF IsPath, IsList
  <1>2. SidesIn(steps) = [i \in 1..n |-> steps[i].side]
    BY <1>1 DEF SidesIn
  <1>3. Len(SidesIn(steps)) = n
    BY <1>1, <1>2
  <1>4. Len(sides) \in Nat /\ Len(Append(sides, side)) = Len(sides) + 1
        /\ (\A i \in 1..Len(sides) : Append(sides, side)[i] = sides[i])
        /\ Append(sides, side)[Len(sides) + 1] = side
    BY ListGrows DEF IsList
  <1>5. n = Len(sides) + 1
    BY <1>3, <1>4
  <1>6. IsPath(front) /\ last = ProofStep(last.side, last.hash)
        /\ steps = Append(front, last) /\ Len(front) = n - 1
    BY <1>4, <1>5, PathShrinks
  <1>7. last.side = side
    <2>1. n \in 1..n
      BY <1>4, <1>5
    <2> QED
      BY <1>2, <1>4, <1>5, <2>1
  <1>8. SidesIn(front) = sides
    <2>1. \A i \in 1..Len(sides) : steps[i].side = sides[i]
      <3> TAKE i \in 1..Len(sides)
      <3>1. i \in 1..n
        BY <1>4, <1>5
      <3>2. SidesIn(steps)[i] = steps[i].side
        BY <1>2, <3>1
      <3> QED
        BY <1>4, <3>2
    <2>2. front = [i \in 1..Len(sides) |-> steps[i]]
      BY <1>4, <1>5 DEF ButLast
    <2> HIDE DEF front
    <2>3. SidesIn(front) = [i \in 1..Len(sides) |-> front[i].side]
      BY <2>2 DEF SidesIn
    <2>4. \A i \in 1..Len(sides) : front[i].side = sides[i]
      BY <2>1, <2>2
    <2>5. [i \in 1..Len(sides) |-> front[i].side] = [i \in 1..Len(sides) |-> sides[i]]
      BY <2>4
    <2> QED
      BY <2>3, <2>5 DEF IsList
  <1> QED
    BY <1>6, <1>7, <1>8

(* Expected sides are a list.                                              *)
LEMMA SidesAreList ==
    ASSUME NEW n \in Nat, NEW index \in 0..(n - 1), NEW list \in ListsOf(n)
    PROVE  IsList(expected_sides(n, index))
  <1>1. Proves(n, list, index)
    BY PathsProve
  <1> DEFINE way == audit_path(list, index)
  <1>2. IsPath(way) /\ SidesIn(way) = expected_sides(n, index)
    BY <1>1 DEF Proves
  <1> HIDE DEF way
  <1>3. Len(way) \in Nat /\ DOMAIN way = 1..Len(way)
    BY <1>2 DEF IsPath, IsList
  <1>4. IsList(SidesIn(way))
    BY <1>3 DEF SidesIn, IsList
  <1> QED
    BY <1>2, <1>4

(* There is no other (verify_with).                                        *)
LEMMA ProofsAreUnique ==
    ASSUME NEW size \in Nat, NEW full \in ListsOf(size), NEW place \in 0..(size - 1),
           NEW handed, NEW id, Accepted(size, full, place, handed, id)
    PROVE  IsTheProof(full, place, handed, id)
  <1> DEFINE X == {n \in Nat : \E list \in ListsOf(n) : \E index \in 0..(n - 1) :
                       \E steps, leaf : /\ Accepted(n, list, index, steps, leaf)
                                        /\ ~ IsTheProof(list, index, steps, leaf)}
  <1>1. SUFFICES ASSUME X # {} PROVE FALSE
    OBVIOUS
  <1>2. PICK n \in X : \A m \in X : n <= m
    <2>1. X \subseteq Nat
      OBVIOUS
    <2> HIDE DEF X
    <2> QED
      BY <1>1, <2>1, LeastHeight
  <1>0. PICK list \in ListsOf(n), index \in 0..(n - 1) :
               \E steps, leaf : /\ Accepted(n, list, index, steps, leaf)
                                /\ ~ IsTheProof(list, index, steps, leaf)
    BY <1>2
  <1>3. PICK steps, leaf : /\ Accepted(n, list, index, steps, leaf)
                           /\ ~ IsTheProof(list, index, steps, leaf)
    BY <1>0
  <1>4. \A m \in Nat : m < n => \A l \in ListsOf(m) : \A i \in 0..(m - 1) : \A s, e :
               Accepted(m, l, i, s, e) => IsTheProof(l, i, s, e)
    BY <1>2
  <1>5. n \in Nat /\ index \in Nat /\ index < n
    BY <1>2
  <1> HIDE DEF X
  <1> DEFINE k == split_point(n)
  <1>6. IsPath(steps) /\ SidesIn(steps) = expected_sides(n, index) /\ Fold(leaf, steps) = root(list)
    BY <1>3 DEF Accepted
  <1>7. CASE n = 1
    <2>1. audit_path(list, index) = << >> /\ expected_sides(n, index) = << >> /\ index = 0
      BY <1>5, <1>7, PathOf, SidesOf
    <2>2. root(list) = leaf_hash(list[1])
      BY <1>5, <1>7, RootOf
    <2>3. Len(steps) = 0 /\ steps = << >>
      <3>1. Len(steps) \in Nat /\ DOMAIN steps = 1..Len(steps)
            /\ steps = [i \in 1..Len(steps) |-> steps[i]]
        BY <1>6 DEF IsPath, IsList
      <3>2. Len(SidesIn(steps)) = Len(steps)
        BY <3>1 DEF SidesIn
      <3>3. Len(steps) = 0
        BY <1>6, <2>1, <3>2
      <3> QED
        BY <3>1, <3>3
    <2>4. Fold(leaf, steps) = leaf_hash(leaf)
      BY <2>3, FoldOfNothing
    <2> QED
      BY <1>3, <1>6, <2>1, <2>2, <2>3, <2>4, TagsTell DEF IsTheProof
  <1>8. CASE n > 1 /\ index < k
    <2> DEFINE left == LeftOf(n, list)
               right == RightOf(n, list)
    <2>1. k \in Nat /\ k < n /\ left \in ListsOf(k) /\ index \in 0..(k - 1)
          /\ left[index + 1] = list[index + 1]
      BY <1>5, <1>8, SplitSplits, HalvesAreLists, LeafIsInAHalf DEF InLeft
    <2>2. expected_sides(n, index) = Append(expected_sides(k, index), "Right")
      BY <1>5, <1>8, SidesOf
    <2>3. audit_path(list, index) = Append(audit_path(left, index), ProofStep("Right", root(right)))
      BY <1>5, <1>8, PathOf
    <2>4. root(list) = node_hash(root(left), root(right))
      BY <1>5, <1>8, RootOf
    <2> HIDE DEF left, right, k
    <2>5. PICK front, hash : /\ IsPath(front)
                             /\ SidesIn(front) = expected_sides(k, index)
                             /\ steps = Append(front, ProofStep("Right", hash))
      BY <1>6, <2>1, <2>2, LastSide, SidesAreList
    <2>6. Fold(leaf, steps) = Climb(Fold(leaf, front), ProofStep("Right", hash))
      BY <2>5, PathGrows
    <2>7. Fold(leaf, steps) = node_hash(Fold(leaf, front), hash)
      BY <2>6 DEF Climb, ProofStep
    <2>8. Fold(leaf, front) = root(left) /\ hash = root(right)
      <3>1. node_hash(Fold(leaf, front), hash) = node_hash(root(left), root(right))
        BY <1>6, <2>4, <2>7
      <3> QED
        BY <3>1, TagsTell
    <2>9. Accepted(k, left, index, front, leaf)
      BY <2>5, <2>8 DEF Accepted
    <2>10. IsTheProof(left, index, front, leaf)
      BY <1>4, <2>1, <2>9
    <2> QED
      BY <1>3, <2>1, <2>3, <2>5, <2>8, <2>10 DEF IsTheProof
  <1>9. CASE n > 1 /\ index >= k
    <2> DEFINE left == LeftOf(n, list)
               right == RightOf(n, list)
    <2>1. n - k \in Nat /\ n - k < n /\ right \in ListsOf(n - k) /\ index - k \in 0..(n - k - 1)
          /\ right[index - k + 1] = list[index + 1]
      BY <1>5, <1>9, SplitSplits, HalvesAreLists, LeafIsInAHalf DEF InRight
    <2>2. expected_sides(n, index) = Append(expected_sides(n - k, index - k), "Left")
      BY <1>5, <1>9, SidesOf
    <2>3. audit_path(list, index)
            = Append(audit_path(right, index - k), ProofStep("Left", root(left)))
      BY <1>5, <1>9, PathOf
    <2>4. root(list) = node_hash(root(left), root(right))
      BY <1>5, <1>9, RootOf
    <2> HIDE DEF left, right, k
    <2>5. PICK front, hash : /\ IsPath(front)
                             /\ SidesIn(front) = expected_sides(n - k, index - k)
                             /\ steps = Append(front, ProofStep("Left", hash))
      BY <1>6, <2>1, <2>2, LastSide, SidesAreList
    <2>6. Fold(leaf, steps) = Climb(Fold(leaf, front), ProofStep("Left", hash))
      BY <2>5, PathGrows
    <2>7. Fold(leaf, steps) = node_hash(hash, Fold(leaf, front))
      BY <2>6 DEF Climb, ProofStep
    <2>8. Fold(leaf, front) = root(right) /\ hash = root(left)
      <3>1. node_hash(hash, Fold(leaf, front)) = node_hash(root(left), root(right))
        BY <1>6, <2>4, <2>7
      <3> QED
        BY <3>1, TagsTell
    <2>9. Accepted(n - k, right, index - k, front, leaf)
      BY <2>5, <2>8 DEF Accepted
    <2>10. IsTheProof(right, index - k, front, leaf)
      BY <1>4, <2>1, <2>9
    <2> QED
      BY <1>3, <2>1, <2>3, <2>5, <2>8, <2>10 DEF IsTheProof
  <1>10. n = 1 \/ (n > 1 /\ index < k) \/ (n > 1 /\ index >= k)
    BY <1>5, SplitSplits
  <1> QED
    BY <1>7, <1>8, <1>9, <1>10

(* The hash a path leads to is a leaf's or an inner node's.                *)
LEMMA FoldIsTagged ==
    ASSUME NEW steps, IsPath(steps), NEW leaf
    PROVE  \/ steps = << >> /\ Fold(leaf, steps) = leaf_hash(leaf)
           \/ \E front, hash :
                 /\ IsPath(front) /\ Len(front) < Len(steps)
                 /\ \/ Fold(leaf, steps) = node_hash(hash, Fold(leaf, front))
                    \/ Fold(leaf, steps) = node_hash(Fold(leaf, front), hash)
  <1>1. Len(steps) \in Nat /\ steps = [i \in 1..Len(steps) |-> steps[i]]
    BY DEF IsPath, IsList
  <1>2. CASE Len(steps) = 0
    <2>1. steps = << >>
      BY <1>1, <1>2
    <2> QED
      BY <1>2, <2>1, FoldOfNothing
  <1>3. CASE Len(steps) > 0
    <2> DEFINE front == ButLast(steps)
               last == steps[Len(steps)]
    <2>1. IsPath(front) /\ last = ProofStep(last.side, last.hash)
          /\ steps = Append(front, last) /\ Len(front) = Len(steps) - 1
      BY <1>3, PathShrinks
    <2> HIDE DEF front, last
    <2>2. Fold(leaf, steps) = Climb(Fold(leaf, front), last)
      BY <2>1, PathGrows
    <2>3. Len(front) < Len(steps)
      BY <1>1, <2>1
    <2> QED
      BY <2>1, <2>2, <2>3 DEF Climb
  <1> QED
    BY <1>1, <1>2, <1>3

(* Whatever path leads from it to the root, a leaf is in the list: whoever *)
(* verifies with another count is told nothing false of the id             *)
(* (leaf_hash_with, node_hash_with).                                       *)
LEMMA OnlyLeavesClimb ==
    ASSUME NEW size \in Nat, NEW full \in ListsOf(size),
           NEW handed, IsPath(handed), NEW id, Fold(id, handed) = root(full)
    PROVE  \E i \in 1..size : full[i] = id
  <1> DEFINE Leads(n, list, steps) == IsPath(steps) /\ Fold(id, steps) = root(list)
             Holder(n, list) == \E i \in 1..n : list[i] = id
             X == {n \in Nat : \E list \in ListsOf(n) : \E steps :
                       Leads(n, list, steps) /\ ~ Holder(n, list)}
  <1>1. SUFFICES ASSUME X # {} PROVE FALSE
    OBVIOUS
  <1>2. PICK n \in X : \A m \in X : n <= m
    <2>1. X \subseteq Nat
      OBVIOUS
    <2> HIDE DEF X
    <2> QED
      BY <1>1, <2>1, LeastHeight
  <1>0. PICK list \in ListsOf(n) : \E steps : Leads(n, list, steps) /\ ~ Holder(n, list)
    BY <1>2
  <1>3. PICK steps : Leads(n, list, steps) /\ ~ Holder(n, list)
    BY <1>0
  <1>4. \A m \in Nat : m < n => \A l \in ListsOf(m) : \A s : Leads(m, l, s) => Holder(m, l)
    BY <1>2
  <1>5. n \in Nat
    BY <1>2
  <1> HIDE DEF X
  <1>6. \/ steps = << >> /\ Fold(id, steps) = leaf_hash(id)
        \/ \E front, hash :
              /\ IsPath(front) /\ Len(front) < Len(steps)
              /\ \/ Fold(id, steps) = node_hash(hash, Fold(id, front))
                 \/ Fold(id, steps) = node_hash(Fold(id, front), hash)
    BY <1>3, FoldIsTagged
  <1>7. CASE n = 0
    BY <1>3, <1>5, <1>6, <1>7, RootOf, TagsTell
  <1>8. CASE n = 1
    <2>1. root(list) = leaf_hash(list[1])
      BY <1>5, <1>8, RootOf
    <2>2. list[1] = id
      BY <1>3, <1>6, <2>1, TagsTell
    <2> QED
      BY <1>3, <1>8, <2>2
  <1>9. CASE n > 1
    <2> DEFINE k == split_point(n)
               left == LeftOf(n, list)
               right == RightOf(n, list)
    <2>1. /\ k \in Nat /\ k < n /\ left \in ListsOf(k)
          /\ n - k \in Nat /\ n - k < n /\ right \in ListsOf(n - k)
          /\ \A i \in 1..k : left[i] = list[i]
          /\ \A i \in 1..(n - k) : right[i] = list[k + i]
      BY <1>5, <1>9, SplitSplits, HalvesAreLists
    <2>2. root(list) = node_hash(root(left), root(right))
      BY <1>5, <1>9, RootOf
    <2> HIDE DEF k, left, right
    <2>3. PICK front, hash :
              /\ IsPath(front)
              /\ \/ Fold(id, steps) = node_hash(hash, Fold(id, front))
                 \/ Fold(id, steps) = node_hash(Fold(id, front), hash)
      BY <1>3, <1>6, <2>2, TagsTell
    <2>4. CASE Fold(id, steps) = node_hash(hash, Fold(id, front))
      <3>1. node_hash(hash, Fold(id, front)) = node_hash(root(left), root(right))
        BY <1>3, <2>2, <2>4
      <3>2. Leads(n - k, right, front)
        BY <2>3, <3>1, TagsTell
      <3>3. PICK i \in 1..(n - k) : right[i] = id
        BY <1>4, <2>1, <3>2
      <3>4. k + i \in 1..n
        BY <1>5, <2>1
      <3> QED
        BY <1>3, <2>1, <3>3, <3>4
    <2>5. CASE Fold(id, steps) = node_hash(Fold(id, front), hash)
      <3>1. node_hash(Fold(id, front), hash) = node_hash(root(left), root(right))
        BY <1>3, <2>2, <2>5
      <3>2. Leads(k, left, front)
        BY <2>3, <3>1, TagsTell
      <3>3. PICK i \in 1..k : left[i] = id
        BY <1>4, <2>1, <3>2
      <3>4. i \in 1..n
        BY <1>5, <2>1
      <3> QED
        BY <1>3, <2>1, <3>3, <3>4
    <2> QED
      BY <2>3, <2>4, <2>5
  <1> QED
    BY <1>5, <1>7, <1>8, <1>9

(* Lists with one root are one list, whatever their lengths (root).        *)
LEMMA RootsCommit ==
    ASSUME NEW m \in Nat, NEW one \in ListsOf(m), NEW k \in Nat, NEW another \in ListsOf(k),
           root(one) = root(another)
    PROVE  one = another
  <1> DEFINE X == {n \in Nat : \E list \in ListsOf(n) : \E l \in Nat : \E other \in ListsOf(l) :
                       root(list) = root(other) /\ list # other}
  <1>1. SUFFICES ASSUME X # {} PROVE FALSE
    OBVIOUS
  <1>2. PICK n \in X : \A j \in X : n <= j
    <2>1. X \subseteq Nat
      OBVIOUS
    <2> HIDE DEF X
    <2> QED
      BY <1>1, <2>1, LeastHeight
  <1>0. PICK list \in ListsOf(n), l \in Nat :
               \E other \in ListsOf(l) : root(list) = root(other) /\ list # other
    BY <1>2
  <1>3. PICK other \in ListsOf(l) : root(list) = root(other) /\ list # other
    BY <1>0
  <1>4. \A j \in Nat : j < n => \A a \in ListsOf(j) : \A i \in Nat : \A b \in ListsOf(i) :
               root(a) = root(b) => a = b
    BY <1>2
  <1>5. n \in Nat /\ (n = 0 \/ n = 1 \/ n > 1) /\ (l = 0 \/ l = 1 \/ l > 1)
    BY <1>2
  <1> HIDE DEF X
  <1>6. list = [i \in 1..n |-> list[i]] /\ other = [i \in 1..l |-> other[i]]
    BY <1>5, LengthOfList
  <1>7. /\ n = 0 => root(list) = empty_root
        /\ n = 1 => root(list) = leaf_hash(list[1])
        /\ n > 1 => root(list) = node_hash(root(LeftOf(n, list)), root(RightOf(n, list)))
    BY <1>5, RootOf
  <1>8. /\ l = 0 => root(other) = empty_root
        /\ l = 1 => root(other) = leaf_hash(other[1])
        /\ l > 1 => root(other) = node_hash(root(LeftOf(l, other)), root(RightOf(l, other)))
    BY RootOf
  <1>9. CASE n = 0
    <2>1. l = 0
      BY <1>3, <1>5, <1>7, <1>8, <1>9, TagsTell
    <2>2. \A i \in 1..0 : FALSE
      OBVIOUS
    <2> QED
      BY <1>3, <1>6, <1>9, <2>1, <2>2
  <1>10. CASE n = 1
    <2>1. l = 1
      BY <1>3, <1>5, <1>7, <1>8, <1>10, TagsTell
    <2>2. list[1] = other[1]
      BY <1>3, <1>7, <1>8, <1>10, <2>1, TagsTell
    <2>3. \A i \in 1..1 : i = 1
      OBVIOUS
    <2>4. \A i \in 1..1 : list[i] = other[i]
      BY <2>2, <2>3
    <2> QED
      BY <1>3, <1>6, <1>10, <2>1, <2>4
  <1>11. CASE n > 1
    <2>1. l > 1
      BY <1>3, <1>5, <1>7, <1>8, <1>11, TagsTell
    <2> DEFINE p == split_point(n)
               q == split_point(l)
               left == LeftOf(n, list)
               right == RightOf(n, list)
               oleft == LeftOf(l, other)
               oright == RightOf(l, other)
    <2>2. /\ p \in Nat /\ p < n /\ left \in ListsOf(p)
          /\ n - p \in Nat /\ n - p < n /\ right \in ListsOf(n - p)
          /\ \A i \in 1..p : left[i] = list[i]
          /\ \A i \in 1..(n - p) : right[i] = list[p + i]
      BY <1>5, <1>11, SplitSplits, HalvesAreLists
    <2>3. /\ q \in Nat /\ oleft \in ListsOf(q)
          /\ l - q \in Nat /\ oright \in ListsOf(l - q)
          /\ \A i \in 1..q : oleft[i] = other[i]
          /\ \A i \in 1..(l - q) : oright[i] = other[q + i]
      BY <2>1, SplitSplits, HalvesAreLists
    <2>4. node_hash(root(left), root(right)) = node_hash(root(oleft), root(oright))
      BY <1>3, <1>7, <1>8, <1>11, <2>1
    <2> HIDE DEF p, q, left, right, oleft, oright
    <2>5. root(left) = root(oleft) /\ root(right) = root(oright)
      BY <2>4, TagsTell
    <2>6. left = oleft /\ right = oright
      BY <1>4, <2>2, <2>3, <2>5
    <2>7. p = q /\ n - p = l - q
      <3>1. Len(left) = p /\ Len(oleft) = q /\ Len(right) = n - p /\ Len(oright) = l - q
        BY <2>2, <2>3, LengthOfList
      <3> QED
        BY <2>6, <3>1
    <2>8. n = l
      BY <1>5, <2>2, <2>3, <2>7
    <2>9. \A i \in 1..n : list[i] = other[i]
      <3> TAKE i \in 1..n
      <3>1. CASE i <= p
        <4>1. i \in 1..p /\ i \in 1..q
          BY <2>2, <2>7, <3>1
        <4> QED
          BY <2>2, <2>3, <2>6, <4>1
      <3>2. CASE ~ (i <= p)
        <4>1. i - p \in 1..(n - p) /\ i - p \in 1..(l - q) /\ p + (i - p) = i
              /\ q + (i - p) = i
          BY <1>5, <2>2, <2>7, <3>2
        <4>2. right[i - p] = list[p + (i - p)] /\ oright[i - p] = other[q + (i - p)]
          BY <2>2, <2>3, <4>1
        <4> QED
          BY <2>6, <4>1, <4>2
      <3> QED
        BY <3>1, <3>2
    <2> QED
      BY <1>3, <1>6, <2>8, <2>9
  <1> QED
    BY <1>5, <1>9, <1>10, <1>11

-----------------------------------------------------------------------------
(* The block is a list of ids, what the file holds is a proof in form, and *)
(* as long as it is as produced it is the proof of the id it is said to be *)
(* for.                                                                    *)
IsProof(p) ==
    /\ p = [index |-> p.index, steps |-> p.steps]
    /\ p.index \in Nat
    /\ IsPath(p.steps)

MerkleInv ==
    /\ Len(leaves) \in Nat /\ leaves \in ListsOf(Len(leaves))
    /\ IsProof(proof)
    /\ genuine => \E index \in 0..(Len(leaves) - 1) :
                     /\ proof = generate(leaves, index)
                     /\ claimed = {leaves[index + 1]}
                     /\ count = Len(leaves)

(* One step replaced, dropped or added leaves a path.                      *)
LEMMA OtherPaths ==
    ASSUME NEW steps, IsPath(steps), NEW other \in OtherSteps(steps)
    PROVE  IsPath(other)
  <1> DEFINE n == Len(steps)
  <1>1. n \in Nat /\ DOMAIN steps = 1..n /\ steps = [i \in 1..n |-> steps[i]]
        /\ \A i \in 1..n : steps[i] = ProofStep(steps[i].side, steps[i].hash)
    BY DEF IsPath, IsList
  <1>2. \A side, hash : ProofStep(side, hash).side = side /\ ProofStep(side, hash).hash = hash
    BY DEF ProofStep
  <1> HIDE DEF n
  <1>3. ASSUME NEW m \in Nat, other = [i \in 1..m |-> other[i]],
               \A i \in 1..m : \E side, hash : other[i] = ProofStep(side, hash)
        PROVE  IsPath(other)
    <2>1. Len(other) = m /\ DOMAIN other = 1..m
      BY <1>3
    <2>2. \A i \in 1..m : other[i] = ProofStep(other[i].side, other[i].hash)
      BY <1>2, <1>3
    <2> QED
      BY <1>3, <2>1, <2>2 DEF IsPath, IsList
  <1>4. ASSUME NEW k \in 1..n, NEW side, NEW hash,
               other = [steps EXCEPT ![k] = ProofStep(side, hash)]
        PROVE  IsPath(other)
    <2>1. other = [i \in 1..n |-> IF i = k THEN ProofStep(side, hash) ELSE steps[i]]
      BY <1>1, <1>4
    <2>2. \A i \in 1..n : other[i] = IF i = k THEN ProofStep(side, hash) ELSE steps[i]
      BY <2>1
    <2>3. \A i \in 1..n : \E s, h : other[i] = ProofStep(s, h)
      BY <1>1, <2>2
    <2>4. other = [i \in 1..n |-> other[i]]
      BY <2>1
    <2> QED
      BY <1>1, <1>3, <2>3, <2>4
  <1>5. ASSUME NEW k \in 1..n, other = Lacking(steps, k)
        PROVE  IsPath(other)
    <2>1. other = [i \in 1..(n - 1) |-> IF i < k THEN steps[i] ELSE steps[i + 1]]
      BY <1>5 DEF Lacking, n
    <2>2. \A i \in 1..(n - 1) : i \in 1..n /\ i + 1 \in 1..n
      BY <1>1
    <2>3. \A i \in 1..(n - 1) : \E s, h : other[i] = ProofStep(s, h)
      BY <1>1, <2>1, <2>2
    <2>4. n - 1 \in Nat
      BY <1>1
    <2>5. other = [i \in 1..(n - 1) |-> other[i]]
      BY <2>1
    <2> QED
      BY <1>3, <2>3, <2>4, <2>5
  <1>6. ASSUME NEW k \in 1..(n + 1), NEW side, NEW hash,
               other = With(steps, k, ProofStep(side, hash))
        PROVE  IsPath(other)
    <2>1. other = [i \in 1..(n + 1) |-> IF i < k THEN steps[i]
                                        ELSE IF i = k THEN ProofStep(side, hash)
                                        ELSE steps[i - 1]]
      BY <1>6 DEF With, n
    <2>2. \A i \in 1..(n + 1) : (i < k => i \in 1..n)
                                /\ (~ (i < k) /\ i # k => i - 1 \in 1..n)
      BY <1>1
    <2>3. ASSUME NEW i \in 1..(n + 1) PROVE \E s, h : other[i] = ProofStep(s, h)
      <3>1. CASE i < k
        BY <1>1, <2>1, <2>2, <3>1
      <3>2. CASE i = k
        <4>1. ~ (i < k)
          BY <3>2
        <4> QED
          BY <2>1, <3>2, <4>1
      <3>3. CASE ~ (i < k) /\ i # k
        BY <1>1, <2>1, <2>2, <3>3
      <3> QED
        BY <3>1, <3>2, <3>3
    <2>4. other = [i \in 1..(n + 1) |-> other[i]]
      BY <2>1
    <2>5. n + 1 \in Nat
      BY <1>1
    <2> QED
      BY <1>3, <2>3, <2>4, <2>5
  <1> QED
    <2>1. \/ \E k \in 1..n, s \in Sides :
                other = [steps EXCEPT ![k] = ProofStep(s, steps[k].hash)]
          \/ \E k \in 1..n, h \in Hashes :
                other = [steps EXCEPT ![k] = ProofStep(steps[k].side, h)]
          \/ \E k \in 1..n : other = Lacking(steps, k)
          \/ \E k \in 1..(n + 1), s \in Sides, h \in Hashes :
                other = With(steps, k, ProofStep(s, h))
      BY <1>1 DEF OtherSteps, n
    <2>2. CASE \E k \in 1..n, s \in Sides :
                  other = [steps EXCEPT ![k] = ProofStep(s, steps[k].hash)]
      BY <1>4, <2>2
    <2>3. CASE \E k \in 1..n, h \in Hashes :
                  other = [steps EXCEPT ![k] = ProofStep(steps[k].side, h)]
      BY <1>4, <2>3
    <2>4. CASE \E k \in 1..n : other = Lacking(steps, k)
      BY <1>5, <2>4
    <2>5. CASE \E k \in 1..(n + 1), s \in Sides, h \in Hashes :
                  other = With(steps, k, ProofStep(s, h))
      BY <1>6, <2>5
    <2> QED
      BY <2>1, <2>2, <2>3, <2>4, <2>5

(* The upper part of a path is one.                                        *)
LEMMA UpperPaths ==
    ASSUME NEW steps, IsPath(steps), NEW k \in 0..Len(steps),
           NEW other, other = [i \in 1..(Len(steps) - k) |-> steps[k + i]]
    PROVE  IsPath(other)
  <1> DEFINE n == Len(steps)
  <1>1. n \in Nat /\ DOMAIN steps = 1..n
        /\ \A i \in 1..n : steps[i] = ProofStep(steps[i].side, steps[i].hash)
    BY DEF IsPath, IsList
  <1>2. other = [i \in 1..(n - k) |-> steps[k + i]]
    OBVIOUS
  <1>3. k \in 0..n
    OBVIOUS
  <1> HIDE DEF n
  <1>4. n - k \in Nat /\ \A i \in 1..(n - k) : k + i \in 1..n
    BY <1>1, <1>3
  <1>5. Len(other) = n - k /\ DOMAIN other = 1..(n - k)
        /\ other = [i \in 1..(n - k) |-> other[i]]
    BY <1>2, <1>4
  <1>6. \A i \in 1..(n - k) : other[i] = ProofStep(other[i].side, other[i].hash)
    BY <1>1, <1>2, <1>4
  <1> QED
    BY <1>4, <1>5, <1>6 DEF IsPath, IsList

(* However blocks grow and proof files change.                             *)
THEOREM MerkleInvariant == MerkleSpec => []MerkleInv
<1>1. MerkleInit => MerkleInv
  <2> SUFFICES ASSUME MerkleInit PROVE MerkleInv
    OBVIOUS
  <2>1. leaves = << >> /\ proof = NoProof /\ ~ genuine
    BY DEF MerkleInit
  <2>2. Len(leaves) = 0 /\ leaves \in ListsOf(0)
    BY <2>1 DEF ListsOf
  <2>3. IsPath(<< >>)
    BY DEF IsPath, IsList
  <2>4. IsProof(proof)
    BY <2>1, <2>3 DEF IsProof, NoProof
  <2> QED
    BY <2>1, <2>2, <2>4 DEF MerkleInv
<1>2. MerkleInv /\ [MerkleNext]_merkleVars => MerkleInv'
  <2> SUFFICES ASSUME MerkleInv, [MerkleNext]_merkleVars
               PROVE  MerkleInv'
    OBVIOUS
  <2> DEFINE n == Len(leaves)
  <2>1. n \in Nat /\ leaves \in ListsOf(n) /\ DOMAIN leaves = 1..n
        /\ leaves = [i \in 1..n |-> leaves[i]]
    BY LengthOfList DEF MerkleInv
  <2>2. CASE Grow
    <3> DEFINE e == Ids[n + 1]
    <3>1. claimed = {} /\ n < Len(Ids) /\ leaves' = Append(leaves, e)
          /\ UNCHANGED <<proof, claimed, count, genuine>>
      BY <2>2 DEF Grow
    <3>2. ~ genuine
      BY <3>1 DEF MerkleInv
    <3>3. e \in MerkleId
      BY <2>1, <3>1, IdsAssumption DEF MerkleId
    <3> HIDE DEF e
    <3>4. IsList(leaves)
      BY <2>1 DEF IsList
    <3>5. IsList(leaves') /\ Len(leaves') = n + 1
          /\ (\A i \in 1..n : leaves'[i] = leaves[i]) /\ leaves'[n + 1] = e
      BY <3>1, <3>4, ListGrows
    <3>6. \A i \in 1..n : leaves[i] \in MerkleId
      BY <2>1 DEF ListsOf
    <3>7. \A i \in 1..(n + 1) : i \in 1..n \/ i = n + 1
      BY <2>1
    <3> HIDE DEF n
    <3>8. \A i \in 1..(n + 1) : leaves'[i] \in MerkleId
      BY <3>3, <3>5, <3>6, <3>7
    <3>9. leaves' = [i \in 1..(n + 1) |-> leaves'[i]]
      BY <3>5 DEF IsList
    <3>10. leaves' \in [1..(n + 1) -> MerkleId]
      BY <3>8, <3>9
    <3>11. Len(leaves') \in Nat /\ leaves' \in ListsOf(Len(leaves'))
      BY <2>1, <3>5, <3>10 DEF ListsOf
    <3>12. IsProof(proof') /\ ~ genuine'
      BY <3>1, <3>2 DEF MerkleInv
    <3> QED
      BY <3>11, <3>12 DEF MerkleInv
  <2>3. ASSUME NEW index \in 0..(Len(Ids) - 1), Produce(index) PROVE MerkleInv'
    <3>1. index < n /\ proof' = generate(leaves, index) /\ claimed' = {leaves[index + 1]}
          /\ count' = n /\ leaves' = leaves
      BY <2>3 DEF Produce
    <3>2. index \in 0..(n - 1) /\ index \in Nat
      BY <2>1, <3>1
    <3>3. IsPath(audit_path(leaves, index))
      BY <2>1, <3>2, PathsProve DEF Proves
    <3>4. IsProof(proof')
      BY <3>1, <3>2, <3>3 DEF IsProof, generate
    <3> QED
      BY <2>1, <3>1, <3>2, <3>4 DEF MerkleInv
  <2>4. CASE HandOver
    <3>1. ~ genuine' /\ leaves' = leaves /\ (proof' \in OtherProofs \/ proof' \in Shortened)
      BY <2>4 DEF HandOver
    <3>2. IsProof(proof)
      BY DEF MerkleInv
    <3>3. ASSUME proof' \in OtherProofs PROVE IsProof(proof')
      <4>1. \/ \E i \in 0..n : proof' = [index |-> i, steps |-> proof.steps]
            \/ \E steps \in OtherSteps(proof.steps) :
                  proof' = [index |-> proof.index, steps |-> steps]
        BY <3>3 DEF OtherProofs
      <4>2. CASE \E i \in 0..n : proof' = [index |-> i, steps |-> proof.steps]
        <5>1. PICK i \in 0..n : proof' = [index |-> i, steps |-> proof.steps]
          BY <4>2
        <5>2. i \in Nat
          BY <2>1
        <5> QED
          BY <3>2, <5>1, <5>2 DEF IsProof
      <4>3. CASE \E steps \in OtherSteps(proof.steps) :
                    proof' = [index |-> proof.index, steps |-> steps]
        BY <3>2, <4>3, OtherPaths DEF IsProof
      <4> QED
        BY <4>1, <4>2, <4>3
    <3>4. ASSUME proof' \in Shortened PROVE IsProof(proof')
      <4>1. PICK k \in 0..Len(proof.steps) :
                proof' = [index |-> proof.index,
                          steps |-> [i \in 1..(Len(proof.steps) - k) |-> proof.steps[k + i]]]
        BY <3>4 DEF Shortened
      <4> DEFINE other == [i \in 1..(Len(proof.steps) - k) |-> proof.steps[k + i]]
      <4>2. IsPath(other)
        BY <3>2, UpperPaths DEF IsProof
      <4>3. proof' = [index |-> proof.index, steps |-> other]
        BY <4>1
      <4> HIDE DEF other
      <4> QED
        BY <3>2, <4>2, <4>3 DEF IsProof
    <3> QED
      BY <2>1, <3>1, <3>3, <3>4 DEF MerkleInv
  <2>5. CASE UNCHANGED merkleVars
    BY <2>5 DEF MerkleInv, merkleVars, IsProof
  <2> QED
    BY <2>2, <2>3, <2>4, <2>5 DEF MerkleNext
<1> QED
  BY <1>1, <1>2, PTL DEF MerkleSpec

(* A proof as produced verifies against its block's count and root, in a   *)
(* block of every size (InclusionProof::generate, verify).                 *)
THEOREM EveryTransactionProves == MerkleSpec => []EveryIndexProves
<1>1. MerkleInv => EveryIndexProves
  <2> SUFFICES ASSUME MerkleInv, genuine, NEW id \in claimed
               PROVE  verify(proof, id, count, root(leaves))
    BY DEF EveryIndexProves
  <2> DEFINE n == Len(leaves)
  <2>1. n \in Nat /\ leaves \in ListsOf(n)
    BY DEF MerkleInv
  <2>2. PICK index \in 0..(n - 1) : /\ proof = generate(leaves, index)
                                    /\ claimed = {leaves[index + 1]}
                                    /\ count = n
    BY DEF MerkleInv
  <2>3. Proves(n, leaves, index)
    BY <2>1, <2>2, PathsProve
  <2>4. proof.index = index /\ proof.steps = audit_path(leaves, index)
        /\ id = leaves[index + 1]
    BY <2>2 DEF generate
  <2>5. index < n
    BY <2>1
  <2> HIDE DEF n
  <2> QED
    BY <2>2, <2>3, <2>4, <2>5 DEF verify, RightShape, Proves, SidesIn
<1> QED
  BY <1>1, MerkleInvariant, PTL

(* Whatever the file holds, accepted against a block's own count and root  *)
(* it is the one proof of its position, of the id that stands there        *)
(* (verify_with).                                                          *)
THEOREM AcceptedProofsBind == MerkleSpec => []ProofBinds
<1>1. MerkleInv => ProofBinds
  <2> SUFFICES ASSUME MerkleInv, NEW id \in claimed, count = Len(leaves),
                      verify(proof, id, count, root(leaves))
               PROVE  /\ leaves[proof.index + 1] = id
                      /\ proof = generate(leaves, proof.index)
    BY DEF ProofBinds
  <2> DEFINE n == Len(leaves)
  <2>1. n \in Nat /\ leaves \in ListsOf(n) /\ IsProof(proof)
    BY DEF MerkleInv
  <2>2. proof.index < n /\ RightShape(proof, n) /\ Fold(id, proof.steps) = root(leaves)
    BY DEF verify
  <2>3. proof.index \in 0..(n - 1)
    BY <2>1, <2>2 DEF IsProof
  <2>4. Accepted(n, leaves, proof.index, proof.steps, id)
    BY <2>1, <2>2 DEF Accepted, IsProof, RightShape, SidesIn
  <2>5. IsTheProof(leaves, proof.index, proof.steps, id)
    BY <2>1, <2>3, <2>4, ProofsAreUnique
  <2> QED
    BY <2>1, <2>5 DEF IsTheProof, generate, IsProof
<1> QED
  BY <1>1, MerkleInvariant, PTL

(* Verified with whichever count, an accepted id is one the block holds    *)
(* (leaf_hash_with, node_hash_with).                                       *)
THEOREM OnlyTheBlocksIdsProve == MerkleSpec => []OnlyLeavesProve
<1>1. MerkleInv => OnlyLeavesProve
  <2> SUFFICES ASSUME MerkleInv, NEW id \in claimed, verify(proof, id, count, root(leaves))
               PROVE  \E i \in DOMAIN leaves : leaves[i] = id
    BY DEF OnlyLeavesProve
  <2> DEFINE n == Len(leaves)
  <2>1. n \in Nat /\ leaves \in ListsOf(n) /\ IsPath(proof.steps)
    BY DEF MerkleInv, IsProof
  <2>2. Fold(id, proof.steps) = root(leaves)
    BY DEF verify
  <2>3. \E i \in 1..n : leaves[i] = id
    BY <2>1, <2>2, OnlyLeavesClimb
  <2> QED
    BY <2>1, <2>3, LengthOfList
<1> QED
  BY <1>1, MerkleInvariant, PTL

(* No other list of ids has the block's root (root).                       *)
THEOREM TheRootCommits == MerkleSpec => []RootCommits
<1>1. MerkleInv => RootCommits
  <2> SUFFICES ASSUME MerkleInv PROVE RootCommits
    OBVIOUS
  <2> DEFINE n == Len(leaves)
  <2>1. n \in Nat /\ leaves \in ListsOf(n) /\ DOMAIN leaves = 1..n
        /\ leaves = [i \in 1..n |-> leaves[i]]
    BY LengthOfList DEF MerkleInv
  <2>2. \A i \in 1..n : leaves[i] \in MerkleId
    BY <2>1 DEF ListsOf
  <2>3. IsList(leaves)
    BY <2>1 DEF IsList
  <2>4. ASSUME NEW id \in MerkleId PROVE Append(leaves, id) \in ListsOf(n + 1)
    <3> DEFINE t == Append(leaves, id)
    <3>1. IsList(t) /\ Len(t) = n + 1 /\ (\A i \in 1..n : t[i] = leaves[i]) /\ t[n + 1] = id
      BY <2>3, ListGrows
    <3> HIDE DEF t, n
    <3>2. \A i \in 1..(n + 1) : i \in 1..n \/ i = n + 1
      BY <2>1
    <3>3. \A i \in 1..(n + 1) : t[i] \in MerkleId
      BY <2>2, <2>4, <3>1, <3>2
    <3>4. t = [i \in 1..(n + 1) |-> t[i]]
      BY <3>1 DEF IsList
    <3>5. t \in ListsOf(n + 1)
      BY <3>3, <3>4 DEF ListsOf
    <3> QED
      BY <3>5 DEF t
  <2>5. ASSUME NEW k \in 1..n PROVE Lacking(leaves, k) \in ListsOf(n - 1)
    <3> HIDE DEF n
    <3>1. Lacking(leaves, k) = [i \in 1..(n - 1) |-> IF i < k THEN leaves[i] ELSE leaves[i + 1]]
      BY DEF Lacking, n
    <3>2. \A i \in 1..(n - 1) : i \in 1..n /\ i + 1 \in 1..n
      BY <2>1
    <3>3. \A i \in 1..(n - 1) : (IF i < k THEN leaves[i] ELSE leaves[i + 1]) \in MerkleId
      BY <2>2, <3>2
    <3> QED
      BY <3>1, <3>3 DEF ListsOf
  <2>6. ASSUME NEW k \in 1..n, NEW id \in MerkleId
        PROVE  [leaves EXCEPT ![k] = id] \in ListsOf(n)
    BY <2>1 DEF ListsOf
  <2>7. ASSUME NEW i \in 1..n, NEW j \in 1..n
        PROVE  [leaves EXCEPT ![i] = leaves[j], ![j] = leaves[i]] \in ListsOf(n)
    BY <2>1, <2>2 DEF ListsOf
  <2>8. n + 1 \in Nat /\ (\A k \in 1..n : n - 1 \in Nat)
    BY <2>1
  <2>9. \A other : (\E m \in Nat : other \in ListsOf(m)) /\ other # leaves
                       => root(other) # root(leaves)
    BY <2>1, RootsCommit
  <2> DEFINE others == {Append(leaves, id) : id \in MerkleId}
                       \cup {Lacking(leaves, i) : i \in DOMAIN leaves}
                       \cup {[leaves EXCEPT ![i] = id] : i \in DOMAIN leaves, id \in MerkleId}
                       \cup {[leaves EXCEPT ![i] = leaves[j], ![j] = leaves[i]]
                               : i, j \in DOMAIN leaves}
  <2>10. ASSUME NEW other \in others PROVE \E m \in Nat : other \in ListsOf(m)
    <3>1. \/ \E id \in MerkleId : other = Append(leaves, id)
          \/ \E i \in 1..n : other = Lacking(leaves, i)
          \/ \E i \in 1..n, id \in MerkleId : other = [leaves EXCEPT ![i] = id]
          \/ \E i \in 1..n, j \in 1..n :
                other = [leaves EXCEPT ![i] = leaves[j], ![j] = leaves[i]]
      BY <2>1, <2>10
    <3> HIDE DEF others, n
    <3>2. CASE \E id \in MerkleId : other = Append(leaves, id)
      BY <2>4, <2>8, <3>2
    <3>3. CASE \E i \in 1..n : other = Lacking(leaves, i)
      BY <2>5, <2>8, <3>3
    <3>4. CASE \E i \in 1..n, id \in MerkleId : other = [leaves EXCEPT ![i] = id]
      BY <2>1, <2>6, <3>4
    <3>5. CASE \E i \in 1..n, j \in 1..n :
                  other = [leaves EXCEPT ![i] = leaves[j], ![j] = leaves[i]]
      BY <2>1, <2>7, <3>5
    <3> QED
      BY <3>1, <3>2, <3>3, <3>4, <3>5
  <2>11. \A other \in others : other # leaves => root(other) # root(leaves)
    <3> HIDE DEF others, n
    <3> QED
      BY <2>9, <2>10
  <2> QED
    BY <2>11 DEF RootCommits
<1> QED
  BY <1>1, MerkleInvariant, PTL
=============================================================================
