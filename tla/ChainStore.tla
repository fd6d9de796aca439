------------------------------ MODULE ChainStore ------------------------------
(***************************************************************************)
(* prunella-store: LocalChainStore over one redb file.                     *)
(*                                                                         *)
(* A database image is one record: the four tables, META spread over its   *)
(* keys.  redb's MVCC makes an image a value: `db' is the last committed   *)
(* one, `work' the private copy of the write transaction in progress, and  *)
(* a reader keeps the blocks of the image it began with.  At most one      *)
(* write transaction exists at a time.  The threads of one process share   *)
(* one store; no other process can open the file meanwhile.  The process   *)
(* may die between any two steps.                                          *)
(***************************************************************************)
EXTENDS BlockRules

CONSTANTS TxBody,       \* what a transaction says
          Block,        \* the blocks a caller may offer to append_blocks
          Genesis,      \* the genesis blocks a caller may ask init for
          Thread,       \* the threads sharing the store
          BatchBound    \* length of the longest batch offered

TxId == {<<"tx", b, s>> : b \in TxBody, s \in BOOLEAN}
Transaction == [id : TxId, body : TxBody, signed : BOOLEAN]

(* Heights are u64 and a block carries a list of transactions; nothing     *)
(* else is assumed of a block a caller may offer.  A genesis block is one  *)
(* GenesisSpec::build makes, whatever its transactions are.                *)
ASSUME BlockAssumption ==
    /\ \A b \in Block \cup Genesis :
          b.header.height \in Nat /\ b.transactions \in Seq(Transaction)
    /\ \A g \in Genesis : g.header.height = GENESIS

ASSUME BatchBoundAssumption == BatchBound \in Nat \ {0}

VARIABLES file,         \* "absent", "empty" (created, no tables) or "chain"
          handle,       \* "closed", "creating" or "open"
          db,           \* the committed image
          writer,       \* the thread whose write transaction is open, if any
          work,         \* the image that transaction sees
          todo,         \* the blocks of its batch it still has to look at
          parent,       \* the header of the last block it inserted, if any
          pending,      \* the transaction ids it inserted
          call,         \* per thread: its last append_blocks and the outcome
          iter          \* per thread: the head it read and its BlockRange

disk == <<file, db>>
txn == <<writer, work, todo, parent, pending>>
vars == <<file, handle, db, writer, work, todo, parent, pending, call, iter>>

-----------------------------------------------------------------------------
(* Tables                                                                  *)

EmptyTable == [x \in {} |-> x]

EmptyImage ==
    [network_id |-> ZERO, genesis_hash |-> ZERO,
     head |-> [height |-> GENESIS, hash |-> ZERO], transaction_count |-> 0,
     blocks |-> EmptyTable, height_by_hash |-> EmptyTable,
     tx_location |-> EmptyTable]

Insert(table, key, value) ==
    [k \in DOMAIN table \cup {key} |-> IF k = key THEN value ELSE table[k]]

(* Fault: indices counted from 1.                                          *)
IndexIn_FromOne(txs, id) ==
    CHOOSE i \in DOMAIN txs :
        /\ txs[i].id = id
        /\ \A j \in DOMAIN txs : txs[j].id = id => j <= i

(* The last index an id has in a block; indices count from 0.              *)
IndexIn(txs, id) ==
    (CHOOSE i \in DOMAIN txs :
        /\ txs[i].id = id
        /\ \A j \in DOMAIN txs : txs[j].id = id => j <= i) - 1

InsertLocations(table, block) ==
    LET txs == block.transactions
    IN  [id \in DOMAIN table \cup TxIds(txs) |->
            IF id \in TxIds(txs)
            THEN [height |-> block.header.height, index |-> IndexIn(txs, id)]
            ELSE table[id]]

(* insert_block and the assignments to the head and the count after it.    *)
insert_block(image, block) ==
    [network_id |-> image.network_id, genesis_hash |-> image.genesis_hash,
     blocks |-> Insert(image.blocks, block.header.height, block),
     height_by_hash |->
        Insert(image.height_by_hash, HashOf(block), block.header.height),
     tx_location |-> InsertLocations(image.tx_location, block),
     head |-> [height |-> block.header.height, hash |-> HashOf(block)],
     transaction_count |-> image.transaction_count + Len(block.transactions)]

(* Fault: the lookup sees only what was committed before the batch.        *)
Committed_BeforeBatch(image, ids) == DOMAIN db.tx_location

(* CommittedTransactions: in the index, or inserted by this transaction.   *)
Committed(image, ids) == DOMAIN image.tx_location \cup ids

-----------------------------------------------------------------------------
(* Reading one image: what is found, nothing, or the Inconsistent error.   *)

Found(x) == <<"found", x>>
NotFound == <<"none">>
Inconsistent == <<"inconsistent">>

get_block(image, height) ==
    IF height \in DOMAIN image.blocks THEN Found(image.blocks[height])
    ELSE NotFound

get_block_by_hash(image, hash) ==
    IF hash \notin DOMAIN image.height_by_hash THEN NotFound
    ELSE IF image.height_by_hash[hash] \notin DOMAIN image.blocks
         THEN Inconsistent
         ELSE Found(image.blocks[image.height_by_hash[hash]])

get_transaction(image, id) ==
    IF id \notin DOMAIN image.tx_location THEN NotFound
    ELSE LET at == image.tx_location[id]
             txs == image.blocks[at.height].transactions
         IN  IF /\ at.height \in DOMAIN image.blocks
                /\ at.index + 1 \in DOMAIN txs
                /\ txs[at.index + 1].id = id
             THEN Found(at)
             ELSE Inconsistent

(* The checks of open: cheap, on the chain's own bookkeeping.              *)
check_consistency(image) ==
    /\ GENESIS \in DOMAIN image.blocks
    /\ HashOf(image.blocks[GENESIS]) = image.genesis_hash
    /\ image.blocks[GENESIS].header.network_id = image.network_id
    /\ image.head.height \in DOMAIN image.blocks
    /\ HashOf(image.blocks[image.head.height]) = image.head.hash

-----------------------------------------------------------------------------
Call(batch, result) == [batch |-> batch, result |-> result]
NoCall == Call(<< >>, "none")
Failed == Call(<< >>, "error")

(* A thread reading a range: the snapshot it reads, its bounds, the height *)
(* it reads next and the blocks it has yielded.                            *)
BlockRange(phase, snapshot, start, end, next, got) ==
    [phase |-> phase, snapshot |-> snapshot, start |-> start, end |-> end,
     next |-> next, got |-> got]
NoIter == BlockRange("none", EmptyTable, 0, 0, None, << >>)

Init ==
    /\ file = "absent"
    /\ handle = "closed"
    /\ db = EmptyImage
    /\ writer = None
    /\ work = EmptyImage
    /\ todo = << >>
    /\ parent = None
    /\ pending = {}
    /\ call = [t \in Thread |-> NoCall]
    /\ iter = [t \in Thread |-> NoIter]

(* init_genesis: the file must not exist; it is created, and only then is  *)
(* the genesis block validated and committed.                              *)
InitGenesis(genesis) ==
    /\ handle = "closed"
    /\ file = "absent"
    /\ file' = "empty"
    /\ handle' = "creating"
    /\ todo' = <<genesis>>
    /\ UNCHANGED <<db, writer, work, parent, pending, call, iter>>

GenesisImage(genesis) ==
    insert_block([EmptyImage EXCEPT !.network_id = genesis.header.network_id,
                                    !.genesis_hash = HashOf(genesis)],
                 genesis)

WriteGenesis ==
    /\ handle = "creating"
    /\ LET genesis == todo[1]
           findings == check_block(genesis.header.network_id, None, None, {},
                                   genesis)
       IN  \/ /\ findings = {}
              /\ db' = GenesisImage(genesis)
              /\ file' = "chain"
              /\ handle' = "open"
           \/ /\ findings # {}
              /\ handle' = "closed"
              /\ UNCHANGED <<db, file>>
    /\ todo' = << >>
    /\ UNCHANGED <<writer, work, parent, pending, call, iter>>

Open ==
    /\ handle = "closed"
    /\ file = "chain"
    /\ check_consistency(db)
    /\ handle' = "open"
    /\ UNCHANGED <<file, db, writer, work, todo, parent, pending, call, iter>>

(* The store is dropped by its owner, which no call may still be using.    *)
Close ==
    /\ handle = "open"
    /\ writer = None
    /\ \A t \in Thread : iter[t].phase = "none"
    /\ handle' = "closed"
    /\ UNCHANGED <<file, db, writer, work, todo, parent, pending, call, iter>>

(* The process dies: every transaction and every local of it is gone.      *)
(* What a finished call had reported stays reported.                       *)
Crash ==
    /\ handle # "closed"
    /\ handle' = "closed"
    /\ writer' = None
    /\ work' = EmptyImage
    /\ todo' = << >>
    /\ parent' = None
    /\ pending' = {}
    /\ call' = [t \in Thread |-> IF writer = Some(t)
                                 THEN Failed ELSE call[t]]
    /\ iter' = [t \in Thread |-> NoIter]
    /\ UNCHANGED disk

-----------------------------------------------------------------------------
(* append_blocks, one step per block of the batch.                         *)

Batches == UNION {[1..n -> Block] : n \in 1..BatchBound}

(* Fault: a second write transaction may begin.                            *)
BeginAppend_NoLock(t, batch) ==
    /\ handle = "open"
    /\ iter[t].phase = "none"
    /\ writer' = Some(t)
    /\ work' = db
    /\ todo' = batch
    /\ parent' = None
    /\ pending' = {}
    /\ call' = [call EXCEPT ![t] = Call(batch, "running")]
    /\ UNCHANGED <<file, db, handle, iter>>

BeginAppend(t, batch) ==
    /\ handle = "open"
    /\ writer = None
    /\ iter[t].phase = "none"
    /\ writer' = Some(t)
    /\ work' = db
    /\ todo' = batch
    /\ parent' = None
    /\ pending' = {}
    /\ call' = [call EXCEPT ![t] = Call(batch, "running")]
    /\ UNCHANGED <<file, db, handle, iter>>

Writing(t) == writer = Some(t) /\ todo # << >>
offered == Head(todo)

Release(t, outcome) ==
    /\ writer' = None
    /\ work' = EmptyImage
    /\ todo' = << >>
    /\ parent' = None
    /\ pending' = {}
    /\ call' = [call EXCEPT ![t] = outcome]
    /\ UNCHANGED <<file, handle, iter>>

(* The error returns drop the write transaction uncommitted.               *)
Abort(t) == Release(t, Failed) /\ UNCHANGED db

(* Fault: only the hash is compared.                                      *)
AlreadyPresent_ByHash(t) ==
    /\ Writing(t)
    /\ offered.header.height <= work.head.height
    /\ HashOf(work.blocks[offered.header.height]) = HashOf(offered)
    /\ todo' = Tail(todo)
    /\ UNCHANGED <<file, handle, db, writer, work, parent, pending, call, iter>>

AlreadyPresent(t) ==
    /\ Writing(t)
    /\ offered.header.height <= work.head.height
    /\ work.blocks[offered.header.height] = offered
    /\ todo' = Tail(todo)
    /\ UNCHANGED <<file, handle, db, writer, work, parent, pending, call, iter>>

ForkedHistory(t) ==
    /\ Writing(t)
    /\ offered.header.height <= work.head.height
    /\ work.blocks[offered.header.height] # offered
    /\ Abort(t)

NonContiguous(t) ==
    /\ Writing(t)
    /\ offered.header.height > work.head.height + 1
    /\ Abort(t)

(* The header the block must follow: cached from the previous insertion,   *)
(* else read from the block table.                                         *)
ParentHeader ==
    IF parent # None THEN parent
    ELSE Some(work.blocks[work.head.height].header)

Findings ==
    check_block(work.network_id, ParentHeader, None, Committed(work, pending),
                offered)

Refused(t) ==
    /\ Writing(t)
    /\ offered.header.height = work.head.height + 1
    /\ Findings # {}
    /\ Abort(t)

InsertBlock(t) ==
    /\ Writing(t)
    /\ offered.header.height = work.head.height + 1
    /\ Findings = {}
    /\ work' = insert_block(work, offered)
    /\ pending' = pending \cup TxIds(offered.transactions)
    /\ parent' = Some(offered.header)
    /\ todo' = Tail(todo)
    /\ UNCHANGED <<file, handle, db, writer, call, iter>>

(* Any database call may fail before the commit.                           *)
DatabaseError(t) ==
    /\ writer = Some(t)
    /\ Abort(t)

Commit(t) ==
    /\ writer = Some(t)
    /\ todo = << >>
    /\ db' = work
    /\ Release(t, Call(call[t].batch, "ok"))

-----------------------------------------------------------------------------
(* Reading a range: head() in one snapshot, iter_blocks(start, head) in a  *)
(* later one, then one block per call of next().                           *)

ReadHead(t) ==
    /\ handle = "open"
    /\ writer # Some(t)
    /\ iter[t].phase = "none"
    /\ iter' = [iter EXCEPT ![t] =
        BlockRange("head", EmptyTable, 0, db.head.height, None, << >>)]
    /\ UNCHANGED <<file, handle, db, writer, work, todo, parent, pending, call>>

iter_blocks(t, start) ==
    /\ iter[t].phase = "head"
    /\ iter' = [iter EXCEPT ![t] =
        BlockRange("reading", db.blocks, start, iter[t].end,
                   IF start <= iter[t].end THEN Some(start) ELSE None, << >>)]
    /\ UNCHANGED <<file, handle, db, writer, work, todo, parent, pending, call>>

(* Fault: the range is compared one height too late.                       *)
NextBlock_PastEnd(t) ==
    /\ iter[t].phase = "reading"
    /\ \E height \in iter[t].next :
          IF height \in DOMAIN iter[t].snapshot
          THEN iter' = [iter EXCEPT ![t] =
                   BlockRange("reading", iter[t].snapshot, iter[t].start, iter[t].end,
                              IF height > iter[t].end THEN None ELSE Some(height + 1),
                              Append(iter[t].got, iter[t].snapshot[height]))]
          ELSE iter' = [iter EXCEPT ![t] =
                   BlockRange("failed", iter[t].snapshot, iter[t].start, iter[t].end,
                              None, iter[t].got)]
    /\ UNCHANGED <<file, handle, db, writer, work, todo, parent, pending, call>>

NextBlock(t) ==
    /\ iter[t].phase = "reading"
    /\ \E height \in iter[t].next :
          IF height \in DOMAIN iter[t].snapshot
          THEN iter' = [iter EXCEPT ![t] =
                   BlockRange("reading", iter[t].snapshot, iter[t].start, iter[t].end,
                              IF height >= iter[t].end THEN None ELSE Some(height + 1),
                              Append(iter[t].got, iter[t].snapshot[height]))]
          ELSE iter' = [iter EXCEPT ![t] =
                   BlockRange("failed", iter[t].snapshot, iter[t].start, iter[t].end,
                              None, iter[t].got)]
    /\ UNCHANGED <<file, handle, db, writer, work, todo, parent, pending, call>>

DropRange(t) ==
    /\ iter[t].phase \in {"head", "reading", "failed"}
    /\ iter' = [iter EXCEPT ![t] = NoIter]
    /\ UNCHANGED <<file, handle, db, writer, work, todo, parent, pending, call>>

-----------------------------------------------------------------------------
Next ==
    \/ \E g \in Genesis : InitGenesis(g)
    \/ WriteGenesis
    \/ Open
    \/ Close
    \/ Crash
    \/ \E t \in Thread :
          \/ \E batch \in Batches : BeginAppend(t, batch)
          \/ AlreadyPresent(t)
          \/ ForkedHistory(t)
          \/ NonContiguous(t)
          \/ Refused(t)
          \/ InsertBlock(t)
          \/ DatabaseError(t)
          \/ Commit(t)
          \/ ReadHead(t)
          \/ \E start \in 0..(iter[t].end + 1) : iter_blocks(t, start)
          \/ NextBlock(t)
          \/ DropRange(t)

Spec == Init /\ [][Next]_vars

-----------------------------------------------------------------------------
(* Properties                                                              *)

Heights(image) == 0..image.head.height
IdsBelow(image, height) ==
    UNION {TxIds(image.blocks[h].transactions) : h \in 0..(height - 1)}

(* The variables have their types, and the threads' program counters agree *)
(* with the write lock: exactly its holder is inside append_blocks.        *)
TypeOK ==
    /\ file \in {"absent", "empty", "chain"}
    /\ handle \in {"closed", "creating", "open"}
    /\ writer \in {None} \cup {Some(t) : t \in Thread}
    /\ todo \in Seq(Block \cup Genesis)
    /\ handle = "open" => file = "chain"
    /\ handle = "creating" =>
          file = "empty" /\ \E g \in Genesis : todo = <<g>>
    /\ writer # None => handle = "open"
    /\ call \in [Thread -> [batch : {<< >>} \cup Batches,
                            result : {"none", "running", "ok", "error"}]]
    /\ \A t \in Thread : call[t].result = "running" <=> writer = Some(t)
    /\ DOMAIN iter = Thread
    /\ \A t \in Thread :
          /\ iter[t].phase \in {"none", "head", "reading", "failed"}
          /\ iter[t].phase # "none" => handle = "open"

(* The indexes say exactly what the block table says (insert_block), so    *)
(* get_block_by_hash and get_transaction find every committed block and    *)
(* transaction where it is and never report Inconsistent; and              *)
(* TRANSACTION_COUNT, kept up incrementally across batches, is the number  *)
(* of transactions on the chain.                                           *)
LookupsAgree ==
    file = "chain" =>
        /\ \A h \in Heights(db) :
              LET b == db.blocks[h]
              IN  /\ get_block(db, h) # NotFound
                  /\ get_block_by_hash(db, HashOf(b)) = Found(b)
                  /\ \A i \in DOMAIN b.transactions :
                        get_transaction(db, b.transactions[i].id)
                            = Found([height |-> h, index |-> i - 1])
        /\ \A hash \in DOMAIN db.height_by_hash :
              get_block_by_hash(db, hash) # Inconsistent
        /\ \A id \in DOMAIN db.tx_location :
              get_transaction(db, id) # Inconsistent
        /\ db.transaction_count = Cardinality(DOMAIN db.tx_location)

(* Every committed block still passes every rule of check_block against    *)
(* its committed parent and all transactions before it, although it was    *)
(* judged inside a batch against cached and pending state.                 *)
ChainValid ==
    file = "chain" =>
        \A h \in Heights(db) :
            check_block(db.network_id,
                        IF h = GENESIS THEN None ELSE Some(db.blocks[h - 1].header),
                        IF h = db.head.height THEN Some(db.head.hash) ELSE None,
                        IdsBelow(db, h), db.blocks[h]) = {}

(* A chain once created can be opened again, wherever the process died:    *)
(* the checks of open hold of every committed image.                       *)
Openable == file = "chain" => check_consistency(db)

(* What append_blocks reported as appended or present is on the chain, and *)
(* stays there through later batches and crashes.                          *)
Acknowledged ==
    \A t \in Thread :
        call[t].result = "ok" =>
            \A i \in DOMAIN call[t].batch :
                LET b == call[t].batch[i]
                IN  get_block(db, b.header.height) = Found(b)

(* A reader that took the head and then iterates up to it never misses a   *)
(* block, although appends run between the two snapshots and after: what   *)
(* it yields is a run of the committed chain.                              *)
RangeIsChain ==
    \A t \in Thread :
        /\ iter[t].phase # "failed"
        /\ \A i \in DOMAIN iter[t].got :
              /\ iter[t].start + i - 1 <= iter[t].end
              /\ get_block(db, iter[t].start + i - 1) = Found(iter[t].got[i])
        /\ (iter[t].phase = "reading" /\ iter[t].next = None
                /\ iter[t].start <= iter[t].end) =>
              Len(iter[t].got) = iter[t].end - iter[t].start + 1

(* No step of any thread, and no crash, changes or drops a committed block.*)
HistoryImmutable ==
    [][\A h \in DOMAIN db.blocks :
          /\ h \in DOMAIN db'.blocks
          /\ db'.blocks[h] = db.blocks[h]]_vars

(* The committed blocks as a sequence, and the promise they implement.     *)
chainView ==
    IF file = "chain"
    THEN [i \in 1..(db.head.height + 1) |-> db.blocks[i - 1]]
    ELSE << >>

Promise == INSTANCE Ledger WITH chain <- chainView, Block <- Block \cup Genesis

(* The store with its tables, lock, batches and crashes implements the     *)
(* append-only linked ledger.                                              *)
ImplementsLedger == Promise!Spec
=============================================================================
