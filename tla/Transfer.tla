------------------------------- MODULE Transfer -------------------------------
(***************************************************************************)
(* Moving a chain between stores: prunella-xml's export, plan_import,      *)
(* import and restore, as the commands export, import, import --dry-run    *)
(* and import --create of prunella-cli run them.                           *)
(*                                                                         *)
(* The source chain grows while it is exported, and its file may be        *)
(* damaged.  The document is a file: it may be reformatted, or altered in  *)
(* one place, before it is read.  The target may be appended to by others  *)
(* between the steps of an import, and the importing process may die       *)
(* between any two of them.  append_blocks is one atomic step here; that   *)
(* it is one is what module ChainStore shows.                              *)
(***************************************************************************)
EXTENDS ChainDocument, ChainVerify

CONSTANTS Founding,         \* the genesis block of the source chain
          SourceTxs,        \* transaction lists appended to the source
          LocalTxs,         \* transaction lists appended to the target
          Requests,         \* what export is asked for
          Damages,          \* blocks that may turn up in the source's file
          Now,              \* the clock of the appending commands
          MaxHeight,        \* bound on the height of either chain
          MaxExports        \* bound on the documents written

(* What a store creates is a genesis block its rules accept.               *)
ASSUME FoundingAssumption ==
    /\ IsBlock(Founding)
    /\ check_block(Founding.header.network_id, None, None, {}, Founding) = {}
ASSUME SourceAssumption ==
    /\ \A txs \in SourceTxs : IsList(txs) /\ \A i \in DOMAIN txs : IsTransaction(txs[i])
    /\ \A b \in Damages : IsBlock(b)
ASSUME RequestAssumption ==
    \A request \in Requests :
        /\ \A h \in request.from : h \in Nat /\ request.from = Some(h)
        /\ \A h \in request.to : h \in Nat /\ request.to = Some(h)
ASSUME BoundAssumption == MaxHeight \in Nat /\ MaxExports \in Nat

VARIABLES source,       \* the image of the source store
          honest,       \* its blocks as they were committed
          exporter,     \* the head an export has read, and its request
          exports,      \* how many documents were written
          text,         \* the document file, if there is one
          sent,         \* what is known of it: see Sent
          path,         \* the target's path: "absent", "empty" or "chain"
          target,       \* the image of the target store
          importer,     \* the running import command
          result,       \* what the last one reported
          applied       \* the document applied last, if any

sourceVars == <<source, honest, exporter, exports>>
fileVars == <<text, sent>>
targetVars == <<path, target>>
transferVars == <<source, honest, exporter, exports, text, sent, path, target,
                  importer, result, applied>>

-----------------------------------------------------------------------------
(* A store as the transfer sees it.                                        *)

NoChain == [network_id |-> ZERO, genesis_hash |-> ZERO,
            head |-> [height |-> GENESIS, hash |-> ZERO],
            blocks |-> [h \in {} |-> h], ids |-> {}]

Extended(image, block) ==
    [network_id |-> image.network_id, genesis_hash |-> image.genesis_hash,
     head |-> [height |-> block.header.height, hash |-> HashOf(block)],
     blocks |-> [h \in DOMAIN image.blocks \cup {block.header.height} |->
                    IF h = block.header.height THEN block ELSE image.blocks[h]],
     ids |-> image.ids \cup TxIds(block.transactions)]

Founded(genesis) ==
    Extended([NoChain EXCEPT !.network_id = genesis.header.network_id,
                             !.genesis_hash = HashOf(genesis)], genesis)

(* One block of a batch: present, refused, or appended.                    *)
AppendOne(outcome, block) ==
    LET image == outcome.image
        height == block.header.height
        head == image.head.height
    IN  IF ~outcome.ok THEN outcome
        ELSE IF height <= head /\ image.blocks[height] = block THEN outcome
        ELSE IF /\ height = head + 1
                /\ check_block(image.network_id, Some(image.blocks[head].header),
                               None, image.ids, block) = {}
             THEN [ok |-> TRUE, image |-> Extended(image, block),
                   appended |-> outcome.appended + 1]
        ELSE [outcome EXCEPT !.ok = FALSE]

append_blocks(image, blocks) ==
    LET after[n \in 0..Len(blocks)] ==
            IF n = 0 THEN [ok |-> TRUE, image |-> image, appended |-> 0]
            ELSE AppendOne(after[n - 1], blocks[n])
    IN  after[Len(blocks)]

-----------------------------------------------------------------------------
(* Importing                                                               *)

check_document_identity(image, document) ==
    When(~is_importable(document.kind), "NotImportable")
    \cup When(document.network_id # image.network_id, "NetworkMismatch")
    \cup When(document.genesis_hash # image.genesis_hash, "GenesisMismatch")

(* Fault: what the document declares is not compared with its contents.    *)
check_declared_hashes_Trusting(document) == {}

check_declared_hashes(document) ==
    When(\E i \in DOMAIN document.blocks :
            HashOf(document.blocks[i].block) # document.blocks[i].declared_hash,
         "DeclaredHashMismatch")

(* Fault: the run's own ids are not looked at.                             *)
PendingAware_Committed(image, run, i) == image.ids

(* Committed ids, and those the run has added so far.                      *)
PendingAware(image, run, i) ==
    image.ids \cup UNION {TxIds(run[j].transactions) : j \in 1..(i - 1)}

validate_run(image, run) ==
    UNION {check_block(image.network_id,
                       Some(IF i = 1 THEN image.blocks[image.head.height].header
                            ELSE run[i - 1].header),
                       None, PendingAware(image, run, i), run[i])
             : i \in DOMAIN run}

(* Fault: the head's own block counted among the new ones.                 *)
ToAppend_FromHead(image, document) ==
    LET blocks == BlocksOf(document)
    IN  Kept(blocks, {i \in DOMAIN blocks :
                        blocks[i].header.height >= image.head.height})

ToAppend(image, document) ==
    LET blocks == BlocksOf(document)
    IN  Kept(blocks, {i \in DOMAIN blocks :
                        blocks[i].header.height > image.head.height})

(* The reasons plan_import refuses a document; none means the plan passed. *)
plan_import(image, document) ==
    LET blocks == BlocksOf(document)
        run == ToAppend(image, document)
        identity == check_document_identity(image, document)
                    \cup check_declared_hashes(document)
        forks == {i \in DOMAIN blocks :
                    /\ blocks[i].header.height <= image.head.height
                    /\ image.blocks[blocks[i].header.height] # blocks[i]}
    IN  IF identity # {} THEN identity
        ELSE IF forks # {} THEN {"Fork"}
        ELSE IF run = << >> THEN {}
        ELSE IF run[1].header.height # image.head.height + 1 THEN {"Gap"}
        ELSE validate_run(image, run)

(* The head a passed plan promises.                                        *)
resulting_head(image, document) ==
    LET run == ToAppend(image, document)
    IN  IF run = << >> THEN image.head
        ELSE [height |-> run[Len(run)].header.height, hash |-> HashOf(run[Len(run)])]

(* The genesis block restore rebuilds from the document's first block.     *)
Rebuilt(document) ==
    LET first == document.blocks[1].block
    IN  GenesisBlock(first.header.network_id, first.header.timestamp,
                     first.transactions)

NotRestorable(document) ==
    \/ document.kind # "full"
    \/ document.blocks[1].block.header.height # GENESIS
    \/ HashOf(Rebuilt(document)) # document.genesis_hash

-----------------------------------------------------------------------------
NotExporting == [phase |-> "idle", head |-> None, request |-> None]

(* What is known of a document file: the blocks its export read, whether   *)
(* the source verified clean then, and what happened to the file since.    *)
Sent(document, clean) ==
    [kind |-> document.kind, blocks |-> BlocksOf(document), clean |-> clean,
     altered |-> FALSE, reformatted |-> FALSE]
NothingSent == [kind |-> "none", blocks |-> << >>, clean |-> FALSE,
                altered |-> FALSE, reformatted |-> FALSE]

Idle == [command |-> "none", phase |-> "idle", document |-> None,
         origin |-> NothingSent]
NoResult == [command |-> "none", outcome |-> "none", why |-> {},
             document |-> None, origin |-> NothingSent]

(* The target is a free path, or a chain of the same genesis.              *)
TransferInit ==
    /\ source = Founded(Founding)
    /\ honest = source.blocks
    /\ exporter = NotExporting
    /\ exports = 0
    /\ text = None
    /\ sent = NothingSent
    /\ \/ path = "absent" /\ target = NoChain
       \/ path = "chain" /\ target = Founded(Founding)
    /\ importer = Idle
    /\ result = NoResult
    /\ applied = None

-----------------------------------------------------------------------------
(* The command append: a block on the head, no earlier than its parent.    *)

NewBlock(image, txs, now) ==
    LET head == image.blocks[image.head.height].header
    IN  ChildBlock(head, txs, IF now > head.timestamp THEN now ELSE head.timestamp)

Append1(image, txs, now) ==
    append_blocks(image, <<NewBlock(image, txs, now)>>)

Damaged == source.blocks # honest

(* Bound: the source does not grow once it is damaged, nor after the last  *)
(* export, when nobody reads it any more.                                  *)
SourceAppend(txs, now) ==
    /\ ~Damaged
    /\ exports < MaxExports
    /\ source.head.height < MaxHeight
    /\ LET outcome == Append1(source, txs, now)
       IN  /\ outcome.ok
           /\ source' = outcome.image
           /\ honest' = outcome.image.blocks
    /\ UNCHANGED <<exporter, exports, fileVars, targetVars, importer, result, applied>>

(* No one else has the store while restore holds it.                       *)
TargetAppend(txs, now) ==
    /\ path = "chain"
    /\ importer.command # "create"
    /\ target.head.height < MaxHeight
    /\ LET outcome == Append1(target, txs, now)
       IN  outcome.ok /\ target' = outcome.image
    /\ UNCHANGED <<sourceVars, fileVars, path, importer, result, applied>>

(* The source's file comes to hold another block, or none, at a height;    *)
(* the recorded head may have been rewritten with it.  Bound: once, before *)
(* the last export.                                                        *)
Damage(height) ==
    /\ ~Damaged
    /\ exports < MaxExports
    /\ height \in DOMAIN source.blocks
    /\ \/ source' = [source EXCEPT !.blocks =
                        [h \in DOMAIN @ \ {height} |-> @[h]]]
       \/ \E b \in Damages :
             /\ b.header.height = height
             /\ b # source.blocks[height]
             /\ \/ source' = [source EXCEPT !.blocks[height] = b]
                \/ /\ height = source.head.height
                   /\ source' = [source EXCEPT
                                    !.blocks[height] = b,
                                    !.head = [height |-> height, hash |-> HashOf(b)]]
    /\ UNCHANGED <<honest, exporter, exports, fileVars, targetVars, importer,
                   result, applied>>

-----------------------------------------------------------------------------
(* export: the head in one snapshot, the blocks in a later one.            *)

BeginExport(request) ==
    /\ exporter.phase = "idle"
    /\ exports < MaxExports
    /\ ExportFrom(request) <= ExportTo(request, source.head)
    /\ exporter' = [phase |-> "head", head |-> Some(source.head),
                    request |-> Some(request)]
    /\ UNCHANGED <<source, honest, exports, fileVars, targetVars, importer,
                   result, applied>>

(* A height of the range that cannot be read fails the export.             *)
FinishExport ==
    /\ exporter.phase = "head"
    /\ \E head \in exporter.head, request \in exporter.request :
          IF ExportFrom(request)..ExportTo(request, head) \subseteq DOMAIN source.blocks
          THEN LET document == export(source, head, request)
               IN  /\ text' = Some(write_document(document))
                   /\ sent' = Sent(document,
                                   verify_chain(source, GENESIS, None) = {})
                   /\ exports' = exports + 1
          ELSE UNCHANGED <<text, sent, exports>>
    /\ exporter' = NotExporting
    /\ UNCHANGED <<source, honest, targetVars, importer, result, applied>>

-----------------------------------------------------------------------------
(* The document file on its way.                                           *)

Spaced(element) ==
    IF element.content = << >> THEN element
    ELSE [element EXCEPT !.content = <<Space>> \o @ \o <<Space>>]

(* White space added around every payload, as an XML formatter does.       *)
SpacedBlock(b) ==
    LET elements == b.transactions
    IN  [b EXCEPT !.transactions =
            [j \in DOMAIN elements |->
                [elements[j] EXCEPT !.payload = Spaced(elements[j].payload)]]]

Reformatted(t) ==
    [t EXCEPT !.blocks = [i \in DOMAIN t.blocks |-> SpacedBlock(t.blocks[i])]]

Reformat ==
    /\ ~sent.reformatted
    /\ ~sent.altered
    /\ importer.phase = "idle"
    /\ \E t \in text : text' = Some(Reformatted(t))
    /\ sent' = [sent EXCEPT !.reformatted = TRUE]
    /\ UNCHANGED <<sourceVars, targetVars, importer, result, applied>>

WithBlocks(t, blocks) ==
    [t EXCEPT !.blocks = blocks, !.block_count = Len(blocks)]

AlteredRoot(t) ==
    {[t EXCEPT !.kind = k] : k \in {"full", "range", "projection"}}
    \cup {[t EXCEPT !.kind = k, !.projection = None] : k \in {"full", "range"}}
    \cup {[t EXCEPT !.network_id = "elsewhere"],
          [t EXCEPT !.genesis_hash = ZERO],
          [t EXCEPT !.format_version = 1, !.namespace = namespace_for_version(1)],
          [t EXCEPT !.format_version = 3],
          [t EXCEPT !.block_count = @ + 1],
          [t EXCEPT !.range_end = @ + 1, !.block_count = @ + 1]}

Without(s, i) ==
    [k \in 1..(Len(s) - 1) |-> IF k < i THEN s[k] ELSE s[k + 1]]

(* A block lost, with the declarations as they were or made to agree.      *)
AlteredRun(t) ==
    LET n == Len(t.blocks)
    IN  {[t EXCEPT !.blocks = Without(@, i)] : i \in DOMAIN t.blocks}
        \cup {WithBlocks([t EXCEPT !.range_end = @ - 1], Without(t.blocks, n))
                : k \in When(n > 1, n)}
        \cup {WithBlocks([t EXCEPT !.range_start = @ + 1], Without(t.blocks, 1))
                : k \in When(n > 1, n)}

AlteredTransaction(e) ==
    {[e EXCEPT !.id = ZERO], [e EXCEPT !.index = @ + 1],
     [e EXCEPT !.payload.content = @ \o <<Prose("more")>>, !.signature = FALSE],
     [e EXCEPT !.payload.content = <<Element("other")>>, !.signature = FALSE],
     [e EXCEPT !.payload = [encoding |-> Some("base64"), content |-> <<base64(<<Prose("other")>>)>>],
               !.signature = FALSE]}

AlteredHeader(h) ==
    {[h EXCEPT !.timestamp = @ + 1], [h EXCEPT !.previous_hash = <<"other">>],
     [h EXCEPT !.tx_count = @ + 1]}

AlteredTransactions(txs) ==
    {Without(txs, Len(txs)) : k \in When(txs # << >>, 0)}
    \cup UNION {{[txs EXCEPT ![j] = e] : e \in AlteredTransaction(txs[j])}
                  : j \in DOMAIN txs}

AlteredBlock(b) ==
    {[b EXCEPT !.hash = ZERO], [b EXCEPT !.height = @ + 1]}
    \cup {[b EXCEPT !.header = h] : h \in AlteredHeader(b.header)}
    \cup {[b EXCEPT !.transactions = txs] : txs \in AlteredTransactions(b.transactions)}

Altered(t) ==
    AlteredRoot(t) \cup AlteredRun(t)
    \cup UNION {{[t EXCEPT !.blocks[i] = b] : b \in AlteredBlock(t.blocks[i])}
                  : i \in DOMAIN t.blocks}

(* Bound: one change to a file, its layout or its contents.                *)
Alter ==
    /\ ~sent.altered
    /\ ~sent.reformatted
    /\ ~Damaged
    /\ importer.phase = "idle"
    /\ \E t \in text : \E other \in Altered(t) :
          other # t /\ text' = Some(other)
    /\ sent' = [sent EXCEPT !.altered = TRUE]
    /\ UNCHANGED <<sourceVars, targetVars, importer, result, applied>>

-----------------------------------------------------------------------------
(* The import command                                                      *)

Report(outcome, why) ==
    /\ importer' = Idle
    /\ result' = [command |-> importer.command, outcome |-> outcome, why |-> why,
                  document |-> importer.document, origin |-> importer.origin]

Proceed(phase) ==
    /\ importer' = [importer EXCEPT !.phase = phase]
    /\ UNCHANGED result

(* The file is read and parsed before anything is opened.                  *)
ReadDocument(command) ==
    /\ importer.phase = "idle"
    /\ \E t \in text :
          IF Readable(t)
          THEN /\ importer' = [command |-> command, phase |-> "read",
                               document |-> Some(read_document(t)), origin |-> sent]
               /\ result' = NoResult
          ELSE /\ importer' = Idle
               /\ result' = [command |-> command, outcome |-> "refused",
                             why |-> {"Malformed"}, document |-> None, origin |-> sent]
    /\ UNCHANGED <<sourceVars, fileVars, targetVars, applied>>

(* restore: the document must be able to found a chain, the path be free.  *)
RestoreCreates ==
    /\ importer.phase = "read"
    /\ importer.command = "create"
    /\ \E document \in importer.document :
          IF NotRestorable(document)
          THEN Report("refused", {"NotRestorable"}) /\ UNCHANGED path
          ELSE IF path # "absent"
          THEN Report("refused", {"AlreadyExists"}) /\ UNCHANGED path
          ELSE Proceed("creating") /\ path' = "empty"
    /\ UNCHANGED <<sourceVars, fileVars, target, applied>>

RestoreFounds ==
    /\ importer.phase = "creating"
    /\ \E document \in importer.document :
          LET genesis == Rebuilt(document)
              findings == check_block(genesis.header.network_id, None, None, {},
                                      genesis)
          IN  IF findings = {}
              THEN /\ path' = "chain"
                   /\ target' = Founded(genesis)
                   /\ Proceed("open")
              ELSE Report("refused", findings) /\ UNCHANGED targetVars
    /\ UNCHANGED <<sourceVars, fileVars, applied>>

OpenTarget ==
    /\ importer.phase = "read"
    /\ importer.command # "create"
    /\ IF path = "chain" THEN Proceed("open") ELSE Report("refused", {"NotAChain"})
    /\ UNCHANGED <<sourceVars, fileVars, targetVars, applied>>

(* A dry run stops at the plan.                                            *)
Plan ==
    /\ importer.phase = "open"
    /\ \E document \in importer.document :
          LET why == plan_import(target, document)
          IN  IF why # {} THEN Report("refused", why)
              ELSE IF importer.command = "dry-run" THEN Report("passed", {})
              ELSE Proceed("planned")
    /\ UNCHANGED <<sourceVars, fileVars, targetVars, applied>>

(* Fault: a refusal of the store is retried for ever.                      *)
ImportBlocks_Insistent ==
    /\ importer.phase = "planned"
    /\ \E document \in importer.document :
          LET outcome == append_blocks(target, BlocksOf(document))
          IN  /\ outcome.ok
              /\ Report("ok", {})
              /\ target' = outcome.image
              /\ applied' = Some(document)
    /\ UNCHANGED <<sourceVars, fileVars, path>>

ImportBlocks ==
    /\ importer.phase = "planned"
    /\ \E document \in importer.document :
          LET outcome == append_blocks(target, BlocksOf(document))
          IN  IF outcome.ok
              THEN /\ Report("ok", {})
                   /\ target' = outcome.image
                   /\ applied' = Some(document)
              ELSE Report("refused", {"Store"}) /\ UNCHANGED <<target, applied>>
    /\ UNCHANGED <<sourceVars, fileVars, path>>

(* The importing process dies; what it committed stays.                    *)
ImporterDies ==
    /\ importer.phase # "idle"
    /\ Report("crashed", {})
    /\ UNCHANGED <<sourceVars, fileVars, targetVars, applied>>

ImporterStep ==
    RestoreCreates \/ RestoreFounds \/ OpenTarget \/ Plan \/ ImportBlocks

TransferNext ==
    \/ \E txs \in SourceTxs : SourceAppend(txs, Now)
    \/ \E txs \in LocalTxs : TargetAppend(txs, Now)
    \/ \E h \in 0..MaxHeight : Damage(h)
    \/ \E request \in Requests : BeginExport(request)
    \/ FinishExport
    \/ Reformat
    \/ Alter
    \/ \E command \in {"import", "dry-run", "create"} : ReadDocument(command)
    \/ ImporterStep
    \/ ImporterDies

TransferSpec == TransferInit /\ [][TransferNext]_transferVars

(* A command that is running takes its steps; nobody is bound to start one.*)
FairSpec == TransferSpec /\ WF_transferVars(ImporterStep)

-----------------------------------------------------------------------------
(* Properties                                                              *)

(* A dry run that passes promises the import (import.rs): whatever plan    *)
(* accepts against the chain as it is, append_blocks accepts, and arrives  *)
(* at the head the plan announced.                                         *)
DryRunHonest ==
    (importer.phase \in {"open", "planned"}) =>
        \A document \in importer.document :
            plan_import(target, document) = {} =>
                LET outcome == append_blocks(target, BlocksOf(document))
                IN  /\ outcome.ok
                    /\ outcome.image.head = resulting_head(target, document)
                    /\ outcome.appended = Len(ToAppend(target, document))

IsBackup(origin) ==
    /\ origin.kind = "full"
    /\ origin.clean
    /\ ~origin.altered
    /\ Len(origin.blocks) <= MAX_BLOCKS
    /\ \A i \in DOMAIN origin.blocks :
          Len(origin.blocks[i].transactions) <= MAX_TRANSACTIONS_PER_BLOCK

(* A full export of a chain that verifies is a backup: however the chain   *)
(* grew meanwhile and the file was laid out, import --create never refuses *)
(* it on a free path, and what it founds is the exported chain; a restore  *)
(* that died once its genesis was written is finished by a plain import.   *)
BackupRestores ==
    (IsBackup(result.origin) /\ result.command = "create") =>
        /\ result.outcome = "refused" => result.why = {"AlreadyExists"}
        /\ result.outcome = "ok" =>
              \A h \in 0..(Len(result.origin.blocks) - 1) :
                  target.blocks[h] = result.origin.blocks[h + 1]
        /\ (result.outcome = "crashed" /\ path = "chain" /\ target.head.height = GENESIS) =>
              \A document \in result.document : plan_import(target, document) = {}

(* No single alteration of a document reaches a chain: an import that      *)
(* succeeds applied blocks the export had read, although blocks are not    *)
(* signed and the kind, the range and the payloads are only text.          *)
AlteredNeverApplied ==
    result.outcome = "ok" =>
        \A document \in result.document :
            \A i \in DOMAIN document.blocks :
                \E k \in DOMAIN result.origin.blocks :
                    document.blocks[i].block = result.origin.blocks[k]

(* Re-importing an applied document is a no-op, and stays one while the    *)
(* chain grows.                                                            *)
ReimportIsNoOp ==
    \A document \in applied :
        /\ plan_import(target, document) = {}
        /\ ToAppend(target, document) = << >>

(* The head is the anchor: a chain that verify_chain finds clean and whose *)
(* head is the one once recorded holds exactly the blocks committed below  *)
(* it, whichever block of the file was replaced.                           *)
HeadIsTheAnchor ==
    (/\ verify_chain(source, GENESIS, None) = {}
     /\ source.head.hash = HashOf(honest[source.head.height])) => ~Damaged

(* Verifying adjacent ranges says what verifying the whole does, except    *)
(* for an id repeated across them, which only the whole walk can see.      *)
RangesMeanWhole ==
    LET ids(from, to) == UNION {TxIds(source.blocks[h].transactions)
                                  : h \in (from..to) \cap DOMAIN source.blocks}
    IN  \A k \in 1..source.head.height :
            (verify_chain(source, GENESIS, None) = {}) <=>
                /\ verify_chain(source, GENESIS, Some(k - 1)) = {}
                /\ verify_chain(source, k, None) = {}
                /\ ids(GENESIS, k - 1) \cap ids(k, source.head.height) = {}

(* Every import command comes to an end, whatever happens to the chain     *)
(* between its steps.                                                      *)
CommandsEnd == importer.phase # "idle" ~> importer.phase = "idle"

=============================================================================
