---------------------------- MODULE ChainDocument ----------------------------
(***************************************************************************)
(* prunella-xml's documents: building one from a chain (export), writing   *)
(* it as XML (write_document), and the strict reader (read_document).      *)
(*                                                                         *)
(* A text is the tree of an XML document: the root's attributes, one       *)
(* record per block element, one per transaction element, and a payload as *)
(* the sequence of what stands between its tags.  A payload's bytes are a  *)
(* sequence of tokens that tell apart what the format does: an element,    *)
(* plain text, white space.  The producer's clock and the order of         *)
(* attributes are left out.                                                *)
(***************************************************************************)
EXTENDS BlockRules

CONSTANTS MAX_BLOCKS,                   \* blocks a document may carry
          MAX_TRANSACTIONS_PER_BLOCK    \* transactions one of its blocks may

ASSUME LimitAssumption ==
    /\ MAX_BLOCKS \in Nat \ {0}
    /\ MAX_TRANSACTIONS_PER_BLOCK \in Nat \ {0}

FORMAT_VERSION == 2
SUPPORTED_FORMAT_VERSIONS == {1, 2}
namespace_for_version(version) == <<"urn:prunella:chain", version>>

is_importable(kind) == kind \in {"full", "range"}
block_count(document) == Len(document.blocks)
BlocksOf(document) == [i \in DOMAIN document.blocks |-> document.blocks[i].block]

-----------------------------------------------------------------------------
(* Payloads                                                                *)

Element(x) == <<"element", x>>
Prose(x) == <<"text", x>>
Space == <<"space">>
base64(payload) == <<"base64", payload>>

(* Where something other than white space stands.                          *)
Solid(content) == {i \in DOMAIN content : content[i] # Space}

(* Fault: white space around the element is tolerated.                     *)
is_single_element_Trimmed(payload) ==
    \E i \in Solid(payload) : Solid(payload) = {i} /\ payload[i][1] = "element"

is_single_element(payload) == Len(payload) = 1 /\ payload[1][1] = "element"

choose(payload) == IF is_single_element(payload) THEN "xml" ELSE "base64"

write_payload(payload) ==
    IF payload = << >> THEN [encoding |-> None, content |-> << >>]
    ELSE [encoding |-> Some(choose(payload)),
          content |-> IF choose(payload) = "xml" THEN payload
                      ELSE <<base64(payload)>>]

(* The default is base64, and version 1 knows no encoding attribute.       *)
payload_encoding(version, element) ==
    IF element.encoding = None THEN Some("base64")
    ELSE IF version = 1 THEN None
    ELSE element.encoding \cap {"base64", "xml"}

(* Exactly one element, white space around it dropped, nothing beside it.  *)
nested_payload(content) ==
    {<<content[i]>> : i \in {j \in Solid(content) :
                                Solid(content) = {j} /\ content[j][1] = "element"}}

binary_text(content) ==
    IF Solid(content) = {} THEN Some(<< >>)
    ELSE {content[i][2] : i \in {j \in Solid(content) :
                                   Solid(content) = {j} /\ content[j][1] = "base64"}}

(* What the reader takes the payload to be: Some(bytes), or None if it     *)
(* refuses the element.                                                    *)
read_payload(version, element) ==
    UNION {IF e = "xml" THEN nested_payload(element.content)
           ELSE binary_text(element.content)
             : e \in payload_encoding(version, element)}

-----------------------------------------------------------------------------
(* Exporting                                                               *)

ExportFrom(request) == IF request.from = None THEN GENESIS
                       ELSE CHOOSE h \in request.from : TRUE
ExportTo(request, head) ==
    LET ends == request.to \cup {head.height}
    IN  CHOOSE h \in ends : \A g \in ends : h <= g

KindOf(request, head) ==
    IF request.namespace # None THEN "projection"
    ELSE IF ExportFrom(request) = GENESIS /\ ExportTo(request, head) = head.height
         THEN "full" ELSE "range"

(* A projection keeps the header, and of the transactions those of its     *)
(* namespace.                                                              *)
Projected(request, block) ==
    IF request.namespace = None THEN block
    ELSE LET InNamespace(tx) == tx.body.namespace \in request.namespace
         IN  [block EXCEPT !.transactions =
                Kept(@, {i \in DOMAIN @ : InNamespace(@[i])})]

export(source, head, request) ==
    LET from == ExportFrom(request)
        to == ExportTo(request, head)
        stored(i) == source.blocks[from + i - 1]
    IN  [format_version |-> FORMAT_VERSION, kind |-> KindOf(request, head),
         network_id |-> source.network_id, genesis_hash |-> source.genesis_hash,
         range_start |-> from, range_end |-> to,
         projection |-> request.namespace,
         blocks |-> [i \in 1..(to - from + 1) |->
                        [block |-> Projected(request, stored(i)),
                         declared_hash |-> HashOf(stored(i))]]]

-----------------------------------------------------------------------------
(* Writing                                                                 *)

render_transaction(index, tx) ==
    [index |-> index, id |-> tx.id, namespace |-> tx.body.namespace,
     nonce |-> tx.body.nonce, signature |-> tx.signed,
     payload |-> write_payload(tx.body.payload)]

render_block(entry, kind) ==
    LET header == entry.block.header
        txs == entry.block.transactions
    IN  [height |-> header.height, hash |-> entry.declared_hash,
         header |-> [version |-> header.version,
                     previous_hash |-> header.previous_hash,
                     tx_root |-> header.tx_root, tx_count |-> header.tx_count,
                     timestamp |-> header.timestamp],
         included_count |-> When(kind = "projection", Len(txs)),
         transactions |-> [i \in DOMAIN txs |-> render_transaction(i - 1, txs[i])]]

write_document(document) ==
    [namespace |-> namespace_for_version(FORMAT_VERSION),
     format_version |-> FORMAT_VERSION, kind |-> document.kind,
     network_id |-> document.network_id, genesis_hash |-> document.genesis_hash,
     range_start |-> document.range_start, range_end |-> document.range_end,
     block_count |-> block_count(document), projection |-> document.projection,
     blocks |-> [i \in DOMAIN document.blocks |->
                    render_block(document.blocks[i], document.kind)]]

-----------------------------------------------------------------------------
(* Reading: what must hold of a text, and the document it then yields.     *)

root_attributes(text) ==
    /\ text.format_version \in SUPPORTED_FORMAT_VERSIONS
    /\ text.range_start <= text.range_end
    /\ text.block_count = text.range_end - text.range_start + 1
    /\ text.block_count <= MAX_BLOCKS

transaction_readable(version, element, expected_index) ==
    /\ element.index = expected_index
    /\ read_payload(version, element.payload) # None

block_readable(version, element) ==
    /\ Len(element.transactions) <= MAX_TRANSACTIONS_PER_BLOCK
    /\ \A i \in DOMAIN element.transactions :
          transaction_readable(version, element.transactions[i], i - 1)

Contiguous(text) ==
    \A i \in DOMAIN text.blocks :
        i > 1 => text.blocks[i].height = text.blocks[i - 1].height + 1

finish(text) ==
    /\ text.kind = "projection" <=> text.projection # None
    /\ text.blocks # << >>
    /\ text.blocks[1].height = text.range_start
    /\ text.blocks[Len(text.blocks)].height = text.range_end
    /\ text.kind = "full" => text.blocks[1].height = GENESIS

Readable(text) ==
    /\ root_attributes(text)
    /\ text.namespace = namespace_for_version(text.format_version)
    /\ Len(text.blocks) <= MAX_BLOCKS
    /\ \A i \in DOMAIN text.blocks :
          block_readable(text.format_version, text.blocks[i])
    /\ Contiguous(text)
    /\ finish(text)

read_transaction(version, element) ==
    [id |-> element.id, signed |-> element.signature,
     body |-> [namespace |-> element.namespace, nonce |-> element.nonce,
               payload |-> CHOOSE p \in read_payload(version, element.payload) : TRUE]]

(* A header's network is the document's, its height the block element's.   *)
read_header(network, element) ==
    [version |-> element.header.version, network_id |-> network,
     height |-> element.height, previous_hash |-> element.header.previous_hash,
     tx_root |-> element.header.tx_root, tx_count |-> element.header.tx_count,
     timestamp |-> element.header.timestamp]

read_document(text) ==
    [format_version |-> text.format_version, kind |-> text.kind,
     network_id |-> text.network_id, genesis_hash |-> text.genesis_hash,
     range_start |-> text.range_start, range_end |-> text.range_end,
     projection |-> text.projection,
     blocks |-> [i \in DOMAIN text.blocks |->
        LET element == text.blocks[i]
        IN  [block |->
                [header |-> read_header(text.network_id, element),
                 transactions |-> [j \in DOMAIN element.transactions |->
                    read_transaction(text.format_version, element.transactions[j])]],
             declared_hash |-> element.hash]]]
=============================================================================
