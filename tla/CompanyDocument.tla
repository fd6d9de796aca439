--------------------------- MODULE CompanyDocument ---------------------------
(***************************************************************************)
(* irena-core: company documents as they are read, and the record that     *)
(* carries one on the ledger.                                              *)
(*                                                                         *)
(* A body document is a prolog and an element (RulesDocument).  A person's *)
(* or a channel's id, a key and a number are values; a text that is not    *)
(* one is any value outside Person, ChannelId, Key or U64.  Rows are       *)
(* sorted by id when they are read, so a table is a function.              *)
(***************************************************************************)
EXTENDS CompanyRecords, RulesDocument

CONSTANTS ChannelId,                \* the channel ids documents use
          MAX_HOLDERS, MAX_MEMBERS, MAX_CHANNELS, MAX_PERSONS,
          Blank, Lined, Spaced      \* texts: white space, one with a line break,
                                    \* and that one with a space for the break

(* A list of rows of one name, and no more of them than the limit.         *)
IsListOf(e, name, limit) ==
    /\ HasAttributes(e, {}, {})
    /\ ChildNames(e) \subseteq {name}
    /\ Len(e.children) <= limit
Unlimited(e) == Len(e.children)

Rows(e) == {e.children[i] : i \in DOMAIN e.children}
Ids(e) == {row.attributes.id : row \in Rows(e)}
DistinctIds(e) == Cardinality(Ids(e)) = Len(e.children)
RowWith(e, id) == CHOOSE row \in Rows(e) : row.attributes.id = id

Optional(row, name, default) ==
    IF name \in DOMAIN row.attributes THEN row.attributes[name] ELSE default

(* What ShareStructureV1::new and RosterV1::new ask of holdings and seats. *)
ValidWeights(weights) ==
    /\ \A id \in DOMAIN weights : weights[id] # 0
    /\ MapThenSumSet(LAMBDA id : weights[id], DOMAIN weights) \in U64

-----------------------------------------------------------------------------
(* The five parts                                                          *)

parse_identity(e) ==
    IF /\ IsRow(e, "identity", {"name"}, {"jurisdiction", "registered-number"})
       /\ e.attributes.name # Blank
    THEN Read(e.attributes.name) ELSE Nothing

Shares(e) == [id \in Ids(e) |-> RowWith(e, id).attributes.shares]
parse_share_structure(e) ==
    IF /\ IsListOf(e, "holder", MAX_HOLDERS)
       /\ \A row \in Rows(e) :
             /\ IsRow(row, "holder", {"id", "shares"}, {"name"})
             /\ row.attributes.id \in Person
             /\ row.attributes.shares \in U64
       /\ DistinctIds(e)
       /\ ValidWeights(Shares(e))
    THEN Read(Shares(e)) ELSE Nothing

KeyOf(row) == IF "key" \in DOMAIN row.attributes THEN Some(row.attributes.key) ELSE None
Keys(e) == [id \in Ids(e) |-> KeyOf(RowWith(e, id))]
parse_identities(e) ==
    IF /\ IsListOf(e, "person", MAX_PERSONS)
       /\ \A row \in Rows(e) :
             /\ IsRow(row, "person", {"id"}, {"name", "document-id", "key"})
             /\ row.attributes.id \in Person
             /\ KeyOf(row) \subseteq Key
       /\ DistinctIds(e)
       /\ ValidIdentities(Keys(e))
    THEN Read(Keys(e)) ELSE Nothing

SignerRow(row) == <<row.attributes.person, row.attributes.records>>
parse_authorisation(e) ==
    IF /\ IsListOf(e, "signer", Unlimited(e))
       /\ \A row \in Rows(e) :
             /\ IsRow(row, "signer", {"person", "records"}, {})
             /\ row.attributes.person \in Person
             /\ row.attributes.records \in Family
       /\ Cardinality({SignerRow(row) : row \in Rows(e)}) = Len(e.children)
       /\ ValidAuthorisation({SignerRow(row) : row \in Rows(e)})
    THEN Read({SignerRow(row) : row \in Rows(e)}) ELSE Nothing

-----------------------------------------------------------------------------
(* Decision channels                                                       *)

Weight(row) == Optional(row, "weight", 1)
Weights(e) == [id \in Ids(e) |-> Weight(RowWith(e, id))]

(* <actors>: nobody for the share register, somebody for a roster.         *)
parse_actors(e) ==
    LET source == Optional(e, "source", Blank)
    IN  IF /\ HasAttributes(e, {"source"}, {})
           /\ source \in {"share-register", "roster"}
           /\ ChildNames(e) \subseteq {"member"}
           /\ Len(e.children) <= MAX_MEMBERS
           /\ \A row \in Rows(e) :
                 /\ IsRow(row, "member", {"id"}, {"name", "weight"})
                 /\ row.attributes.id \in Person
                 /\ Weight(row) \in U64
           /\ e.children # << >> <=> source = "roster"
           /\ DistinctIds(e)
           /\ ValidWeights(Weights(e))
        THEN Read(Weights(e)) ELSE Nothing

(* <scope>: distinct parts, at least one, no genesis; without a <scope>    *)
(* the channel amends nothing.                                             *)
AmendedPart(row) == row.attributes.part
parse_scope(e) ==
    IF /\ HasAttributes(e, {}, {})
       /\ e.children # << >>
       /\ \A row \in Rows(e) :
             IsRow(row, "amend", {"part"}, {}) /\ row.attributes.part \in Part
       /\ Cardinality({AmendedPart(row) : row \in Rows(e)}) = Len(e.children)
    THEN Read({AmendedPart(row) : row \in Rows(e)}) ELSE Nothing

NoRules == [rule \in {} |-> {}]

ScopeOf(e) ==
    IF Occurs(e, "scope") = 0 THEN Read({}) ELSE parse_scope(Child(e, "scope"))
RulesOf(e) ==
    IF Occurs(e, "voting-rules") = 0 THEN Read(NoRules)
    ELSE parse_voting_rules(Child(e, "voting-rules"))

(* Rules for a collective channel, and only for one.                       *)
parse_channel(e) ==
    IF /\ e.name = "channel" /\ HasAttributes(e, {"id", "mode"}, {})
       /\ e.attributes.id \in ChannelId
       /\ e.attributes.mode \in {"individual", "collective"}
       /\ ChildNames(e) \subseteq {"actors", "scope", "voting-rules"}
       /\ Occurs(e, "actors") = 1
       /\ Occurs(e, "scope") <= 1
       /\ Occurs(e, "voting-rules") = (IF e.attributes.mode = "collective" THEN 1 ELSE 0)
    THEN {[individual |-> e.attributes.mode = "individual", roster |-> roster,
           scope |-> scope, rules |-> rules] :
            roster \in parse_actors(Child(e, "actors")),
            scope \in ScopeOf(e), rules \in RulesOf(e)}
    ELSE Nothing

ChannelRead(row) == CHOOSE channel \in parse_channel(row) : TRUE
parse_decision_channels(e) ==
    IF /\ IsListOf(e, "channel", MAX_CHANNELS)
       /\ e.children # << >>
       /\ \A row \in Rows(e) : parse_channel(row) # Nothing
       /\ DistinctIds(e)
    THEN Read([id \in Ids(e) |-> ChannelRead(RowWith(e, id))]) ELSE Nothing

-----------------------------------------------------------------------------
(* Bodies                                                                  *)

GenesisKind == "CompanyGenesis"
ElementOf(kind) ==
    CASE kind = "Identity" -> "identity"
      [] kind = "ShareStructure" -> "share-structure"
      [] kind = "DecisionChannels" -> "decision-channels"
      [] kind = "Identities" -> "identities"
      [] kind = "Authorisation" -> "authorisation"
      [] kind = GenesisKind -> "company-genesis"

parse_part(part, e) ==
    CASE part = "Identity" -> parse_identity(e)
      [] part = "ShareStructure" -> parse_share_structure(e)
      [] part = "DecisionChannels" -> parse_decision_channels(e)
      [] part = "Identities" -> parse_identities(e)
      [] part = "Authorisation" -> parse_authorisation(e)

(* <governance> wraps the channels of a genesis and nothing else.          *)
IsGovernance(e) ==
    /\ HasAttributes(e, {}, {})
    /\ Len(e.children) = 1
    /\ ChildNames(e) = {"decision-channels"}

GenesisElement(part) ==
    IF part = "DecisionChannels" THEN "governance" ELSE ElementOf(part)
PartElement(e, part) ==
    LET child == Child(e, GenesisElement(part))
    IN  IF part = "DecisionChannels" THEN Head(child.children) ELSE child

(* Every part once, in any order, the digest of incorporation if any.      *)
parse_company_genesis(e) ==
    IF /\ HasAttributes(e, {}, {})
       /\ ChildNames(e) \subseteq {GenesisElement(part) : part \in Part}
                                      \cup {"incorporation"}
       /\ Occurs(e, "incorporation") <= 1
       /\ \A row \in Rows(e) : row.name = "incorporation" =>
             IsRow(row, "incorporation", {}, {"document-digest"})
       /\ \A part \in Part : Occurs(e, GenesisElement(part)) = 1
       /\ IsGovernance(Child(e, "governance"))
       /\ \A part \in Part : parse_part(part, PartElement(e, part)) # Nothing
    THEN Read([part \in Part |->
                  CHOOSE value \in parse_part(part, PartElement(e, part)) : TRUE])
    ELSE Nothing

(* The parts a body of a kind provides.                                    *)
parse_body(kind, e) ==
    IF e.name # ElementOf(kind) THEN Nothing
    ELSE IF kind = GenesisKind THEN parse_company_genesis(e)
         ELSE {[part \in {kind} |-> value] : value \in parse_part(kind, e)}

(* read_identity_document and its five siblings, reached by kind: anything *)
(* may come before the root but another element.                           *)
read_document(kind, document) == parse_body(kind, document.element)

-----------------------------------------------------------------------------
(* Notarisations                                                           *)

days_in_month(year, month) ==
    CASE month \in {1, 3, 5, 7, 8, 10, 12} -> 31
      [] month \in {4, 6, 9, 11} -> 30
      [] month = 2 -> IF year % 4 = 0 /\ (year % 100 # 0 \/ year % 400 = 0) THEN 29 ELSE 28

(* NotaryTimeV1::parse; a time is its six fields.                          *)
IsNotaryTime(at) ==
    /\ at.year \in 0..9999
    /\ at.month \in 1..12
    /\ at.day \in 1..days_in_month(at.year, at.month)
    /\ at.hour \in 0..23 /\ at.minute \in 0..59 /\ at.second \in 0..59

ValidNotarisation(notarisation) == notarisation.name # Blank

(* A text written as an attribute is escaped, but a line break in it is    *)
(* read back as a space (normalized_value); the name stands for the texts. *)
normalized_value(text) == IF text = Lined THEN Spaced ELSE text
write_notarisation(notarisation) ==
    [notarisation EXCEPT !.name = normalized_value(@)]
read_notarisation(written) == IsNotaryTime(written.at) /\ written.name # Blank

-----------------------------------------------------------------------------
(* Records                                                                 *)

(* What a transaction carries: the envelope and, verbatim, the body.       *)
Payload(kind, company, supersedes, notarisation, document) ==
    [kind |-> kind, company |-> company, supersedes |-> supersedes,
     notarisation |-> write_notarisation(notarisation),
     prolog |-> document.prolog, element |-> document.element]

(* Inside a record, a processing instruction before the body is refused,   *)
(* which before the root of a document is not.                             *)
read_record(payload) ==
    IF payload.prolog # "instruction" /\ read_notarisation(payload.notarisation)
    THEN {[company |-> payload.company, supersedes |-> payload.supersedes,
           notarisation |-> payload.notarisation, parts |-> parts] :
            parts \in parse_body(payload.kind, payload.element)}
    ELSE Nothing

(* strip_declaration: a leading XML declaration is no part of the body.    *)
strip_declaration(document) ==
    IF document.prolog = "declaration" THEN [document EXCEPT !.prolog = "none"]
    ELSE document

(* Fault: the composed record is not read back.                            *)
compose_Unread(kind, company, supersedes, notarisation, document) ==
    IF /\ ValidNotarisation(notarisation)
       /\ read_document(kind, strip_declaration(document)) # Nothing
    THEN Read(Payload(kind, company, supersedes, notarisation, strip_declaration(document)))
    ELSE Nothing

(* compose_record: the body is read on its own, embedded, and the record   *)
(* read back and compared with what was asked for.                         *)
compose(kind, company, supersedes, notarisation, document) ==
    LET body == strip_declaration(document)
        payload == Payload(kind, company, supersedes, notarisation, body)
    IN  IF /\ ValidNotarisation(notarisation)
           /\ read_document(kind, body) # Nothing
           /\ \E record \in read_record(payload) :
                 record.notarisation = notarisation
        THEN Read(payload) ELSE Nothing
=============================================================================
