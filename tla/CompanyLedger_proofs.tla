------------------------- MODULE CompanyLedger_proofs -------------------------
(* Theorems about CompanyLedger, for every set of documents, keys and      *)
(* publishers.                                                             *)
EXTENDS CompanyLedger, Records_proofs

-----------------------------------------------------------------------------
(* Reading a payload gives at most one record.                             *)

AtMostOne(S) == \A x, y \in S : x = y

(* A reader of a part refuses an element or gives what it says.            *)
LEMMA PartReadsOnce ==
    ASSUME NEW part \in Part, NEW e
    PROVE  AtMostOne(parse_part(part, e))
<1>1. AtMostOne(Nothing) /\ \A x : AtMostOne(Read(x))
  BY DEF AtMostOne, Nothing, Read
<1>2. AtMostOne(parse_identity(e))
  BY <1>1 DEF parse_identity
<1>3. AtMostOne(parse_share_structure(e))
  BY <1>1 DEF parse_share_structure
<1>4. AtMostOne(parse_decision_channels(e))
  BY <1>1 DEF parse_decision_channels
<1>5. AtMostOne(parse_identities(e))
  BY <1>1 DEF parse_identities
<1>6. AtMostOne(parse_authorisation(e))
  BY <1>1 DEF parse_authorisation
<1> QED
  BY <1>2, <1>3, <1>4, <1>5, <1>6 DEF parse_part, Part

Provided(kind) == IF kind = GenesisKind THEN Part ELSE {kind}

(* A body provides all the parts, or the one of its kind (parse_body).     *)
LEMMA BodyProvides ==
    ASSUME NEW kind \in Part \cup {GenesisKind}, NEW e
    PROVE  /\ AtMostOne(parse_body(kind, e))
           /\ \A parts \in parse_body(kind, e) :
                 DOMAIN parts = Provided(kind)
<1>1. CASE kind = GenesisKind
  <2>1. /\ AtMostOne(parse_company_genesis(e))
        /\ \A parts \in parse_company_genesis(e) : DOMAIN parts = Part
    BY DEF parse_company_genesis, AtMostOne, Read, Nothing
  <2> QED
    BY <1>1, <2>1 DEF parse_body, AtMostOne, Nothing, Provided
<1>2. CASE kind # GenesisKind
  <2>1. AtMostOne(parse_part(kind, e))
    BY <1>2, PartReadsOnce
  <2>2. \A parts \in parse_body(kind, e) :
            \E value \in parse_part(kind, e) : parts = [part \in {kind} |-> value]
    BY <1>2 DEF parse_body, Nothing
  <2> QED
    BY <1>2, <2>1, <2>2 DEF AtMostOne, Provided
<1> QED
  BY <1>1, <1>2

(* The record a reader finds, of an amendment or a founding.               *)
FoundAs(x, kind, company, supersedes, document, signer) ==
    /\ x.namespace = "company" /\ x.company = company
    /\ x.supersedes = supersedes /\ x.signer = signer
    /\ x.parts \in parse_body(kind, strip_declaration(document).element)
    /\ DOMAIN x.parts = Provided(kind)

(* read_record of what compose wrote is what every reader will find.       *)
LEMMA ReadsBack ==
    ASSUME NEW kind \in Part \cup {GenesisKind}, NEW company, NEW supersedes,
           NEW notarisation, NEW document, NEW signer,
           NEW payload \in compose(kind, company, supersedes, notarisation, document),
           NEW record \in read_record(payload)
    PROVE  LET x == RecordRead(payload, signer)
           IN  /\ FoundAs(x, kind, company, supersedes, document, signer)
               /\ x.parts = record.parts
<1> DEFINE body == strip_declaration(document)
<1>1. payload = Payload(kind, company, supersedes, notarisation, body)
  BY DEF compose, Read, Nothing
<1> HIDE DEF body
<1>2. /\ payload.kind = kind /\ payload.company = company
      /\ payload.supersedes = supersedes /\ payload.element = body.element
  BY <1>1 DEF Payload
<1> DEFINE Reading(parts) ==
      [company |-> payload.company, supersedes |-> payload.supersedes,
       notarisation |-> payload.notarisation, parts |-> parts]
<1>3. read_record(payload) = {Reading(parts) : parts \in parse_body(kind, body.element)}
  BY <1>2 DEF read_record, Nothing
<1>4. PICK parts \in parse_body(kind, body.element) : record = Reading(parts)
  BY <1>3
<1>5. /\ AtMostOne(parse_body(kind, body.element))
      /\ DOMAIN parts = Provided(kind)
  BY BodyProvides
<1>6. record.parts = parts /\ record.company = company /\ record.supersedes = supersedes
  BY <1>2, <1>4
<1>7. \A r \in read_record(payload) : r = record
  BY <1>3, <1>4, <1>5 DEF AtMostOne
<1>8. (CHOOSE r \in read_record(payload) : TRUE) = record
  BY <1>7
<1>9. read_record(payload) # Nothing
  BY DEF Nothing
<1>10. RecordRead(payload, signer) =
          Record(record.company, record.parts, record.supersedes, signer)
  BY <1>8, <1>9 DEF RecordRead
<1>11. LET x == RecordRead(payload, signer)
       IN  /\ x.namespace = "company" /\ x.company = company
           /\ x.parts = record.parts
           /\ x.supersedes = supersedes /\ x.signer = signer
  BY <1>6, <1>10 DEF Record
<1> QED
  BY <1>4, <1>5, <1>6, <1>11 DEF body, FoundAs

-----------------------------------------------------------------------------
(* What is written at a height is what is read there ever after, whether   *)
(* or not publishers hold the file.                                        *)

(* A publisher is only ever at work on a company's chain.                  *)
ChainGrows ==
    /\ chain = << >> \/ Founded(chain)
    /\ DOMAIN phase = Publisher
    /\ chain = << >> => \A p \in Publisher : phase[p] = "idle"

(* A step leaves the chain alone, founds it, or appends to it.             *)
ChainMoves ==
    \/ chain' = chain
    \/ chain = << >> /\ Founded(chain')
    \/ Founded(chain) /\ \E x : chain' = Append(chain, x)

(* The one record that founding appends is a genesis (init_genesis).       *)
LEMMA FoundsOne ==
    ASSUME NEW company, NEW document \in Founding, NEW key, NEW notarisation,
           FoundCompany(company, document, key, notarisation)
    PROVE  \E x : /\ chain' = <<x>> /\ IsCompanyRecord(x) /\ IsGenesis(x)
                  /\ x.supersedes = None
                  /\ ~lockout_after(x.parts["Identities"], x.parts["Authorisation"])
<1> DEFINE body == strip_declaration(document)
<1>1. PICK payload \in compose(GenesisKind, company, None, notarisation, document) :
          chain' = <<RecordRead(payload, key)>>
  BY DEF FoundCompany
<1>2. PICK record \in read_record(payload) : record.notarisation = notarisation
  BY <1>1 DEF compose, Read, Nothing
<1> DEFINE x == RecordRead(payload, key)
<1>3. FoundAs(x, GenesisKind, company, None, document, key)
  BY <1>1, <1>2, ReadsBack
<1> HIDE DEF x
<1>4. /\ x.namespace = "company" /\ x.supersedes = None
      /\ x.parts \in parse_body(GenesisKind, body.element)
      /\ DOMAIN x.parts = Part
  BY <1>3 DEF FoundAs, Provided
<1>5. body.element = document.element
  BY FoundingAssumption DEF strip_declaration
<1>6. x.parts \in read_document(GenesisKind, document)
  BY <1>4, <1>5 DEF read_document
<1>7. AtMostOne(read_document(GenesisKind, document))
  BY BodyProvides DEF read_document
<1>8. ~lockout_after(x.parts["Identities"], x.parts["Authorisation"])
  BY <1>6, <1>7 DEF FoundCompany, AtMostOne
<1>9. chain' = <<x>>
  BY <1>1 DEF x
<1> QED
  BY <1>4, <1>8, <1>9 DEF IsCompanyRecord, IsGenesis

(* A chain of one genesis is a founded chain.                              *)
LEMMA GenesisFounds ==
    ASSUME NEW x, IsCompanyRecord(x), IsGenesis(x), NEW c, c = <<x>>
    PROVE  Founded(c)
<1>1. Len(c) = 1 /\ c[1] = x /\ DOMAIN c = {1} /\ c \in Seq({x})
  OBVIOUS
<1> QED
  BY <1>1 DEF Founded, IsChain

(* A chain of nothing has no head.                                         *)
LEMMA EmptyHasNoHead == HeadHeight(<< >>) = -1
  BY DEF HeadHeight

(* Every step keeps the chain as it is or adds at its end.                 *)
LEMMA StepGrowsChain ==
    ASSUME ChainGrows, [Next]_vars
    PROVE  ChainGrows' /\ ChainMoves
<1>1. ASSUME NEW company \in Company, NEW document \in Founding, NEW key \in Key,
             NEW n \in Notarisation, FoundCompany(company, document, key, n)
      PROVE  ChainGrows' /\ ChainMoves
  <2>1. chain = << >> /\ phase' = phase
    BY <1>1 DEF FoundCompany
  <2>2. Founded(chain')
    <3>1. PICK x : chain' = <<x>> /\ IsCompanyRecord(x) /\ IsGenesis(x)
      BY <1>1, FoundsOne
    <3> QED
      BY <3>1, GenesisFounds
  <2>3. chain' # << >>
    BY <2>2 DEF Founded
  <2> QED
    BY <2>1, <2>2, <2>3 DEF ChainGrows, ChainMoves
<1>2. CASE AppendOther
  <2>1. Founded(chain) /\ chain' = Append(chain, OtherRecord) /\ phase' = phase
    BY <1>2 DEF AppendOther, ChainGrows
  <2>2. Founded(chain')
    BY <2>1, AppendedReadings
  <2>3. chain' # << >>
    BY <2>2 DEF Founded
  <2> QED
    BY <2>1, <2>2, <2>3 DEF ChainGrows, ChainMoves
<1>3. ASSUME NEW p \in Publisher, NEW key \in Key, NEW a \in Amendment,
             NEW n \in Notarisation, NEW h \in 0..HeadHeight(chain),
             Judge(p, key, a.kind, a.document, n, h)
      PROVE  ChainGrows' /\ ChainMoves
  BY <1>3 DEF Judge, ChainGrows, ChainMoves
<1>4. ASSUME NEW p \in Publisher, Build(p)
      PROVE  ChainGrows' /\ ChainMoves
  BY <1>4 DEF Build, ChainGrows, ChainMoves
<1>5. ASSUME NEW p \in Publisher, AppendBlock(p)
      PROVE  ChainGrows' /\ ChainMoves
  <2>1. /\ phase[p] = "built" /\ phase' = [phase EXCEPT ![p] = "idle"]
        /\ chain' = chain \/ \E d \in draft[p] :
                                chain' = Append(chain, RecordRead(d.payload, d.signer))
    BY <1>5 DEF AppendBlock
  <2>2. Founded(chain) /\ DOMAIN phase' = Publisher
    BY <2>1 DEF ChainGrows
  <2>3. ChainMoves
    BY <2>1, <2>2 DEF ChainMoves
  <2>4. Founded(chain')
    <3>1. ASSUME NEW x, chain' = Append(chain, x) PROVE Founded(chain')
      BY <2>2, <3>1, AppendedReadings
    <3> QED
      BY <2>1, <2>2, <3>1
  <2>5. chain' # << >>
    BY <2>4 DEF Founded
  <2> QED
    BY <2>2, <2>3, <2>4, <2>5 DEF ChainGrows
<1>6. ASSUME NEW p \in Publisher, Abandon(p)
      PROVE  ChainGrows' /\ ChainMoves
  BY <1>6 DEF Abandon, ChainGrows, ChainMoves
<1>7. CASE UNCHANGED vars
  BY <1>7 DEF vars, ChainGrows, ChainMoves
<1> QED
  BY <1>1, <1>2, <1>3, <1>4, <1>5, <1>6, <1>7 DEF Next

(* What was in force at a height, and which record provided it, does not   *)
(* change when the chain grows.                                            *)
LEMMA MovingKeepsPast ==
    ASSUME ChainMoves
    PROVE  \A at \in 0..HeadHeight(chain), part \in Part :
              /\ provider_of(chain', at, part) = provider_of(chain, at, part)
              /\ InForce(chain', at, part) = InForce(chain, at, part)
<1>1. CASE chain' = chain
  BY <1>1
<1>2. CASE chain = << >>
  BY <1>2, EmptyHasNoHead
<1>3. ASSUME Founded(chain), NEW x, chain' = Append(chain, x)
      PROVE  \A at \in 0..HeadHeight(chain), part \in Part :
              /\ provider_of(chain', at, part) = provider_of(chain, at, part)
              /\ InForce(chain', at, part) = InForce(chain, at, part)
  <2>1. Continues(chain', chain)
    BY <1>3, AppendedReadings
  <2> QED
    BY <1>3, <2>1, PastReadings
<1> QED
  BY <1>1, <1>2, <1>3 DEF ChainMoves

(* Nothing a publisher or another namespace appends changes which record   *)
(* provided a part at a past height, nor what it said: what a verifier     *)
(* reconstructs at a height stays what it was (state.rs, reconstruct_at).  *)
THEOREM ThePastIsFixed == Spec => PastIsFixed
<1>1. Init => ChainGrows
  BY DEF Init, ChainGrows
<1>2. ChainGrows /\ [Next]_vars => ChainGrows'
  BY StepGrowsChain
<1>3. ChainGrows /\ [Next]_vars =>
         [\A at \in 0..HeadHeight(chain), part \in Part :
            /\ provider_of(chain', at, part) = provider_of(chain, at, part)
            /\ InForce(chain', at, part) = InForce(chain, at, part)]_vars
  BY StepGrowsChain, MovingKeepsPast
<1> QED
  BY <1>1, <1>2, <1>3, PTL DEF Spec, PastIsFixed
-----------------------------------------------------------------------------
(* One command at a time: the inductive invariant.  While a command holds  *)
(* the file nobody else appends, so what it judged acceptable against the  *)
(* head still is when its block is appended.                               *)

(* Past the genesis, a company record provides one part.                   *)
OnePartEach(c) ==
    \A h \in 1..HeadHeight(c) :
        IsCompanyRecord(RecordAt(c, h)) =>
            \E part \in Part : DOMAIN RecordAt(c, h).parts = {part}

DraftOK(c, d) ==
    \E part \in Part, version \in Nat :
        AmendsHead(c, RecordRead(d.payload, d.signer), part, version)

LedgerInv ==
    /\ chain = << >> \/ (Healthy(chain) /\ OnePartEach(chain))
    /\ DOMAIN phase = Publisher /\ DOMAIN draft = Publisher
    /\ \A p \in Publisher :
          phase[p] # "idle" =>
             /\ chain # << >> /\ holder = Some(p)
             /\ \A d \in draft[p] : DraftOK(chain, d)

(* What a step does to the company: nothing, found it, append a record     *)
(* that is not its own, or amend one part of it.                           *)
CompanyMoves ==
    \/ chain' = chain
    \/ /\ chain = << >>
       /\ \E x : /\ chain' = <<x>> /\ IsCompanyRecord(x) /\ IsGenesis(x)
                 /\ x.supersedes = None
                 /\ ~lockout_after(x.parts["Identities"], x.parts["Authorisation"])
    \/ /\ chain # << >>
       /\ \/ chain' = Append(chain, OtherRecord)
          \/ \E x : \E part \in Part, version \in Nat :
                chain' = Append(chain, x) /\ AmendsHead(chain, x, part, version)

(* A record of one part keeps every amendment one of a single part.        *)
LEMMA OneMorePart ==
    ASSUME NEW c, NEW x, Founded(c), OnePartEach(c),
           IsCompanyRecord(x) => \E part \in Part : DOMAIN x.parts = {part}
    PROVE  OnePartEach(Append(c, x))
<1> DEFINE d == Append(c, x)
           n == HeadHeight(c)
<1>1. /\ Founded(d) /\ Continues(d, c) /\ HeadHeight(d) = n + 1
      /\ n \in Nat /\ RecordAt(d, n + 1) = x
  BY AppendedReadings
<1>2. \A h \in 0..n : RecordAt(d, h) = RecordAt(c, h)
  <2>1. \A h \in 0..n : h \in 0..h
    OBVIOUS
  <2> QED
    BY <1>1, <2>1, PastReadings
<1> HIDE DEF d
<1>3. \A h \in 1..n : IsCompanyRecord(RecordAt(c, h)) =>
          \E part \in Part : DOMAIN RecordAt(c, h).parts = {part}
  BY DEF OnePartEach
<1> HIDE DEF n
<1>4. \A h \in 1..(n + 1) : h = n + 1 \/ (h \in 1..n /\ h \in 0..n)
  BY <1>1
<1>5. OnePartEach(d)
  BY <1>1, <1>2, <1>3, <1>4 DEF OnePartEach
<1> QED
  BY <1>5 DEF d

(* However the company moves it stays readable, and amendable by somebody. *)
LEMMA MovingKeepsHealthy ==
    ASSUME chain = << >> \/ (Healthy(chain) /\ OnePartEach(chain)), CompanyMoves
    PROVE  chain' = << >> \/ (Healthy(chain') /\ OnePartEach(chain'))
<1>1. CASE chain' = chain
  BY <1>1
<1>2. ASSUME chain = << >>, NEW x, chain' = <<x>>, IsCompanyRecord(x), IsGenesis(x),
             x.supersedes = None,
             ~lockout_after(x.parts["Identities"], x.parts["Authorisation"])
      PROVE  Healthy(chain') /\ OnePartEach(chain')
  <2> DEFINE c == <<x>>
  <2>1. Healthy(c) /\ HeadHeight(c) = 0
    BY <1>2, FoundingIsHealthy
  <2>2. chain' = c
    BY <1>2
  <2> HIDE DEF c
  <2>3. OnePartEach(c)
    BY <2>1 DEF OnePartEach
  <2> QED
    BY <2>1, <2>2, <2>3
<1>3. ASSUME chain # << >>, chain' = Append(chain, OtherRecord)
      PROVE  Healthy(chain') /\ OnePartEach(chain')
  <2>1. ~IsCompanyRecord(OtherRecord) /\ DOMAIN OtherRecord.parts = {}
    BY DEF OtherRecord, IsCompanyRecord, NoParts
  <2>2. Healthy(Append(chain, OtherRecord))
    BY <1>3, <2>1, OtherKeepsHealthy
  <2>3. OnePartEach(Append(chain, OtherRecord))
    BY <1>3, <2>1, OneMorePart DEF Healthy
  <2> QED
    BY <1>3, <2>2, <2>3
<1>4. ASSUME chain # << >>, NEW x, NEW part \in Part, NEW version \in Nat,
             chain' = Append(chain, x), AmendsHead(chain, x, part, version)
      PROVE  Healthy(chain') /\ OnePartEach(chain')
  <2>1. Healthy(Append(chain, x))
    <3>1. AmendedTo(chain, Append(chain, x), x, part)
      BY <1>4, AmendKeepsHealthy
    <3> QED
      BY <3>1 DEF AmendedTo
  <2>2. OnePartEach(Append(chain, x))
    BY <1>4, OneMorePart DEF AmendsHead, Healthy
  <2> QED
    BY <1>4, <2>1, <2>2
<1> QED
  BY <1>1, <1>2, <1>3, <1>4 DEF CompanyMoves

(* Publish judges against the head the record it composes.                 *)
LEMMA JudgedDraft ==
    ASSUME NEW p \in Publisher, NEW key \in Key, NEW a \in Amendment,
           NEW n \in Notarisation, NEW version \in Nat,
           Judge(p, key, a.kind, a.document, n, version)
    PROVE  \E d : draft' = [draft EXCEPT ![p] = Some(d)] /\ DraftOK(chain, d)
<1> DEFINE kind == a.kind
           document == a.document
<1>1. kind \in Part /\ kind \in Part \cup {GenesisKind} /\ kind # GenesisKind
  BY AmendmentAssumption DEF Part, GenesisKind
<1>2. Judge(p, key, kind, document, n, version)
  OBVIOUS
<1> HIDE DEF kind, document
<1>3. PICK payload \in compose(kind, CompanyOf(chain), Some(version), n, document) :
          /\ \E record \in read_record(payload) :
                Acceptable(chain, key, kind, record.parts[kind], version)
          /\ draft' = [draft EXCEPT ![p] = Some([payload |-> payload, signer |-> key])]
  BY <1>2 DEF Judge
<1>4. PICK record \in read_record(payload) :
          Acceptable(chain, key, kind, record.parts[kind], version)
  BY <1>3
<1> DEFINE x == RecordRead(payload, key)
           d == [payload |-> payload, signer |-> key]
<1>5. /\ FoundAs(x, kind, CompanyOf(chain), Some(version), document, key)
      /\ x.parts = record.parts
  BY <1>1, <1>3, <1>4, ReadsBack
<1>6. x = RecordRead(d.payload, d.signer)
  OBVIOUS
<1> HIDE DEF x
<1>7. AmendsHead(chain, x, kind, version)
  BY <1>1, <1>4, <1>5 DEF AmendsHead, FoundAs, Provided, IsCompanyRecord
<1>8. DraftOK(chain, d)
  <2> HIDE DEF d
  <2> QED
    BY <1>1, <1>6, <1>7 DEF DraftOK
<1>9. draft' = [draft EXCEPT ![p] = Some(d)]
  BY <1>3
<1> QED
  BY <1>8, <1>9

(* Two holders of one lock are the same.                                   *)
LEMMA HeldByOne == ASSUME NEW p, NEW q, Some(p) = Some(q) PROVE p = q
  BY DEF Some

(* Where the lock is exclusive every step keeps the invariant, and the     *)
(* chain moves only by a founding or by an amendment of its head.          *)
LEMMA StepKeepsLedger ==
    ASSUME Exclusive = TRUE, LedgerInv, [Next]_vars
    PROVE  LedgerInv' /\ CompanyMoves
<1> DEFINE OneAtWork == \A p, q \in Publisher :
              phase[p] # "idle" /\ phase[q] # "idle" => p = q
<1>0. OneAtWork
  BY HeldByOne DEF LedgerInv
<1> HIDE DEF OneAtWork
<1>1. ASSUME NEW company \in Company, NEW document \in Founding, NEW key \in Key,
             NEW n \in Notarisation, FoundCompany(company, document, key, n)
      PROVE  LedgerInv' /\ CompanyMoves
  <2>1. chain = << >> /\ phase' = phase /\ draft' = draft
    BY <1>1 DEF FoundCompany
  <2>2. CompanyMoves
    BY <1>1, <2>1, FoundsOne DEF CompanyMoves
  <2>3. chain' = << >> \/ (Healthy(chain') /\ OnePartEach(chain'))
    BY <2>2, MovingKeepsHealthy DEF LedgerInv
  <2> QED
    BY <2>1, <2>2, <2>3 DEF LedgerInv
<1>2. CASE AppendOther
  <2>1. /\ chain # << >> /\ chain' = Append(chain, OtherRecord) /\ holder = None
        /\ phase' = phase /\ draft' = draft
    BY <1>2 DEF AppendOther
  <2>2. CompanyMoves
    BY <2>1 DEF CompanyMoves
  <2>3. chain' = << >> \/ (Healthy(chain') /\ OnePartEach(chain'))
    BY <2>2, MovingKeepsHealthy DEF LedgerInv
  <2>4. \A p \in Publisher : phase[p] = "idle"
    BY <2>1 DEF LedgerInv, None, Some
  <2> QED
    BY <2>1, <2>2, <2>3, <2>4 DEF LedgerInv
<1>3. ASSUME NEW p \in Publisher, NEW key \in Key, NEW a \in Amendment,
             NEW n \in Notarisation, NEW h \in 0..HeadHeight(chain),
             Judge(p, key, a.kind, a.document, n, h)
      PROVE  LedgerInv' /\ CompanyMoves
  <2>1. /\ chain # << >> /\ chain' = chain /\ holder = None /\ holder' = Some(p)
        /\ phase' = [phase EXCEPT ![p] = "judged"]
    BY <1>3 DEF Judge
  <2>2. h \in Nat
    BY <2>1, Heights DEF LedgerInv, Healthy
  <2>3. PICK d : draft' = [draft EXCEPT ![p] = Some(d)] /\ DraftOK(chain, d)
    BY <1>3, <2>2, JudgedDraft
  <2>4. \A q \in Publisher : phase[q] = "idle"
    BY <2>1 DEF LedgerInv, None, Some
  <2>5. /\ DOMAIN phase' = Publisher /\ DOMAIN draft' = Publisher
        /\ \A q \in Publisher : q # p => phase'[q] = "idle"
        /\ draft'[p] = Some(d)
    BY <2>1, <2>3, <2>4 DEF LedgerInv
  <2>6. \A e \in draft'[p] : DraftOK(chain, e)
    BY <2>3, <2>5 DEF Some
  <2> QED
    BY <2>1, <2>5, <2>6 DEF LedgerInv, CompanyMoves
<1>4. ASSUME NEW p \in Publisher, Build(p)
      PROVE  LedgerInv' /\ CompanyMoves
  <2>1. /\ phase[p] = "judged" /\ phase' = [phase EXCEPT ![p] = "built"]
        /\ UNCHANGED <<chain, draft, holder>>
    BY <1>4 DEF Build
  <2> QED
    BY <2>1 DEF LedgerInv, CompanyMoves
<1>5. ASSUME NEW p \in Publisher, AppendBlock(p)
      PROVE  LedgerInv' /\ CompanyMoves
  <2>1. /\ phase[p] = "built" /\ phase' = [phase EXCEPT ![p] = "idle"]
        /\ draft' = [draft EXCEPT ![p] = None]
        /\ chain' = chain \/ \E d \in draft[p] :
                                chain' = Append(chain, RecordRead(d.payload, d.signer))
    BY <1>5 DEF AppendBlock
  <2>2. chain # << >> /\ \A d \in draft[p] : DraftOK(chain, d)
    BY <2>1 DEF LedgerInv
  <2>3. CompanyMoves
    <3>1. ASSUME NEW d \in draft[p],
                 chain' = Append(chain, RecordRead(d.payload, d.signer))
          PROVE  CompanyMoves
      <4> DEFINE x == RecordRead(d.payload, d.signer)
      <4>1. PICK part \in Part, version \in Nat : AmendsHead(chain, x, part, version)
        BY <2>2 DEF DraftOK
      <4>2. chain' = Append(chain, x)
        BY <3>1
      <4> HIDE DEF x
      <4> QED
        BY <2>2, <4>1, <4>2 DEF CompanyMoves
    <3>2. CASE chain' = chain
      BY <3>2 DEF CompanyMoves
    <3> QED
      BY <2>1, <3>1, <3>2
  <2>4. chain' = << >> \/ (Healthy(chain') /\ OnePartEach(chain'))
    BY <2>3, MovingKeepsHealthy DEF LedgerInv
  <2>5. /\ DOMAIN phase' = Publisher /\ DOMAIN draft' = Publisher
        /\ \A q \in Publisher : phase'[q] = "idle"
    BY <1>0, <2>1 DEF LedgerInv, OneAtWork
  <2> QED
    BY <2>3, <2>4, <2>5 DEF LedgerInv
<1>6. ASSUME NEW p \in Publisher, Abandon(p)
      PROVE  LedgerInv' /\ CompanyMoves
  <2>1. /\ phase[p] # "idle" /\ phase' = [phase EXCEPT ![p] = "idle"]
        /\ draft' = [draft EXCEPT ![p] = None] /\ chain' = chain
    BY <1>6 DEF Abandon
  <2>2. /\ DOMAIN phase' = Publisher /\ DOMAIN draft' = Publisher
        /\ \A q \in Publisher : phase'[q] = "idle"
    BY <1>0, <2>1 DEF LedgerInv, OneAtWork
  <2> QED
    BY <2>1, <2>2 DEF LedgerInv, CompanyMoves
<1>7. CASE UNCHANGED vars
  BY <1>7 DEF vars, LedgerInv, CompanyMoves
<1> QED
  BY <1>1, <1>2, <1>3, <1>4, <1>5, <1>6, <1>7 DEF Next

(* The invariant holds where nothing is published yet.                     *)
LEMMA InitIsInOrder == Init => LedgerInv
  BY DEF Init, LedgerInv

(* As long as commands take turns on the file, no sequence of foundings    *)
(* and amendments leaves a company that reconstruct refuses: what publish  *)
(* accepts at the head, reading accepts at every later height.             *)
THEOREM CompaniesCanBeRead ==
    ASSUME Exclusive = TRUE
    PROVE  Spec => []Reconstructible
<1>1. LedgerInv /\ [Next]_vars => LedgerInv'
  BY StepKeepsLedger
<1>2. LedgerInv => Reconstructible
  BY DEF LedgerInv, Healthy, Reconstructible
<1> QED
  BY InitIsInOrder, <1>1, <1>2, PTL DEF Spec

-----------------------------------------------------------------------------
(* Two amendments never replace the same version of a part.                *)

(* A later company record of the parts of an earlier one replaces a        *)
(* version at least as late as the earlier.                                *)
LEMMA LaterReplacesLater ==
    ASSUME NEW c, Healthy(c), OnePartEach(c),
           NEW g \in 0..HeadHeight(c), NEW h \in 0..HeadHeight(c), g < h,
           IsCompanyRecord(RecordAt(c, g)), IsCompanyRecord(RecordAt(c, h)),
           DOMAIN RecordAt(c, g).parts = DOMAIN RecordAt(c, h).parts
    PROVE  RecordAt(c, g).supersedes # RecordAt(c, h).supersedes
<1> DEFINE n == HeadHeight(c)
           x == RecordAt(c, g)
           y == RecordAt(c, h)
<1>1. /\ Founded(c) /\ Reconstructs(c, n) /\ n \in Nat /\ Upto(c, n) = 0..n
  BY Heights DEF Healthy
<1>2. ASSUME NEW k \in 1..n, IsCompanyRecord(RecordAt(c, k)) PROVE apply(c, k)
  <2>1. k \in CompanyHeights(c, n)
    BY <1>1, <1>2 DEF CompanyHeights
  <2>2. k \in 0..n /\ k # 0
    BY <1>1
  <2>3. ~IsFirst(c, k)
    BY <1>1, <2>2, FirstIsGenesis
  <2> QED
    BY <1>1, <2>1, <2>3 DEF Reconstructs
<1> HIDE DEF n
<1>3. h \in 1..n /\ n \in Nat /\ g \in Nat /\ h - 1 \in Nat /\ g \in 0..n
  BY <1>1 DEF n
<1>4. apply(c, h)
  BY <1>2, <1>3
<1>5. PICK part \in Part : DOMAIN y.parts = {part}
  BY <1>3 DEF OnePartEach, n
<1>6. y.supersedes = Some(provider_of(c, h - 1, part))
  BY <1>4, <1>5 DEF apply
<1>7. g <= provider_of(c, h - 1, part)
  <2>1. g \in Upto(c, h - 1)
    BY <1>3 DEF Upto, n
  <2>2. part \in DOMAIN RecordAt(c, g).parts
    BY <1>5
  <2>3. g \in Providers(c, h - 1, part)
    BY <2>1, <2>2 DEF Providers
  <2> QED
    BY <1>1, <1>3, <2>3, ProviderExists
<1>8. CASE g = 0
  <2>1. DOMAIN x.parts = Part
    BY <1>1, <1>8, Heights DEF Founded, IsGenesis
  <2>2. "Identity" \in Part /\ "Identities" \in Part
    BY DEF Part
  <2> QED
    BY <1>5, <2>1, <2>2
<1>9. CASE g # 0
  <2>1. g \in 1..n /\ g - 1 \in Nat
    BY <1>3, <1>9
  <2>2. apply(c, g)
    BY <1>2, <2>1
  <2>3. x.supersedes = Some(provider_of(c, g - 1, part))
    BY <1>5, <2>2 DEF apply
  <2>4. provider_of(c, g - 1, part) <= g - 1
    BY <1>1, <2>1, ProviderExists
  <2>5. provider_of(c, g - 1, part) \in Int /\ provider_of(c, h - 1, part) \in Int
    BY <1>1, <1>3, <2>1, ProviderExists
  <2> DEFINE v == provider_of(c, g - 1, part)
             w == provider_of(c, h - 1, part)
  <2> HIDE DEF v, w
  <2>6. v # w
    BY <1>3, <1>7, <2>4, <2>5 DEF v, w
  <2>7. Some(v) # Some(w)
    BY <2>6 DEF Some
  <2> QED
    BY <1>6, <2>3, <2>7 DEF v, w
<1> QED
  BY <1>8, <1>9

(* The invariant rules out an amendment over a record its editor never     *)
(* saw.                                                                    *)
LEMMA InOrderNoClobber ==
    ASSUME LedgerInv
    PROVE  NoClobber
<1>1. CASE chain = << >>
  BY <1>1 DEF NoClobber
<1>2. ASSUME Healthy(chain), OnePartEach(chain)
      PROVE  NoClobber
  <2> SUFFICES ASSUME NEW i \in 1..Len(chain), NEW j \in 1..Len(chain), i # j,
                      IsCompanyRecord(chain[i]), IsCompanyRecord(chain[j]),
                      DOMAIN chain[i].parts = DOMAIN chain[j].parts
               PROVE  chain[i].supersedes # chain[j].supersedes
    BY DEF NoClobber
  <2> DEFINE g == i - 1
             h == j - 1
  <2>1. Len(chain) \in Nat /\ HeadHeight(chain) = Len(chain) - 1
    BY <1>2, Heights DEF Healthy, HeadHeight
  <2>2. /\ g \in 0..HeadHeight(chain) /\ h \in 0..HeadHeight(chain)
        /\ g < h \/ h < g
        /\ g + 1 = i /\ h + 1 = j
    BY <2>1
  <2> HIDE DEF g, h
  <2>3. chain[i] = RecordAt(chain, g) /\ chain[j] = RecordAt(chain, h)
    BY <2>2 DEF RecordAt
  <2> QED
    BY <1>2, <2>2, <2>3, LaterReplacesLater
<1> QED
  BY <1>1, <1>2 DEF LedgerInv

(* Two editors never clobber each other: the second amendment of the same  *)
(* version of a part is refused as stale (publish, StaleSupersedes).       *)
THEOREM EditorsNeverClobber ==
    ASSUME Exclusive = TRUE
    PROVE  Spec => []NoClobber
<1>1. LedgerInv /\ [Next]_vars => LedgerInv'
  BY StepKeepsLedger
<1> QED
  BY InitIsInOrder, InOrderNoClobber, <1>1, PTL DEF Spec

-----------------------------------------------------------------------------
(* The chain of amendments implements a register amended part by part.     *)

(* The register a founded chain stands for.                                *)
View(c) ==
    [part \in Part |->
        [version |-> provider_of(c, HeadHeight(c), part),
         value |-> InForce(c, HeadHeight(c), part)]]

(* A healthy chain shows a founded register that can be amended.           *)
LEMMA ViewIsAmendable ==
    ASSUME NEW c, Healthy(c)
    PROVE  /\ DOMAIN View(c) = Part /\ Register!Amendable(View(c))
           /\ View(c) # Register!Unfounded
<1>1. /\ "Identities" \in Part /\ "Authorisation" \in Part
  BY DEF Part
<1>2. DOMAIN View(c) = Part
  BY DEF View
<1>3. /\ View(c)["Identities"].value = InForce(c, HeadHeight(c), "Identities")
      /\ View(c)["Authorisation"].value = InForce(c, HeadHeight(c), "Authorisation")
  BY <1>1 DEF View
<1>4. \A ids, rows : Register!lockout_after(ids, rows) <=> lockout_after(ids, rows)
  BY DEF Register!lockout_after, lockout_after, Register!key_of, key_of,
         Register!None, None
<1>5. ~lockout_after(InForce(c, HeadHeight(c), "Identities"),
                     InForce(c, HeadHeight(c), "Authorisation"))
  BY DEF Healthy, LockedOut
<1>6. Register!Amendable(View(c))
  BY <1>3, <1>4, <1>5 DEF Register!Amendable
<1>7. View(c) # Register!Unfounded
  BY <1>1, <1>2 DEF Register!Unfounded
<1> QED
  BY <1>2, <1>6, <1>7

(* The register and the ledger speak of the same parts.                    *)
LEMMA RegisterParts == Register!Part = Part
  BY DEF Register!Part, Part

(* Once there is a chain the register shows what is in force at its head.  *)
LEMMA ViewOfChain == chain # << >> => registerView = View(chain)
  BY DEF registerView, View

(* Before there is a chain the register is not founded.                    *)
LEMMA ViewOfNothing == chain = << >> => registerView = Register!Unfounded
  BY DEF registerView, Register!Unfounded

(* A founding gives every part the same version.                           *)
LEMMA FoundingShows ==
    ASSUME NEW c, NEW x, c = <<x>>, IsCompanyRecord(x), IsGenesis(x),
           x.supersedes = None,
           ~lockout_after(x.parts["Identities"], x.parts["Authorisation"])
    PROVE  Healthy(c) /\ \A p, q \in Part : View(c)[p].version = View(c)[q].version
<1>1. /\ Healthy(<<x>>) /\ HeadHeight(<<x>>) = 0
      /\ \A part \in Part : provider_of(<<x>>, 0, part) = 0
  BY FoundingIsHealthy
<1>2. /\ Healthy(c) /\ HeadHeight(c) = 0
      /\ \A part \in Part : provider_of(c, 0, part) = 0
  BY <1>1
<1>3. \A part \in Part : View(c)[part].version = 0
  BY <1>2 DEF View
<1> QED
  BY <1>2, <1>3

(* The register of d is that of c with one part at a newer version.        *)
Shows(c, d, part) ==
    /\ \A p \in Part : View(d)[part].version > View(c)[p].version
    /\ \A p \in Part \ {part} : View(d)[p] = View(c)[p]

(* An amendment gives its part a version later than any before, and leaves *)
(* the other parts at theirs.                                              *)
LEMMA AmendmentShows ==
    ASSUME NEW c, Healthy(c), NEW x, NEW part \in Part, NEW version \in Nat,
           AmendsHead(c, x, part, version), NEW d, d = Append(c, x)
    PROVE  Healthy(d) /\ Shows(c, d, part)
<1> DEFINE n == HeadHeight(c)
<1>1. AmendedTo(c, d, x, part)
  BY AmendKeepsHealthy
<1>2. /\ Healthy(d) /\ n \in Nat /\ HeadHeight(d) = n + 1
      /\ provider_of(d, n + 1, part) = n + 1
      /\ \A other \in Part \ {part} :
            /\ provider_of(d, n + 1, other) = provider_of(c, n, other)
            /\ InForce(d, n + 1, other) = InForce(c, n, other)
  BY <1>1 DEF AmendedTo
<1>3. \A p \in Part : provider_of(c, n, p) \in Nat /\ provider_of(c, n, p) <= n
  BY <1>2, ProviderExists DEF Healthy
<1>4. View(d)[part].version = n + 1
  BY <1>2 DEF View
<1>5. \A p \in Part : View(c)[p].version = provider_of(c, n, p)
  BY DEF View
<1>6. \A p \in Part \ {part} : View(d)[p] = View(c)[p]
  BY <1>2 DEF View
<1> HIDE DEF n
<1>7. \A p \in Part : n + 1 > provider_of(c, n, p)
  BY <1>2, <1>3
<1> QED
  BY <1>2, <1>4, <1>5, <1>6, <1>7 DEF Shows

(* A transaction of another namespace does not show.                       *)
LEMMA OtherDoesNotShow ==
    ASSUME NEW c, Healthy(c), NEW d, d = Append(c, OtherRecord)
    PROVE  Healthy(d) /\ View(d) = View(c)
<1> DEFINE n == HeadHeight(c)
<1>1. ~IsCompanyRecord(OtherRecord) /\ DOMAIN OtherRecord.parts = {}
  BY DEF OtherRecord, IsCompanyRecord, NoParts
<1>2. LET e == Append(c, OtherRecord)
      IN  /\ Healthy(e) /\ HeadHeight(e) = n + 1
          /\ \A part \in Part :
                /\ provider_of(e, n + 1, part) = provider_of(c, n, part)
                /\ InForce(e, n + 1, part) = InForce(c, n, part)
  BY <1>1, OtherKeepsHealthy
<1>3. /\ Healthy(d) /\ HeadHeight(d) = n + 1
      /\ \A part \in Part :
            /\ provider_of(d, n + 1, part) = provider_of(c, n, part)
            /\ InForce(d, n + 1, part) = InForce(c, n, part)
  BY <1>2
<1> QED
  BY <1>3 DEF View

(* A move of the chain is a step of the register, or none.                 *)
LEMMA StepMovesRegister ==
    ASSUME chain = << >> \/ (Healthy(chain) /\ OnePartEach(chain)), CompanyMoves
    PROVE  [Register!Next]_registerView
<1>1. CASE chain' = chain
  BY <1>1 DEF registerView
<1>2. ASSUME chain = << >>, NEW x, chain' = <<x>>, IsCompanyRecord(x), IsGenesis(x),
             x.supersedes = None,
             ~lockout_after(x.parts["Identities"], x.parts["Authorisation"])
      PROVE  Register!Found
  <2>1. /\ Healthy(chain')
        /\ \A p, q \in Part : View(chain')[p].version = View(chain')[q].version
    BY <1>2, FoundingShows
  <2>2. registerView' = View(chain')
    <3>1. chain' # << >>
      BY <1>2
    <3> QED
      BY <3>1 DEF registerView, View
  <2>3. registerView = Register!Unfounded
    BY <1>2, ViewOfNothing
  <2>4. DOMAIN View(chain') = Part /\ Register!Amendable(View(chain'))
    BY <2>1, ViewIsAmendable
  <2> QED
    BY <2>1, <2>2, <2>3, <2>4, RegisterParts DEF Register!Found
<1>3. ASSUME Healthy(chain), chain' = Append(chain, OtherRecord)
      PROVE  registerView' = registerView
  <2>1. Healthy(chain') /\ View(chain') = View(chain)
    BY <1>3, OtherDoesNotShow
  <2>2. chain # << >> /\ chain' # << >>
    BY <1>3, <2>1 DEF Healthy, Founded
  <2>3. registerView' = View(chain')
    BY <2>2 DEF registerView, View
  <2> QED
    BY <2>1, <2>2, <2>3, ViewOfChain
<1>4. ASSUME Healthy(chain), NEW x, NEW part \in Part, NEW version \in Nat,
             chain' = Append(chain, x), AmendsHead(chain, x, part, version)
      PROVE  Register!Amend(part)
  <2>1. /\ Healthy(chain')
        /\ \A p \in Part : View(chain')[part].version > View(chain)[p].version
        /\ \A p \in Part \ {part} : View(chain')[p] = View(chain)[p]
    <3> DEFINE d == Append(chain, x)
    <3>1. Healthy(d) /\ Shows(chain, d, part)
      BY <1>4, AmendmentShows
    <3> HIDE DEF d
    <3>2. chain' = d
      BY <1>4 DEF d
    <3> QED
      BY <3>1, <3>2 DEF Shows
  <2>2. chain # << >> /\ chain' # << >>
    BY <1>4, <2>1 DEF Healthy, Founded
  <2>3. registerView' = View(chain')
    BY <2>2 DEF registerView, View
  <2>4. registerView = View(chain) /\ View(chain) # Register!Unfounded
    BY <1>4, <2>2, ViewOfChain, ViewIsAmendable
  <2>5. DOMAIN View(chain') = Part /\ Register!Amendable(View(chain'))
    BY <2>1, ViewIsAmendable
  <2> QED
    BY <2>1, <2>3, <2>4, <2>5, RegisterParts DEF Register!Amend
<1>5. chain # << >> => Healthy(chain)
  OBVIOUS
<1> QED
  BY <1>1, <1>2, <1>3, <1>4, <1>5, RegisterParts DEF CompanyMoves, Register!Next

(* The ledger is a register of five parts: founded once, then changed one  *)
(* part at a time, each time to a newer version, and never into a company  *)
(* that nobody can amend (publish's lockout check).                        *)
THEOREM LedgerImplementsRegister ==
    ASSUME Exclusive = TRUE
    PROVE  Spec => ImplementsRegister
<1>1. Init => Register!Init
  BY ViewOfNothing DEF Init, Register!Init
<1>2. LedgerInv /\ [Next]_vars => LedgerInv' /\ [Register!Next]_registerView
  BY StepKeepsLedger, StepMovesRegister DEF LedgerInv
<1> QED
  BY InitIsInOrder, <1>1, <1>2, PTL DEF Spec, ImplementsRegister, Register!Spec
====
