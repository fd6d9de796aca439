---------------------------- MODULE CompanyRecords ----------------------------
(***************************************************************************)
(* irena-core and irena-ledger: the company a chain of records says.       *)
(*                                                                         *)
(* Every block irena writes carries one transaction, so a chain here is a  *)
(* sequence of records, the record at height h at place h + 1, and the     *)
(* height names the transaction: ids never repeat (each draft's nonce is   *)
(* its height).  A record provides the parts it carries: all five for a    *)
(* genesis, one for an amendment, none for a record of another namespace.  *)
(***************************************************************************)
EXTENDS Integers, Sequences, FiniteSets, FiniteSetsExt

CONSTANTS Person,       \* the people identities may list
          Key           \* the public keys they may hold

Part == {"Identity", "ShareStructure", "DecisionChannels", "Identities",
         "Authorisation"}
Family == {"company", "governance"}

None == {}
Some(x) == {x}

(* Identities are the key, if any, of each person listed; authorisation is *)
(* who may sign which family of record.                                    *)

(* IdentitiesV1::new and AuthorisationV1::new.                             *)
ValidIdentities(identities) ==
    \A p, q \in DOMAIN identities :
        p # q => identities[p] \cap identities[q] = {}
ValidAuthorisation(authorisation) ==
    \E row \in authorisation : row[2] = "company"

ValidPart(part, value) ==
    /\ part = "Identities" => ValidIdentities(value)
    /\ part = "Authorisation" => ValidAuthorisation(value)

-----------------------------------------------------------------------------
(* authority.rs                                                            *)

key_of(identities, p) ==
    IF p \in DOMAIN identities THEN identities[p] ELSE None
holder_of(identities, key) ==
    {p \in DOMAIN identities : key \in identities[p]}

(* Whether the holder of the key may sign records of the family.           *)
signer_of(identities, authorisation, family, key) ==
    \E p \in holder_of(identities, key) : <<p, family>> \in authorisation

lockout_after(identities, authorisation) ==
    ~ \E row \in authorisation :
        row[2] = "company" /\ key_of(identities, row[1]) # None

-----------------------------------------------------------------------------
(* state.rs: reading a chain                                               *)

HeadHeight(chain) == Len(chain) - 1
RecordAt(chain, height) == chain[height + 1]

Record(company, parts, supersedes, signer) ==
    [namespace |-> "company", company |-> company, parts |-> parts,
     supersedes |-> supersedes, signer |-> signer]

(* A transaction of another namespace, which reconstruct skips.            *)
NoParts == [part \in {} |-> {}]
OtherRecord == [namespace |-> "other", parts |-> NoParts]

(* A company transaction whose payload read_record refuses: no company's.  *)
UnreadableRecord ==
    [namespace |-> "company", company |-> None, parts |-> NoParts,
     supersedes |-> None, signer |-> None]

IsCompanyRecord(record) == record.namespace = "company"
IsGenesis(record) == DOMAIN record.parts = Part

(* Heights reconstruct visits: up to `at', or to the head if that is lower.*)
Upto(chain, at) == {h \in 0..HeadHeight(chain) : h <= at}
CompanyHeights(chain, at) ==
    {h \in Upto(chain, at) : IsCompanyRecord(RecordAt(chain, h))}

(* Fault: the height asked for is ignored.                                 *)
Providers_Head(chain, at, part) ==
    {h \in 0..HeadHeight(chain) : part \in DOMAIN RecordAt(chain, h).parts}

(* The last record providing a part: provider_of, once the records up to   *)
(* `at' have been applied.                                                 *)
Providers(chain, at, part) ==
    {h \in Upto(chain, at) : part \in DOMAIN RecordAt(chain, h).parts}
provider_of(chain, at, part) == Max(Providers(chain, at, part))

InForce(chain, at, part) ==
    RecordAt(chain, provider_of(chain, at, part)).parts[part]

authorised_signer(chain, at, family, key) ==
    signer_of(InForce(chain, at, "Identities"),
              InForce(chain, at, "Authorisation"), family, key)

LockedOut(chain, at) ==
    lockout_after(InForce(chain, at, "Identities"),
                  InForce(chain, at, "Authorisation"))

IsFirst(chain, h) == CompanyHeights(chain, h) = {h}
GenesisHeight(chain) ==
    CHOOSE h \in 0..HeadHeight(chain) : IsFirst(chain, h)
CompanyOf(chain) == RecordAt(chain, GenesisHeight(chain)).company

(* found_company: what the first company record must satisfy.              *)
found_company(chain, h) ==
    LET found == RecordAt(chain, h)
    IN  /\ IsGenesis(found)
        /\ found.supersedes = None
        /\ ~LockedOut(chain, h)

(* apply: what a later one must satisfy, against the company before it.    *)
apply(chain, h) ==
    LET found == RecordAt(chain, h)
    IN  /\ found.company = CompanyOf(chain)
        /\ ~IsGenesis(found)
        /\ authorised_signer(chain, h - 1, "company", found.signer)
        /\ \A part \in DOMAIN found.parts :
              found.supersedes = Some(provider_of(chain, h - 1, part))
        /\ ~LockedOut(chain, h)

(* reconstruct succeeds: there is a company, and no record stops the walk. *)
(* The company it returns is InForce and provider_of at `at'.              *)
Reconstructs(chain, at) ==
    /\ CompanyHeights(chain, at) # {}
    /\ \A h \in CompanyHeights(chain, at) :
          IF IsFirst(chain, h) THEN found_company(chain, h) ELSE apply(chain, h)

-----------------------------------------------------------------------------
(* ledger.rs: what founding and publishing accept, and the record written. *)

ValidFounding(parts) ==
    /\ \A part \in Part : ValidPart(part, parts[part])
    /\ ~lockout_after(parts["Identities"], parts["Authorisation"])

(* Fault: only new identities are looked at.                               *)
LocksOut_IdentitiesOnly(chain, part, value) ==
    /\ part = "Identities"
    /\ lockout_after(value, InForce(chain, HeadHeight(chain), "Authorisation"))

(* Whether the amendment leaves no company signer holding a key.           *)
LocksOut(chain, part, value) ==
    LET at == HeadHeight(chain)
    IN  \/ /\ part = "Identities"
           /\ lockout_after(value, InForce(chain, at, "Authorisation"))
        \/ /\ part = "Authorisation"
           /\ lockout_after(InForce(chain, at, "Identities"), value)

(* Fault: supersedes is taken as given.                                    *)
Acceptable_Unversioned(chain, key, part, value, supersedes) ==
    LET at == HeadHeight(chain)
    IN  /\ Reconstructs(chain, at)
        /\ authorised_signer(chain, at, "company", key)
        /\ ValidPart(part, value)
        /\ ~LocksOut(chain, part, value)

(* company_now and every refusal publish makes from it.                    *)
Acceptable(chain, key, part, value, supersedes) ==
    LET at == HeadHeight(chain)
    IN  /\ Reconstructs(chain, at)
        /\ authorised_signer(chain, at, "company", key)
        /\ supersedes = provider_of(chain, at, part)
        /\ ValidPart(part, value)
        /\ ~LocksOut(chain, part, value)

compose_record(chain, part, value, supersedes, key) ==
    Record(CompanyOf(chain), [q \in {part} |-> value], Some(supersedes), key)
=============================================================================
