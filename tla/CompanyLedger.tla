---------------------------- MODULE CompanyLedger ----------------------------
(***************************************************************************)
(* irena-ledger: founding a company and publishing amendments to it, by    *)
(* several publishers on one chain.                                        *)
(*                                                                         *)
(* publish reads the company at the head, judges the amendment against it, *)
(* reads the head again to build the block, and appends it: three store    *)
(* calls.  A command of irena-cli holds the chain file from before the     *)
(* first to after the last (Exclusive); threads of one process sharing a   *)
(* store do not.                                                           *)
(***************************************************************************)
EXTENDS CompanyDocument

CONSTANTS Publisher,    \* commands or threads calling publish
          Company,      \* company ids
          Founding,     \* genesis documents
          Amendment,    \* the kinds and documents of amendments
          Notarisation, \* what a notary may attest with
          Exclusive,    \* whether a publisher holds the file throughout
          MaxHeight     \* bound on the height of the chain

ASSUME ExclusiveAssumption == Exclusive \in BOOLEAN
ASSUME MaxHeightAssumption == MaxHeight \in Nat
ASSUME AmendmentAssumption == \A a \in Amendment : a.kind \in Part
(* A founding document is a prolog and a root element.                      *)
ASSUME FoundingAssumption == \A d \in Founding : DOMAIN d = {"prolog", "element"}

VARIABLES chain,        \* the records on the chain, as read_record reads them
          phase,        \* per publisher: "idle", "judged" or "built"
          draft,        \* per publisher: the payload it means to append, if any
          base,         \* per publisher: the head its block is built on
          holder        \* the publisher holding the file, if any

vars == <<chain, phase, draft, base, holder>>

Init ==
    /\ chain = << >>
    /\ phase = [p \in Publisher |-> "idle"]
    /\ draft = [p \in Publisher |-> None]
    /\ base = [p \in Publisher |-> -1]
    /\ holder = None

(* What every reader of the chain finds in a committed transaction: bytes  *)
(* do not change, and read_record is a function of them.                   *)
RecordRead(payload, signer) ==
    IF read_record(payload) = Nothing THEN UnreadableRecord
    ELSE LET record == CHOOSE r \in read_record(payload) : TRUE
         IN  Record(record.company, record.parts, record.supersedes, signer)

(* irena init: the notarisation built from the arguments, then             *)
(* genesis_with_company and init_genesis.                                  *)
FoundCompany(company, document, key, notarisation) ==
    /\ chain = << >>
    /\ IsNotaryTime(notarisation.at)
    /\ \E parts \in read_document(GenesisKind, document) :
          ~lockout_after(parts["Identities"], parts["Authorisation"])
    /\ \E payload \in compose(GenesisKind, company, None, notarisation, document) :
          chain' = <<RecordRead(payload, key)>>
    /\ UNCHANGED <<phase, draft, base, holder>>

(* The chain's other transactions: another namespace's, or governance's.   *)
AppendOther ==
    /\ chain # << >>
    /\ Exclusive => holder = None
    /\ HeadHeight(chain) < MaxHeight
    /\ chain' = Append(chain, OtherRecord)
    /\ UNCHANGED <<phase, draft, base, holder>>

-----------------------------------------------------------------------------
(* publish                                                                 *)

(* Everything publish refuses, from the company at the head and the record *)
(* it composes.                                                            *)
Judge(p, key, kind, document, notarisation, supersedes) ==
    /\ phase[p] = "idle"
    /\ Exclusive => holder = None
    /\ HeadHeight(chain) < MaxHeight
    /\ chain # << >> /\ IsNotaryTime(notarisation.at)
    /\ \E payload \in compose(kind, CompanyOf(chain), Some(supersedes),
                              notarisation, document) :
          /\ \E record \in read_record(payload) :
                Acceptable(chain, key, kind, record.parts[kind], supersedes)
          /\ draft' = [draft EXCEPT ![p] = Some([payload |-> payload, signer |-> key])]
    /\ phase' = [phase EXCEPT ![p] = "judged"]
    /\ holder' = IF Exclusive THEN Some(p) ELSE None
    /\ UNCHANGED <<chain, base>>

(* head(), get_block and the child draft of the block found there.         *)
Build(p) ==
    /\ phase[p] = "judged"
    /\ phase' = [phase EXCEPT ![p] = "built"]
    /\ base' = [base EXCEPT ![p] = HeadHeight(chain)]
    /\ UNCHANGED <<chain, draft, holder>>

(* append_block: a block on the head is committed; on an earlier one it is *)
(* a fork and refused.                                                     *)
AppendBlock(p) ==
    /\ phase[p] = "built"
    /\ IF base[p] = HeadHeight(chain)
       THEN \E d \in draft[p] : chain' = Append(chain, RecordRead(d.payload, d.signer))
       ELSE UNCHANGED chain
    /\ phase' = [phase EXCEPT ![p] = "idle"]
    /\ draft' = [draft EXCEPT ![p] = None]
    /\ base' = [base EXCEPT ![p] = -1]
    /\ holder' = holder \ {p}

(* The publisher dies, or a store call fails.                              *)
Abandon(p) ==
    /\ phase[p] # "idle"
    /\ phase' = [phase EXCEPT ![p] = "idle"]
    /\ draft' = [draft EXCEPT ![p] = None]
    /\ base' = [base EXCEPT ![p] = -1]
    /\ holder' = holder \ {p}
    /\ UNCHANGED chain

Next ==
    \/ \E company \in Company, document \in Founding, key \in Key, n \in Notarisation :
          FoundCompany(company, document, key, n)
    \/ AppendOther
    \/ \E p \in Publisher :
          \/ \E key \in Key, a \in Amendment, n \in Notarisation, h \in 0..HeadHeight(chain) :
                Judge(p, key, a.kind, a.document, n, h)
          \/ Build(p)
          \/ AppendBlock(p)
          \/ Abandon(p)

Spec == Init /\ [][Next]_vars

-----------------------------------------------------------------------------
(* Properties                                                              *)

(* What publish accepts is what reconstruct accepts: no sequence of        *)
(* foundings and amendments ever leaves a company that cannot be read.     *)
Reconstructible ==
    chain # << >> => Reconstructs(chain, HeadHeight(chain))

(* A stale amendment is refused: no two records replace the same version   *)
(* of a part (IRENA_V1.md, "how two editors clobber each other").          *)
NoClobber ==
    \A i, j \in 1..Len(chain) :
        (/\ i # j
         /\ IsCompanyRecord(chain[i]) /\ IsCompanyRecord(chain[j])
         /\ DOMAIN chain[i].parts = DOMAIN chain[j].parts)
            => chain[i].supersedes # chain[j].supersedes

(* Nothing appended changes which record provided a part at a past height. *)
PastIsFixed ==
    [][\A at \in 0..HeadHeight(chain), part \in Part :
          /\ provider_of(chain', at, part) = provider_of(chain, at, part)
          /\ InForce(chain', at, part) = InForce(chain, at, part)]_vars

registerView ==
    IF chain = << >> THEN [part \in {} |-> {}]
    ELSE [part \in Part |->
            [version |-> provider_of(chain, HeadHeight(chain), part),
             value |-> InForce(chain, HeadHeight(chain), part)]]

Register == INSTANCE CompanyRegister WITH register <- registerView

(* The chain of amendments implements a register amended part by part.     *)
ImplementsRegister == Register!Spec
=============================================================================
