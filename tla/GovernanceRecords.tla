--------------------------- MODULE GovernanceRecords ---------------------------
(***************************************************************************)
(* irena-decision and irena-resolution: the records of who decided what,   *)
(* and what a reader of the chain re-establishes about each of them.       *)
(*                                                                         *)
(* A channel set maps the ids of its channels to what they are; a share    *)
(* register maps its holders to their shares.  A record is named by its    *)
(* height, as in CompanyRecords; a proposal stands for its digest, and a   *)
(* signature for the key that made it and the statement it signs.  A       *)
(* verifier returns the set of checks that fail: empty is "valid".         *)
(***************************************************************************)
EXTENDS CompanyRecords

(* The parts a resolution may amend.                                       *)
Target == Part \ {"Identity"}

(* A roster is never empty: the empty one says that the channel's actors   *)
(* are those of the share register.                                        *)
ShareRegister == [voter \in {} |-> 0]

Channel(individual, roster, scope) ==
    [individual |-> individual, roster |-> roster, scope |-> scope]

may_amend(channel, part) == part \in channel.scope

(* A proposal is the amendment <<part, value>> of the company, or a        *)
(* document that amends nothing.                                           *)
Amends(proposal) == proposal[1] \in Target

Content(option) == CHOOSE x \in option : TRUE

Failed(check, passed) == IF passed THEN {} ELSE {check}

-----------------------------------------------------------------------------
(* resolve.rs                                                              *)

actors_of(channel, shares) ==
    IF channel.roster = ShareRegister THEN shares ELSE channel.roster

ChannelsAt(chain, at) == InForce(chain, at, "DecisionChannels")
ActorsAt(chain, at, id) ==
    actors_of(ChannelsAt(chain, at)[id], InForce(chain, at, "ShareStructure"))

resolve_channel(chain, at, id) ==
    /\ id \in DOMAIN ChannelsAt(chain, at)
    /\ ChannelsAt(chain, at)[id].individual =>
          Cardinality(DOMAIN ActorsAt(chain, at, id)) = 1

IsIndividual(chain, at, id) ==
    resolve_channel(chain, at, id) /\ ChannelsAt(chain, at)[id].individual

sole_actor(chain, at, id) ==
    CHOOSE voter \in DOMAIN ActorsAt(chain, at, id) : TRUE

-----------------------------------------------------------------------------
(* decision.rs                                                             *)

Pinned == {"ShareStructure", "DecisionChannels", "Identities"}

pins(chain, at) == [part \in Pinned |-> provider_of(chain, at, part)]

Freezable(chain, at, id) ==
    /\ Reconstructs(chain, at)
    /\ IsIndividual(chain, at, id)
    /\ key_of(InForce(chain, at, "Identities"), sole_actor(chain, at, id)) # None

Snapshot(chain, at, id, proposal) ==
    LET actor == sole_actor(chain, at, id)
    IN  [company |-> CompanyOf(chain), proposal |-> proposal, height |-> at,
         genesis |-> GenesisHeight(chain), pins |-> pins(chain, at),
         channel |-> id, actor |-> actor,
         key |-> key_of(InForce(chain, at, "Identities"), actor)]

Signature(key, snapshot) == [key |-> key, statement |-> snapshot]
check_signature(snapshot, signature) ==
    Some(signature.key) = snapshot.key /\ signature.statement = snapshot

DecisionRecord(snapshot, signature, signer) ==
    [namespace |-> "decision", parts |-> NoParts, snapshot |-> snapshot,
     signature |-> signature, signer |-> signer]

(* company_now and the governance signer every finalize demands.           *)
GovernanceSigner(chain, key) ==
    /\ Reconstructs(chain, HeadHeight(chain))
    /\ authorised_signer(chain, HeadHeight(chain), "governance", key)

(* Fault: any writer of the company will do.                               *)
Recordable_CompanySigner(chain, snapshot, signature, key) ==
    /\ check_signature(snapshot, signature)
    /\ authorised_signer(chain, HeadHeight(chain), "company", key)
    /\ snapshot.company = CompanyOf(chain)

(* Fault: the pinned channels are compared with those of the head.         *)
Recordable_AgainstHead(chain, snapshot, signature, key) ==
    /\ check_signature(snapshot, signature)
    /\ GovernanceSigner(chain, key)
    /\ snapshot.pins["DecisionChannels"] =
          provider_of(chain, HeadHeight(chain), "DecisionChannels")
    /\ snapshot.company = CompanyOf(chain)

(* DecisionV1::finalize, once the decision is signed.                      *)
Recordable(chain, snapshot, signature, key) ==
    /\ check_signature(snapshot, signature)
    /\ GovernanceSigner(chain, key)
    /\ Reconstructs(chain, snapshot.height)
    /\ snapshot.pins["DecisionChannels"] =
          provider_of(chain, snapshot.height, "DecisionChannels")
    /\ snapshot.company = CompanyOf(chain)

-----------------------------------------------------------------------------
(* irena-decision/verify.rs                                                *)

signer_authorised_at(chain, at, signer) ==
    Reconstructs(chain, at) /\ authorised_signer(chain, at, "governance", signer)

RecordsResolve(chain, snapshot) ==
    /\ Reconstructs(chain, snapshot.height)
    /\ CompanyOf(chain) = snapshot.company
    /\ GenesisHeight(chain) = snapshot.genesis
    /\ pins(chain, snapshot.height) = snapshot.pins

(* Fault: the actor's key is looked up in the company of the head.         *)
ActorResolves_Today(chain, snapshot) ==
    LET actor == sole_actor(chain, snapshot.height, snapshot.channel)
    IN  /\ actor = snapshot.actor
        /\ key_of(InForce(chain, HeadHeight(chain), "Identities"), actor) = snapshot.key

ActorResolves(chain, snapshot) ==
    LET actor == sole_actor(chain, snapshot.height, snapshot.channel)
    IN  /\ actor = snapshot.actor
        /\ key_of(InForce(chain, snapshot.height, "Identities"), actor) = snapshot.key

(* Once the pinned records are known to be the ones in force.              *)
ResolvedChecks(chain, h) ==
    LET record == RecordAt(chain, h)
        snapshot == record.snapshot
        individual == IsIndividual(chain, snapshot.height, snapshot.channel)
    IN  Failed("SignerAuthorised", signer_authorised_at(chain, h, record.signer))
        \cup Failed("ChannelIsIndividual", individual)
        \cup Failed("ActorResolves", individual => ActorResolves(chain, snapshot))
        \cup Failed("SignatureVerifies",
                    check_signature(snapshot, record.signature))

verify_decision(chain, h) ==
    LET record == RecordAt(chain, h)
    IN  IF record.namespace # "decision" THEN {"Decodes"}
        ELSE Failed("SnapshotPrecedesRecord", record.snapshot.height < h)
             \cup IF RecordsResolve(chain, record.snapshot)
                  THEN ResolvedChecks(chain, h)
                  ELSE {"RecordsResolve"}
=============================================================================
