--------------------------- MODULE ResolutionRecords ---------------------------
(***************************************************************************)
(* irena-resolution: what a resolution may rest on, what executing it may  *)
(* change, and what a reader re-establishes about both.  The authority is  *)
(* one person's decision through an individual channel, or the vote by     *)
(* which a meeting of a collective channel answered an item of its agenda. *)
(***************************************************************************)
EXTENDS MeetingRecords

Individual(channel, decision) ==
    [mode |-> "individual", channel |-> channel, decision |-> decision]
Collective(channel, meeting, item, vote) ==
    [mode |-> "collective", channel |-> channel, meeting |-> meeting,
     item |-> item, vote |-> vote]

ResolutionRecord(company, authority, proposal, signer) ==
    [namespace |-> "resolution", parts |-> NoParts, company |-> company,
     authority |-> authority, proposal |-> proposal, signer |-> signer]

ExecutionRecord(resolution, amendment, target, replaced, proposal, signer) ==
    [namespace |-> "execution", parts |-> NoParts, resolution |-> resolution,
     amendment |-> amendment, target |-> target, replaced |-> replaced,
     proposal |-> proposal, signer |-> signer]

RecordsOf(chain, namespace) ==
    {h \in 0..HeadHeight(chain) : RecordAt(chain, h).namespace = namespace}

(* What the record decided through an authority saw, when it froze.        *)
Decided(chain, authority) ==
    RecordAt(chain, IF authority.mode = "individual" THEN authority.decision
                    ELSE authority.vote).snapshot

(* ApprovalV1: only one person's decision has an actor, and a vote is on   *)
(* the proposal of its item.                                               *)
approval(chain, authority) ==
    LET decided == Decided(chain, authority)
        alone == authority.mode = "individual"
    IN  [channel |-> authority.channel, company |-> decided.company,
         height |-> decided.height, pins |-> decided.pins,
         actor |-> IF alone THEN Some(decided.actor) ELSE None,
         proposal |-> IF alone THEN decided.proposal ELSE decided.proposal[2]]

(* Fault: the record in force is taken for the one that was approved.      *)
base_of_Current(chain, approved, target) ==
    provider_of(chain, HeadHeight(chain), target)

(* The record of the part in force when what approved it froze.            *)
base_of(chain, approved, target) ==
    IF target \in Pinned THEN approved.pins[target]
    ELSE provider_of(chain, approved.height, target)

WithinChannelScope(chain, approved, target) ==
    /\ Reconstructs(chain, approved.height)
    /\ approved.channel \in DOMAIN ChannelsAt(chain, approved.height)
    /\ may_amend(ChannelsAt(chain, approved.height)[approved.channel], target)

AnsweredBy(chain, authority) ==
    LET items == RecordAt(chain, authority.meeting).items
    IN  /\ authority.item \in DOMAIN items
        /\ items[authority.item].item.is_vote
        /\ items[authority.item].vote_tx = Some(authority.vote)

(* The record the authority names verifies and grants something.           *)
Granted(chain, authority) ==
    IF authority.mode = "individual"
    THEN verify_decision(chain, authority.decision) = {}
    ELSE /\ verify_meeting(chain, authority.meeting) = {}
         /\ AnsweredBy(chain, authority)
         /\ verify_vote(chain, authority.vote) = {}
         /\ RecordAt(chain, authority.vote).evaluation.accepted

(* Fault: the channel's scope is not looked at.                            *)
check_authority_Unscoped(chain, authority, proposal) ==
    /\ Granted(chain, authority)
    /\ Decided(chain, authority).channel = authority.channel
    /\ approval(chain, authority).proposal = proposal

check_authority(chain, authority, proposal) ==
    /\ Granted(chain, authority)
    /\ Decided(chain, authority).channel = authority.channel
    /\ Amends(proposal) =>
          WithinChannelScope(chain, approval(chain, authority), proposal[1])
    /\ approval(chain, authority).proposal = proposal

-----------------------------------------------------------------------------
(* demotion.rs: what one person's signature may do to the company          *)

seats(channels, signer, shares) ==
    {id \in DOMAIN channels : signer \in DOMAIN actors_of(channels[id], shares)}

(* Fault: a seat kept may be on a channel that changed.                    *)
self_demotion_SeatsOnly(signer, old, new, shares) ==
    seats(new, signer, shares) \subseteq seats(old, signer, shares)

self_demotion(signer, old, new, shares) ==
    LET before == seats(old, signer, shares)
        after == seats(new, signer, shares)
    IN  /\ after \subseteq before
        /\ \A id \in after : old[id] = new[id]

identity_demotion(signer, old, new) ==
    \A p \in DOMAIN old \ {signer} : p \in DOMAIN new /\ new[p] = old[p]

families_of(authorisation, p) == {f \in Family : <<p, f>> \in authorisation}

authorisation_demotion(signer, old, new) ==
    families_of(new, signer) \subseteq families_of(old, signer)

(* Each target's rule, against the company at a height.                    *)
DemotionHolds(chain, at, signer, target, value) ==
    LET old == InForce(chain, at, target)
    IN  CASE target = "DecisionChannels" ->
                self_demotion(signer, old, value, InForce(chain, at, "ShareStructure"))
          [] target = "Identities" -> identity_demotion(signer, old, value)
          [] target = "Authorisation" -> authorisation_demotion(signer, old, value)
          [] OTHER -> TRUE

-----------------------------------------------------------------------------
(* lifecycle.rs                                                            *)

find_execution(chain, resolution) ==
    LET found == {h \in RecordsOf(chain, "execution") :
                     RecordAt(chain, h).resolution = resolution}
    IN  IF found = {} THEN None ELSE Some(Min(found))

(* Everything execute and then publish refuse.                             *)
Executable(chain, resolution, authority, proposal, key) ==
    LET at == HeadHeight(chain)
        approved == approval(chain, authority)
        target == proposal[1]
        base == base_of(chain, approved, target)
    IN  /\ Amends(proposal)
        /\ find_execution(chain, resolution) = None
        /\ GovernanceSigner(chain, key)
        /\ provider_of(chain, at, target) = base
        /\ check_authority(chain, authority, proposal)
        /\ \A actor \in approved.actor :
              DemotionHolds(chain, at, actor, target, proposal[2])
        /\ Acceptable(chain, key, target, proposal[2], base)

-----------------------------------------------------------------------------
(* verify.rs                                                               *)

verify_individual(chain, authority) ==
    Failed("DecisionVerifies", verify_decision(chain, authority.decision) = {})

verify_collective(chain, authority) ==
    LET items == RecordAt(chain, authority.meeting).items
        entry == items[authority.item]
    IN  IF verify_meeting(chain, authority.meeting) # {} THEN {"MeetingVerifies"}
        ELSE IF authority.item \notin DOMAIN items \/ ~entry.item.is_vote
        THEN {"ItemIsAVote"}
        ELSE IF entry.vote_tx # Some(authority.vote) THEN {"VoteAnsweredTheItem"}
        ELSE IF verify_vote(chain, authority.vote) # {} THEN {"VoteVerifies"}
        ELSE Failed("VotePassed", RecordAt(chain, authority.vote).evaluation.accepted)

(* Where the record stands that the resolution must come after.            *)
DecidedHeight(authority) ==
    IF authority.mode = "individual" THEN authority.decision ELSE authority.meeting

(* Once the record is known to say what was approved.                      *)
ApprovalChecks(chain, h) ==
    LET record == RecordAt(chain, h)
        approved == approval(chain, record.authority)
    IN  Failed("ChannelMatches",
               Decided(chain, record.authority).channel = approved.channel)
        \cup Failed("WithinChannelScope",
                    Amends(record.proposal) =>
                       WithinChannelScope(chain, approved, record.proposal[1]))
        \cup Failed("ProposalMatches", record.proposal = approved.proposal)
        \cup Failed("CompanyMatches",
                    {record.company, approved.company} = {CompanyOf(chain)})
        \cup Failed("HeightsOrdered", DecidedHeight(record.authority) < h)
        \cup Failed("SignerAuthorised", signer_authorised_at(chain, h, record.signer))

(* A rejected vote fails its check and the others are still made.          *)
verify_authority(chain, h) ==
    LET authority == RecordAt(chain, h).authority
        decided == IF authority.mode = "individual"
                   THEN verify_individual(chain, authority)
                   ELSE verify_collective(chain, authority)
    IN  IF decided \subseteq {"VotePassed"}
        THEN decided \cup ApprovalChecks(chain, h)
        ELSE decided

verify_resolution(chain, h) ==
    IF RecordAt(chain, h).namespace # "resolution" THEN {"Decodes"}
    ELSE verify_authority(chain, h)

AmendmentExists(chain, execution, resolution) ==
    LET amendment == RecordAt(chain, execution.amendment)
    IN  /\ IsCompanyRecord(amendment)
        /\ DOMAIN amendment.parts = {execution.target}
        /\ amendment.company = resolution.company

(* Once the execution is known to name a resolution and an amendment.      *)
EffectChecks(chain, h) ==
    LET execution == RecordAt(chain, h)
        resolution == RecordAt(chain, execution.resolution)
        amendment == RecordAt(chain, execution.amendment)
        approved == approval(chain, resolution.authority)
        value == amendment.parts[execution.target]
        base == base_of(chain, approved, execution.target)
    IN  Failed("AmendmentMatchesResolution",
               /\ value = resolution.proposal[2]
               /\ resolution.proposal = execution.proposal
               /\ execution.proposal = approved.proposal)
        \cup Failed("AmendmentReplacedApprovedBase",
                    amendment.supersedes = Some(base) /\ execution.replaced = base)
        \cup Failed("SelfDemotionHolds",
                    \A actor \in approved.actor :
                        /\ Reconstructs(chain, execution.amendment - 1)
                        /\ DemotionHolds(chain, execution.amendment - 1, actor,
                                         execution.target, value))
        \cup Failed("AmendmentApplied",
                    Reconstructs(chain, h) /\ execution.amendment <= h)
        \cup Failed("HeightsOrdered",
                    /\ execution.resolution < execution.amendment
                    /\ execution.amendment <= h)
        \cup Failed("SignerAuthorised", signer_authorised_at(chain, h, execution.signer))
        \cup Failed("ExecutedOnce",
                    find_execution(chain, execution.resolution) = Some(h))

verify_execution(chain, h) ==
    LET execution == RecordAt(chain, h)
        resolution == RecordAt(chain, execution.resolution)
    IN  IF execution.namespace # "execution" THEN {"Decodes"}
        ELSE IF verify_resolution(chain, execution.resolution) # {}
        THEN {"ResolutionVerifies"}
        ELSE IF ~Amends(resolution.proposal) \/ resolution.proposal[1] # execution.target
        THEN {"ResolutionAuthorisesThis"}
        ELSE IF ~AmendmentExists(chain, execution, resolution)
        THEN {"AmendmentExists"}
        ELSE EffectChecks(chain, h)
=============================================================================
