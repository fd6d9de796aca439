---------------------------- MODULE VoteRecords ----------------------------
(***************************************************************************)
(* irena-vote: what a vote freezes, which ballots it takes, the record it  *)
(* leaves and what a verifier re-establishes about that record.            *)
(*                                                                         *)
(* The vote id, the digest of the snapshot, is the snapshot itself; a      *)
(* ballot's signature is the key that made it, over the rest of the ballot;*)
(* accepted ballots are a function from voters, the map the code keeps, so *)
(* their order and their Merkle commitment (BallotsOrdered,                *)
(* CommitmentDerives) have nothing left to say.                            *)
(***************************************************************************)
EXTENDS GovernanceRecords, Bornite

CollectiveChannel(roster, scope, rules) ==
    [individual |-> FALSE, roster |-> roster, scope |-> scope, rules |-> rules]

IsCollective(chain, at, id) ==
    resolve_channel(chain, at, id) /\ ~ChannelsAt(chain, at)[id].individual

RulesAt(chain, at, id) == ChannelsAt(chain, at)[id].rules

(* Fault: an actor who cannot sign weighs nothing.                         *)
ElectorateAt_KeylessWeighsNothing(chain, at, id) ==
    LET shares == ActorsAt(chain, at, id)
        identities == InForce(chain, at, "Identities")
    IN  [voter \in DOMAIN shares |->
            [weight |-> IF key_of(identities, voter) = None THEN 0 ELSE shares[voter],
             excluded |-> FALSE, key |-> key_of(identities, voter)]]

(* Every actor, with its weight and the key its identity held, if any.     *)
ElectorateAt(chain, at, id) ==
    LET shares == ActorsAt(chain, at, id)
        identities == InForce(chain, at, "Identities")
    IN  [voter \in DOMAIN shares |->
            [weight |-> shares[voter], excluded |-> FALSE, key |-> key_of(identities, voter)]]

-----------------------------------------------------------------------------
(* lifecycle.rs and snapshot.rs                                            *)

VoteFreezable(chain, at, id) == Reconstructs(chain, at) /\ IsCollective(chain, at, id)

VoteSnapshot(chain, at, id, proposal) ==
    [company |-> CompanyOf(chain), proposal |-> proposal, height |-> at,
     genesis |-> GenesisHeight(chain), pins |-> pins(chain, at), channel |-> id,
     electorate |-> ElectorateAt(chain, at, id)]

SignedBallot(key, vote_id, voter, choice) ==
    [vote_id |-> vote_id, voter |-> voter, choice |-> choice, key |-> key]

(* SignedBallotV1::check                                                   *)
check_ballot(ballot, snapshot) ==
    /\ ballot.vote_id = snapshot
    /\ ballot.voter \in DOMAIN snapshot.electorate
    /\ ~snapshot.electorate[ballot.voter].excluded
    /\ snapshot.electorate[ballot.voter].key = Some(ballot.key)

NoBallots == [voter \in {} |-> {}]
bornite_ballots(ballots) == [voter \in DOMAIN ballots |-> ballots[voter].choice]

(* The checks evaluate_now makes before it counts.                         *)
ChannelsHold(chain, snapshot) ==
    /\ Reconstructs(chain, snapshot.height)
    /\ snapshot.pins["DecisionChannels"] =
          provider_of(chain, snapshot.height, "DecisionChannels")
    /\ snapshot.company = CompanyOf(chain)
    /\ IsCollective(chain, snapshot.height, snapshot.channel)

(* Fault: the rules are those in force today.                              *)
Count_TodaysRules(chain, snapshot, ballots) ==
    evaluate(RulesAt(chain, HeadHeight(chain), snapshot.channel),
             snapshot.electorate, bornite_ballots(ballots))

(* The frozen channel's rules over the frozen electorate.                  *)
Count(chain, snapshot, ballots) ==
    evaluate(RulesAt(chain, snapshot.height, snapshot.channel),
             snapshot.electorate, bornite_ballots(ballots))

(* evaluate_now returns a result, and it is this one.                      *)
evaluate_now(chain, snapshot, ballots, result) ==
    /\ ChannelsHold(chain, snapshot)
    /\ result = Count(chain, snapshot, ballots)
    /\ result.refused = {}

VoteRecord(vote, signer) ==
    [namespace |-> "vote", parts |-> NoParts, snapshot |-> Content(vote.snapshot),
     ballots |-> vote.ballots, evaluation |-> Content(vote.evaluation), signer |-> signer]

-----------------------------------------------------------------------------
(* verify.rs                                                               *)

ElectorateDerives(chain, snapshot) ==
    snapshot.electorate = ElectorateAt(chain, snapshot.height, snapshot.channel)

VoteChecks(chain, h) ==
    LET record == RecordAt(chain, h)
        snapshot == record.snapshot
        collective == IsCollective(chain, snapshot.height, snapshot.channel)
    IN  Failed("SignerAuthorised", signer_authorised_at(chain, h, record.signer))
        \cup Failed("ChannelIsCollective", collective)
        \cup Failed("ElectorateDerives", collective => ElectorateDerives(chain, snapshot))
        \cup Failed("BallotsVerify",
                    \A voter \in DOMAIN record.ballots :
                        check_ballot(record.ballots[voter], snapshot))
        \cup Failed("ResultReproduces",
                    collective => record.evaluation = Count(chain, snapshot, record.ballots))

verify_vote(chain, h) ==
    LET record == RecordAt(chain, h)
    IN  IF record.namespace # "vote" THEN {"Decodes"}
        ELSE Failed("SnapshotPrecedesRecord", record.snapshot.height < h)
             \cup IF RecordsResolve(chain, record.snapshot)
                  THEN VoteChecks(chain, h)
                  ELSE {"RecordsResolve"}
=============================================================================
