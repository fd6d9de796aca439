------------------------------- MODULE Tally -------------------------------
(***************************************************************************)
(* Bornite fed one ballot at a time: rules and an electorate fixed, and a  *)
(* ballot set that grows or changes by one choice. It asks how evaluate    *)
(* moves between neighbouring inputs, and what it promises of each.        *)
(***************************************************************************)
EXTENDS Bornite

CONSTANTS Voter,        \* whoever may hand in a ballot
          Poll          \* the pairs of rules and electorate looked at

VARIABLES poll,         \* the pair being polled
          ballots       \* who voted, and what
vars == <<poll, ballots>>

(* What the constructors of the rules and the electorate let through: a    *)
(* fraction has a denominator, a weight is at least one, lists are finite. *)
IsFraction(f) ==
    /\ f = Fraction(f.numerator, f.denominator)
    /\ f.numerator \in Nat
    /\ f.denominator \in Nat \ {0}

IsRules(r) ==
    /\ r.weight \in {"equal", "electorate"}
    /\ r.quorum.kind \in {"none", "absolute", "fraction"}
    /\ r.quorum.kind = "absolute" => r.quorum.weight \in Nat \ {0}
    /\ r.quorum.kind = "fraction" => IsFraction(r.quorum.fraction)
    /\ IsFraction(r.threshold.fraction)
    /\ r.threshold.basis \in {"votes-cast", "effective-electorate", "total-electorate"}
    /\ r.abstentions \in {"exclude", "include"}
    /\ r.tie \in {"reject", "accept"}

IsElectorate(e) ==
    /\ IsFiniteSet(DOMAIN e)
    /\ \A v \in DOMAIN e : e[v].weight \in Nat \ {0}

ASSUME PollAssumption == \A p \in Poll : IsRules(p.rules) /\ IsElectorate(p.electorate)

rules == poll.rules
electorate == poll.electorate
result == evaluate(rules, electorate, ballots)
counted == result.refused = {}

Init ==
    /\ poll \in Poll
    /\ ballots = [v \in {} |-> "abstain"]

(* A ballot handed in, or one replaced; nobody polls under invalid rules. *)
Cast(v, choice) ==
    /\ validate(rules, electorate) = {}
    /\ ballots' = [w \in DOMAIN ballots \cup {v} |->
                       IF w = v THEN choice ELSE ballots[w]]
    /\ UNCHANGED poll

Next == \E v \in Voter, choice \in Choice : Cast(v, choice)

Spec == Init /\ [][Next]_vars

-----------------------------------------------------------------------------
(* Nothing in an evaluation is out of a u64's range: no subtraction of     *)
(* non-participants goes below zero (evaluate.rs expects so, and would     *)
(* panic), and no sum after the whole register's overflows.                *)
NothingPanics ==
    LET r == result IN
    r.refused = {} =>
        /\ r.non_participant_weight >= 0
        /\ r.non_participant_count >= 0
        /\ r.denominator \in 0..MaxWeight
        /\ r.total_weight <= MaxWeight
        /\ \A c \in Choice : r.tally[c] <= MaxWeight

(* What an auditor recomputes from the result alone (BORNITE_V1.md 6): the *)
(* parts add up, and an acceptance met both its quorum and its threshold.  *)
AuditorsAddUp ==
    LET r == result IN
    r.refused = {} =>
        /\ r.counts["yes"] + r.counts["no"] + r.counts["abstain"] = r.ballot_count
        /\ r.tally["yes"] + r.tally["no"] + r.tally["abstain"] = r.participating_weight
        /\ r.participating_weight + r.non_participant_weight = r.effective_weight
        /\ r.effective_voter_count <= r.voter_count
        /\ r.accepted => r.quorum_met /\ r.threshold_met

(* The number recorded as the quorum is the quorum: a participation meets  *)
(* the rule exactly when it reaches that number (irena-vote record.rs).    *)
RecordedQuorumDecides ==
    LET r == result IN
    r.refused = {} =>
        LET required == quorum_required_weight(rules, r.total_weight, r.effective_weight)
        IN  r.quorum_met = \A least \in required : r.participating_weight >= least

(* One more yes, from a voter silent, against or abstaining, never turns   *)
(* an acceptance into a rejection; and a no from one who voted otherwise   *)
(* never carries a motion.  (From one who was silent it may, by making the *)
(* quorum; and where the threshold is zero a no may be what gives it a     *)
(* basis.)                                                                 *)
BallotsPullTheirWay ==
    [][\A v \in Voter :
          /\ Cast(v, "yes") /\ counted /\ counted' => (result.accepted => result'.accepted)
          /\ (/\ v \in DOMAIN ballots
              /\ Cast(v, "no")
              /\ counted
              /\ rules.threshold.fraction.numerator > 0)
                => (result'.accepted => result.accepted)]_vars
=============================================================================
