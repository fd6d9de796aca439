------------------------------ MODULE Bornite ------------------------------
(***************************************************************************)
(* The voting arithmetic (bornite-core, -rules, -eval): how rules, a       *)
(* frozen electorate and a set of ballots become one outcome, in integers. *)
(* An electorate is a function from voters to weight and exclusion, a      *)
(* ballot set a function from voters to choices, so neither has a          *)
(* duplicate, as the constructors of ElectorateV1 and BallotSetV1 ensure.  *)
(***************************************************************************)
EXTENDS Integers, FiniteSets, FiniteSetsExt

CONSTANT MaxWeight      \* the largest u64

ASSUME MaxWeightAssumption == MaxWeight \in Nat \ {0}

Choice == {"yes", "no", "abstain"}

Fraction(n, d) == [numerator |-> n, denominator |-> d]
Half == Fraction(1, 2)
IsProportion(f) == f.numerator <= f.denominator

(* Fault: the products taken in 64 bits, where they wrap. *)
compare_share_Wraps(f, value, basis) ==
    LET lhs == (value * f.denominator) % (MaxWeight + 1)
        rhs == (f.numerator * basis) % (MaxWeight + 1)
    IN  IF lhs > rhs THEN "Above" ELSE IF lhs = rhs THEN "Exactly" ELSE "Below"

(* compare_share(f, w, b): w/b against f, by cross-multiplication in u128. *)
compare_share(f, value, basis) ==
    LET lhs == value * f.denominator
        rhs == f.numerator * basis
    IN  IF lhs > rhs THEN "Above" ELSE IF lhs = rhs THEN "Exactly" ELSE "Below"

weight_of(rules, voter) == IF rules.weight = "equal" THEN 1 ELSE voter.weight

Weigh(rules, electorate, voters) ==
    MapThenSumSet(LAMBDA v : weight_of(rules, electorate[v]), voters)

Effective(rules, electorate) ==
    {v \in DOMAIN electorate : ~(rules.exclusions /\ electorate[v].excluded)}

(* Every reason the rules and the electorate contradict each other, at once. *)
validate(rules, electorate) ==
    LET voters == DOMAIN electorate
        total == Weigh(rules, electorate, voters)
        found ==
            [ImproperFraction |->
                \/ (rules.quorum.kind = "fraction" /\ ~IsProportion(rules.quorum.fraction))
                \/ ~IsProportion(rules.threshold.fraction),
             ContradictoryWeight |->
                rules.weight = "equal" /\ \E v \in voters : electorate[v].weight # 1,
             ContradictoryExclusion |->
                ~rules.exclusions /\ \E v \in voters : electorate[v].excluded,
             UnachievableQuorum |->
                /\ rules.quorum.kind = "absolute"
                /\ total <= MaxWeight
                /\ rules.quorum.weight > total,
             WeightOverflow |-> rules.quorum.kind = "absolute" /\ total > MaxWeight]
    IN  {issue \in DOMAIN found : found[issue]}

(* Fault: ballots of voters the rules exclude let through. *)
Refusals_IgnoresExclusion(rules, electorate, ballots) ==
    IF validate(rules, electorate) # {} THEN validate(rules, electorate)
    ELSE IF Weigh(rules, electorate, DOMAIN electorate) > MaxWeight THEN {"WeightOverflow"}
         ELSE IF DOMAIN ballots \subseteq DOMAIN electorate THEN {} ELSE {"UnknownVoter"}

(* Steps 1 to 4 of evaluate: what it refuses, stage by stage. *)
Refusals(rules, electorate, ballots) ==
    LET invalid == validate(rules, electorate)
        found ==
            [UnknownVoter |-> ~(DOMAIN ballots \subseteq DOMAIN electorate),
             ExcludedVoter |->
                \E v \in DOMAIN ballots \cap DOMAIN electorate :
                    v \notin Effective(rules, electorate)]
    IN  IF invalid # {} THEN invalid
        ELSE IF Weigh(rules, electorate, DOMAIN electorate) > MaxWeight
             THEN {"WeightOverflow"}
             ELSE {issue \in DOMAIN found : found[issue]}

(* What a fractional quorum is a fraction of. *)
quorum_basis(rules, total, effective) ==
    IF rules.quorum.basis = "total-electorate" THEN total ELSE effective

quorum_met(rules, participating, total, effective) ==
    CASE rules.quorum.kind = "none" -> TRUE
      [] rules.quorum.kind = "absolute" -> participating >= rules.quorum.weight
      [] rules.quorum.kind = "fraction" ->
            compare_share(rules.quorum.fraction, participating,
                          quorum_basis(rules, total, effective)) # "Below"

denominator_weight(rules, tally, participating, total, effective) ==
    CASE rules.threshold.basis = "votes-cast" ->
            IF rules.abstentions = "exclude"
            THEN tally["yes"] + tally["no"] ELSE participating
      [] rules.threshold.basis = "effective-electorate" -> effective
      [] rules.threshold.basis = "total-electorate" -> total

(* Fault: a tie taken as met whatever the tie rule is and however empty the basis. *)
ReasonCode_EmptyTie(rules, met, denominator, comparison) ==
    CASE ~met -> "quorum_not_met"
      [] met /\ comparison = "Above" -> "threshold_met"
      [] met /\ comparison = "Below" -> "threshold_not_met"
      [] met /\ comparison = "Exactly" ->
            IF rules.tie = "accept" THEN "tie_accepted" ELSE "tie_rejected"

ReasonCode(rules, met, denominator, comparison) ==
    CASE ~met -> "quorum_not_met"
      [] met /\ denominator = 0 -> "empty_threshold_basis"
      [] met /\ denominator # 0 /\ comparison = "Above" -> "threshold_met"
      [] met /\ denominator # 0 /\ comparison = "Below" -> "threshold_not_met"
      [] met /\ denominator # 0 /\ comparison = "Exactly" ->
            IF rules.tie = "accept" THEN "tie_accepted" ELSE "tie_rejected"

ThresholdMet(rules, denominator, comparison) ==
    /\ denominator # 0
    /\ comparison = "Above" \/ (comparison = "Exactly" /\ rules.tie = "accept")

(* The evaluation of ballots nothing refuses (steps 5 to 9). *)
Evaluation(rules, electorate, ballots) ==
    LET voters == DOMAIN electorate
        casters(c) == {v \in DOMAIN ballots : ballots[v] = c}
        weigh(voting) == Weigh(rules, electorate, voting)
        total == weigh(voters)
        effective == weigh(Effective(rules, electorate))
        participating == weigh(DOMAIN ballots)
        tally == [c \in Choice |-> weigh(casters(c))]
        denominator == denominator_weight(rules, tally, participating, total, effective)
        comparison == compare_share(rules.threshold.fraction, tally["yes"], denominator)
        met == quorum_met(rules, participating, total, effective)
        reason == ReasonCode(rules, met, denominator, comparison)
    IN  [refused |-> {},
         voter_count |-> Cardinality(voters),
         effective_voter_count |-> Cardinality(Effective(rules, electorate)),
         total_weight |-> total,
         effective_weight |-> effective,
         ballot_count |-> Cardinality(DOMAIN ballots),
         participating_weight |-> participating,
         non_participant_count |->
            Cardinality(Effective(rules, electorate)) - Cardinality(DOMAIN ballots),
         non_participant_weight |-> effective - participating,
         tally |-> tally,
         counts |-> [c \in Choice |-> Cardinality(casters(c))],
         quorum_met |-> met,
         denominator |-> denominator,
         comparison |-> comparison,
         threshold_met |-> ThresholdMet(rules, denominator, comparison),
         reason |-> reason,
         accepted |-> reason \in {"threshold_met", "tie_accepted"}]

(* evaluate: the evaluation, or why there is none. *)
evaluate(rules, electorate, ballots) ==
    LET refused == Refusals(rules, electorate, ballots)
    IN  IF refused # {}
        THEN [refused |-> refused, accepted |-> FALSE]
        ELSE Evaluation(rules, electorate, ballots)

(* Fault: the requirement rounded down instead of up. *)
div_ceil_Floor(a, b) == a \div b

(* The quorum as a number (irena-vote, EvaluationSummaryV1::of): the least *)
(* weight that meets it, clamped to a u64; no quorum is recorded as none.  *)
div_ceil(a, b) == (a + b - 1) \div b

quorum_required_weight(rules, total, effective) ==
    CASE rules.quorum.kind = "none" -> {}
      [] rules.quorum.kind = "absolute" -> {rules.quorum.weight}
      [] rules.quorum.kind = "fraction" ->
            LET required == div_ceil(quorum_basis(rules, total, effective)
                                        * rules.quorum.fraction.numerator,
                                     rules.quorum.fraction.denominator)
            IN  {IF required <= MaxWeight THEN required ELSE MaxWeight}
=============================================================================
