------------------------------- MODULE MCVote -------------------------------
(* Ann files the company's records and bob holds no key; the shareholders  *)
(* vote while rules, shares and keys change under the vote.                *)
EXTENDS Vote

CONSTANTS ann, bob, cy, k1, k2, k3

People(cys) ==
    [p \in {ann, bob, cy} |-> CASE p = ann -> {k1} [] p = bob -> None [] p = cy -> cys]

Signers == {<<ann, "company">>, <<ann, "governance">>}

Majority(quorum, tie) ==
    [weight |-> "electorate", exclusions |-> FALSE, quorum |-> quorum,
     threshold |-> [fraction |-> Half, basis |-> "votes-cast"],
     abstentions |-> "exclude", tie |-> tie]

HalfPresent ==
    [kind |-> "fraction", fraction |-> Half, basis |-> "total-electorate"]

Owners(rules) == CollectiveChannel(ShareRegister, {}, rules)

MCFounding ==
    {[part \in Part |->
        CASE part = "Identity" -> "acme"
          [] part = "ShareStructure" ->
                [p \in {bob, cy} |-> IF p = bob THEN 1 ELSE 2]
          [] part = "DecisionChannels" ->
                [id \in {"owners"} |-> Owners(Majority(HalfPresent, "reject"))]
          [] part = "Identities" -> People({k2})
          [] part = "Authorisation" -> Signers]}

MCAmendment ==
    {<<"DecisionChannels", [id \in {"owners"} |-> Owners(Majority([kind |-> "none"], "accept"))]>>,
     <<"Identities", People({k3})>>,
     <<"ShareStructure", [p \in {bob, cy} |-> 1]>>}

MCProposal == {<<"document", "accounts">>}
=============================================================================
