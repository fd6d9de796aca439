------------------------------ MODULE MCMeeting ------------------------------
(* Ann is the secretary, bob holds no key; the shareholders meet on one or *)
(* two items while their rules and keys change.                            *)
EXTENDS Meeting

CONSTANTS ann, bob, cy, k1, k2, k3

People(anns, cys) ==
    [p \in {ann, bob, cy} |-> CASE p = ann -> anns [] p = bob -> None [] p = cy -> cys]

Signers == {<<ann, "company">>, <<ann, "governance">>}

Rules(quorum, tie) ==
    [weight |-> "electorate", exclusions |-> FALSE, quorum |-> quorum,
     threshold |-> [fraction |-> Half, basis |-> "votes-cast"],
     abstentions |-> "exclude", tie |-> tie]

Owners(rules) == CollectiveChannel(ShareRegister, {}, rules)

MCFounding ==
    {[part \in Part |->
        CASE part = "Identity" -> "acme"
          [] part = "ShareStructure" -> [p \in {bob, cy} |-> 1]
          [] part = "DecisionChannels" ->
                [id \in {"owners"} |-> Owners(Rules([kind |-> "none"], "reject"))]
          [] part = "Identities" -> People({k1}, {k2})
          [] part = "Authorisation" -> Signers]}

MCAmendment ==
    {<<"DecisionChannels",
       [id \in {"owners"} |-> Owners(Rules([kind |-> "absolute", weight |-> 2], "accept"))]>>,
     <<"Identities", People({k3}, {k2})>>}

MCItems == {Item(TRUE, "accounts"), Item(FALSE, "report")}
=============================================================================
