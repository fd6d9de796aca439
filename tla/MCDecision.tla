----------------------------- MODULE MCDecision -----------------------------
(* Ann files the company's records, bob decides alone through channel ceo; *)
(* his key, the channels and the register change under his decisions.      *)
EXTENDS Decision

CONSTANTS ann, bob, k1, k2, k3

Signers == {<<ann, "company">>, <<ann, "governance">>}
Handed == {<<ann, "company">>, <<bob, "governance">>}

People(key) == [p \in {ann, bob} |-> IF p = ann THEN {k1} ELSE key]

(* The channel's actor is bob: by name, or as the only shareholder.         *)
Solo == [p \in {bob} |-> 1]
Ceo(source) == Channel(TRUE, source, {"DecisionChannels"})
Board == Channel(FALSE, [p \in {ann, bob} |-> 1], {"ShareStructure"})

Channels(source) == [id \in {"ceo"} |-> Ceo(source)]
Deposed == [id \in {"ceo"} |-> Board]

MCFounding ==
    {[part \in Part |->
        CASE part = "Identity" -> "acme"
          [] part = "ShareStructure" -> Solo
          [] part = "DecisionChannels" -> Channels(source)
          [] part = "Identities" -> People({k2})
          [] part = "Authorisation" -> Signers] :
     source \in {Solo, ShareRegister}}

MCAmendment ==
    {<<"Identities", People({k3})>>,
     <<"DecisionChannels", Deposed>>,
     <<"ShareStructure", [p \in {ann, bob} |-> 1]>>,
     <<"Authorisation", Handed>>}

MCProposal == {<<"document", "accounts">>}
=============================================================================
