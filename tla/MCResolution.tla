---------------------------- MODULE MCResolution ----------------------------
(* Ann holds the shares and files the company's records; bob decides       *)
(* alone, through a channel that may amend everything and one that may     *)
(* amend nothing.                                                          *)
EXTENDS Resolution

CONSTANTS ann, bob, k1, k2, k3

Signers(people) == people \X {"company", "governance"}

People(a, b) == [p \in {ann, bob} |-> IF p = ann THEN a ELSE b]

Solo == [p \in {bob} |-> 1]
Both == [p \in {ann, bob} |-> 1]
Ceo == Channel(TRUE, Solo, Target)
Aide == Channel(TRUE, Solo, {})
Rules == [weight |-> "electorate", exclusions |-> FALSE, quorum |-> [kind |-> "none"],
          threshold |-> [fraction |-> Half, basis |-> "votes-cast"],
          abstentions |-> "exclude", tie |-> "reject"]
Board == CollectiveChannel(ShareRegister, {"DecisionChannels", "Identities"}, Rules)
Wider == CollectiveChannel(Both, {"DecisionChannels", "Identities"}, Rules)

Channels == [id \in {"ceo", "aide", "board"} |->
                CASE id = "ceo" -> Ceo [] id = "aide" -> Aide [] OTHER -> Board]
Reduced == [id \in {"ceo", "board"} |-> IF id = "ceo" THEN Ceo ELSE Board]
Seated == [Channels EXCEPT !["board"] = Wider]
Freed == [Channels EXCEPT !["aide"] = Ceo]

MCFounding ==
    {[part \in Part |->
        CASE part = "Identity" -> "acme"
          [] part = "ShareStructure" -> [p \in {ann} |-> 1]
          [] part = "DecisionChannels" -> Channels
          [] part = "Identities" -> People({k1}, {k2})
          [] part = "Authorisation" -> Signers({ann})]}

MCAmendment == {<<"Identities", People({k1}, {k3})>>}

MCProposal ==
    {<<"DecisionChannels", Reduced>>, <<"DecisionChannels", Seated>>,
     <<"DecisionChannels", Freed>>,
     <<"Identities", People({k1}, {})>>, <<"Identities", People({k3}, {k2})>>,
     <<"Authorisation", Signers({bob})>>,
     <<"Authorisation", {<<ann, "company">>}>>,
     <<"ShareStructure", Both>>, <<"document", "accounts">>}
(* The shareholders may give bob a seat and ann another key; a report      *)
(* comes first, and one meeting votes on both.                             *)
Seat == Item(TRUE, <<"DecisionChannels", Seated>>)
Rekey == Item(TRUE, <<"Identities", People({k3}, {k2})>>)
MCAgenda == {<<Seat, Rekey>>, <<Item(FALSE, <<"document", "report">>), Seat>>}

MCSubstitute == {<<"DecisionChannels", Reduced>>}
=============================================================================
