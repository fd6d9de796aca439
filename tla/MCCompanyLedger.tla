--------------------------- MODULE MCCompanyLedger ---------------------------
(* Two people, two keys, two publishers; amendments to the two records     *)
(* that decide who may amend, and to one that does not; and documents that *)
(* break each rule of their kind, or read as another does.                 *)
EXTENDS CompanyLedger

CONSTANTS ann, bob, k1, k2, board, garbled

Element(name, attributes, children) ==
    [name |-> name, attributes |-> attributes, children |-> children]
NoAttributes == [a \in {} |-> {}]
Listing(name, rows) == Element(name, NoAttributes, rows)
RowOf(name, attributes) == Element(name, attributes, << >>)

Document(prolog, element) == [prolog |-> prolog, element |-> element]
Bare(element) == Document("none", element)

Keyed(p, k) == RowOf("person", [id |-> p, key |-> k])
Keyless(p) == RowOf("person", [id |-> p])
Identities(rows) == Listing("identities", rows)

Signer(p, family) == RowOf("signer", [person |-> p, records |-> family])
Authorisation(rows) == Listing("authorisation", rows)
Founders == <<Signer(ann, "company"), Signer(ann, "governance")>>

Holder(p, n) == RowOf("holder", [id |-> p, shares |-> n])
Register1 == Listing("share-structure", <<Holder(ann, 2), Holder(bob, 1)>>)

MajorityRules ==
    Element("voting-rules", [version |-> "1.0"],
        <<RowOf("weight", [type |-> "electorate"]),
          RowOf("exclusions", [enabled |-> "false"]),
          RowOf("quorum", [type |-> "absolute", weight |-> 2]),
          RowOf("threshold", [type |-> "simple-majority", basis |-> "votes-cast"]),
          RowOf("abstentions", [treatment |-> "exclude"]),
          RowOf("tie", [treatment |-> "reject"])>>)
Actors(source, rows) == Element("actors", [source |-> source], rows)
Scope(parts) == Listing("scope", [i \in DOMAIN parts |-> RowOf("amend", [part |-> parts[i]])])
ChannelRow(mode, children) == Element("channel", [id |-> board, mode |-> mode], children)
Channels(rows) == Listing("decision-channels", rows)

Owners ==
    ChannelRow("collective",
        <<Actors("share-register", << >>), Scope(<<"Identities", "Authorisation">>),
          MajorityRules>>)
Chair ==
    ChannelRow("individual", <<Actors("roster", <<RowOf("member", [id |-> ann])>>)>>)

Genesis(identities) ==
    Listing("company-genesis",
        <<RowOf("identity", [name |-> "acme"]), RowOf("incorporation", NoAttributes),
          Register1, identities, Listing("governance", <<Channels(<<Owners>>)>>),
          Authorisation(Founders)>>)

AnnHolds == Identities(<<Keyed(ann, k1), Keyless(bob)>>)

MCFounding ==
    {Bare(Genesis(AnnHolds)),
     Document("instruction", Genesis(AnnHolds)),
     Bare(Genesis(Identities(<<Keyless(ann), Keyed(bob, k1)>>))),
     Bare(Genesis(Identities(<<Keyed(ann, k1), Keyed(bob, k1)>>))),
     Bare(Listing("company-genesis", <<AnnHolds, Authorisation(Founders)>>))}

Of(kind, elements) == {[kind |-> kind, document |-> Bare(e)] : e \in elements}

(* What publish takes.                                                     *)
Sound ==
    Of("Identities", {Identities(<<Keyed(bob, k2), Keyed(ann, k1)>>),
                      Identities(<<Keyed(ann, k2), Keyless(bob)>>),
                      Identities(<<Keyed(bob, k2)>>)})
    \cup Of("Authorisation",
            {Authorisation(Append(Founders, Signer(bob, "company"))),
             Authorisation(<<Signer(bob, "company"), Signer(ann, "governance")>>)})
    \cup Of("ShareStructure", {Listing("share-structure", <<Holder(bob, 3)>>)})
    \cup {[kind |-> "DecisionChannels",
           document |-> Document("declaration", Channels(<<Chair>>))]}

(* What it refuses, or takes only from another body of the same kind.      *)
Unsound ==
    Of("Identities", {Identities(<<Keyed(ann, k1), Keyed(bob, k1)>>),
                      Identities(<<Keyed(ann, k1), Keyed(ann, k2)>>),
                      Identities(<<Keyed(ann, garbled)>>),
                      Authorisation(Founders)})
    \cup Of("Authorisation", {Authorisation(<<Signer(ann, "governance")>>),
                              Authorisation(Founders \o Founders),
                              Authorisation(<<Signer(garbled, "company")>>)})
    \cup Of("Identity", {RowOf("identity", [name |-> Blank])})
    \cup Of("ShareStructure", {Listing("share-structure", <<Holder(ann, MaxWeight), Holder(bob, 1)>>),
                               Listing("share-structure", <<Holder(ann, 0)>>),
                               Listing("share-structure", <<Holder(ann, 1), Holder(ann, 1)>>)})
    \cup Of("DecisionChannels",
            {Channels(<< >>), Channels(<<Chair, Owners>>),
             Channels(<<ChannelRow("individual", <<Actors("roster", << >>)>>)>>),
             Channels(<<ChannelRow("individual", <<Actors("share-register", << >>), MajorityRules>>)>>),
             Channels(<<ChannelRow("collective", <<Actors("share-register", << >>)>>)>>),
             Channels(<<ChannelRow("individual", <<Actors("share-register", << >>), Scope(<< >>)>>)>>)})
    \cup {[kind |-> "ShareStructure", document |-> Document("instruction", Register1)]}

MCAmendment == Sound \cup Unsound

MCNotarisation ==
    {[name |-> name, at |-> [year |-> year, month |-> 2, day |-> 29,
                             hour |-> 23, minute |-> 59, second |-> 59]] :
        name \in {Spaced, Lined, Blank}, year \in {2000, 2100}}
=============================================================================
