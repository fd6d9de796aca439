--------------------------- MODULE RulesDocument ---------------------------
(***************************************************************************)
(* bornite-xml: the strict reader of elements, and the voting rules it     *)
(* reads.                                                                  *)
(*                                                                         *)
(* An element has a name, attributes (a function from names to values) and *)
(* children (a sequence).  Text and comments between children are skipped  *)
(* by every loop and left out; <x/> and <x></x> are one element.  Reading  *)
(* gives an option: refused, for whichever reason, is None.                *)
(***************************************************************************)
EXTENDS Bornite, Sequences, SequencesExt

Nothing == {}
Read(x) == {x}

U64 == 0..MaxWeight     \* what u64_value and parse_u64 take

(* Attributes::require and ::finish: all that is required, nothing unknown.*)
HasAttributes(e, required, optional) ==
    /\ required \subseteq DOMAIN e.attributes
    /\ DOMAIN e.attributes \subseteq required \cup optional

(* A row: an element of attributes only (expect_empty).                    *)
IsRow(e, name, required, optional) ==
    e.name = name /\ e.children = << >> /\ HasAttributes(e, required, optional)

ChildNames(e) == {e.children[i].name : i \in DOMAIN e.children}
Children(e, name) == SelectSeq(e.children, LAMBDA child : child.name = name)
Occurs(e, name) == Len(Children(e, name))
Child(e, name) == Head(Children(e, name))

-----------------------------------------------------------------------------
(* parse_voting_rules                                                      *)

Proportion(a) ==
    /\ a.numerator \in U64
    /\ a.denominator \in U64 \ {0}
    /\ IsProportion(Fraction(a.numerator, a.denominator))

(* An attribute of another type of quorum is forbidden, not ignored.       *)
parse_quorum(e) ==
    LET a == e.attributes
        none == IsRow(e, "quorum", {"type"}, {}) /\ a.type = "none"
        absolute ==
            /\ IsRow(e, "quorum", {"type", "weight"}, {})
            /\ a.type = "absolute"
            /\ a.weight \in U64 \ {0}
        fraction ==
            /\ IsRow(e, "quorum", {"type", "numerator", "denominator", "basis"}, {})
            /\ a.type = "fraction"
            /\ Proportion(a)
            /\ a.basis \in {"total-electorate", "effective-electorate"}
    IN  CASE none -> Read([kind |-> "none"])
          [] absolute -> Read([kind |-> "absolute", weight |-> a.weight])
          [] fraction -> Read([kind |-> "fraction", basis |-> a.basis,
                               fraction |-> Fraction(a.numerator, a.denominator)])
          [] OTHER -> Nothing

parse_threshold(e) ==
    LET a == e.attributes
        majority ==
            IsRow(e, "threshold", {"type", "basis"}, {}) /\ a.type = "simple-majority"
        fraction ==
            /\ IsRow(e, "threshold", {"type", "basis", "numerator", "denominator"}, {})
            /\ a.type = "fraction"
            /\ Proportion(a)
        share == IF majority THEN Half ELSE Fraction(a.numerator, a.denominator)
    IN  IF /\ majority \/ fraction
           /\ a.basis \in {"votes-cast", "effective-electorate", "total-electorate"}
        THEN Read([fraction |-> share, basis |-> a.basis])
        ELSE Nothing

(* parse_weight, parse_exclusions, parse_abstentions and parse_tie: one    *)
(* attribute, one of two values.                                           *)
Setting ==
    [weight |-> [attribute |-> "type", values |-> {"equal", "electorate"}],
     exclusions |-> [attribute |-> "enabled", values |-> {"true", "false"}],
     abstentions |-> [attribute |-> "treatment", values |-> {"exclude", "include"}],
     tie |-> [attribute |-> "treatment", values |-> {"reject", "accept"}]]
SettingOf(rules, name) == Child(rules, name).attributes[Setting[name].attribute]
IsSetting(e, name) ==
    /\ IsRow(e, name, {Setting[name].attribute}, {})
    /\ e.attributes[Setting[name].attribute] \in Setting[name].values

RuleNames == DOMAIN Setting \cup {"quorum", "threshold"}

(* The six rules, each once, in any order (set_once).                      *)
parse_voting_rules(e) ==
    IF /\ HasAttributes(e, {"version"}, {}) /\ e.attributes.version = "1.0"
       /\ ChildNames(e) \subseteq RuleNames
       /\ \A name \in RuleNames : Occurs(e, name) = 1
       /\ \A name \in DOMAIN Setting : IsSetting(Child(e, name), name)
    THEN {[weight |-> SettingOf(e, "weight"),
           exclusions |-> SettingOf(e, "exclusions") = "true",
           quorum |-> quorum, threshold |-> threshold,
           abstentions |-> SettingOf(e, "abstentions"),
           tie |-> SettingOf(e, "tie")] :
            quorum \in parse_quorum(Child(e, "quorum")),
            threshold \in parse_threshold(Child(e, "threshold"))}
    ELSE Nothing
=============================================================================
