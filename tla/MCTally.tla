------------------------------ MODULE MCTally ------------------------------
(* Three voters, shares and quorums on and off every boundary, and a u64   *)
(* of fourteen.                                                              *)
EXTENDS Tally

CONSTANTS a, b, c

Quorums ==
    {[kind |-> "none"],
     [kind |-> "absolute", weight |-> 2], [kind |-> "absolute", weight |-> 7],
     [kind |-> "fraction", fraction |-> Fraction(1, 2), basis |-> "total-electorate"],
     [kind |-> "fraction", fraction |-> Fraction(2, 3), basis |-> "effective-electorate"],
     [kind |-> "fraction", fraction |-> Fraction(3, 2), basis |-> "total-electorate"]}

Thresholds ==
    [fraction : {Half, Fraction(2, 3)},
     basis : {"votes-cast", "effective-electorate", "total-electorate"}]
    \cup [fraction : {Fraction(0, 1), Fraction(1, 1), Fraction(4, 3)}, basis : {"votes-cast"}]

Rules ==
    [weight : {"equal", "electorate"}, exclusions : BOOLEAN, quorum : Quorums,
     threshold : Thresholds, abstentions : {"exclude", "include"},
     tie : {"reject", "accept"}]

Seat(w, out) == [weight |-> w, excluded |-> out]

Electorates ==
    {[v \in {a, b, c} |-> Seat(1, FALSE)],
     [v \in {a, b, c} |-> Seat(1, v = c)],
     [v \in {a, b} |-> Seat(IF v = a THEN 1 ELSE 2, FALSE)],
     [v \in {a, b, c} |-> CASE v = a -> Seat(1, FALSE) [] v = b -> Seat(2, TRUE) [] v = c -> Seat(4, FALSE)],
     [v \in {a, b} |-> Seat(8, FALSE)]}

(* Exclusions are switched on where there is somebody to exclude. *)
MCPoll ==
    {p \in [rules : Rules, electorate : Electorates] :
        p.rules.exclusions => \E v \in DOMAIN p.electorate : p.electorate[v].excluded}
=============================================================================
