--------------------------- MODULE Bornite_proofs ---------------------------
(***************************************************************************)
(* What Bornite promises of every weight, fraction, electorate and set of  *)
(* ballots, where the runs look at a handful: first of its comparisons,    *)
(* then of its sums of weights, then of its evaluations, and last of the   *)
(* polls of Tally.                                                         *)
(***************************************************************************)
EXTENDS Tally, FiniteSetTheorems, WellFoundedInduction, TLAPS

(* What integer division is: the quotient is the most that fits.           *)
LEMMA DivisionBounds ==
    ASSUME NEW a \in Nat, NEW b \in Nat \ {0}
    PROVE  /\ a \div b \in Nat
           /\ b * (a \div b) <= a
           /\ a < b * (a \div b) + b
  BY SMTT(30)

(* The least multiple at or above: w reaches ceil(a/b) exactly when w*b reaches a. *)
LEMMA CeilingDecides ==
    ASSUME NEW a \in Nat, NEW b \in Nat \ {0}, NEW w \in Nat
    PROVE  div_ceil(a, b) \in Nat /\ (w >= div_ceil(a, b) <=> w * b >= a)
  <1> DEFINE q == div_ceil(a, b)
  <1>1. q \in Nat /\ b * q <= a + b - 1 /\ a + b - 1 < b * q + b
    <2>1. a + b - 1 \in Nat
      OBVIOUS
    <2> QED
      BY <2>1, DivisionBounds DEF div_ceil
  <1>2. ASSUME w >= q PROVE w * b >= a
    <2>1. w * b >= q * b
      BY <1>1, <1>2
    <2> QED
      BY <1>1, <2>1
  <1>3. ASSUME w < q PROVE w * b < a
    <2>1. (w + 1) * b <= q * b
      BY <1>1, <1>3
    <2> QED
      BY <1>1, <2>1
  <1> QED
    BY <1>1, <1>2, <1>3

-----------------------------------------------------------------------------
(* The number irena-vote records as the quorum (record.rs) is the quorum   *)
(* Bornite decided by (evaluate.rs), whatever the weights: a participation *)
(* meets the rule exactly when it reaches every recorded number, and the   *)
(* clamp to a u64 never changes that number.                               *)
IsQuorum(quorum) ==
    /\ quorum.kind \in {"none", "absolute", "fraction"}
    /\ quorum.kind = "absolute" => quorum.weight \in Nat
    /\ quorum.kind = "fraction" =>
          IsFraction(quorum.fraction) /\ IsProportion(quorum.fraction)

(* The weight a quorum requires, a rounded-up share of the basis, never    *)
(* exceeds the basis: the recorded number fits its column.                 *)
LEMMA RequirementFits ==
    ASSUME NEW f, IsFraction(f), IsProportion(f), NEW basis \in 0..MaxWeight
    PROVE  div_ceil(basis * f.numerator, f.denominator) \in 0..MaxWeight
  <1> DEFINE n == f.numerator
             d == f.denominator
  <1>1. n \in Nat /\ d \in Nat \ {0} /\ n <= d
    BY DEF IsFraction, IsProportion
  <1>2. basis \in Nat /\ MaxWeight \in Nat
    BY MaxWeightAssumption
  <1>3. basis * n \in Nat /\ basis * d >= basis * n
    BY <1>1, <1>2
  <1>4. div_ceil(basis * n, d) \in Nat /\ basis >= div_ceil(basis * n, d)
    BY <1>1, <1>2, <1>3, CeilingDecides
  <1> QED
    BY <1>2, <1>4

(* The least weight a result records for its quorum says exactly what the  *)
(* count decided (quorum.rs): the quorum is met when the participating     *)
(* weight reaches it, and otherwise not.                                   *)
THEOREM RecordedQuorumIsTheQuorum ==
    ASSUME NEW r, IsQuorum(r.quorum),
           NEW total \in 0..MaxWeight, NEW effective \in 0..MaxWeight,
           NEW participating \in Nat
    PROVE  quorum_met(r, participating, total, effective)
             <=> \A least \in quorum_required_weight(r, total, effective) :
                    participating >= least
  <1> DEFINE kind == r.quorum.kind
             f == r.quorum.fraction
             basis == quorum_basis(r, total, effective)
             required == div_ceil(basis * f.numerator, f.denominator)
  <1>1. CASE kind = "none"
    BY <1>1 DEF quorum_met, quorum_required_weight
  <1>2. CASE kind = "absolute"
    BY <1>2 DEF quorum_met, quorum_required_weight
  <1>3. CASE kind = "fraction"
    <2>1. IsFraction(f) /\ IsProportion(f)
      BY <1>3 DEF IsQuorum
    <2>2. f.numerator \in Nat /\ f.denominator \in Nat \ {0}
      BY <2>1 DEF IsFraction
    <2>3. basis \in 0..MaxWeight /\ basis \in Nat
      BY MaxWeightAssumption DEF quorum_basis
    <2>4. required \in 0..MaxWeight
      BY <2>1, <2>3, RequirementFits
    <2>5. quorum_required_weight(r, total, effective) = {required}
      BY <1>3, <2>4, MaxWeightAssumption DEF quorum_required_weight
    <2>6. basis * f.numerator \in Nat
      BY <2>2, <2>3
    <2>7. participating >= required
             <=> participating * f.denominator >= basis * f.numerator
      BY <2>2, <2>6, CeilingDecides
    <2>8. basis * f.numerator = f.numerator * basis
      BY <2>2, <2>3
    <2>9. compare_share(f, participating, basis) # "Below"
             <=> participating * f.denominator >= f.numerator * basis
      <3>1. participating * f.denominator \in Nat /\ f.numerator * basis \in Nat
        BY <2>2, <2>3
      <3> QED
        BY <3>1 DEF compare_share
    <2> QED
      BY <1>3, <2>5, <2>7, <2>8, <2>9 DEF quorum_met
  <1> QED
    BY <1>1, <1>2, <1>3 DEF IsQuorum

-----------------------------------------------------------------------------
(* How well a comparison does: the order a motion climbs. *)
Rank(comparison) ==
    CASE comparison = "Below" -> 0 [] comparison = "Exactly" -> 1 [] comparison = "Above" -> 2

(* Comparing a share by cross-multiplication compares the two products,    *)
(* and neither needs more than the natural numbers.                        *)
LEMMA Comparisons ==
    ASSUME NEW f, IsFraction(f), NEW value \in Nat, NEW basis \in Nat
    PROVE  /\ value * f.denominator \in Nat
           /\ f.numerator * basis \in Nat
           /\ compare_share(f, value, basis) = "Above"
                 <=> value * f.denominator > f.numerator * basis
           /\ compare_share(f, value, basis) = "Exactly"
                 <=> value * f.denominator = f.numerator * basis
           /\ compare_share(f, value, basis) = "Below"
                 <=> value * f.denominator < f.numerator * basis
  <1> DEFINE lhs == value * f.denominator
             rhs == f.numerator * basis
  <1>1. lhs \in Nat /\ rhs \in Nat
    BY DEF IsFraction
  <1>2. compare_share(f, value, basis) =
           IF lhs > rhs THEN "Above" ELSE IF lhs = rhs THEN "Exactly" ELSE "Below"
    BY DEF compare_share
  <1> HIDE DEF lhs, rhs
  <1>3. \/ lhs > rhs /\ ~(lhs = rhs) /\ ~(lhs < rhs)
        \/ lhs = rhs /\ ~(lhs > rhs) /\ ~(lhs < rhs)
        \/ lhs < rhs /\ ~(lhs > rhs) /\ ~(lhs = rhs)
    BY <1>1
  <1>4. /\ compare_share(f, value, basis) = "Above" <=> lhs > rhs
        /\ compare_share(f, value, basis) = "Exactly" <=> lhs = rhs
        /\ compare_share(f, value, basis) = "Below" <=> lhs < rhs
    BY <1>2, <1>3
  <1> USE DEF lhs, rhs
  <1> QED
    BY <1>1, <1>4

(* A weight w of yes added, whether it was already part of the basis (an   *)
(* abstention counted, an electorate basis: grown = 0) or comes into it    *)
(* with the vote (grown = w), never lowers the comparison (evaluate.rs     *)
(* steps 7 and 8, fraction.rs compare_share).                              *)
THEOREM YesNeverLowersTheShare ==
    ASSUME NEW f, IsFraction(f), IsProportion(f),
           NEW yes \in Nat, NEW basis \in Nat, NEW w \in Nat, NEW grown \in {0, w}
    PROVE  Rank(compare_share(f, yes + w, basis + grown))
              >= Rank(compare_share(f, yes, basis))
  <1> DEFINE n == f.numerator
             d == f.denominator
  <1>1. n \in Nat /\ d \in Nat /\ n <= d
    BY DEF IsFraction, IsProportion
  <1>2. yes + w \in Nat /\ basis + grown \in Nat /\ grown \in Nat /\ grown <= w
    OBVIOUS
  <1>3. (yes + w) * d = yes * d + w * d /\ n * (basis + grown) = n * basis + n * grown
    <2>1. (yes + w) * d = yes * d + w * d
      BY <1>1
    <2>2. n * (basis + grown) = n * basis + n * grown
      BY <1>1, <1>2
    <2> QED
      BY <2>1, <2>2
  <1>4. n * grown <= w * d
    <2>1. n * grown <= d * grown
      BY <1>1, <1>2
    <2>2. d * grown <= d * w
      BY <1>1, <1>2
    <2> QED
      BY <1>1, <1>2, <2>1, <2>2
  <1>5. /\ yes * d \in Nat /\ n * basis \in Nat
        /\ w * d \in Nat /\ n * grown \in Nat
    BY <1>1, <1>2
  <1>6. /\ yes * d > n * basis => (yes + w) * d > n * (basis + grown)
        /\ yes * d = n * basis => (yes + w) * d >= n * (basis + grown)
    BY <1>3, <1>4, <1>5
  <1>7. /\ compare_share(f, yes, basis) = "Above"
             => compare_share(f, yes + w, basis + grown) = "Above"
        /\ compare_share(f, yes, basis) = "Exactly"
             => compare_share(f, yes + w, basis + grown) \in {"Exactly", "Above"}
    <2> DEFINE after == compare_share(f, yes + w, basis + grown)
               lhs == (yes + w) * d
               rhs == n * (basis + grown)
    <2>1. lhs \in Nat /\ rhs \in Nat
      BY <1>1, <1>2
    <2>2. /\ after = "Above" <=> lhs > rhs
          /\ after = "Exactly" <=> lhs = rhs
      BY <1>2, Comparisons
    <2>3. /\ compare_share(f, yes, basis) = "Above" <=> yes * d > n * basis
          /\ compare_share(f, yes, basis) = "Exactly" <=> yes * d = n * basis
      BY Comparisons
    <2>4. lhs >= rhs => lhs > rhs \/ lhs = rhs
      BY <2>1
    <2> QED
      BY <1>6, <2>2, <2>3, <2>4
  <1>8. \A value, of \in Nat : compare_share(f, value, of) \in {"Below", "Exactly", "Above"}
    BY Comparisons
  <1> QED
    BY <1>2, <1>7, <1>8 DEF Rank

(* Weights multiplied throughout by one factor compare as they did: the    *)
(* comparison sees proportions only, and rounds nothing (fraction.rs).     *)
THEOREM OnlyProportionsCompare ==
    ASSUME NEW f, IsFraction(f),
           NEW value \in Nat, NEW basis \in Nat, NEW factor \in Nat \ {0}
    PROVE  compare_share(f, factor * value, factor * basis) = compare_share(f, value, basis)
  <1> DEFINE n == f.numerator
             d == f.denominator
             lhs == value * d
             rhs == n * basis
  <1>1. n \in Nat /\ d \in Nat
    BY DEF IsFraction
  <1>2. lhs \in Nat /\ rhs \in Nat
    BY <1>1
  <1>3. (factor * value) * d = factor * lhs /\ n * (factor * basis) = factor * rhs
    BY <1>1
  <1>4. /\ lhs > rhs => factor * lhs > factor * rhs
        /\ lhs < rhs => factor * lhs < factor * rhs
    BY <1>2
  <1>5. factor * value \in Nat /\ factor * basis \in Nat
    OBVIOUS
  <1>6. /\ lhs > rhs <=> factor * lhs > factor * rhs
        /\ lhs = rhs <=> factor * lhs = factor * rhs
        /\ lhs < rhs <=> factor * lhs < factor * rhs
    <2> HIDE DEF lhs, rhs
    <2>1. factor * lhs \in Nat /\ factor * rhs \in Nat
      BY <1>2
    <2> QED
      BY <1>2, <1>4, <2>1
  <1>7. /\ lhs > rhs <=> (factor * value) * d > n * (factor * basis)
        /\ lhs = rhs <=> (factor * value) * d = n * (factor * basis)
        /\ lhs < rhs <=> (factor * value) * d < n * (factor * basis)
    <2> HIDE DEF lhs, rhs, n, d
    <2> QED
      BY <1>3, <1>6
  <1>8. lhs > rhs \/ lhs = rhs \/ lhs < rhs
    BY <1>2
  <1> QED
    BY <1>5, <1>7, <1>8, Comparisons

-----------------------------------------------------------------------------
(* An acceptance met both its quorum and its threshold, and met both is    *)
(* accepted: the reason code and the two verdicts reported beside it never *)
(* disagree (evaluate.rs steps 8 and 9).                                   *)
THEOREM AcceptedIsBothMet ==
    ASSUME NEW r, NEW met \in BOOLEAN, NEW denominator \in Nat,
           NEW comparison \in {"Below", "Exactly", "Above"},
           r.tie \in {"accept", "reject"}
    PROVE  ReasonCode(r, met, denominator, comparison) \in {"threshold_met", "tie_accepted"}
             <=> met /\ ThresholdMet(r, denominator, comparison)
  BY DEF ReasonCode, ThresholdMet

-----------------------------------------------------------------------------
(* Whatever holds of some subset of a finite set holds of a least one. *)
LEMMA LeastSet ==
    ASSUME NEW S, IsFiniteSet(S), NEW X \in SUBSET (SUBSET S), X # {}
    PROVE  \E T \in X : \A U \in X : U \subseteq T => U = T
  <1> DEFINE R == StrictSubsetOrdering(S)
  <1>1. IsWellFoundedOn(R, SUBSET S)
    BY FS_StrictSubsetOrderingWellFounded, FS_FiniteSubsetsOfFinite
  <1>2. \A T, U \in SUBSET S : U \subseteq T /\ U # T => <<U, T>> \in R
    BY DEF StrictSubsetOrdering
  <1> HIDE DEF R
  <1>3. PICK T \in X : \A U \in X : ~ (<<U, T>> \in R)
    BY <1>1, WFMin
  <1> QED
    BY <1>2, <1>3

(* The recursion a sum runs through: a voter taken off, its weight added.  *)
Off(s) == s \ {CHOOSE x \in s : TRUE}
Sums(g, r, e, S) ==
    g = [s \in SUBSET S |->
            IF s = {} THEN 0
            ELSE weight_of(r, e[CHOOSE x \in s : TRUE]) + g[Off(s)]]

(* Weigh is what that recursion comes to.                                  *)
LEMMA WeighIsASum ==
    ASSUME NEW r, NEW e, NEW S
    PROVE  Weigh(r, e, S) = (CHOOSE g : Sums(g, r, e, S))[S]
  BY DEF Weigh, MapThenSumSet, MapThenFoldSet, Sums, Off

(* Two runs of the recursion agree wherever both are defined. *)
LEMMA SumsAgree ==
    ASSUME NEW r, NEW e,
           NEW S, IsFiniteSet(S), NEW T, NEW g, NEW h,
           Sums(g, r, e, S), Sums(h, r, e, T)
    PROVE  \A s \in SUBSET S : s \in SUBSET T => g[s] = h[s]
  <1> DEFINE X == {s \in SUBSET S : s \in SUBSET T /\ g[s] # h[s]}
  <1>0. X \in SUBSET (SUBSET S)
    OBVIOUS
  <1>1. SUFFICES ASSUME X # {} PROVE FALSE
    OBVIOUS
  <1> HIDE DEF X
  <1>2. PICK s \in X : \A u \in X : u \subseteq s => u = s
    BY <1>0, <1>1, LeastSet
  <1> USE DEF X
  <1>3. CASE s = {}
    BY <1>2, <1>3 DEF Sums
  <1>4. CASE s # {}
    <2>1. Off(s) \subseteq s /\ Off(s) # s
      BY <1>4 DEF Off
    <2>2. g[Off(s)] = h[Off(s)]
      BY <1>2, <2>1
    <2>3. /\ g[s] = weight_of(r, e[CHOOSE x \in s : TRUE]) + g[Off(s)]
          /\ h[s] = weight_of(r, e[CHOOSE x \in s : TRUE]) + h[Off(s)]
      BY <1>2, <1>4 DEF Sums
    <2> QED
      BY <1>2, <2>2, <2>3
  <1> QED
    BY <1>3, <1>4

(* The recursion has a value on every finite set. *)
LEMMA SumsExist ==
    ASSUME NEW r, NEW e, NEW S, IsFiniteSet(S)
    PROVE  \E g : Sums(g, r, e, S)
  <1> DEFINE Has(T) == \E g : Sums(g, r, e, T)
             X == {T \in SUBSET S : ~Has(T)}
             G(T) == CHOOSE g : Sums(g, r, e, T)
  <1>0. X \in SUBSET (SUBSET S)
    OBVIOUS
  <1>1. SUFFICES ASSUME X # {} PROVE FALSE
    OBVIOUS
  <1> HIDE DEF X
  <1>2. PICK T \in X : \A U \in X : U \subseteq T => U = T
    BY <1>0, <1>1, LeastSet
  <1> USE DEF X
  <1>3. \A U \in SUBSET T : U # T => Sums(G(U), r, e, U)
    BY <1>2
  <1>4. \A U \in SUBSET T : IsFiniteSet(U)
    BY FS_Subset
  <1> DEFINE sum(U) == IF U = {} THEN 0
                       ELSE weight_of(r, e[CHOOSE x \in U : TRUE])
                              + G(Off(U))[Off(U)]
             g == [U \in SUBSET T |-> sum(U)]
  <1>5. \A U \in SUBSET T : U # {} => Off(U) \in SUBSET T /\ Off(U) \subseteq U /\ Off(U) # T
    BY DEF Off
  <1>6. \A U \in SUBSET T : U # T => G(U)[U] = sum(U)
    <2> SUFFICES ASSUME NEW U \in SUBSET T, U # T PROVE G(U)[U] = sum(U)
      OBVIOUS
    <2>1. Sums(G(U), r, e, U)
      BY <1>3
    <2>2. CASE U = {}
      BY <2>1, <2>2 DEF Sums
    <2>3. CASE U # {}
      <3>1. Sums(G(Off(U)), r, e, Off(U))
        BY <1>3, <1>5, <2>3
      <3>2. Off(U) \in SUBSET U /\ IsFiniteSet(Off(U))
        BY <1>4, <1>5, <2>3
      <3> HIDE DEF G
      <3>3. G(Off(U))[Off(U)] = G(U)[Off(U)]
        BY <2>1, <3>1, <3>2, SumsAgree
      <3>4. G(U)[U] = weight_of(r, e[CHOOSE x \in U : TRUE]) + G(U)[Off(U)]
        BY <2>1, <2>3 DEF Sums
      <3> QED
        BY <2>3, <3>3, <3>4
    <2> QED
      BY <2>2, <2>3
  <1>7. Sums(g, r, e, T)
    <2> HIDE DEF G
    <2> HIDE DEF sum
    <2>1. \A U \in SUBSET T : g[U] = sum(U)
      OBVIOUS
    <2> HIDE DEF g
    <2>2. \A U \in SUBSET T : U # {} => g[Off(U)] = G(Off(U))[Off(U)]
      BY <1>5, <1>6, <2>1
    <2>3. \A U \in SUBSET T : g[U] =
            IF U = {} THEN 0
            ELSE weight_of(r, e[CHOOSE x \in U : TRUE]) + g[Off(U)]
      BY <2>1, <2>2 DEF sum
    <2>4. g = [U \in SUBSET T |-> g[U]]
      <3> HIDE DEF sum
      <3> QED
        BY DEF g
    <2> QED
      BY <2>3, <2>4 DEF Sums
  <1> QED
    BY <1>2, <1>7

-----------------------------------------------------------------------------
(* Nobody weighs nothing; and with a voter taken off, the rest weighs what *)
(* is left.                                                                *)
LEMMA WeighOff ==
    ASSUME NEW r, NEW e, NEW S, IsFiniteSet(S)
    PROVE  Weigh(r, e, S) =
              IF S = {} THEN 0
              ELSE weight_of(r, e[CHOOSE x \in S : TRUE])
                     + Weigh(r, e, Off(S))
  <1> DEFINE G(T) == CHOOSE g : Sums(g, r, e, T)
  <1>1. /\ Sums(G(S), r, e, S)
        /\ Weigh(r, e, S) = G(S)[S]
    BY SumsExist, WeighIsASum
  <1>2. CASE S = {}
    BY <1>1, <1>2 DEF Sums
  <1>3. CASE S # {}
    <2>1. Off(S) \in SUBSET S /\ IsFiniteSet(Off(S))
      BY FS_Subset DEF Off
    <2>2. /\ Sums(G(Off(S)), r, e, Off(S))
          /\ Weigh(r, e, Off(S)) = G(Off(S))[Off(S)]
      BY <2>1, SumsExist, WeighIsASum
    <2> HIDE DEF G
    <2>3. G(Off(S))[Off(S)] = G(S)[Off(S)]
      BY <1>1, <2>1, <2>2, SumsAgree, SMTT(30)
    <2>4. G(S)[S] = weight_of(r, e[CHOOSE x \in S : TRUE]) + G(S)[Off(S)]
      BY <1>1, <1>3 DEF Sums
    <2>5. Weigh(r, e, S) = G(S)[S] /\ Weigh(r, e, Off(S)) = G(S)[Off(S)]
      BY <1>1, <2>2, <2>3
    <2> QED
      BY <1>3, <2>4, <2>5
  <1> QED
    BY <1>2, <1>3

(* Every voter of the set has a weight. *)
Weighted(r, e, S) == \A v \in S : weight_of(r, e[v]) \in Nat

(* Numbers sum up to a number.                                             *)
LEMMA WeighsANumber ==
    ASSUME NEW r, NEW e, NEW S, IsFiniteSet(S), Weighted(r, e, S)
    PROVE  Weigh(r, e, S) \in Nat
  <1> DEFINE X == {T \in SUBSET S : Weigh(r, e, T) \notin Nat}
  <1>0. X \in SUBSET (SUBSET S)
    OBVIOUS
  <1>1. SUFFICES ASSUME X # {} PROVE FALSE
    OBVIOUS
  <1> HIDE DEF X
  <1>2. PICK T \in X : \A U \in X : U \subseteq T => U = T
    BY <1>0, <1>1, LeastSet
  <1> USE DEF X
  <1>3. IsFiniteSet(T)
    BY FS_Subset
  <1>4. Weigh(r, e, T) =
           IF T = {} THEN 0
           ELSE weight_of(r, e[CHOOSE x \in T : TRUE])
                  + Weigh(r, e, Off(T))
    BY <1>3, WeighOff
  <1>5. T # {}
    BY <1>2, <1>4
  <1>6. Off(T) \subseteq T /\ Off(T) # T /\ (CHOOSE x \in T : TRUE) \in S
    BY <1>5 DEF Off
  <1>7. Weigh(r, e, Off(T)) \in Nat
    BY <1>2, <1>6
  <1> QED
    BY <1>2, <1>4, <1>5, <1>6, <1>7 DEF Weighted

(* Whichever voter is taken off. *)
LEMMA WeighWithout ==
    ASSUME NEW r, NEW e,
           NEW S, IsFiniteSet(S), Weighted(r, e, S), NEW v \in S
    PROVE  Weigh(r, e, S) =
              weight_of(r, e[v]) + Weigh(r, e, S \ {v})
  <1> DEFINE W(x) == weight_of(r, e[x])
             Sum(T) == Weigh(r, e, T)
             X == {T \in SUBSET S : \E x \in T : Sum(T) # W(x) + Sum(T \ {x})}
  <1>0. X \in SUBSET (SUBSET S)
    OBVIOUS
  <1>1. SUFFICES ASSUME X # {} PROVE FALSE
    OBVIOUS
  <1> HIDE DEF X
  <1>2. PICK T \in X : \A U \in X : U \subseteq T => U = T
    BY <1>0, <1>1, LeastSet
  <1> USE DEF X
  <1>3. PICK x \in T : Sum(T) # W(x) + Sum(T \ {x})
    BY <1>2
  <1> DEFINE p == CHOOSE y \in T : TRUE
  <1>4. p \in T /\ p \in S /\ x \in S /\ T \in SUBSET S
    OBVIOUS
  <1>5. \A U \in SUBSET S : IsFiniteSet(U) /\ Weighted(r, e, U)
    BY FS_Subset DEF Weighted
  <1>6. Sum(T) = W(p) + Sum(T \ {p})
    <2>1. T # {} /\ IsFiniteSet(T)
      BY <1>4, <1>5
    <2> QED
      BY <2>1, WeighOff DEF Off
  <1> HIDE DEF p
  <1>7. x # p
    BY <1>3, <1>6
  <1>8. \A U \in SUBSET S : Sum(U) \in Nat
    BY <1>5, WeighsANumber
  <1>9. W(x) \in Nat /\ W(p) \in Nat
    BY <1>4 DEF Weighted
  <1>10. \A U \in SUBSET T : U # T => \A y \in U : Sum(U) = W(y) + Sum(U \ {y})
    BY <1>2
  <1> HIDE DEF W, Sum, X
  <1>11. Sum(T \ {p}) = W(x) + Sum((T \ {p}) \ {x})
    BY <1>4, <1>7, <1>10
  <1>12. Sum(T \ {x}) = W(p) + Sum((T \ {x}) \ {p})
    BY <1>4, <1>7, <1>10
  <1>13. (T \ {x}) \ {p} = (T \ {p}) \ {x}
    OBVIOUS
  <1>14. Sum((T \ {p}) \ {x}) \in Nat
    BY <1>4, <1>8
  <1> QED
    BY <1>3, <1>6, <1>9, <1>11, <1>12, <1>13, <1>14

(* Two groups with nobody in common weigh the sum of their weights. *)
LEMMA WeighBoth ==
    ASSUME NEW r, NEW e,
           NEW S, IsFiniteSet(S), Weighted(r, e, S),
           NEW A \in SUBSET S, NEW B \in SUBSET S, A \cap B = {}
    PROVE  Weigh(r, e, A \cup B) =
              Weigh(r, e, A) + Weigh(r, e, B)
  <1> DEFINE W(x) == weight_of(r, e[x])
             Sum(T) == Weigh(r, e, T)
             X == {T \in SUBSET A : Sum(T \cup B) # Sum(T) + Sum(B)}
  <1>1. SUFFICES ASSUME X # {} PROVE FALSE
    OBVIOUS
  <1>2. IsFiniteSet(A) /\ X \in SUBSET (SUBSET A)
    BY FS_Subset
  <1> HIDE DEF X
  <1>3. PICK T \in X : \A U \in X : U \subseteq T => U = T
    BY <1>1, <1>2, LeastSet
  <1> USE DEF X
  <1>4. \A U \in SUBSET S : IsFiniteSet(U) /\ Weighted(r, e, U)
    BY FS_Subset DEF Weighted
  <1>5. \A U \in SUBSET S : Sum(U) \in Nat /\ \A y \in U : Sum(U) = W(y) + Sum(U \ {y})
    BY <1>4, WeighsANumber, WeighWithout
  <1>6. \A y \in S : W(y) \in Nat
    BY DEF Weighted
  <1>7. T # {}
    <2>1. Sum({}) = 0
      BY FS_EmptySet, WeighOff
    <2>2. {} \cup B = B
      OBVIOUS
    <2>3. Sum(B) \in Nat
      BY <1>5
    <2>4. Sum(T \cup B) # Sum(T) + Sum(B)
      BY <1>3
    <2> HIDE DEF Sum, X
    <2> QED
      BY <2>1, <2>2, <2>3, <2>4
  <1>8. PICK y \in T : TRUE
    BY <1>7
  <1>9. Sum((T \ {y}) \cup B) = Sum(T \ {y}) + Sum(B)
    BY <1>3, <1>8
  <1>10. /\ T \cup B \in SUBSET S /\ T \in SUBSET S /\ T \ {y} \in SUBSET S
         /\ y \in T \cup B /\ y \in S
         /\ (T \cup B) \ {y} = (T \ {y}) \cup B
    BY <1>3, <1>8
  <1> HIDE DEF W, Sum
  <1>11. Sum(T \cup B) = W(y) + Sum((T \ {y}) \cup B)
    BY <1>5, <1>10
  <1>12. Sum(T) = W(y) + Sum(T \ {y})
    BY <1>5, <1>8, <1>10
  <1>13. Sum(T \ {y}) \in Nat /\ Sum(B) \in Nat /\ W(y) \in Nat
    BY <1>5, <1>6, <1>10
  <1> QED
    BY <1>3, <1>9, <1>11, <1>12, <1>13

(* More voters never weigh less. *)
LEMMA WeighMore ==
    ASSUME NEW r, NEW e,
           NEW S, IsFiniteSet(S), Weighted(r, e, S), NEW A \in SUBSET S
    PROVE  /\ Weigh(r, e, A) \in Nat
           /\ Weigh(r, e, S) \in Nat
           /\ Weigh(r, e, A) <= Weigh(r, e, S)
  <1>1. \A U \in SUBSET S : IsFiniteSet(U) /\ Weighted(r, e, U)
    BY FS_Subset DEF Weighted
  <1>2. \A U \in SUBSET S : Weigh(r, e, U) \in Nat
    BY <1>1, WeighsANumber
  <1>3. A \cup (S \ A) = S /\ A \cap (S \ A) = {}
    OBVIOUS
  <1>4. Weigh(r, e, S) =
           Weigh(r, e, A) + Weigh(r, e, S \ A)
    BY <1>3, WeighBoth
  <1> DEFINE all == Weigh(r, e, S)
             some == Weigh(r, e, A)
             rest == Weigh(r, e, S \ A)
  <1>5. all \in Nat /\ some \in Nat /\ rest \in Nat /\ all = some + rest
    BY <1>2, <1>4
  <1> HIDE DEF all, some, rest
  <1>6. some <= all
    BY <1>5
  <1> QED
    BY <1>5, <1>6 DEF all, some

-----------------------------------------------------------------------------
(* Ballots are a function from voters to choices.                          *)
AreBallots(B) == B \in [DOMAIN B -> Choice]
Casters(B, c) == {v \in DOMAIN B : B[v] = c}

(* What validate accepts is weighted, and its shares are proportions.      *)
LEMMA ValidIsProper ==
    ASSUME NEW r, NEW e, IsRules(r), IsElectorate(e), validate(r, e) = {}
    PROVE  /\ IsQuorum(r.quorum)
           /\ IsProportion(r.threshold.fraction)
  <1> DEFINE found ==
            [ImproperFraction |->
                \/ (r.quorum.kind = "fraction" /\ ~IsProportion(r.quorum.fraction))
                \/ ~IsProportion(r.threshold.fraction),
             ContradictoryWeight |->
                r.weight = "equal" /\ \E v \in DOMAIN e : e[v].weight # 1,
             ContradictoryExclusion |->
                ~r.exclusions /\ \E v \in DOMAIN e : e[v].excluded,
             UnachievableQuorum |->
                /\ r.quorum.kind = "absolute"
                /\ Weigh(r, e, DOMAIN e) <= MaxWeight
                /\ r.quorum.weight > Weigh(r, e, DOMAIN e),
             WeightOverflow |->
                r.quorum.kind = "absolute" /\ Weigh(r, e, DOMAIN e) > MaxWeight]
  <1>1. validate(r, e) = {issue \in DOMAIN found : found[issue]}
    BY DEF validate
  <1>2. "ImproperFraction" \in DOMAIN found
    OBVIOUS
  <1>3. ~found["ImproperFraction"]
    <2> HIDE DEF found
    <2> QED
      BY <1>1, <1>2
  <1>4. /\ IsProportion(r.threshold.fraction)
        /\ r.quorum.kind = "fraction" => IsProportion(r.quorum.fraction)
    BY <1>3
  <1> QED
    BY <1>4 DEF IsRules, IsQuorum

(* Every voter has a weight, by either rule.                               *)
LEMMA ElectorateIsWeighted ==
    ASSUME NEW r, NEW e, IsElectorate(e), NEW S \in SUBSET DOMAIN e
    PROVE  /\ IsFiniteSet(S)
           /\ Weighted(r, e, S)
           /\ Weigh(r, e, S) \in Nat
           /\ Cardinality(S) \in Nat
  <1>1. IsFiniteSet(S)
    BY FS_Subset DEF IsElectorate
  <1>2. Weighted(r, e, S)
    BY DEF IsElectorate, Weighted, weight_of
  <1> QED
    BY <1>1, <1>2, WeighsANumber, FS_CardinalityType

(* What the ballots let through satisfy: only effective voters voted, the  *)
(* register fits a u64.                                                    *)
LEMMA NothingRefused ==
    ASSUME NEW r, NEW e, NEW B, Refusals(r, e, B) = {}
    PROVE  /\ validate(r, e) = {}
           /\ ~(Weigh(r, e, DOMAIN e) > MaxWeight)
           /\ DOMAIN B \subseteq Effective(r, e)
           /\ Effective(r, e) \subseteq DOMAIN e
  <1> DEFINE found ==
            [UnknownVoter |-> ~(DOMAIN B \subseteq DOMAIN e),
             ExcludedVoter |->
                \E v \in DOMAIN B \cap DOMAIN e : v \notin Effective(r, e)]
  <1>1. Refusals(r, e, B) =
            IF validate(r, e) # {} THEN validate(r, e)
            ELSE IF Weigh(r, e, DOMAIN e) > MaxWeight THEN {"WeightOverflow"}
                 ELSE {issue \in DOMAIN found : found[issue]}
    BY DEF Refusals
  <1>2. "UnknownVoter" \in DOMAIN found /\ "ExcludedVoter" \in DOMAIN found
    OBVIOUS
  <1> HIDE DEF found
  <1>3. /\ validate(r, e) = {} /\ ~(Weigh(r, e, DOMAIN e) > MaxWeight)
        /\ ~found["UnknownVoter"] /\ ~found["ExcludedVoter"]
    BY <1>1, <1>2
  <1> USE DEF found
  <1>4. /\ DOMAIN B \subseteq DOMAIN e
        /\ ~\E v \in DOMAIN B \cap DOMAIN e : v \notin Effective(r, e)
    BY <1>3
  <1>5. Effective(r, e) \subseteq DOMAIN e
    BY DEF Effective
  <1> QED
    BY <1>3, <1>4, <1>5

(* The parts of an electorate, by weight and by head: those who voted each *)
(* way, those who voted, those who could have, all.                        *)
Parts(r, e, B) ==
    /\ \A S \in SUBSET DOMAIN e : Weigh(r, e, S) \in Nat /\ Cardinality(S) \in Nat
    /\ Weigh(r, e, Casters(B, "yes")) + Weigh(r, e, Casters(B, "no"))
          + Weigh(r, e, Casters(B, "abstain")) = Weigh(r, e, DOMAIN B)
    /\ Cardinality(Casters(B, "yes")) + Cardinality(Casters(B, "no"))
          + Cardinality(Casters(B, "abstain")) = Cardinality(DOMAIN B)
    /\ Weigh(r, e, DOMAIN B) <= Weigh(r, e, Effective(r, e))
    /\ Weigh(r, e, Effective(r, e)) <= Weigh(r, e, DOMAIN e)
    /\ Cardinality(DOMAIN B) <= Cardinality(Effective(r, e))
    /\ Cardinality(Effective(r, e)) <= Cardinality(DOMAIN e)

(* They add up for every set of ballots from effective voters.             *)
LEMMA PartsAddUp ==
    ASSUME NEW r, NEW e, NEW B, IsElectorate(e), AreBallots(B),
           DOMAIN B \subseteq Effective(r, e), Effective(r, e) \subseteq DOMAIN e
    PROVE  Parts(r, e, B)
  <1> DEFINE Y == Casters(B, "yes")
             N == Casters(B, "no")
             A == Casters(B, "abstain")
             V == DOMAIN B
             E == Effective(r, e)
  <1>1. \A S \in SUBSET DOMAIN e : /\ IsFiniteSet(S) /\ Weighted(r, e, S)
                                   /\ Weigh(r, e, S) \in Nat /\ Cardinality(S) \in Nat
    BY ElectorateIsWeighted
  <1>2. /\ Y \cup N \cup A = V
        /\ Y \cap N = {} /\ (Y \cup N) \cap A = {}
    BY DEF AreBallots, Choice, Casters
  <1>3. Y \subseteq V /\ N \subseteq V /\ A \subseteq V
    BY DEF Casters
  <1>4. V \in SUBSET E /\ E \in SUBSET DOMAIN e /\ V \in SUBSET DOMAIN e
    OBVIOUS
  <1> HIDE DEF Y, N, A, V, E
  <1>5. /\ Y \in SUBSET V /\ N \in SUBSET V /\ A \in SUBSET V /\ Y \cup N \in SUBSET V
        /\ Y \in SUBSET DOMAIN e /\ N \in SUBSET DOMAIN e /\ A \in SUBSET DOMAIN e
        /\ Y \cup N \in SUBSET DOMAIN e
    BY <1>3, <1>4
  <1>6. Weigh(r, e, Y \cup N) = Weigh(r, e, Y) + Weigh(r, e, N)
    BY <1>1, <1>2, <1>4, <1>5, WeighBoth
  <1>7. Weigh(r, e, V) = Weigh(r, e, Y \cup N) + Weigh(r, e, A)
    <2>1. Weigh(r, e, (Y \cup N) \cup A) = Weigh(r, e, Y \cup N) + Weigh(r, e, A)
      BY <1>1, <1>2, <1>4, <1>5, WeighBoth
    <2> QED
      BY <1>2, <2>1
  <1>8. Cardinality(Y \cup N) = Cardinality(Y) + Cardinality(N)
    <2>1. Cardinality(Y \cup N)
             = Cardinality(Y) + Cardinality(N) - Cardinality(Y \cap N)
      BY <1>1, <1>5, FS_Union
    <2> QED
      BY <1>1, <1>2, <1>5, <2>1, FS_EmptySet
  <1>9. Cardinality(V) = Cardinality(Y \cup N) + Cardinality(A)
    <2>1. Cardinality((Y \cup N) \cup A)
             = Cardinality(Y \cup N) + Cardinality(A) - Cardinality((Y \cup N) \cap A)
      BY <1>1, <1>5, FS_Union
    <2> QED
      BY <1>1, <1>2, <1>5, <2>1, FS_EmptySet
  <1>10. /\ Weigh(r, e, V) <= Weigh(r, e, E)
         /\ Weigh(r, e, E) <= Weigh(r, e, DOMAIN e)
    <2>1. IsFiniteSet(DOMAIN e) /\ Weighted(r, e, DOMAIN e)
      BY <1>1
    <2>2. IsFiniteSet(E) /\ Weighted(r, e, E)
      BY <1>1, <1>4
    <2> QED
      BY <1>4, <2>1, <2>2, WeighMore
  <1>11. /\ Cardinality(V) <= Cardinality(E)
         /\ Cardinality(E) <= Cardinality(DOMAIN e)
    BY <1>1, <1>4, FS_Subset
  <1>12. \A S \in SUBSET DOMAIN e : Weigh(r, e, S) \in Nat /\ Cardinality(S) \in Nat
    BY <1>1
  <1> USE DEF Y, N, A, V, E
  <1> QED
    BY <1>6, <1>7, <1>8, <1>9, <1>10, <1>11, <1>12 DEF Parts


-----------------------------------------------------------------------------
(* The weights a count compares, named as result.rs names them.            *)
Tallied(r, e, B) == [c \in Choice |-> Weigh(r, e, Casters(B, c))]
Participating(r, e, B) == Weigh(r, e, DOMAIN B)
Total(r, e) == Weigh(r, e, DOMAIN e)
EffectiveWeight(r, e) == Weigh(r, e, Effective(r, e))
Denominator(r, e, B) ==
    denominator_weight(r, Tallied(r, e, B), Participating(r, e, B), Total(r, e),
                       EffectiveWeight(r, e))
Met(r, e, B) ==
    quorum_met(r, Participating(r, e, B), Total(r, e), EffectiveWeight(r, e))
Compared(r, e, B) ==
    compare_share(r.threshold.fraction, Tallied(r, e, B)["yes"], Denominator(r, e, B))

(* What an evaluation reports, field by field.                             *)
Reports(E, r, e, B) ==
    /\ E.refused = {}
    /\ E.voter_count = Cardinality(DOMAIN e)
    /\ E.effective_voter_count = Cardinality(Effective(r, e))
    /\ E.total_weight = Total(r, e)
    /\ E.effective_weight = EffectiveWeight(r, e)
    /\ E.ballot_count = Cardinality(DOMAIN B)
    /\ E.participating_weight = Participating(r, e, B)
    /\ E.non_participant_count
          = Cardinality(Effective(r, e)) - Cardinality(DOMAIN B)
    /\ E.non_participant_weight = EffectiveWeight(r, e) - Participating(r, e, B)
    /\ E.tally = Tallied(r, e, B)
    /\ E.counts = [c \in Choice |-> Cardinality(Casters(B, c))]
    /\ E.quorum_met = Met(r, e, B)
    /\ E.denominator = Denominator(r, e, B)
    /\ E.threshold_met = ThresholdMet(r, Denominator(r, e, B), Compared(r, e, B))
    /\ E.accepted =
                (ReasonCode(r, Met(r, e, B), Denominator(r, e, B), Compared(r, e, B))
                     \in {"threshold_met", "tie_accepted"})

(* An evaluation reports just that.                                        *)
LEMMA Reported ==
    ASSUME NEW r, NEW e, NEW B
    PROVE  Reports(Evaluation(r, e, B), r, e, B)
  BY DEF Reports, Evaluation, Casters, Tallied, Participating, Total, EffectiveWeight,
         Denominator, Met, Compared

(* A verdict of evaluate is a refusal, or the evaluation of proper rules   *)
(* and of ballots whose parts add up to a register that fits a u64.        *)
Sound(r, e, B) ==
    /\ validate(r, e) = {}
    /\ IsQuorum(r.quorum)
    /\ IsFraction(r.threshold.fraction)
    /\ IsProportion(r.threshold.fraction)
    /\ Parts(r, e, B)
    /\ DOMAIN B \subseteq Effective(r, e)
    /\ Effective(r, e) \subseteq DOMAIN e
    /\ Total(r, e) <= MaxWeight
    /\ Total(r, e) \in Nat /\ EffectiveWeight(r, e) \in Nat
    /\ Participating(r, e, B) \in Nat
    /\ \A c \in Choice : Tallied(r, e, B)[c] \in Nat
    /\ Participating(r, e, B) <= EffectiveWeight(r, e)
    /\ EffectiveWeight(r, e) <= Total(r, e)
    /\ Tallied(r, e, B)["yes"] + Tallied(r, e, B)["no"] + Tallied(r, e, B)["abstain"]
          = Participating(r, e, B)

(* Whatever evaluate does not refuse is such an evaluation.                *)
LEMMA CountedIsSound ==
    ASSUME NEW r, NEW e, NEW B, IsRules(r), IsElectorate(e), AreBallots(B),
           evaluate(r, e, B).refused = {}
    PROVE  evaluate(r, e, B) = Evaluation(r, e, B) /\ Sound(r, e, B)
  <1>1. Refusals(r, e, B) = {} /\ evaluate(r, e, B) = Evaluation(r, e, B)
    BY DEF evaluate
  <1>2. /\ validate(r, e) = {}
        /\ ~(Weigh(r, e, DOMAIN e) > MaxWeight)
        /\ DOMAIN B \subseteq Effective(r, e) /\ Effective(r, e) \subseteq DOMAIN e
    BY <1>1, NothingRefused
  <1>3. IsQuorum(r.quorum) /\ IsProportion(r.threshold.fraction)
    BY <1>2, ValidIsProper
  <1>4. Parts(r, e, B)
    BY <1>2, PartsAddUp
  <1>5. /\ Total(r, e) \in Nat /\ EffectiveWeight(r, e) \in Nat
        /\ Participating(r, e, B) \in Nat
    BY <1>2, <1>4 DEF Parts, Total, EffectiveWeight, Participating
  <1>6. \A c \in Choice : /\ Tallied(r, e, B)[c] \in Nat
                          /\ Tallied(r, e, B)[c] = Weigh(r, e, Casters(B, c))
    <2>1. \A c \in Choice : Casters(B, c) \in SUBSET DOMAIN e
      BY <1>2 DEF Casters
    <2> QED
      BY <1>4, <2>1 DEF Parts, Tallied
  <1>7. "yes" \in Choice /\ "no" \in Choice /\ "abstain" \in Choice
    BY DEF Choice
  <1>8. /\ Participating(r, e, B) <= EffectiveWeight(r, e)
        /\ EffectiveWeight(r, e) <= Total(r, e)
        /\ Tallied(r, e, B)["yes"] + Tallied(r, e, B)["no"] + Tallied(r, e, B)["abstain"]
              = Participating(r, e, B)
    BY <1>4, <1>6, <1>7 DEF Parts, Total, EffectiveWeight, Participating
  <1>9. Total(r, e) <= MaxWeight
    BY <1>2, <1>5, MaxWeightAssumption DEF Total
  <1> QED
    BY <1>1, <1>2, <1>3, <1>4, <1>5, <1>6, <1>8, <1>9 DEF Sound, IsRules

(* Whatever the basis, what YES is measured against is part of the whole.  *)
LEMMA DenominatorFits ==
    ASSUME NEW r, NEW e, NEW B, IsRules(r), Sound(r, e, B)
    PROVE  Denominator(r, e, B) \in Nat /\ Denominator(r, e, B) <= MaxWeight
  <1> DEFINE y == Tallied(r, e, B)["yes"]
             n == Tallied(r, e, B)["no"]
             a == Tallied(r, e, B)["abstain"]
             p == Participating(r, e, B)
             f == EffectiveWeight(r, e)
             t == Total(r, e)
  <1>1. /\ y \in Nat /\ n \in Nat /\ a \in Nat /\ p \in Nat /\ f \in Nat /\ t \in Nat
        /\ y + n + a = p /\ p <= f /\ f <= t /\ t <= MaxWeight /\ MaxWeight \in Nat
    BY MaxWeightAssumption DEF Sound, Choice
  <1>2. Denominator(r, e, B) \in {y + n, p, f, t}
    BY DEF Denominator, denominator_weight, IsRules
  <1> HIDE DEF y, n, a, p, f, t
  <1>3. \A x \in {y + n, p, f, t} : x \in Nat /\ x <= MaxWeight
    BY <1>1
  <1> QED
    BY <1>2, <1>3

(* The evaluation accepts exactly when both its verdicts say met.          *)
LEMMA AcceptedIffBoth ==
    ASSUME NEW r, NEW e, NEW B, IsRules(r), Sound(r, e, B)
    PROVE  /\ Met(r, e, B) \in BOOLEAN
           /\ Compared(r, e, B) \in {"Below", "Exactly", "Above"}
           /\ ReasonCode(r, Met(r, e, B), Denominator(r, e, B), Compared(r, e, B))
                   \in {"threshold_met", "tie_accepted"}
                 <=> /\ Met(r, e, B)
                     /\ ThresholdMet(r, Denominator(r, e, B), Compared(r, e, B))
  <1>1. Denominator(r, e, B) \in Nat
    BY DenominatorFits
  <1>2. Met(r, e, B) \in BOOLEAN
    <2> DEFINE w == r.quorum.weight
               p == Participating(r, e, B)
               of == quorum_basis(r, Total(r, e), EffectiveWeight(r, e))
    <2>1. CASE r.quorum.kind = "none"
      BY <2>1 DEF Met, quorum_met
    <2>2. CASE r.quorum.kind = "absolute"
      <3>1. Met(r, e, B) = (p >= w)
        BY <2>2 DEF Met, quorum_met
      <3> QED
        BY <3>1
    <2>3. CASE r.quorum.kind = "fraction"
      <3>1. Met(r, e, B) = (compare_share(r.quorum.fraction, p, of) # "Below")
        BY <2>3 DEF Met, quorum_met
      <3> QED
        BY <3>1
    <2> QED
      BY <2>1, <2>2, <2>3 DEF IsRules
  <1>3. Compared(r, e, B) \in {"Below", "Exactly", "Above"}
    BY DEF Compared, compare_share
  <1>4. r.tie \in {"accept", "reject"}
    BY DEF IsRules
  <1> QED
    BY <1>1, <1>2, <1>3, <1>4, AcceptedIsBothMet

-----------------------------------------------------------------------------
(* What the properties say of one evaluation, whatever is polled.          *)
Harmless(E) ==
    E.refused = {} =>
        /\ E.non_participant_weight >= 0
        /\ E.non_participant_count >= 0
        /\ E.denominator \in 0..MaxWeight
        /\ E.total_weight <= MaxWeight
        /\ \A c \in Choice : E.tally[c] <= MaxWeight

(* An evaluation fits its integers, whatever is counted (evaluate.rs).      *)
LEMMA EvaluationIsHarmless ==
    ASSUME NEW r, NEW e, NEW B, IsRules(r), IsElectorate(e), AreBallots(B)
    PROVE  Harmless(evaluate(r, e, B))
  <1> SUFFICES ASSUME evaluate(r, e, B).refused = {} PROVE Harmless(evaluate(r, e, B))
    BY DEF Harmless
  <1>1. evaluate(r, e, B) = Evaluation(r, e, B) /\ Sound(r, e, B)
    BY CountedIsSound
  <1>2. Denominator(r, e, B) \in Nat /\ Denominator(r, e, B) <= MaxWeight
    BY <1>1, DenominatorFits
  <1>3. Cardinality(Effective(r, e)) - Cardinality(DOMAIN B) >= 0
    <2>1. /\ Cardinality(Effective(r, e)) \in Nat /\ Cardinality(DOMAIN B) \in Nat
          /\ Cardinality(DOMAIN B) <= Cardinality(Effective(r, e))
      BY <1>1 DEF Sound, Parts
    <2> QED
      BY <2>1
  <1>4. EffectiveWeight(r, e) - Participating(r, e, B) >= 0
    <2>1. /\ EffectiveWeight(r, e) \in Nat /\ Participating(r, e, B) \in Nat
          /\ Participating(r, e, B) <= EffectiveWeight(r, e)
      BY <1>1 DEF Sound
    <2> HIDE DEF EffectiveWeight, Participating
    <2> QED
      BY <2>1
  <1>5. \A c \in Choice : Tallied(r, e, B)[c] <= MaxWeight
    <2> DEFINE y == Tallied(r, e, B)["yes"]
               n == Tallied(r, e, B)["no"]
               a == Tallied(r, e, B)["abstain"]
               p == Participating(r, e, B)
               f == EffectiveWeight(r, e)
               t == Total(r, e)
    <2>1. /\ y \in Nat /\ n \in Nat /\ a \in Nat /\ p \in Nat /\ f \in Nat /\ t \in Nat
          /\ y + n + a = p /\ p <= f /\ f <= t /\ t <= MaxWeight /\ MaxWeight \in Nat
      BY <1>1, MaxWeightAssumption DEF Sound, Choice
    <2> HIDE DEF y, n, a, p, f, t
    <2>2. y <= MaxWeight /\ n <= MaxWeight /\ a <= MaxWeight
      BY <2>1
    <2> QED
      BY <2>2 DEF Choice, y, n, a
  <1>6. Total(r, e) <= MaxWeight
    BY <1>1 DEF Sound
  <1>7. Denominator(r, e, B) \in 0..MaxWeight
    BY <1>2, MaxWeightAssumption
  <1> DEFINE E == Evaluation(r, e, B)
  <1>8. Reports(E, r, e, B)
    BY Reported
  <1> HIDE DEF E
  <1>9. /\ E.non_participant_weight = EffectiveWeight(r, e) - Participating(r, e, B)
        /\ E.non_participant_count = Cardinality(Effective(r, e)) - Cardinality(DOMAIN B)
        /\ E.denominator = Denominator(r, e, B)
        /\ E.total_weight = Total(r, e)
        /\ E.tally = Tallied(r, e, B)
    BY <1>8 DEF Reports
  <1>10. Harmless(E)
    BY <1>3, <1>4, <1>5, <1>6, <1>7, <1>9 DEF Harmless
  <1> QED
    BY <1>1, <1>10 DEF E

(* What an auditor recomputes.                                             *)
Auditable(E) ==
    E.refused = {} =>
        /\ E.counts["yes"] + E.counts["no"] + E.counts["abstain"] = E.ballot_count
        /\ E.tally["yes"] + E.tally["no"] + E.tally["abstain"] = E.participating_weight
        /\ E.participating_weight + E.non_participant_weight = E.effective_weight
        /\ E.effective_voter_count <= E.voter_count
        /\ E.accepted => E.quorum_met /\ E.threshold_met

(* An evaluation adds up, whatever is counted (evaluate.rs, result.rs).     *)
LEMMA EvaluationIsAuditable ==
    ASSUME NEW r, NEW e, NEW B, IsRules(r), IsElectorate(e), AreBallots(B)
    PROVE  Auditable(evaluate(r, e, B))
  <1> SUFFICES ASSUME evaluate(r, e, B).refused = {} PROVE Auditable(evaluate(r, e, B))
    BY DEF Auditable
  <1>1. evaluate(r, e, B) = Evaluation(r, e, B) /\ Sound(r, e, B)
    BY CountedIsSound
  <1> DEFINE counts == [c \in Choice |-> Cardinality(Casters(B, c))]
  <1>2. counts["yes"] + counts["no"] + counts["abstain"] = Cardinality(DOMAIN B)
    BY <1>1 DEF Sound, Parts, Choice
  <1>3. Tallied(r, e, B)["yes"] + Tallied(r, e, B)["no"] + Tallied(r, e, B)["abstain"]
          = Participating(r, e, B)
    BY <1>1 DEF Sound
  <1>4. Participating(r, e, B) + (EffectiveWeight(r, e) - Participating(r, e, B))
          = EffectiveWeight(r, e)
    <2>1. EffectiveWeight(r, e) \in Nat /\ Participating(r, e, B) \in Nat
      BY <1>1 DEF Sound
    <2> HIDE DEF EffectiveWeight, Participating
    <2> QED
      BY <2>1
  <1>5. Cardinality(Effective(r, e)) <= Cardinality(DOMAIN e)
    BY <1>1 DEF Sound, Parts
  <1>6. ReasonCode(r, Met(r, e, B), Denominator(r, e, B), Compared(r, e, B))
              \in {"threshold_met", "tie_accepted"}
           => Met(r, e, B) /\ ThresholdMet(r, Denominator(r, e, B), Compared(r, e, B))
    BY <1>1, AcceptedIffBoth
  <1> DEFINE E == Evaluation(r, e, B)
             accepted == ReasonCode(r, Met(r, e, B), Denominator(r, e, B), Compared(r, e, B))
                            \in {"threshold_met", "tie_accepted"}
             over == ThresholdMet(r, Denominator(r, e, B), Compared(r, e, B))
  <1>7. /\ E.counts = counts
        /\ E.ballot_count = Cardinality(DOMAIN B)
        /\ E.tally = Tallied(r, e, B)
        /\ E.participating_weight = Participating(r, e, B)
        /\ E.non_participant_weight = EffectiveWeight(r, e) - Participating(r, e, B)
        /\ E.effective_weight = EffectiveWeight(r, e)
        /\ E.effective_voter_count = Cardinality(Effective(r, e))
        /\ E.voter_count = Cardinality(DOMAIN e)
        /\ E.accepted = accepted
        /\ E.quorum_met = Met(r, e, B)
        /\ E.threshold_met = over
    BY Reported DEF Reports
  <1> HIDE DEF counts, E, accepted, over
  <1>8. E.accepted => E.quorum_met /\ E.threshold_met
    BY <1>6, <1>7 DEF accepted, over
  <1>9. /\ E.counts["yes"] + E.counts["no"] + E.counts["abstain"] = E.ballot_count
        /\ E.tally["yes"] + E.tally["no"] + E.tally["abstain"] = E.participating_weight
        /\ E.participating_weight + E.non_participant_weight = E.effective_weight
        /\ E.effective_voter_count <= E.voter_count
    BY <1>2, <1>3, <1>4, <1>5, <1>7
  <1>10. Auditable(E)
    BY <1>8, <1>9 DEF Auditable
  <1> QED
    BY <1>1, <1>10 DEF E


(* The verdict on the quorum is the comparison with the recorded number.   *)
QuorumAsRecorded(r, E) ==
    E.refused = {} =>
        E.quorum_met = \A least \in quorum_required_weight(r, E.total_weight, E.effective_weight) :
                           E.participating_weight >= least

(* An evaluation meets its quorum as recorded (quorum_required_weight).     *)
LEMMA EvaluationHasItsQuorum ==
    ASSUME NEW r, NEW e, NEW B, IsRules(r), IsElectorate(e), AreBallots(B)
    PROVE  QuorumAsRecorded(r, evaluate(r, e, B))
  <1> SUFFICES ASSUME evaluate(r, e, B).refused = {}
               PROVE  QuorumAsRecorded(r, evaluate(r, e, B))
    BY DEF QuorumAsRecorded
  <1> DEFINE E == Evaluation(r, e, B)
             p == Participating(r, e, B)
             t == Total(r, e)
             f == EffectiveWeight(r, e)
             reached == \A least \in quorum_required_weight(r, t, f) : p >= least
  <1>1. evaluate(r, e, B) = E /\ Sound(r, e, B)
    BY CountedIsSound
  <1>2. Reports(E, r, e, B)
    BY Reported
  <1>3. /\ E.quorum_met = Met(r, e, B) /\ E.total_weight = t
        /\ E.effective_weight = f /\ E.participating_weight = p
    <2> HIDE DEF E
    <2> QED
      BY <1>2 DEF Reports
  <1>4. /\ p \in Nat /\ t \in Nat /\ f \in Nat /\ f <= t /\ t <= MaxWeight
        /\ IsQuorum(r.quorum)
    BY <1>1 DEF Sound
  <1>5. Met(r, e, B) \in BOOLEAN
    BY <1>1, AcceptedIffBoth
  <1>6. Met(r, e, B) <=> reached
    <2>1. Met(r, e, B) = quorum_met(r, p, t, f)
      BY DEF Met
    <2> HIDE DEF p, t, f
    <2>2. t \in 0..MaxWeight /\ f \in 0..MaxWeight
      BY <1>4, MaxWeightAssumption
    <2>3. quorum_met(r, p, t, f) <=> reached
      BY <1>4, <2>2, RecordedQuorumIsTheQuorum
    <2> QED
      BY <2>1, <2>3
  <1>7. Met(r, e, B) = reached
    <2> HIDE DEF reached
    <2>1. reached \in BOOLEAN
      BY DEF reached
    <2> QED
      BY <1>5, <1>6, <2>1
  <1>8. QuorumAsRecorded(r, E)
    <2> HIDE DEF E, p, t, f
    <2> QED
      BY <1>3, <1>7 DEF QuorumAsRecorded
  <1> QED
    BY <1>1, <1>8

-----------------------------------------------------------------------------
(* One ballot more, or changed. *)
Voted(B, v, c) == [w \in DOMAIN B \cup {v} |-> IF w = v THEN c ELSE B[w]]

Moves(C, B, v, c) ==
    /\ AreBallots(C)
    /\ DOMAIN C = DOMAIN B \cup {v}
    /\ Casters(C, c) = Casters(B, c) \cup {v}
    /\ \A d : d # c => Casters(C, d) = Casters(B, d) \ {v}

(* A ballot handed in moves its voter and nobody else.                     *)
LEMMA VotedMoves ==
    ASSUME NEW B, AreBallots(B), NEW v, NEW c \in Choice
    PROVE  Moves(Voted(B, v, c), B, v, c)
  BY DEF Moves, AreBallots, Voted, Casters

(* With one voter more, or less, a group weighs that much more, or less.   *)
OneMore(r, e, S, v, W) ==
    /\ Weigh(r, e, S \cup {v}) = IF v \in S THEN Weigh(r, e, S) ELSE Weigh(r, e, S) + W
    /\ Weigh(r, e, S) = IF v \in S THEN Weigh(r, e, S \ {v}) + W ELSE Weigh(r, e, S \ {v})

(* The sum over a group follows each voter who joins or leaves it.         *)
LEMMA WeighOneMore ==
    ASSUME NEW r, NEW e, IsElectorate(e), NEW S \in SUBSET DOMAIN e, NEW v \in DOMAIN e
    PROVE  weight_of(r, e[v]) \in Nat /\ OneMore(r, e, S, v, weight_of(r, e[v]))
  <1> DEFINE W == weight_of(r, e[v])
  <1>1. \A T \in SUBSET DOMAIN e : /\ IsFiniteSet(T) /\ Weighted(r, e, T)
                                   /\ Weigh(r, e, T) \in Nat
    BY ElectorateIsWeighted
  <1>2. \A T \in SUBSET DOMAIN e :
           v \in T => Weigh(r, e, T) = W + Weigh(r, e, T \ {v})
    BY <1>1, WeighWithout
  <1>3. W \in Nat
    <2>1. Weighted(r, e, DOMAIN e)
      BY <1>1
    <2> QED
      BY <2>1 DEF Weighted
  <1> HIDE DEF W
  <1>4. CASE v \in S
    <2>1. S \cup {v} = S /\ S \ {v} \in SUBSET DOMAIN e
      BY <1>4
    <2>2. Weigh(r, e, S) = W + Weigh(r, e, S \ {v}) /\ Weigh(r, e, S \ {v}) \in Nat
      BY <1>1, <1>2, <1>4, <2>1
    <2>3. Weigh(r, e, S) = Weigh(r, e, S \ {v}) + W
      BY <1>3, <2>2
    <2> QED
      BY <1>3, <1>4, <2>1, <2>3 DEF W, OneMore
  <1>5. CASE v \notin S
    <2>1. /\ (S \cup {v}) \ {v} = S /\ S \ {v} = S
          /\ S \cup {v} \in SUBSET DOMAIN e /\ v \in S \cup {v}
      BY <1>5
    <2>2. Weigh(r, e, S \cup {v}) = W + Weigh(r, e, S) /\ Weigh(r, e, S) \in Nat
      BY <1>1, <1>2, <2>1
    <2>3. Weigh(r, e, S \cup {v}) = Weigh(r, e, S) + W
      BY <1>3, <2>2
    <2> QED
      BY <1>3, <1>5, <2>1, <2>3 DEF W, OneMore
  <1> QED
    BY <1>4, <1>5

(* How the three tallies and the participation move with one ballot.       *)
LEMMA BallotMoves ==
    ASSUME NEW r, NEW e, NEW B, IsElectorate(e), AreBallots(B),
           DOMAIN B \subseteq DOMAIN e, NEW v \in DOMAIN e, NEW c \in Choice
    PROVE  LET C == Voted(B, v, c)
               W == weight_of(r, e[v]) IN
           /\ W \in Nat
           /\ \A d \in Choice : Tallied(r, e, B)[d] \in Nat /\ Tallied(r, e, C)[d] \in Nat
           /\ Tallied(r, e, C)[c]
                 = IF v \in Casters(B, c) THEN Tallied(r, e, B)[c]
                   ELSE Tallied(r, e, B)[c] + W
           /\ \A d \in Choice \ {c} :
                 Tallied(r, e, B)[d]
                   = IF v \in Casters(B, d) THEN Tallied(r, e, C)[d] + W
                     ELSE Tallied(r, e, C)[d]
           /\ Participating(r, e, B) \in Nat
           /\ Participating(r, e, C)
                 = IF v \in DOMAIN B THEN Participating(r, e, B)
                   ELSE Participating(r, e, B) + W
  <1> DEFINE C == Voted(B, v, c)
             W == weight_of(r, e[v])
  <1>0. Moves(C, B, v, c)
    BY VotedMoves
  <1> HIDE DEF C
  <1>1. /\ AreBallots(C)
        /\ DOMAIN C = DOMAIN B \cup {v}
        /\ Casters(C, c) = Casters(B, c) \cup {v}
        /\ \A d : d # c => Casters(C, d) = Casters(B, d) \ {v}
    BY <1>0 DEF Moves
  <1>2. /\ \A d : Casters(B, d) \in SUBSET DOMAIN e
        /\ \A d : Casters(C, d) \in SUBSET DOMAIN e
        /\ DOMAIN B \in SUBSET DOMAIN e
    BY <1>1 DEF Casters
  <1>3. \A S \in SUBSET DOMAIN e : Weigh(r, e, S) \in Nat
    BY ElectorateIsWeighted
  <1>4. W \in Nat /\ \A S \in SUBSET DOMAIN e : OneMore(r, e, S, v, W)
    BY WeighOneMore
  <1> HIDE DEF W
  <1>5. \A d \in Choice : /\ Tallied(r, e, B)[d] = Weigh(r, e, Casters(B, d))
                          /\ Tallied(r, e, C)[d] = Weigh(r, e, Casters(C, d))
    BY DEF Tallied
  <1>6. \A d \in Choice : Tallied(r, e, B)[d] \in Nat /\ Tallied(r, e, C)[d] \in Nat
    BY <1>2, <1>3, <1>5
  <1>7. Tallied(r, e, C)[c]
           = IF v \in Casters(B, c) THEN Tallied(r, e, B)[c] ELSE Tallied(r, e, B)[c] + W
    BY <1>1, <1>2, <1>4, <1>5 DEF OneMore
  <1>8. \A d \in Choice \ {c} :
           Tallied(r, e, B)[d]
             = IF v \in Casters(B, d) THEN Tallied(r, e, C)[d] + W ELSE Tallied(r, e, C)[d]
    <2> SUFFICES ASSUME NEW d \in Choice \ {c}
                 PROVE  Tallied(r, e, B)[d] = IF v \in Casters(B, d)
                                              THEN Tallied(r, e, C)[d] + W
                                              ELSE Tallied(r, e, C)[d]
      OBVIOUS
    <2>1. OneMore(r, e, Casters(B, d), v, W) /\ Casters(C, d) = Casters(B, d) \ {v}
      BY <1>1, <1>2, <1>4
    <2> QED
      BY <1>5, <2>1 DEF OneMore
  <1>9. /\ Participating(r, e, B) \in Nat
        /\ Participating(r, e, C)
             = IF v \in DOMAIN B THEN Participating(r, e, B)
               ELSE Participating(r, e, B) + W
    BY <1>1, <1>2, <1>3, <1>4 DEF Participating, OneMore
  <1> QED
    BY <1>4, <1>6, <1>7, <1>8, <1>9 DEF C, W


(* What YES is measured against contains the YES weight.                   *)
LEMMA YesIsMeasured ==
    ASSUME NEW r, NEW e, NEW B, IsRules(r), Sound(r, e, B)
    PROVE  Tallied(r, e, B)["yes"] <= Denominator(r, e, B)
  <1> DEFINE y == Tallied(r, e, B)["yes"]
             n == Tallied(r, e, B)["no"]
             a == Tallied(r, e, B)["abstain"]
             p == Participating(r, e, B)
             f == EffectiveWeight(r, e)
             t == Total(r, e)
  <1>1. /\ y \in Nat /\ n \in Nat /\ a \in Nat /\ p \in Nat /\ f \in Nat /\ t \in Nat
        /\ y + n + a = p /\ p <= f /\ f <= t
    BY DEF Sound, Choice
  <1>2. Denominator(r, e, B) \in {y + n, p, f, t}
    BY DEF Denominator, denominator_weight, IsRules
  <1> HIDE DEF y, n, a, p, f, t
  <1>3. \A x \in {y + n, p, f, t} : y <= x
    BY <1>1
  <1> QED
    BY <1>2, <1>3 DEF y

(* How far a ballot moves what is compared.  A yes adds some weight to YES *)
(* and, as the basis is, that weight or nothing to what it is measured     *)
(* against; a no of somebody who had voted takes from YES or adds to what  *)
(* it is measured against, and nobody participates more for it.            *)
Lifts(r, e, B, C) ==
    \E w \in Nat : \E grown \in {0, w} :
        /\ Tallied(r, e, C)["yes"] = Tallied(r, e, B)["yes"] + w
        /\ Denominator(r, e, C) = Denominator(r, e, B) + grown
        /\ Participating(r, e, C) >= Participating(r, e, B)

Lowers(r, e, B, C) ==
    /\ Tallied(r, e, C)["yes"] <= Tallied(r, e, B)["yes"]
    /\ Denominator(r, e, C) >= Denominator(r, e, B)
    /\ Participating(r, e, C) = Participating(r, e, B)

(* What a denominator is, by the rules' basis. *)
LEMMA Denominators ==
    ASSUME NEW r, NEW e, NEW B, IsRules(r)
    PROVE  Denominator(r, e, B) =
             IF r.threshold.basis = "total-electorate" THEN Total(r, e)
             ELSE IF r.threshold.basis = "effective-electorate" THEN EffectiveWeight(r, e)
             ELSE IF r.abstentions = "exclude"
                  THEN Tallied(r, e, B)["yes"] + Tallied(r, e, B)["no"]
                  ELSE Participating(r, e, B)
  BY DEF Denominator, denominator_weight, IsRules

(* A yes lifts, from a voter silent, against or abstaining.                *)
LEMMA YesLifts ==
    ASSUME NEW r, NEW e, NEW B, IsRules(r), IsElectorate(e), AreBallots(B),
           DOMAIN B \subseteq DOMAIN e, NEW v \in DOMAIN e
    PROVE  Lifts(r, e, B, Voted(B, v, "yes"))
  <1> DEFINE C == Voted(B, v, "yes")
             W == weight_of(r, e[v])
             y == Tallied(r, e, B)["yes"]
             n == Tallied(r, e, B)["no"]
             p == Participating(r, e, B)
             y2 == Tallied(r, e, C)["yes"]
             n2 == Tallied(r, e, C)["no"]
             p2 == Participating(r, e, C)
             d == Denominator(r, e, B)
             d2 == Denominator(r, e, C)
  <1>1. /\ W \in Nat /\ y \in Nat /\ n \in Nat /\ p \in Nat /\ n2 \in Nat
        /\ y2 = IF v \in Casters(B, "yes") THEN y ELSE y + W
        /\ n = IF v \in Casters(B, "no") THEN n2 + W ELSE n2
        /\ p2 = IF v \in DOMAIN B THEN p ELSE p + W
    BY BallotMoves DEF Choice
  <1>2. /\ v \in Casters(B, "yes") => v \in DOMAIN B /\ v \notin Casters(B, "no")
        /\ v \in Casters(B, "no") => v \in DOMAIN B
    BY DEF Casters
  <1>3. /\ r.threshold.basis = "total-electorate" =>
              d = Total(r, e) /\ d2 = Total(r, e) /\ Total(r, e) \in Nat
        /\ r.threshold.basis = "effective-electorate" =>
              d = EffectiveWeight(r, e) /\ d2 = EffectiveWeight(r, e)
                /\ EffectiveWeight(r, e) \in Nat
        /\ r.threshold.basis \notin {"total-electorate", "effective-electorate"} =>
              IF r.abstentions = "exclude" THEN d = y + n /\ d2 = y2 + n2
              ELSE d = p /\ d2 = p2
    <2>1. Total(r, e) \in Nat /\ EffectiveWeight(r, e) \in Nat
      BY ElectorateIsWeighted DEF Total, EffectiveWeight, Effective
    <2> HIDE DEF C
    <2> QED
      BY <2>1, Denominators
  <1> HIDE DEF C, W, y, n, p, y2, n2, p2, d, d2
  <1>4. p2 >= p
    BY <1>1
  <1>5. CASE v \in Casters(B, "yes")
    <2>1. y2 = y + 0 /\ p2 = p /\ n2 = n /\ d \in Nat
      BY <1>1, <1>2, <1>3, <1>5
    <2>2. d2 = d + 0
      BY <1>1, <1>3, <2>1
    <2>3. \E w \in Nat : \E grown \in {0, w} :
             y2 = y + w /\ d2 = d + grown /\ p2 >= p
      BY <1>4, <2>1, <2>2
    <2> QED
      BY <2>3 DEF Lifts, C, y, y2, d, d2, p, p2
  <1>6. CASE v \notin Casters(B, "yes")
    <2>1. y2 = y + W /\ d \in Nat
      BY <1>1, <1>3, <1>6
    <2>2. d2 = d + 0 \/ d2 = d + W
      <3>1. y2 + n2 = y + n \/ y2 + n2 = y + n + W
        BY <1>1, <2>1
      <3> QED
        BY <1>1, <1>3, <2>1, <3>1
    <2>3. \E w \in Nat : \E grown \in {0, w} :
             y2 = y + w /\ d2 = d + grown /\ p2 >= p
      BY <1>1, <1>4, <2>1, <2>2
    <2> QED
      BY <2>3 DEF Lifts, C, y, y2, d, d2, p, p2
  <1> QED
    BY <1>5, <1>6

(* A no in the place of another ballot lowers.                             *)
LEMMA NoLowers ==
    ASSUME NEW r, NEW e, NEW B, IsRules(r), IsElectorate(e), AreBallots(B),
           DOMAIN B \subseteq DOMAIN e, NEW v \in DOMAIN B
    PROVE  Lowers(r, e, B, Voted(B, v, "no"))
  <1> DEFINE C == Voted(B, v, "no")
             W == weight_of(r, e[v])
             y == Tallied(r, e, B)["yes"]
             n == Tallied(r, e, B)["no"]
             p == Participating(r, e, B)
             y2 == Tallied(r, e, C)["yes"]
             n2 == Tallied(r, e, C)["no"]
             p2 == Participating(r, e, C)
             d == Denominator(r, e, B)
             d2 == Denominator(r, e, C)
  <1>0. v \in DOMAIN e
    OBVIOUS
  <1>1. /\ W \in Nat /\ y \in Nat /\ n \in Nat /\ p \in Nat /\ y2 \in Nat
        /\ n2 = IF v \in Casters(B, "no") THEN n ELSE n + W
        /\ y = IF v \in Casters(B, "yes") THEN y2 + W ELSE y2
        /\ p2 = IF v \in DOMAIN B THEN p ELSE p + W
    <2>1. "no" \in Choice /\ "yes" \in Choice \ {"no"}
      BY DEF Choice
    <2>2. /\ W \in Nat
          /\ \A x \in Choice : Tallied(r, e, B)[x] \in Nat /\ Tallied(r, e, C)[x] \in Nat
          /\ n2 = IF v \in Casters(B, "no") THEN n ELSE n + W
          /\ \A x \in Choice \ {"no"} :
                Tallied(r, e, B)[x]
                  = IF v \in Casters(B, x) THEN Tallied(r, e, C)[x] + W
                    ELSE Tallied(r, e, C)[x]
          /\ p \in Nat
          /\ p2 = IF v \in DOMAIN B THEN p ELSE p + W
      BY <1>0, <2>1, BallotMoves
    <2> QED
      BY <2>1, <2>2
  <1>2. v \in Casters(B, "yes") => v \notin Casters(B, "no")
    BY DEF Casters
  <1>3. /\ r.threshold.basis = "total-electorate" =>
              d = Total(r, e) /\ d2 = Total(r, e) /\ Total(r, e) \in Nat
        /\ r.threshold.basis = "effective-electorate" =>
              d = EffectiveWeight(r, e) /\ d2 = EffectiveWeight(r, e)
                /\ EffectiveWeight(r, e) \in Nat
        /\ r.threshold.basis \notin {"total-electorate", "effective-electorate"} =>
              IF r.abstentions = "exclude" THEN d = y + n /\ d2 = y2 + n2
              ELSE d = p /\ d2 = p2
    <2>1. Total(r, e) \in Nat /\ EffectiveWeight(r, e) \in Nat
      BY ElectorateIsWeighted DEF Total, EffectiveWeight, Effective
    <2> HIDE DEF C
    <2> QED
      BY <2>1, Denominators
  <1> HIDE DEF C, W, y, n, p, y2, n2, p2, d, d2
  <1>4. p2 = p /\ y2 <= y
    BY <1>1
  <1>5. y2 + n2 >= y + n
    BY <1>1, <1>2
  <1>6. d2 >= d
    BY <1>1, <1>3, <1>4, <1>5
  <1> QED
    BY <1>4, <1>6 DEF Lowers, C, y, y2, d, d2, p, p2


(* More participation never unmeets a quorum.                              *)
LEMMA QuorumStaysMet ==
    ASSUME NEW r, IsQuorum(r.quorum), NEW t \in Nat, NEW f \in Nat,
           NEW p \in Nat, NEW p2 \in Nat, p2 >= p, quorum_met(r, p, t, f)
    PROVE  quorum_met(r, p2, t, f)
  <1>1. CASE r.quorum.kind = "none"
    BY <1>1 DEF quorum_met
  <1>2. CASE r.quorum.kind = "absolute"
    <2>1. r.quorum.weight \in Nat /\ p >= r.quorum.weight
      BY <1>2 DEF quorum_met, IsQuorum
    <2>2. p2 >= r.quorum.weight
      BY <2>1
    <2> QED
      BY <1>2, <2>2 DEF quorum_met
  <1>3. CASE r.quorum.kind = "fraction"
    <2> DEFINE q == r.quorum.fraction
               D == q.denominator
               b == quorum_basis(r, t, f)
               rhs == q.numerator * b
    <2>1. IsFraction(q) /\ D \in Nat
      BY <1>3 DEF IsQuorum, IsFraction
    <2>2. b \in Nat
      BY DEF quorum_basis
    <2>3. /\ p * D \in Nat /\ p2 * D \in Nat /\ rhs \in Nat
          /\ compare_share(q, p, b) = "Below" <=> p * D < rhs
          /\ compare_share(q, p2, b) = "Below" <=> p2 * D < rhs
      BY <2>1, <2>2, Comparisons
    <2>4. p * D <= p2 * D
      BY <2>1
    <2>5. compare_share(q, p, b) # "Below"
      BY <1>3 DEF quorum_met
    <2>6. ~ (p2 * D < rhs)
      <3> HIDE DEF rhs, D
      <3> QED
        BY <2>3, <2>4, <2>5
    <2>7. compare_share(q, p2, b) # "Below"
      BY <2>3, <2>6
    <2> QED
      BY <1>3, <2>7 DEF quorum_met
  <1> QED
    BY <1>1, <1>2, <1>3 DEF IsQuorum

(* A count accepts when it met its quorum and its threshold.               *)
Accepts(r, e, B) ==
    /\ Met(r, e, B)
    /\ ThresholdMet(r, Denominator(r, e, B), Compared(r, e, B))

(* What the record of an evaluation says of acceptance.                    *)
LEMMA AcceptedAccepts ==
    ASSUME NEW r, NEW e, NEW B, IsRules(r), Sound(r, e, B)
    PROVE  Evaluation(r, e, B).accepted <=> Accepts(r, e, B)
  <1> DEFINE E == Evaluation(r, e, B)
             accepted == ReasonCode(r, Met(r, e, B), Denominator(r, e, B), Compared(r, e, B))
                            \in {"threshold_met", "tie_accepted"}
  <1>1. Reports(E, r, e, B)
    BY Reported
  <1> HIDE DEF E
  <1>2. E.accepted = accepted
    BY <1>1 DEF Reports
  <1>3. accepted <=> Accepts(r, e, B)
    BY AcceptedIffBoth DEF Accepts
  <1> HIDE DEF accepted
  <1> QED
    BY <1>2, <1>3 DEF E

(* What was accepted stays so when the ballots lift.                       *)
LEMMA LiftedStaysAccepted ==
    ASSUME NEW r, NEW e, NEW B, NEW C, IsRules(r), Sound(r, e, B), Sound(r, e, C),
           Lifts(r, e, B, C), Accepts(r, e, B)
    PROVE  Accepts(r, e, C)
  <1> DEFINE y == Tallied(r, e, B)["yes"]
             d == Denominator(r, e, B)
             p == Participating(r, e, B)
             p2 == Participating(r, e, C)
             q == r.threshold.fraction
  <1>1. /\ IsFraction(q) /\ IsProportion(q) /\ y \in Nat /\ p \in Nat /\ p2 \in Nat
        /\ Total(r, e) \in Nat /\ EffectiveWeight(r, e) \in Nat /\ IsQuorum(r.quorum)
    BY DEF Sound, Choice
  <1>2. d \in Nat
    BY DenominatorFits
  <1>w. PICK w \in Nat : \E grown \in {0, w} :
           /\ Tallied(r, e, C)["yes"] = y + w
           /\ Denominator(r, e, C) = d + grown
           /\ p2 >= p
    BY DEF Lifts
  <1>3. PICK grown \in {0, w} :
           /\ Tallied(r, e, C)["yes"] = y + w
           /\ Denominator(r, e, C) = d + grown
           /\ p2 >= p
    BY <1>w
  <1>4. Met(r, e, C)
    BY <1>1, <1>3, QuorumStaysMet DEF Met, Accepts
  <1>5. /\ Compared(r, e, B) = compare_share(q, y, d)
        /\ Compared(r, e, C) = compare_share(q, y + w, d + grown)
    BY <1>3 DEF Compared
  <1> HIDE DEF y, d, p, p2, q
  <1>6. Rank(compare_share(q, y + w, d + grown)) >= Rank(compare_share(q, y, d))
    BY <1>1, <1>2, YesNeverLowersTheShare
  <1>7. /\ Compared(r, e, B) \in {"Below", "Exactly", "Above"}
        /\ Compared(r, e, C) \in {"Below", "Exactly", "Above"}
    BY AcceptedIffBoth
  <1>8. /\ Compared(r, e, B) = "Above" => Compared(r, e, C) = "Above"
        /\ Compared(r, e, B) = "Exactly" => Compared(r, e, C) \in {"Exactly", "Above"}
    BY <1>5, <1>6, <1>7 DEF Rank
  <1>9. /\ d # 0
        /\ Compared(r, e, B) = "Above" \/ (Compared(r, e, B) = "Exactly" /\ r.tie = "accept")
    BY DEF Accepts, ThresholdMet, d
  <1>10. d + grown # 0
    BY <1>2, <1>3, <1>9
  <1> QED
    BY <1>3, <1>4, <1>8, <1>9, <1>10 DEF Accepts, ThresholdMet

(* What is accepted though ballots lowered it was accepted before.         *)
LEMMA LoweredWasAccepted ==
    ASSUME NEW r, NEW e, NEW B, NEW C, IsRules(r), Sound(r, e, B), Sound(r, e, C),
           Lowers(r, e, B, C), r.threshold.fraction.numerator > 0, Accepts(r, e, C)
    PROVE  Accepts(r, e, B)
  <1> DEFINE y == Tallied(r, e, B)["yes"]
             y2 == Tallied(r, e, C)["yes"]
             d == Denominator(r, e, B)
             d2 == Denominator(r, e, C)
             q == r.threshold.fraction
             N == q.numerator
             D == q.denominator
  <1>1. /\ IsFraction(q) /\ y \in Nat /\ y2 \in Nat /\ y2 <= y /\ d2 >= d
        /\ N \in Nat /\ D \in Nat /\ N > 0
    BY DEF Sound, Choice, Lowers, IsFraction
  <1>2. d \in Nat /\ d2 \in Nat /\ y <= d
    BY DenominatorFits, YesIsMeasured
  <1>3. Met(r, e, B)
    BY DEF Met, Accepts, Lowers
  <1>4. /\ d2 # 0
        /\ Compared(r, e, C) = "Above" \/ (Compared(r, e, C) = "Exactly" /\ r.tie = "accept")
    BY DEF Accepts, ThresholdMet
  <1>5. /\ Compared(r, e, B) = compare_share(q, y, d)
        /\ Compared(r, e, C) = compare_share(q, y2, d2)
    BY DEF Compared
  <1> HIDE DEF y, y2, d, d2, q
  <1>6. /\ y * D \in Nat /\ N * d \in Nat /\ y2 * D \in Nat /\ N * d2 \in Nat
        /\ compare_share(q, y, d) = "Above" <=> y * D > N * d
        /\ compare_share(q, y, d) = "Exactly" <=> y * D = N * d
        /\ compare_share(q, y2, d2) = "Above" <=> y2 * D > N * d2
        /\ compare_share(q, y2, d2) = "Exactly" <=> y2 * D = N * d2
    BY <1>1, <1>2, Comparisons
  <1>7. y2 * D <= y * D /\ N * d <= N * d2
    <2> HIDE DEF N, D
    <2>1. y2 * D <= y * D
      BY <1>1
    <2>2. N * d <= N * d2
      BY <1>1, <1>2
    <2> QED
      BY <2>1, <2>2
  <1>8. N * d2 > 0
    <2> HIDE DEF N, D
    <2> QED
      BY <1>1, <1>2, <1>4
  <1>9. d # 0
    <2> HIDE DEF N, D
    <2> SUFFICES ASSUME d = 0 PROVE FALSE
      OBVIOUS
    <2>1. y2 = 0
      BY <1>1, <1>2
    <2>2. y2 * D = 0
      BY <1>1, <2>1
    <2> QED
      BY <1>4, <1>5, <1>6, <1>8, <2>2
  <1> DEFINE yD == y * D
             Nd == N * d
             y2D == y2 * D
             Nd2 == N * d2
  <1>10. /\ yD \in Nat /\ Nd \in Nat /\ y2D \in Nat /\ Nd2 \in Nat
         /\ y2D <= yD /\ Nd <= Nd2
         /\ compare_share(q, y, d) = "Above" <=> yD > Nd
         /\ compare_share(q, y, d) = "Exactly" <=> yD = Nd
         /\ compare_share(q, y2, d2) = "Above" <=> y2D > Nd2
         /\ compare_share(q, y2, d2) = "Exactly" <=> y2D = Nd2
    BY <1>6, <1>7
  <1> HIDE DEF N, D, yD, Nd, y2D, Nd2
  <1>11. /\ y2D > Nd2 => yD > Nd
         /\ y2D = Nd2 => yD > Nd \/ yD = Nd
    BY <1>10
  <1>12. Compared(r, e, B) = "Above" \/ (Compared(r, e, B) = "Exactly" /\ r.tie = "accept")
    BY <1>4, <1>5, <1>10, <1>11
  <1> QED
    BY <1>3, <1>9, <1>12 DEF Accepts, ThresholdMet, d

-----------------------------------------------------------------------------
(* A poll is one of those looked at, and its ballots are ballots: whatever *)
(* the constructors let into a poll stays so, as ballots are handed in.    *)
PollIsSound == poll \in Poll /\ AreBallots(ballots)

(* PollIsSound is an invariant.                                            *)
LEMMA PollsStaySound == Spec => []PollIsSound
  <1>1. Init => PollIsSound
    BY DEF Init, PollIsSound, AreBallots
  <1>2. PollIsSound /\ [Next]_vars => PollIsSound'
    <2> SUFFICES ASSUME PollIsSound, [Next]_vars PROVE PollIsSound'
      OBVIOUS
    <2>1. ASSUME NEW v \in Voter, NEW choice \in Choice, Cast(v, choice)
          PROVE  PollIsSound'
      <3>1. ballots' = Voted(ballots, v, choice)
        BY <2>1 DEF Cast, Voted
      <3>2. AreBallots(Voted(ballots, v, choice))
        BY VotedMoves DEF PollIsSound, Moves
      <3> QED
        BY <2>1, <3>1, <3>2 DEF Cast, PollIsSound
    <2>2. CASE UNCHANGED vars
      BY <2>2 DEF vars, PollIsSound
    <2> QED
      BY <2>1, <2>2 DEF Next
  <1> QED
    BY <1>1, <1>2, PTL DEF Spec

(* In a sound poll the rules and the electorate are ones that were let in. *)
LEMMA PolledIsWellFormed ==
    ASSUME PollIsSound
    PROVE  IsRules(rules) /\ IsElectorate(electorate)
  BY PollAssumption DEF PollIsSound, rules, electorate


(* No evaluation of any poll leaves the range of a u64 or subtracts below  *)
(* zero: the panics evaluate.rs expects never to meet are never met,       *)
(* whatever the weights, the shares and the ballots.                       *)
THEOREM EvaluationsNeverPanic == Spec => []NothingPanics
  <1>1. PollIsSound => NothingPanics
    <2> SUFFICES ASSUME PollIsSound PROVE NothingPanics
      OBVIOUS
    <2>1. Harmless(result)
      BY PolledIsWellFormed, EvaluationIsHarmless DEF PollIsSound, result
    <2> QED
      BY <2>1 DEF Harmless, NothingPanics
  <1> QED
    BY <1>1, PollsStaySound, PTL

(* What an auditor recomputes from a result alone always agrees with it:   *)
(* tallies and participation add up, and nothing is accepted that missed   *)
(* its quorum or its threshold (evaluate.rs, result.rs).                   *)
THEOREM ResultsCanBeAudited == Spec => []AuditorsAddUp
  <1>1. PollIsSound => AuditorsAddUp
    <2> SUFFICES ASSUME PollIsSound PROVE AuditorsAddUp
      OBVIOUS
    <2>1. Auditable(result)
      BY PolledIsWellFormed, EvaluationIsAuditable DEF PollIsSound, result
    <2> QED
      BY <2>1 DEF Auditable, AuditorsAddUp
  <1> QED
    BY <1>1, PollsStaySound, PTL

(* The required weight irena-vote records beside a result (record.rs) says *)
(* of that result what its quorum said: rounding up and clamping to a u64  *)
(* change no verdict.                                                      *)
THEOREM RecordedQuorumsDecide == Spec => []RecordedQuorumDecides
  <1>1. PollIsSound => RecordedQuorumDecides
    <2> SUFFICES ASSUME PollIsSound PROVE RecordedQuorumDecides
      OBVIOUS
    <2>1. QuorumAsRecorded(rules, result)
      BY PolledIsWellFormed, EvaluationHasItsQuorum DEF PollIsSound, result
    <2> QED
      BY <2>1 DEF QuorumAsRecorded, RecordedQuorumDecides
  <1> QED
    BY <1>1, PollsStaySound, PTL

(* Neighbouring results, of the same rules and electorate: one ballot more *)
(* for a motion never turns it down, and one turned against it never       *)
(* carries it, unless its threshold is zero.                               *)
LEMMA OneBallotPullsItsWay ==
    ASSUME NEW r, NEW e, NEW B, NEW v, IsRules(r), IsElectorate(e), AreBallots(B)
    PROVE  /\ (/\ evaluate(r, e, B).refused = {}
               /\ evaluate(r, e, Voted(B, v, "yes")).refused = {}
               /\ evaluate(r, e, B).accepted)
                 => evaluate(r, e, Voted(B, v, "yes")).accepted
           /\ (/\ v \in DOMAIN B
               /\ evaluate(r, e, B).refused = {}
               /\ r.threshold.fraction.numerator > 0
               /\ evaluate(r, e, Voted(B, v, "no")).accepted)
                 => evaluate(r, e, B).accepted
  <1>1. ASSUME evaluate(r, e, B).refused = {},
               evaluate(r, e, Voted(B, v, "yes")).refused = {},
               evaluate(r, e, B).accepted
        PROVE  evaluate(r, e, Voted(B, v, "yes")).accepted
    <2> DEFINE C == Voted(B, v, "yes")
    <2>1. AreBallots(C) /\ DOMAIN C = DOMAIN B \cup {v}
      BY VotedMoves DEF Moves, Choice
    <2>2. /\ evaluate(r, e, B) = Evaluation(r, e, B) /\ Sound(r, e, B)
          /\ evaluate(r, e, C) = Evaluation(r, e, C) /\ Sound(r, e, C)
      BY <1>1, <2>1, CountedIsSound
    <2>3. DOMAIN B \subseteq DOMAIN e /\ v \in DOMAIN e
      BY <2>1, <2>2 DEF Sound
    <2>4. Lifts(r, e, B, C)
      BY <2>3, YesLifts
    <2>5. Accepts(r, e, B)
      BY <1>1, <2>2, AcceptedAccepts
    <2> HIDE DEF C
    <2>6. Accepts(r, e, C)
      BY <2>2, <2>4, <2>5, LiftedStaysAccepted
    <2>7. evaluate(r, e, C).accepted
      BY <2>2, <2>6, AcceptedAccepts
    <2> QED
      BY <2>7 DEF C
  <1>2. ASSUME v \in DOMAIN B, evaluate(r, e, B).refused = {},
               r.threshold.fraction.numerator > 0,
               evaluate(r, e, Voted(B, v, "no")).accepted
        PROVE  evaluate(r, e, B).accepted
    <2> DEFINE C == Voted(B, v, "no")
    <2>1. AreBallots(C)
      BY VotedMoves DEF Moves, Choice
    <2>2. evaluate(r, e, B) = Evaluation(r, e, B) /\ Sound(r, e, B)
      BY <1>2, CountedIsSound
    <2>3. evaluate(r, e, C).refused = {}
      <3> HIDE DEF C
      <3>1. Refusals(r, e, C) # {} => evaluate(r, e, C).accepted = FALSE
        BY DEF evaluate
      <3>2. Refusals(r, e, C) = {} => evaluate(r, e, C) = Evaluation(r, e, C)
        BY DEF evaluate
      <3>3. Evaluation(r, e, C).refused = {}
        BY Reported DEF Reports
      <3>4. evaluate(r, e, C).accepted
        BY <1>2 DEF C
      <3> QED
        BY <3>1, <3>2, <3>3, <3>4
    <2>4. evaluate(r, e, C) = Evaluation(r, e, C) /\ Sound(r, e, C)
      BY <2>1, <2>3, CountedIsSound
    <2>5. Lowers(r, e, B, C)
      BY <1>2, <2>2, NoLowers DEF Sound
    <2>6. Accepts(r, e, C)
      BY <1>2, <2>4, AcceptedAccepts
    <2> HIDE DEF C
    <2>7. Accepts(r, e, B)
      BY <1>2, <2>2, <2>4, <2>5, <2>6, LoweredWasAccepted
    <2> QED
      BY <2>2, <2>7, AcceptedAccepts
  <1> QED
    BY <1>1, <1>2

(* A yes never turns an acceptance into a rejection, whoever casts it and  *)
(* whatever they did before; a no in the place of another ballot never     *)
(* carries a motion whose threshold is above zero (evaluate.rs, steps 5 to *)
(* 9).                                                                     *)
THEOREM BallotsAlwaysPullTheirWay == Spec => BallotsPullTheirWay
  <1> DEFINE PullTheirWay ==
        \A v \in Voter :
          /\ Cast(v, "yes") /\ counted /\ counted' => (result.accepted => result'.accepted)
          /\ (/\ v \in DOMAIN ballots
              /\ Cast(v, "no")
              /\ counted
              /\ rules.threshold.fraction.numerator > 0)
                => (result'.accepted => result.accepted)
  <1>1. PollIsSound /\ [Next]_vars => PullTheirWay
    <2> SUFFICES ASSUME PollIsSound, NEW v \in Voter
                 PROVE  /\ Cast(v, "yes") /\ counted /\ counted'
                             => (result.accepted => result'.accepted)
                        /\ (/\ v \in DOMAIN ballots
                            /\ Cast(v, "no")
                            /\ counted
                            /\ rules.threshold.fraction.numerator > 0)
                              => (result'.accepted => result.accepted)
      OBVIOUS
    <2>1. \A c : Cast(v, c) => result' = evaluate(rules, electorate, Voted(ballots, v, c))
      <3> SUFFICES ASSUME NEW c, Cast(v, c)
                   PROVE  result' = evaluate(rules, electorate, Voted(ballots, v, c))
        OBVIOUS
      <3>1. poll' = poll /\ ballots' = Voted(ballots, v, c)
        BY DEF Cast, Voted
      <3>2. rules' = rules /\ electorate' = electorate
        BY <3>1 DEF rules, electorate
      <3> QED
        BY <3>1, <3>2 DEF result
    <2>2. IsRules(rules) /\ IsElectorate(electorate) /\ AreBallots(ballots)
      BY PolledIsWellFormed DEF PollIsSound
    <2>3. /\ counted <=> evaluate(rules, electorate, ballots).refused = {}
          /\ counted' <=> result'.refused = {}
          /\ result = evaluate(rules, electorate, ballots)
      BY DEF counted, result
    <2> QED
      BY <2>1, <2>2, <2>3, OneBallotPullsItsWay
  <1> QED
    BY <1>1, PollsStaySound, PTL DEF Spec, BallotsPullTheirWay
=============================================================================
