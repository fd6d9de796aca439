---------------------------- MODULE Records_proofs ----------------------------
(* Lemmas about the readings of a chain that CompanyRecords and            *)
(* GovernanceRecords define, which the theorems about the ledger and about *)
(* decisions, votes, meetings and resolutions rest on.                     *)
EXTENDS MeetingRecords, WellFoundedInduction, TLAPS

-----------------------------------------------------------------------------
(* Sequences of records, whatever a record is.                             *)

IsChain(c) == c \in Seq({c[i] : i \in DOMAIN c})

(* A sequence of anything is a sequence of what occurs in it.              *)
LEMMA OwnEntries ==
    ASSUME NEW S, NEW d \in Seq(S)
    PROVE  d \in Seq({d[i] : i \in DOMAIN d})
<1> DEFINE E == {d[i] : i \in DOMAIN d}
<1>1. /\ Len(d) \in Nat /\ DOMAIN d = 1..Len(d)
      /\ d = [i \in 1..Len(d) |-> d[i]]
  OBVIOUS
<1>2. \A i \in 1..Len(d) : d[i] \in E
  BY <1>1
<1> HIDE DEF E
<1>3. [i \in 1..Len(d) |-> d[i]] \in Seq(E)
  BY <1>1, <1>2
<1> QED
  BY <1>1, <1>3 DEF E

(* A chain and one that has since been appended to.                        *)
Continues(d, c) ==
    /\ IsChain(c) /\ IsChain(d)
    /\ Len(c) <= Len(d)
    /\ \A i \in 1..Len(c) : d[i] = c[i]

(* What appending does to a chain (append_block).                          *)
LEMMA AppendIsChain ==
    ASSUME NEW c, IsChain(c), NEW x
    PROVE  /\ Continues(Append(c, x), c)
           /\ Len(Append(c, x)) = Len(c) + 1
           /\ Append(c, x)[Len(c) + 1] = x
<1> DEFINE S == {c[i] : i \in DOMAIN c} \cup {x}
           d == Append(c, x)
<1>1. c \in Seq({c[i] : i \in DOMAIN c})
  BY DEF IsChain
<1>2. c \in Seq(S) /\ x \in S
  BY <1>1
<1> HIDE DEF S
<1>3. /\ d \in Seq(S) /\ Len(d) = Len(c) + 1 /\ Len(c) \in Nat
      /\ \A i \in 1..Len(c) : d[i] = c[i]
      /\ d[Len(c) + 1] = x
  BY <1>2
<1> HIDE DEF d
<1>4. d \in Seq({d[i] : i \in DOMAIN d})
  BY <1>3, OwnEntries
<1>5. Continues(d, c)
  BY <1>1, <1>3, <1>4 DEF Continues, IsChain
<1> QED
  BY <1>3, <1>5 DEF d

(* A chain that continues a continuation continues the first.              *)
LEMMA ContinuesTransitive ==
    ASSUME NEW b, NEW c, NEW d, Continues(c, b), Continues(d, c)
    PROVE  Continues(d, b)
  BY DEF Continues, IsChain

-----------------------------------------------------------------------------
(* Every non-empty set of heights has a last one.                          *)
LEMMA LastHeight ==
    ASSUME NEW n \in Nat, NEW S, S \subseteq 0..n, S # {}
    PROVE  Max(S) \in S /\ \A h \in S : h <= Max(S)
<1> DEFINE R == OpToRel(<, Nat)
           T == {n - h : h \in S}
<1>1. IsWellFoundedOn(R, Nat)
  BY NatLessThanWellFounded
<1>2. \A x, y \in Nat : x < y => <<x, y>> \in R
  BY DEF OpToRel
<1> HIDE DEF R
<1>3. T \subseteq Nat /\ T # {}
  <2>1. \A h \in S : n - h \in Nat
    OBVIOUS
  <2> QED
    BY <2>1
<1> HIDE DEF T
<1>4. PICK x \in T : \A y \in T : ~ (<<y, x>> \in R)
  BY <1>1, <1>3, WFMin
<1>5. PICK m \in S : x = n - m
  BY <1>4 DEF T
<1>6. ASSUME NEW h \in S PROVE h <= m
  <2>1. n - h \in T /\ n - h \in Nat /\ x \in Nat
    BY <1>3, <1>4 DEF T
  <2>2. ~ (n - h < x)
    BY <2>1, <1>2, <1>4
  <2> QED
    BY <2>2, <1>5
<1>7. \E k \in S : \A h \in S : k >= h
  BY <1>6
<1> QED
  BY <1>7 DEF Max

(* An option that holds a value gives it back.                             *)
LEMMA ContentOfSome == ASSUME NEW x PROVE Content(Some(x)) = x
  BY DEF Content, Some

(* Every non-empty set of numbers has a first one.                         *)
LEMMA FirstNumber ==
    ASSUME NEW S, S \subseteq Nat, S # {}
    PROVE  Min(S) \in S
<1> DEFINE R == OpToRel(<, Nat)
<1>1. IsWellFoundedOn(R, Nat)
  BY NatLessThanWellFounded
<1>2. \A x, y \in Nat : x < y => <<x, y>> \in R
  BY DEF OpToRel
<1> HIDE DEF R
<1>3. PICK m \in S : \A y \in S : ~ (<<y, m>> \in R)
  BY <1>1, WFMin
<1>4. \A y \in S : m <= y
  <2> SUFFICES ASSUME NEW y \in S PROVE m <= y
    OBVIOUS
  <2>1. ~ (y < m) /\ y \in Nat /\ m \in Nat
    BY <1>2, <1>3
  <2> QED
    BY <2>1
<1> QED
  BY <1>4 DEF Min

-----------------------------------------------------------------------------
(* A chain that begins with a genesis of a company.                        *)
Founded(c) ==
    /\ IsChain(c) /\ Len(c) >= 1
    /\ IsCompanyRecord(c[1]) /\ IsGenesis(c[1])

(* The heights of a founded chain: they start at the genesis and are       *)
(* numbered from zero to the head.                                         *)
LEMMA Heights ==
    ASSUME NEW c, Founded(c)
    PROVE  /\ Len(c) \in Nat /\ HeadHeight(c) \in Nat
           /\ HeadHeight(c) + 1 = Len(c)
           /\ \A at \in 0..HeadHeight(c) : Upto(c, at) = 0..at
           /\ \A at \in Nat : 0 \in Upto(c, at)
           /\ RecordAt(c, 0) = c[1]
<1>1. Len(c) \in Nat /\ Len(c) >= 1
  BY DEF Founded, IsChain
<1> QED
  BY <1>1 DEF HeadHeight, Upto, RecordAt

(* The walk of reconstruct meets the genesis first (state.rs).             *)
LEMMA FirstIsGenesis ==
    ASSUME NEW c, Founded(c)
    PROVE  /\ \A h \in 0..HeadHeight(c) : IsFirst(c, h) <=> h = 0
           /\ \A at \in Nat : 0 \in CompanyHeights(c, at)
           /\ GenesisHeight(c) = 0
           /\ CompanyOf(c) = c[1].company
<1>1. \A at \in Nat : 0 \in CompanyHeights(c, at)
  BY Heights DEF CompanyHeights, Founded
<1>2. CompanyHeights(c, 0) = {0}
  <2>1. Upto(c, 0) = 0..0 /\ 0..0 = {0}
    BY Heights
  <2> QED
    BY <2>1, <1>1 DEF CompanyHeights
<1>3. \A h \in 0..HeadHeight(c) : IsFirst(c, h) <=> h = 0
  BY <1>1, <1>2 DEF IsFirst
<1>4. GenesisHeight(c) = 0
  BY <1>3, Heights DEF GenesisHeight
<1> QED
  BY <1>1, <1>3, <1>4, Heights DEF CompanyOf

(* A part is always provided, by the last record that carries it.          *)
LEMMA ProviderExists ==
    ASSUME NEW c, Founded(c), NEW at \in Nat, NEW part \in Part
    PROVE  /\ provider_of(c, at, part) \in Providers(c, at, part)
           /\ provider_of(c, at, part) \in 0..HeadHeight(c)
           /\ provider_of(c, at, part) <= at
           /\ \A h \in Providers(c, at, part) : h <= provider_of(c, at, part)
           /\ part \in DOMAIN RecordAt(c, provider_of(c, at, part)).parts
<1> DEFINE S == Providers(c, at, part)
<1>1. HeadHeight(c) \in Nat
  BY Heights
<1>2. S \subseteq 0..HeadHeight(c) /\ \A h \in S : h <= at
  BY DEF Providers, Upto
<1>3. 0 \in S
  BY Heights DEF Providers, Founded, IsGenesis
<1>4. Max(S) \in S /\ \A h \in S : h <= Max(S)
  BY <1>1, <1>2, <1>3, LastHeight
<1> QED
  BY <1>2, <1>4 DEF provider_of, Providers

-----------------------------------------------------------------------------
(* What was appended since changes no reading of a height already there.   *)

(* A chain that continues a founded one is founded, by the same genesis.   *)
LEMMA StillFounded ==
    ASSUME NEW c, NEW d, Founded(c), Continues(d, c)
    PROVE  /\ Founded(d)
           /\ HeadHeight(c) \in Nat /\ HeadHeight(d) \in Nat
           /\ HeadHeight(c) <= HeadHeight(d)
           /\ CompanyOf(d) = CompanyOf(c)
           /\ GenesisHeight(d) = GenesisHeight(c)
<1>1. Len(c) \in Nat /\ Len(d) \in Nat /\ Len(c) >= 1 /\ Len(c) <= Len(d)
  BY DEF Continues, IsChain, Founded
<1>2. d[1] = c[1]
  BY <1>1 DEF Continues
<1>3. Founded(d)
  BY <1>1, <1>2 DEF Founded, Continues
<1> QED
  BY <1>1, <1>2, <1>3, FirstIsGenesis DEF HeadHeight

(* state.rs: provider_of and the parts in force, at a height of the past.  *)
LEMMA PastReadings ==
    ASSUME NEW c, NEW d, Founded(c), Continues(d, c),
           NEW at \in 0..HeadHeight(c)
    PROVE  /\ Upto(d, at) = Upto(c, at)
           /\ \A h \in 0..at : RecordAt(d, h) = RecordAt(c, h)
           /\ CompanyHeights(d, at) = CompanyHeights(c, at)
           /\ \A part : Providers(d, at, part) = Providers(c, at, part)
           /\ \A part : provider_of(d, at, part) = provider_of(c, at, part)
           /\ \A part \in Part : InForce(d, at, part) = InForce(c, at, part)
           /\ \A family, key : authorised_signer(d, at, family, key)
                                   <=> authorised_signer(c, at, family, key)
           /\ LockedOut(d, at) <=> LockedOut(c, at)
<1>1. /\ Founded(d)
      /\ HeadHeight(c) \in Nat /\ HeadHeight(d) \in Nat
      /\ HeadHeight(c) <= HeadHeight(d)
      /\ HeadHeight(c) + 1 = Len(c)
  BY StillFounded, Heights
<1>2. Upto(c, at) = 0..at /\ Upto(d, at) = 0..at
  BY <1>1, Heights
<1>3. \A h \in 0..at : RecordAt(d, h) = RecordAt(c, h)
  <2>1. \A h \in 0..at : h + 1 \in 1..Len(c)
    BY <1>1
  <2> QED
    BY <2>1 DEF RecordAt, Continues
<1>4. CompanyHeights(d, at) = CompanyHeights(c, at)
  BY <1>2, <1>3 DEF CompanyHeights
<1>5. \A part : Providers(d, at, part) = Providers(c, at, part)
  BY <1>2, <1>3 DEF Providers
<1>6. \A part : provider_of(d, at, part) = provider_of(c, at, part)
  BY <1>5 DEF provider_of
<1>7. \A part \in Part : InForce(d, at, part) = InForce(c, at, part)
  <2> SUFFICES ASSUME NEW part \in Part
               PROVE  InForce(d, at, part) = InForce(c, at, part)
    OBVIOUS
  <2>1. provider_of(c, at, part) \in 0..at
    BY <1>1, ProviderExists
  <2> QED
    BY <2>1, <1>3, <1>6 DEF InForce
<1>8. /\ \A family, key : authorised_signer(d, at, family, key)
                              <=> authorised_signer(c, at, family, key)
      /\ LockedOut(d, at) <=> LockedOut(c, at)
  <2>1. "Identities" \in Part /\ "Authorisation" \in Part
    BY DEF Part
  <2> QED
    BY <2>1, <1>7 DEF authorised_signer, LockedOut
<1> QED
  BY <1>2, <1>3, <1>4, <1>5, <1>6, <1>7, <1>8

(* state.rs: a chain that could be read up to a height still can be, and   *)
(* what reads at the head reads at every height before it.                 *)
LEMMA StillReconstructs ==
    ASSUME NEW c, NEW d, Founded(c), Continues(d, c),
           NEW at \in 0..HeadHeight(c)
    PROVE  Reconstructs(d, at) <=> Reconstructs(c, at)
<1>1. HeadHeight(c) \in Nat /\ Founded(d) /\ CompanyOf(d) = CompanyOf(c)
  BY StillFounded
<1>2. CompanyHeights(d, at) = CompanyHeights(c, at)
  BY PastReadings
<1>3. ASSUME NEW h \in CompanyHeights(c, at)
      PROVE  /\ IsFirst(d, h) <=> IsFirst(c, h)
             /\ found_company(d, h) <=> found_company(c, h)
             /\ ~IsFirst(c, h) => (apply(d, h) <=> apply(c, h))
  <2>1. h \in 0..HeadHeight(c) /\ h \in 0..h
    BY Heights DEF CompanyHeights, Upto
  <2>2. /\ RecordAt(d, h) = RecordAt(c, h)
        /\ CompanyHeights(d, h) = CompanyHeights(c, h)
        /\ LockedOut(d, h) <=> LockedOut(c, h)
    BY <2>1, PastReadings
  <2>3. IsFirst(d, h) <=> IsFirst(c, h)
    BY <2>2 DEF IsFirst
  <2>4. found_company(d, h) <=> found_company(c, h)
    BY <2>2 DEF found_company
  <2>5. ASSUME ~IsFirst(c, h) PROVE apply(d, h) <=> apply(c, h)
    <3>1. h - 1 \in 0..HeadHeight(c)
      BY <2>1, <2>5, <1>1, FirstIsGenesis
    <3>2. /\ \A part : provider_of(d, h - 1, part) = provider_of(c, h - 1, part)
          /\ \A key : authorised_signer(d, h - 1, "company", key)
                         <=> authorised_signer(c, h - 1, "company", key)
      BY <3>1, PastReadings
    <3> QED
      BY <1>1, <2>2, <3>2 DEF apply
  <2> QED
    BY <2>3, <2>4, <2>5
<1> QED
  BY <1>2, <1>3 DEF Reconstructs

(* A company that can be read at a height can be read at any lower one.    *)
LEMMA ReconstructsBefore ==
    ASSUME NEW c, Founded(c), NEW n \in Nat, Reconstructs(c, n),
           NEW at \in 0..n
    PROVE  Reconstructs(c, at)
<1>1. CompanyHeights(c, at) \subseteq CompanyHeights(c, n)
  <2>1. HeadHeight(c) \in Nat
    BY Heights
  <2> QED
    BY <2>1 DEF CompanyHeights, Upto
<1>2. CompanyHeights(c, at) # {}
  BY FirstIsGenesis
<1> QED
  BY <1>1, <1>2 DEF Reconstructs

-----------------------------------------------------------------------------
(* One record more: what it provides it now provides at the head, and the  *)
(* rest is as it was.                                                      *)
LEMMA AppendedReadings ==
    ASSUME NEW c, Founded(c), NEW x
    PROVE  LET d == Append(c, x)
               n == HeadHeight(d)
           IN  /\ Founded(d) /\ Continues(d, c)
               /\ n = HeadHeight(c) + 1 /\ HeadHeight(c) \in Nat
               /\ RecordAt(d, n) = x
               /\ \A part \in Part :
                     IF part \in DOMAIN x.parts
                     THEN /\ provider_of(d, n, part) = n
                          /\ InForce(d, n, part) = x.parts[part]
                     ELSE /\ provider_of(d, n, part) = provider_of(c, n - 1, part)
                          /\ InForce(d, n, part) = InForce(c, n - 1, part)
<1> DEFINE d == Append(c, x)
           n == HeadHeight(d)
           m == HeadHeight(c)
<1>1. /\ Continues(d, c) /\ Len(d) = Len(c) + 1 /\ d[Len(c) + 1] = x
      /\ Len(c) \in Nat
  BY AppendIsChain DEF Founded, IsChain
<1>2. Founded(d) /\ m \in Nat /\ n \in Nat
  BY <1>1, StillFounded
<1>3. n = m + 1 /\ Len(c) = n
  BY <1>1 DEF HeadHeight
<1>4. RecordAt(d, n) = x
  BY <1>1, <1>3 DEF RecordAt
<1> HIDE DEF d, n, m
<1>5. Upto(d, n) = 0..n /\ Upto(c, m) = 0..m /\ 0..n = (0..m) \cup {n}
  BY <1>2, <1>3, Heights DEF m, n
<1>6. \A h \in 0..m : RecordAt(d, h) = RecordAt(c, h)
  BY <1>1, <1>2, PastReadings DEF m
<1>7. ASSUME NEW part \in Part, part \in DOMAIN x.parts
      PROVE  provider_of(d, n, part) = n /\ InForce(d, n, part) = x.parts[part]
  <2>1. n \in Providers(d, n, part)
    BY <1>2, <1>4, <1>5, <1>7 DEF Providers
  <2>2. /\ provider_of(d, n, part) \in Nat /\ provider_of(d, n, part) <= n
        /\ n <= provider_of(d, n, part)
    BY <1>2, <2>1, ProviderExists
  <2>3. provider_of(d, n, part) = n
    BY <1>2, <2>2
  <2> QED
    BY <2>3, <1>4 DEF InForce
<1>8. ASSUME NEW part \in Part, part \notin DOMAIN x.parts
      PROVE  /\ provider_of(d, n, part) = provider_of(c, m, part)
             /\ InForce(d, n, part) = InForce(c, m, part)
  <2>1. Providers(d, n, part) = Providers(c, m, part)
    BY <1>4, <1>5, <1>6, <1>8 DEF Providers
  <2>2. provider_of(d, n, part) = provider_of(c, m, part)
    BY <2>1 DEF provider_of
  <2>3. provider_of(c, m, part) \in 0..m
    BY <1>2, ProviderExists DEF m
  <2> QED
    BY <2>2, <2>3, <1>6 DEF InForce
<1>9. n - 1 = m
  BY <1>2, <1>3
<1> QED
  BY <1>1, <1>2, <1>3, <1>4, <1>7, <1>8, <1>9 DEF d, n, m

(* reconstruct walks one record further.                                   *)
LEMMA AppendedReconstructs ==
    ASSUME NEW c, Founded(c), NEW x, Reconstructs(c, HeadHeight(c)),
           IsCompanyRecord(x) => apply(Append(c, x), HeadHeight(c) + 1)
    PROVE  Reconstructs(Append(c, x), HeadHeight(c) + 1)
<1> DEFINE d == Append(c, x)
           m == HeadHeight(c)
           n == m + 1
<1>1. /\ Founded(d) /\ Continues(d, c) /\ HeadHeight(d) = n /\ m \in Nat
      /\ RecordAt(d, n) = x
  BY AppendedReadings
<1> HIDE DEF d
<1>2. Reconstructs(d, m)
  BY <1>1, StillReconstructs
<1>3. /\ Upto(d, n) = Upto(d, m) \cup {n}
      /\ n \in 0..HeadHeight(d) /\ n # 0
  <2>1. Upto(d, n) = 0..n /\ Upto(d, m) = 0..m
    BY <1>1, Heights
  <2> QED
    BY <1>1, <2>1
<1>4. CompanyHeights(d, n) = CompanyHeights(d, m) \cup
                                 (IF IsCompanyRecord(x) THEN {n} ELSE {})
  BY <1>1, <1>3 DEF CompanyHeights
<1>5. ~IsFirst(d, n)
  BY <1>1, <1>3, FirstIsGenesis
<1>6. IsCompanyRecord(x) => apply(d, n)
  BY DEF d
<1> HIDE DEF m, n
<1>7. Reconstructs(d, n)
  BY <1>2, <1>4, <1>5, <1>6 DEF Reconstructs
<1> QED
  BY <1>7 DEF d, n, m

-----------------------------------------------------------------------------
(* A company that can be read, and that somebody can still amend.          *)
Healthy(c) ==
    /\ Founded(c)
    /\ Reconstructs(c, HeadHeight(c))
    /\ ~LockedOut(c, HeadHeight(c))

(* A founding that init accepts makes one (found_company).                 *)
LEMMA FoundingIsHealthy ==
    ASSUME NEW record, IsCompanyRecord(record), IsGenesis(record),
           record.supersedes = None,
           ~lockout_after(record.parts["Identities"], record.parts["Authorisation"])
    PROVE  /\ Healthy(<<record>>) /\ HeadHeight(<<record>>) = 0
           /\ \A part \in Part : /\ provider_of(<<record>>, 0, part) = 0
                                /\ InForce(<<record>>, 0, part) = record.parts[part]
<1> DEFINE c == <<record>>
<1>1. Len(c) = 1 /\ c[1] = record /\ DOMAIN c = {1} /\ c \in Seq({record})
  OBVIOUS
<1> HIDE DEF c
<1>2. Founded(c)
  BY <1>1 DEF Founded, IsChain
<1>3. HeadHeight(c) = 0 /\ RecordAt(c, 0) = record
  BY <1>1 DEF HeadHeight, RecordAt
<1>4. \A part \in Part : /\ provider_of(c, 0, part) = 0
                         /\ InForce(c, 0, part) = record.parts[part]
  BY <1>2, <1>3, ProviderExists DEF InForce
<1>5. "Identities" \in Part /\ "Authorisation" \in Part
  BY DEF Part
<1>6. ~LockedOut(c, 0)
  BY <1>4, <1>5 DEF LockedOut
<1>7. \A h \in CompanyHeights(c, 0) : h = 0
  BY <1>3 DEF CompanyHeights, Upto
<1>8. found_company(c, 0) /\ IsFirst(c, 0)
  BY <1>2, <1>3, <1>6, FirstIsGenesis DEF found_company
<1>9. Reconstructs(c, 0)
  <2>1. CompanyHeights(c, 0) # {}
    BY <1>2, FirstIsGenesis
  <2> QED
    BY <2>1, <1>7, <1>8 DEF Reconstructs
<1> QED
  BY <1>2, <1>3, <1>4, <1>6, <1>9 DEF Healthy, c

(* A record of no company, carrying no part, changes nothing about it.     *)
LEMMA OtherKeepsHealthy ==
    ASSUME NEW c, Healthy(c), NEW x, ~IsCompanyRecord(x), DOMAIN x.parts = {}
    PROVE  LET d == Append(c, x)
               n == HeadHeight(c)
           IN  /\ Healthy(d) /\ Continues(d, c) /\ n \in Nat
               /\ HeadHeight(d) = n + 1 /\ RecordAt(d, n + 1) = x
               /\ \A part \in Part :
                     /\ provider_of(d, n + 1, part) = provider_of(c, n, part)
                     /\ InForce(d, n + 1, part) = InForce(c, n, part)
               /\ \A family, key : authorised_signer(d, n + 1, family, key)
                                     <=> authorised_signer(c, n, family, key)
<1> DEFINE d == Append(c, x)
           n == HeadHeight(c)
<1>1. /\ Founded(c) /\ Reconstructs(c, n) /\ ~LockedOut(c, n)
  BY DEF Healthy
<1>2. /\ Founded(d) /\ Continues(d, c) /\ HeadHeight(d) = n + 1 /\ n \in Nat
      /\ RecordAt(d, n + 1) = x /\ (n + 1) - 1 = n
      /\ \A part \in Part :
            /\ provider_of(d, n + 1, part) = provider_of(c, n, part)
            /\ InForce(d, n + 1, part) = InForce(c, n, part)
  BY <1>1, AppendedReadings
<1>3. Reconstructs(d, n + 1)
  BY <1>1, AppendedReconstructs
<1> HIDE DEF d, n
<1>4. "Identities" \in Part /\ "Authorisation" \in Part
  BY DEF Part
<1>5. /\ ~LockedOut(d, n + 1)
      /\ \A family, key : authorised_signer(d, n + 1, family, key)
                             <=> authorised_signer(c, n, family, key)
  BY <1>1, <1>2, <1>4 DEF LockedOut, authorised_signer
<1>6. Healthy(d)
  BY <1>2, <1>3, <1>5 DEF Healthy
<1> QED
  BY <1>2, <1>5, <1>6 DEF d, n

(* The record x amends the company at the head of c, as publish judges.    *)
AmendsHead(c, x, part, version) ==
    /\ IsCompanyRecord(x) /\ x.company = CompanyOf(c)
    /\ DOMAIN x.parts = {part}
    /\ x.supersedes = Some(version)
    /\ Acceptable(c, x.signer, part, x.parts[part], version)

(* The chain d is c amended in one part by the record x.                   *)
AmendedTo(c, d, x, part) ==
    LET n == HeadHeight(c)
    IN  /\ Healthy(d) /\ Continues(d, c) /\ n \in Nat
        /\ HeadHeight(d) = n + 1 /\ RecordAt(d, n + 1) = x
        /\ provider_of(d, n + 1, part) = n + 1
        /\ InForce(d, n + 1, part) = x.parts[part]
        /\ \A other \in Part \ {part} :
              /\ provider_of(d, n + 1, other) = provider_of(c, n, other)
              /\ InForce(d, n + 1, other) = InForce(c, n, other)

(* An amendment publish accepts at the head keeps the company readable and *)
(* amendable, and replaces the one part it carries (publish, apply).       *)
LEMMA AmendKeepsHealthy ==
    ASSUME NEW c, Healthy(c), NEW x, NEW part \in Part, NEW base,
           AmendsHead(c, x, part, base)
    PROVE  AmendedTo(c, Append(c, x), x, part)
<1> DEFINE value == x.parts[part]
           key == x.signer
<1>0. /\ Acceptable(c, key, part, value, base)
      /\ IsCompanyRecord(x) /\ x.company = CompanyOf(c)
      /\ DOMAIN x.parts = {part} /\ x.parts[part] = value
      /\ x.supersedes = Some(base) /\ x.signer = key
  BY DEF AmendsHead
<1> HIDE DEF value, key
<1> DEFINE d == Append(c, x)
           n == HeadHeight(c)
<1>1. /\ Founded(c) /\ Reconstructs(c, n) /\ ~LockedOut(c, n)
  BY DEF Healthy
<1>2. /\ Founded(d) /\ Continues(d, c) /\ HeadHeight(d) = n + 1 /\ n \in Nat
      /\ RecordAt(d, n + 1) = x /\ (n + 1) - 1 = n
      /\ provider_of(d, n + 1, part) = n + 1
      /\ InForce(d, n + 1, part) = value
      /\ \A other \in Part \ {part} :
            /\ provider_of(d, n + 1, other) = provider_of(c, n, other)
            /\ InForce(d, n + 1, other) = InForce(c, n, other)
  BY <1>0, <1>1, AppendedReadings
<1>3. /\ authorised_signer(c, n, "company", key)
      /\ base = provider_of(c, n, part)
      /\ ~LocksOut(c, part, value)
  BY <1>0 DEF Acceptable
<1> HIDE DEF d, n
<1>4. "Identities" \in Part /\ "Authorisation" \in Part /\ "Identities" # "Authorisation"
  BY DEF Part
<1>5. ~LockedOut(d, n + 1)
  <2>1. CASE part = "Identities"
    <3>1. /\ InForce(d, n + 1, "Identities") = value
          /\ InForce(d, n + 1, "Authorisation") = InForce(c, n, "Authorisation")
      BY <2>1, <1>2, <1>4
    <3> QED
      BY <2>1, <3>1, <1>3 DEF LocksOut, LockedOut, n
  <2>2. CASE part = "Authorisation"
    <3>1. /\ InForce(d, n + 1, "Authorisation") = value
          /\ InForce(d, n + 1, "Identities") = InForce(c, n, "Identities")
      BY <2>2, <1>2, <1>4
    <3> QED
      BY <2>2, <3>1, <1>3 DEF LocksOut, LockedOut, n
  <2>3. CASE part \notin {"Identities", "Authorisation"}
    BY <2>3, <1>1, <1>2, <1>4 DEF LockedOut
  <2> QED
    BY <2>1, <2>2, <2>3
<1>6. apply(d, n + 1)
  <2>1. x.company = CompanyOf(d)
    BY <1>0, <1>1, <1>2, StillFounded
  <2>2. ~IsGenesis(x)
    BY <1>0, <1>4 DEF IsGenesis
  <2>3. n \in 0..HeadHeight(c)
    BY <1>2 DEF n
  <2>4. /\ authorised_signer(d, n, "company", key)
        /\ provider_of(d, n, part) = base
    BY <1>1, <1>2, <1>3, <2>3, PastReadings
  <2> QED
    BY <1>0, <1>2, <1>5, <2>1, <2>2, <2>4 DEF apply
<1>7. Reconstructs(d, n + 1)
  BY <1>1, <1>6, AppendedReconstructs DEF d, n
<1>8. Healthy(d)
  BY <1>2, <1>5, <1>7 DEF Healthy
<1> QED
  BY <1>2, <1>8 DEF d, n, value, AmendedTo

(* compose_record writes such a record when publish accepts it.            *)
LEMMA ComposedAmends ==
    ASSUME NEW c, NEW key, NEW part, NEW value, NEW base,
           Acceptable(c, key, part, value, base),
           NEW x, x = compose_record(c, part, value, base, key)
    PROVE  AmendsHead(c, x, part, base) /\ x.namespace = "company"
<1>1. /\ x.namespace = "company" /\ x.company = CompanyOf(c)
      /\ DOMAIN x.parts = {part} /\ x.parts[part] = value
      /\ x.supersedes = Some(base) /\ x.signer = key
  BY DEF compose_record, Record
<1> QED
  BY <1>1 DEF AmendsHead, IsCompanyRecord

-----------------------------------------------------------------------------
(* What governance reads of a past height: who may decide through a        *)
(* channel, and what a snapshot pins (resolve.rs, decision.rs).            *)
LEMMA PastGovernance ==
    ASSUME NEW c, NEW d, Founded(c), Continues(d, c),
           NEW at \in 0..HeadHeight(c)
    PROVE  /\ ChannelsAt(d, at) = ChannelsAt(c, at)
           /\ \A id : ActorsAt(d, at, id) = ActorsAt(c, at, id)
           /\ \A id : resolve_channel(d, at, id) <=> resolve_channel(c, at, id)
           /\ \A id : IsIndividual(d, at, id) <=> IsIndividual(c, at, id)
           /\ \A id : sole_actor(d, at, id) = sole_actor(c, at, id)
           /\ pins(d, at) = pins(c, at)
           /\ \A signer : signer_authorised_at(d, at, signer)
                             <=> signer_authorised_at(c, at, signer)
<1>1. /\ "DecisionChannels" \in Part /\ "ShareStructure" \in Part
  BY DEF Part
<1>2. \A part \in Part : InForce(d, at, part) = InForce(c, at, part)
  BY PastReadings
<1>3. ChannelsAt(d, at) = ChannelsAt(c, at)
  BY <1>1, <1>2 DEF ChannelsAt
<1>4. \A id : ActorsAt(d, at, id) = ActorsAt(c, at, id)
  BY <1>1, <1>2, <1>3 DEF ActorsAt
<1>5. \A id : resolve_channel(d, at, id) <=> resolve_channel(c, at, id)
  BY <1>3, <1>4 DEF resolve_channel
<1>6. \A id : IsIndividual(d, at, id) <=> IsIndividual(c, at, id)
  BY <1>3, <1>5 DEF IsIndividual
<1>7. \A id : sole_actor(d, at, id) = sole_actor(c, at, id)
  BY <1>4 DEF sole_actor
<1>8. pins(d, at) = pins(c, at)
  BY PastReadings DEF pins
<1>9. \A signer : signer_authorised_at(d, at, signer)
                     <=> signer_authorised_at(c, at, signer)
  BY PastReadings, StillReconstructs DEF signer_authorised_at
<1> QED
  BY <1>3, <1>4, <1>5, <1>6, <1>7, <1>8, <1>9

(* Whether a decision may be frozen at a past height, and what it would    *)
(* see there, does not depend on what was appended since.                  *)
LEMMA PastFreezable ==
    ASSUME NEW c, NEW d, Founded(c), Continues(d, c),
           NEW at \in 0..HeadHeight(c), NEW id, NEW proposal
    PROVE  /\ Freezable(d, at, id) <=> Freezable(c, at, id)
           /\ Snapshot(d, at, id, proposal) = Snapshot(c, at, id, proposal)
<1>1. "Identities" \in Part
  BY DEF Part
<1>2. InForce(d, at, "Identities") = InForce(c, at, "Identities")
  BY <1>1, PastReadings
<1>3. Freezable(d, at, id) <=> Freezable(c, at, id)
  BY <1>2, PastGovernance, StillReconstructs DEF Freezable
<1>4. Snapshot(d, at, id, proposal) = Snapshot(c, at, id, proposal)
  BY <1>2, PastGovernance, StillFounded DEF Snapshot
<1> QED
  BY <1>3, <1>4

(* decision.rs: a snapshot freeze took of the chain, at a height it has.   *)
FrozenOn(c, snapshot) ==
    /\ snapshot.height \in 0..HeadHeight(c)
    /\ Freezable(c, snapshot.height, snapshot.channel)
    /\ snapshot = Snapshot(c, snapshot.height, snapshot.channel, snapshot.proposal)

(* A snapshot frozen on a chain is frozen on every chain that continues    *)
(* it.                                                                     *)
LEMMA StillFrozen ==
    ASSUME NEW c, NEW d, Founded(c), Continues(d, c),
           NEW snapshot, FrozenOn(c, snapshot)
    PROVE  FrozenOn(d, snapshot)
<1>1. snapshot.height \in 0..HeadHeight(c)
  BY DEF FrozenOn
<1>2. snapshot.height \in 0..HeadHeight(d)
  BY <1>1, StillFounded
<1> QED
  BY <1>1, <1>2, PastFreezable DEF FrozenOn

(* What verify_decision re-establishes from the chain holds of it.         *)
LEMMA FrozenResolves ==
    ASSUME NEW c, Founded(c), NEW snapshot, FrozenOn(c, snapshot)
    PROVE  /\ RecordsResolve(c, snapshot)
           /\ IsIndividual(c, snapshot.height, snapshot.channel)
           /\ ActorResolves(c, snapshot)
           /\ Reconstructs(c, snapshot.height)
           /\ snapshot.pins = pins(c, snapshot.height)
           /\ snapshot.company = CompanyOf(c)
<1> DEFINE at == snapshot.height
           id == snapshot.channel
           proposal == snapshot.proposal
<1> HIDE DEF at, id, proposal
<1>1. Freezable(c, at, id) /\ snapshot = Snapshot(c, at, id, proposal)
  BY DEF FrozenOn, at, id, proposal
<1>2. /\ snapshot.company = CompanyOf(c) /\ snapshot.genesis = GenesisHeight(c)
      /\ snapshot.pins = pins(c, at) /\ snapshot.actor = sole_actor(c, at, id)
      /\ snapshot.key = key_of(InForce(c, at, "Identities"), sole_actor(c, at, id))
  BY <1>1 DEF Snapshot
<1>3. Reconstructs(c, at) /\ IsIndividual(c, at, id)
  BY <1>1 DEF Freezable
<1>4. RecordsResolve(c, snapshot) /\ ActorResolves(c, snapshot)
  BY <1>2, <1>3 DEF RecordsResolve, ActorResolves, at, id
<1> QED
  BY <1>2, <1>3, <1>4 DEF at, id

(* A record of a decision that is in order: its decision was frozen below  *)
(* it, signed, and filed by a governance signer of the company of its day. *)
DecisionStands(c, h) ==
    LET record == RecordAt(c, h)
    IN  /\ record.namespace = "decision"
        /\ FrozenOn(c, record.snapshot) /\ record.snapshot.height < h
        /\ check_signature(record.snapshot, record.signature)
        /\ signer_authorised_at(c, h, record.signer)

(* A decision that stands on a chain stands on every chain that continues  *)
(* it.                                                                     *)
LEMMA StillStands ==
    ASSUME NEW c, NEW d, Founded(c), Continues(d, c),
           NEW h \in 0..HeadHeight(c), DecisionStands(c, h)
    PROVE  DecisionStands(d, h)
<1>1. HeadHeight(c) \in Nat /\ h \in 0..h
  BY StillFounded
<1>2. RecordAt(d, h) = RecordAt(c, h)
  BY <1>1, PastReadings
<1>3. FrozenOn(d, RecordAt(c, h).snapshot)
  BY StillFrozen DEF DecisionStands
<1>4. signer_authorised_at(d, h, RecordAt(c, h).signer)
  BY PastGovernance DEF DecisionStands
<1> QED
  BY <1>2, <1>3, <1>4 DEF DecisionStands

(* A decision that stands passes every check of its reader.                *)
LEMMA StandingVerifies ==
    ASSUME NEW c, Founded(c), NEW h, DecisionStands(c, h)
    PROVE  verify_decision(c, h) = {}
<1>1. LET record == RecordAt(c, h)
      IN  /\ RecordsResolve(c, record.snapshot)
          /\ IsIndividual(c, record.snapshot.height, record.snapshot.channel)
          /\ ActorResolves(c, record.snapshot)
  BY FrozenResolves DEF DecisionStands
<1> QED
  BY <1>1 DEF DecisionStands, verify_decision, ResolvedChecks, Failed

-----------------------------------------------------------------------------
(* Votes: what a channel's rules and roll were at a past height            *)
(* (irena-vote, lifecycle.rs and verify.rs).                               *)

(* The rules and the electorate of a channel at a past height do not       *)
(* depend on what was appended since.                                      *)
LEMMA PastCollective ==
    ASSUME NEW c, NEW d, Founded(c), Continues(d, c),
           NEW at \in 0..HeadHeight(c)
    PROVE  /\ \A id : IsCollective(d, at, id) <=> IsCollective(c, at, id)
           /\ \A id : RulesAt(d, at, id) = RulesAt(c, at, id)
           /\ \A id : ElectorateAt(d, at, id) = ElectorateAt(c, at, id)
           /\ \A id : VoteFreezable(d, at, id) <=> VoteFreezable(c, at, id)
           /\ \A id, proposal :
                 VoteSnapshot(d, at, id, proposal) = VoteSnapshot(c, at, id, proposal)
<1>1. "Identities" \in Part
  BY DEF Part
<1>2. InForce(d, at, "Identities") = InForce(c, at, "Identities")
  BY <1>1, PastReadings
<1>3. /\ ChannelsAt(d, at) = ChannelsAt(c, at) /\ pins(d, at) = pins(c, at)
      /\ \A id : ActorsAt(d, at, id) = ActorsAt(c, at, id)
      /\ \A id : resolve_channel(d, at, id) <=> resolve_channel(c, at, id)
  BY PastGovernance
<1>4. \A id : IsCollective(d, at, id) <=> IsCollective(c, at, id)
  BY <1>3 DEF IsCollective
<1>5. \A id : RulesAt(d, at, id) = RulesAt(c, at, id)
  BY <1>3 DEF RulesAt
<1>6. \A id : ElectorateAt(d, at, id) = ElectorateAt(c, at, id)
  <2> SUFFICES ASSUME NEW id PROVE ElectorateAt(d, at, id) = ElectorateAt(c, at, id)
    OBVIOUS
  <2>1. ActorsAt(d, at, id) = ActorsAt(c, at, id)
    BY <1>3
  <2> QED
    BY <2>1, <1>2 DEF ElectorateAt
<1>7. \A id : VoteFreezable(d, at, id) <=> VoteFreezable(c, at, id)
  BY <1>4, StillReconstructs DEF VoteFreezable
<1>8. \A id, proposal :
          VoteSnapshot(d, at, id, proposal) = VoteSnapshot(c, at, id, proposal)
  BY <1>3, <1>6, StillFounded DEF VoteSnapshot
<1> QED
  BY <1>4, <1>5, <1>6, <1>7, <1>8

(* A snapshot that freezing a vote took of the chain, at a height it has.  *)
RollFrozenOn(c, snapshot) ==
    /\ snapshot.height \in 0..HeadHeight(c)
    /\ VoteFreezable(c, snapshot.height, snapshot.channel)
    /\ snapshot = VoteSnapshot(c, snapshot.height, snapshot.channel, snapshot.proposal)

(* Freezing takes one.                                                     *)
LEMMA FreezingFreezes ==
    ASSUME NEW c, NEW at \in 0..HeadHeight(c), NEW id, NEW proposal,
           VoteFreezable(c, at, id),
           NEW s, s = VoteSnapshot(c, at, id, proposal)
    PROVE  RollFrozenOn(c, s)
<1>1. s.height = at /\ s.channel = id /\ s.proposal = proposal
  BY DEF VoteSnapshot
<1> QED
  BY <1>1 DEF RollFrozenOn

(* An electorate frozen on a chain is frozen on every chain that continues *)
(* it.                                                                     *)
LEMMA StillRollFrozen ==
    ASSUME NEW c, NEW d, Founded(c), Continues(d, c),
           NEW snapshot, RollFrozenOn(c, snapshot)
    PROVE  RollFrozenOn(d, snapshot)
<1>1. snapshot.height \in 0..HeadHeight(c)
  BY DEF RollFrozenOn
<1>2. snapshot.height \in 0..HeadHeight(d)
  BY <1>1, StillFounded
<1> QED
  BY <1>1, <1>2, PastCollective DEF RollFrozenOn

(* What verify_vote re-establishes from the chain holds of it.             *)
LEMMA RollFrozenResolves ==
    ASSUME NEW c, Founded(c), NEW snapshot, RollFrozenOn(c, snapshot)
    PROVE  /\ RecordsResolve(c, snapshot)
           /\ IsCollective(c, snapshot.height, snapshot.channel)
           /\ ElectorateDerives(c, snapshot)
           /\ ChannelsHold(c, snapshot)
<1> DEFINE at == snapshot.height
           id == snapshot.channel
           proposal == snapshot.proposal
<1> HIDE DEF at, id, proposal
<1>1. VoteFreezable(c, at, id) /\ snapshot = VoteSnapshot(c, at, id, proposal)
  BY DEF RollFrozenOn, at, id, proposal
<1>2. /\ snapshot.company = CompanyOf(c) /\ snapshot.genesis = GenesisHeight(c)
      /\ snapshot.pins = pins(c, at) /\ snapshot.electorate = ElectorateAt(c, at, id)
  BY <1>1 DEF VoteSnapshot
<1>3. Reconstructs(c, at) /\ IsCollective(c, at, id)
  BY <1>1 DEF VoteFreezable
<1>4. RecordsResolve(c, snapshot) /\ ElectorateDerives(c, snapshot)
  BY <1>2, <1>3 DEF RecordsResolve, ElectorateDerives, at, id
<1>5. pins(c, at)["DecisionChannels"] = provider_of(c, at, "DecisionChannels")
  BY DEF pins, Pinned
<1>6. ChannelsHold(c, snapshot)
  BY <1>2, <1>3, <1>5 DEF ChannelsHold, at, id
<1> QED
  BY <1>3, <1>4, <1>6 DEF at, id

(* Ballots a vote took: each its voter's own, and signed for this vote.    *)
BallotsStand(snapshot, ballots) ==
    \A voter \in DOMAIN ballots :
        check_ballot(ballots[voter], snapshot) /\ ballots[voter].voter = voter

(* The result that counting the ballots gives, and gives without refusal.  *)
Counted(c, snapshot, ballots, result) ==
    result = Count(c, snapshot, ballots) /\ result.refused = {}

(* Counting is done by the rules frozen, so it can be done again later.    *)
LEMMA StillCounted ==
    ASSUME NEW c, NEW d, Founded(c), Continues(d, c),
           NEW snapshot, RollFrozenOn(c, snapshot), NEW ballots
    PROVE  /\ Count(d, snapshot, ballots) = Count(c, snapshot, ballots)
           /\ \A result : Counted(c, snapshot, ballots, result)
                              => Counted(d, snapshot, ballots, result)
<1>1. snapshot.height \in 0..HeadHeight(c)
  BY DEF RollFrozenOn
<1>2. RulesAt(d, snapshot.height, snapshot.channel) =
          RulesAt(c, snapshot.height, snapshot.channel)
  BY <1>1, PastCollective
<1>3. Count(d, snapshot, ballots) = Count(c, snapshot, ballots)
  BY <1>2 DEF Count
<1> QED
  BY <1>3 DEF Counted

(* evaluate_now gives the recorded result as long as the chain goes on.    *)
LEMMA CountedEvaluates ==
    ASSUME NEW c, Founded(c), NEW snapshot, RollFrozenOn(c, snapshot),
           NEW ballots, NEW result, Counted(c, snapshot, ballots, result)
    PROVE  evaluate_now(c, snapshot, ballots, result)
  BY RollFrozenResolves DEF evaluate_now, Counted

(* A record of a vote that is in order.                                    *)
VoteStands(c, h) ==
    LET record == RecordAt(c, h)
    IN  /\ record.namespace = "vote"
        /\ RollFrozenOn(c, record.snapshot) /\ record.snapshot.height < h
        /\ BallotsStand(record.snapshot, record.ballots)
        /\ Counted(c, record.snapshot, record.ballots, record.evaluation)
        /\ signer_authorised_at(c, h, record.signer)

(* A vote that stands on a chain stands on every chain that continues it.  *)
LEMMA VoteStillStands ==
    ASSUME NEW c, NEW d, Founded(c), Continues(d, c),
           NEW h \in 0..HeadHeight(c), VoteStands(c, h)
    PROVE  VoteStands(d, h)
<1> DEFINE record == RecordAt(c, h)
<1>1. HeadHeight(c) \in Nat /\ h \in 0..h
  BY StillFounded
<1>2. RecordAt(d, h) = record
  BY <1>1, PastReadings
<1>3. /\ RollFrozenOn(c, record.snapshot)
      /\ Counted(c, record.snapshot, record.ballots, record.evaluation)
      /\ signer_authorised_at(c, h, record.signer)
      /\ record.namespace = "vote" /\ record.snapshot.height < h
      /\ BallotsStand(record.snapshot, record.ballots)
  BY DEF VoteStands
<1> HIDE DEF record
<1>4. /\ RollFrozenOn(d, record.snapshot)
      /\ Counted(d, record.snapshot, record.ballots, record.evaluation)
  BY <1>3, StillRollFrozen, StillCounted
<1>5. signer_authorised_at(d, h, record.signer)
  BY <1>3, PastGovernance
<1> QED
  BY <1>2, <1>3, <1>4, <1>5 DEF VoteStands

(* A vote that stands passes every check of its reader.                    *)
LEMMA StandingVoteVerifies ==
    ASSUME NEW c, Founded(c), NEW h, VoteStands(c, h)
    PROVE  verify_vote(c, h) = {}
<1> DEFINE record == RecordAt(c, h)
<1>1. /\ RecordsResolve(c, record.snapshot)
      /\ IsCollective(c, record.snapshot.height, record.snapshot.channel)
      /\ ElectorateDerives(c, record.snapshot)
  BY RollFrozenResolves DEF VoteStands
<1>2. /\ record.namespace = "vote" /\ record.snapshot.height < h
      /\ signer_authorised_at(c, h, record.signer)
      /\ \A voter \in DOMAIN record.ballots :
            check_ballot(record.ballots[voter], record.snapshot)
      /\ record.evaluation = Count(c, record.snapshot, record.ballots)
  BY DEF VoteStands, BallotsStand, Counted
<1>3. VoteChecks(c, h) = {}
  BY <1>1, <1>2 DEF VoteChecks, Failed
<1> QED
  BY <1>1, <1>2, <1>3 DEF verify_vote, Failed

(* The weights of some of a channel's actors, under its rules: one each, or *)
(* their shares.                                                           *)
Shared(rules, shares, voters) ==
    MapThenSumSet(LAMBDA v : IF rules.weight = "equal" THEN 1 ELSE shares[v], voters)

(* The recursion behind either sum: an actor taken off, its weight added.  *)
TakenOff(s) == s \ {CHOOSE x \in s : TRUE}
SumsRoll(g, r, e, S) ==
    g = [s \in SUBSET S |->
            IF s = {} THEN 0
            ELSE weight_of(r, e[CHOOSE x \in s : TRUE]) + g[TakenOff(s)]]
SumsShares(g, r, shares, S) ==
    g = [s \in SUBSET S |->
            IF s = {} THEN 0
            ELSE (IF r.weight = "equal" THEN 1 ELSE shares[CHOOSE x \in s : TRUE])
                    + g[TakenOff(s)]]

(* A roll that carries the shares weighs what the shares weigh.            *)
LEMMA RollWeighsShares ==
    ASSUME NEW r, NEW shares, NEW e, NEW S,
           \A v \in S : e[v].weight = shares[v]
    PROVE  Weigh(r, e, S) = Shared(r, shares, S)
<1>1. /\ Weigh(r, e, S) = (CHOOSE g : SumsRoll(g, r, e, S))[S]
      /\ Shared(r, shares, S) = (CHOOSE g : SumsShares(g, r, shares, S))[S]
  BY DEF Weigh, Shared, MapThenSumSet, MapThenFoldSet, SumsRoll, SumsShares, TakenOff
<1>2. ASSUME NEW g PROVE SumsRoll(g, r, e, S) <=> SumsShares(g, r, shares, S)
  <2> DEFINE pick(s) == CHOOSE x \in s : TRUE
             one(s) == IF s = {} THEN 0 ELSE weight_of(r, e[pick(s)]) + g[TakenOff(s)]
             two(s) == IF s = {} THEN 0
                       ELSE (IF r.weight = "equal" THEN 1 ELSE shares[pick(s)])
                               + g[TakenOff(s)]
  <2>1. ASSUME NEW s \in SUBSET S PROVE one(s) = two(s)
    <3>1. s # {} => pick(s) \in S
      OBVIOUS
    <3>2. s # {} => e[pick(s)].weight = shares[pick(s)]
      BY <3>1
    <3> HIDE DEF pick
    <3> QED
      BY <3>2 DEF weight_of
  <2> HIDE DEF one, two
  <2>2. [s \in SUBSET S |-> one(s)] = [s \in SUBSET S |-> two(s)]
    BY <2>1
  <2>3. /\ SumsRoll(g, r, e, S) <=> g = [s \in SUBSET S |-> one(s)]
        /\ SumsShares(g, r, shares, S) <=> g = [s \in SUBSET S |-> two(s)]
    BY DEF SumsRoll, SumsShares, one, two
  <2> QED
    BY <2>2, <2>3
<1>3. (CHOOSE g : SumsRoll(g, r, e, S)) = (CHOOSE g : SumsShares(g, r, shares, S))
  BY <1>2, Zenon
<1> QED
  BY <1>1, <1>3

(* The roll counts and weighs everybody entitled, whether or not they hold *)
(* a key, and nobody without one has cast a ballot (bornite's evaluate,    *)
(* over the electorate of the snapshot).                                   *)
LEMMA StandingCountsKeyless ==
    ASSUME NEW c, Founded(c), NEW h, VoteStands(c, h)
    PROVE  LET record == RecordAt(c, h)
               count == record.evaluation
               at == record.snapshot.height
               channel == record.snapshot.channel
               rules == RulesAt(c, at, channel)
               shares == ActorsAt(c, at, channel)
               keyless == {v \in DOMAIN shares :
                   key_of(InForce(c, at, "Identities"), v) = None}
               total == Shared(rules, shares, DOMAIN shares)
               cast == Shared(rules, shares, DOMAIN record.ballots)
           IN  /\ DOMAIN record.ballots \subseteq DOMAIN shares \ keyless
               /\ count.voter_count = Cardinality(DOMAIN shares)
               /\ count.total_weight = total
               /\ count.participating_weight = cast
               /\ count.non_participant_weight = total - cast
               /\ count.quorum_met <=> quorum_met(rules, cast, total, total)
<1> DEFINE record == RecordAt(c, h)
           snapshot == record.snapshot
           roll == snapshot.electorate
           rules == RulesAt(c, snapshot.height, snapshot.channel)
           shares == ActorsAt(c, snapshot.height, snapshot.channel)
           identities == InForce(c, snapshot.height, "Identities")
           count == record.evaluation
           choices == bornite_ballots(record.ballots)
<1>1. /\ RollFrozenOn(c, snapshot) /\ BallotsStand(snapshot, record.ballots)
      /\ Counted(c, snapshot, record.ballots, count)
  BY DEF VoteStands
<1> HIDE DEF record
<1>2. roll = ElectorateAt(c, snapshot.height, snapshot.channel)
  BY <1>1, RollFrozenResolves DEF ElectorateDerives
<1>3. roll = [voter \in DOMAIN shares |->
              [weight |-> shares[voter], excluded |-> FALSE,
               key |-> key_of(identities, voter)]]
  BY <1>2 DEF ElectorateAt
<1>4. count = evaluate(rules, roll, choices) /\ count.refused = {}
  BY <1>1 DEF Counted, Count
<1>5. DOMAIN choices = DOMAIN record.ballots
  BY DEF bornite_ballots
<1> HIDE DEF snapshot, shares, identities, rules, choices, count
<1>6. /\ DOMAIN roll = DOMAIN shares
      /\ \A v \in DOMAIN shares :
            /\ roll[v].key = key_of(identities, v)
            /\ roll[v].weight = shares[v] /\ roll[v].excluded = FALSE
  BY <1>3
<1>7. ASSUME NEW v \in DOMAIN record.ballots
      PROVE  v \in DOMAIN shares /\ key_of(identities, v) # None
  <2> DEFINE ballot == record.ballots[v]
  <2>1. check_ballot(ballot, snapshot) /\ ballot.voter = v
    BY <1>1 DEF BallotsStand
  <2> HIDE DEF ballot
  <2>2. v \in DOMAIN roll /\ roll[v].key = Some(ballot.key)
    BY <2>1 DEF check_ballot
  <2> QED
    BY <2>2, <1>6 DEF Some, None
<1> HIDE DEF roll
<1>8. count = Evaluation(rules, roll, choices)
  <2> DEFINE refused == Refusals(rules, roll, choices)
  <2>1. count = IF refused # {} THEN [refused |-> refused, accepted |-> FALSE]
                ELSE Evaluation(rules, roll, choices)
    BY <1>4 DEF evaluate
  <2> HIDE DEF refused
  <2> QED
    BY <2>1, <1>4
<1>9. Effective(rules, roll) = DOMAIN roll
  BY <1>6 DEF Effective
<1>10. /\ count.voter_count = Cardinality(DOMAIN roll)
       /\ count.total_weight = Weigh(rules, roll, DOMAIN roll)
       /\ count.participating_weight = Weigh(rules, roll, DOMAIN choices)
       /\ count.non_participant_weight =
             Weigh(rules, roll, Effective(rules, roll)) - Weigh(rules, roll, DOMAIN choices)
       /\ count.quorum_met = quorum_met(rules, Weigh(rules, roll, DOMAIN choices),
                                        Weigh(rules, roll, DOMAIN roll),
                                        Weigh(rules, roll, Effective(rules, roll)))
  BY <1>8 DEF Evaluation
<1>11. /\ Weigh(rules, roll, DOMAIN roll) = Shared(rules, shares, DOMAIN shares)
       /\ Weigh(rules, roll, DOMAIN choices) = Shared(rules, shares, DOMAIN record.ballots)
  BY <1>5, <1>6, <1>7, RollWeighsShares
<1> QED
  BY <1>6, <1>7, <1>9, <1>10, <1>11
  DEF record, snapshot, shares, identities, rules, count

-----------------------------------------------------------------------------
(* Meetings: a convening, and the record of an end that is in order         *)
(* (irena-meeting, lifecycle.rs and verify.rs).                            *)

(* The record at h convened the channel on the agenda (lifecycle.rs).      *)
ConvenedAt(c, h, channel, agenda) ==
    LET record == RecordAt(c, h)
    IN  /\ h \in 0..HeadHeight(c)
        /\ record.namespace = "meeting" /\ record.kind = "convened"
        /\ record.company = CompanyOf(c) /\ record.channel = channel
        /\ record.agenda = agenda
        /\ signer_authorised_at(c, h, record.signer)

(* A convocation on a chain is one on every chain that continues it.       *)
LEMMA StillConvened ==
    ASSUME NEW c, NEW d, Founded(c), Continues(d, c),
           NEW h, NEW channel, NEW agenda, ConvenedAt(c, h, channel, agenda)
    PROVE  ConvenedAt(d, h, channel, agenda)
<1>1. h \in 0..HeadHeight(c)
  BY DEF ConvenedAt
<1>2. /\ HeadHeight(c) \in Nat /\ HeadHeight(d) \in Nat
      /\ HeadHeight(c) <= HeadHeight(d) /\ CompanyOf(d) = CompanyOf(c)
  BY StillFounded
<1>3. h \in 0..HeadHeight(d) /\ h \in 0..h
  BY <1>1, <1>2
<1>4. RecordAt(d, h) = RecordAt(c, h)
  BY <1>1, <1>3, PastReadings
<1>5. \A signer : signer_authorised_at(d, h, signer) <=> signer_authorised_at(c, h, signer)
  BY <1>1, PastGovernance
<1> QED
  BY <1>2, <1>3, <1>4, <1>5 DEF ConvenedAt

(* A final record that is in order: its meeting was convened on this very  *)
(* agenda and opened in between, and each item put to the vote has the     *)
(* record of its vote, which stands.                                       *)

AgendaOf(items) == [n \in DOMAIN items |-> items[n].item]

ItemVoted(c, h, entry, at, channel, subject) ==
    LET tx == Content(entry.vote_tx)
        vote == RecordAt(c, tx)
    IN  /\ entry.vote_tx = Some(tx)
        /\ tx \in 0..HeadHeight(c) /\ tx < h /\ VoteStands(c, tx)
        /\ vote.snapshot.height = at /\ vote.snapshot.channel = channel
        /\ vote.snapshot.proposal = subject
        /\ entry.accepted = Some(vote.evaluation.accepted)

ItemStands(c, h, record, n) ==
    LET entry == record.items[n]
    IN  IF entry.item.is_vote
        THEN ItemVoted(c, h, entry, record.opened_at, record.channel,
                       subject_of(AgendaOf(record.items), n))
        ELSE entry.vote_tx = None /\ entry.accepted = None

MeetingStands(c, h) ==
    LET record == RecordAt(c, h)
    IN  /\ h \in 0..HeadHeight(c)
        /\ record.namespace = "meeting" /\ record.kind = "final"
        /\ record.company = CompanyOf(c)
        /\ ConvenedAt(c, record.meeting_id, record.channel, AgendaOf(record.items))
        /\ record.meeting_id <= record.opened_at /\ record.opened_at < h
        /\ signer_authorised_at(c, h, record.signer)
        /\ \A n \in DOMAIN record.items : ItemStands(c, h, record, n)

(* An item answered by a vote of the chain stays answered by it.           *)
LEMMA StillVoted ==
    ASSUME NEW c, NEW d, Founded(c), Continues(d, c), NEW h, NEW entry,
           NEW at, NEW channel, NEW subject,
           ItemVoted(c, h, entry, at, channel, subject)
    PROVE  ItemVoted(d, h, entry, at, channel, subject)
<1> DEFINE tx == Content(entry.vote_tx)
<1>1. tx \in 0..HeadHeight(c) /\ VoteStands(c, tx)
  BY DEF ItemVoted
<1>2. /\ HeadHeight(c) \in Nat /\ HeadHeight(d) \in Nat
      /\ HeadHeight(c) <= HeadHeight(d)
  BY StillFounded
<1>3. VoteStands(d, tx)
  BY <1>1, VoteStillStands
<1> HIDE DEF tx
<1>4. tx \in 0..HeadHeight(d) /\ tx \in 0..tx
  BY <1>1, <1>2
<1>5. RecordAt(d, tx) = RecordAt(c, tx)
  BY <1>1, <1>4, PastReadings
<1> QED
  BY <1>3, <1>4, <1>5 DEF ItemVoted, tx

(* A meeting that stands on a chain stands on every chain that continues   *)
(* it.                                                                     *)
LEMMA MeetingStillStands ==
    ASSUME NEW c, NEW d, Founded(c), Continues(d, c), NEW h, MeetingStands(c, h)
    PROVE  MeetingStands(d, h)
<1> DEFINE record == RecordAt(c, h)
<1>1. h \in 0..HeadHeight(c)
  BY DEF MeetingStands
<1>2. /\ HeadHeight(c) \in Nat /\ HeadHeight(d) \in Nat
      /\ HeadHeight(c) <= HeadHeight(d) /\ CompanyOf(d) = CompanyOf(c)
  BY StillFounded
<1>3. h \in 0..HeadHeight(d) /\ h \in 0..h
  BY <1>1, <1>2
<1>4. RecordAt(d, h) = record
  BY <1>1, <1>3, PastReadings
<1>5. ConvenedAt(d, record.meeting_id, record.channel, AgendaOf(record.items))
  BY StillConvened DEF MeetingStands
<1>6. signer_authorised_at(d, h, record.signer)
  BY <1>1, PastGovernance DEF MeetingStands
<1>7. \A n \in DOMAIN record.items : ItemStands(d, h, record, n)
  BY StillVoted DEF MeetingStands, ItemStands
<1>8. /\ record.namespace = "meeting" /\ record.kind = "final"
      /\ record.company = CompanyOf(c)
      /\ record.meeting_id <= record.opened_at /\ record.opened_at < h
  BY DEF MeetingStands
<1> HIDE DEF record
<1> QED
  BY <1>2, <1>3, <1>4, <1>5, <1>6, <1>7, <1>8 DEF MeetingStands

(* verify_meeting finds nothing wrong with it.                             *)
LEMMA StandingMeetingVerifies ==
    ASSUME NEW c, Healthy(c), NEW h, MeetingStands(c, h)
    PROVE  verify_meeting(c, h) = {}
<1> DEFINE record == RecordAt(c, h)
           convening == record.meeting_id
           convened == RecordAt(c, convening)
           agenda == AgendaOf(record.items)
<1>1. /\ h \in 0..HeadHeight(c)
      /\ record.namespace = "meeting" /\ record.kind = "final"
      /\ record.company = CompanyOf(c)
      /\ ConvenedAt(c, convening, record.channel, agenda)
      /\ convening <= record.opened_at /\ record.opened_at < h
      /\ signer_authorised_at(c, h, record.signer)
      /\ \A n \in DOMAIN record.items : ItemStands(c, h, record, n)
  BY DEF MeetingStands
<1>2. /\ convening \in 0..HeadHeight(c)
      /\ convened.namespace = "meeting" /\ convened.kind = "convened"
      /\ convened.company = record.company /\ convened.channel = record.channel
      /\ convened.agenda = agenda
      /\ signer_authorised_at(c, convening, convened.signer)
  BY <1>1 DEF ConvenedAt
<1>3. IsRecord(c, h, "final") /\ ConveningExists(c, record)
  BY <1>1, <1>2 DEF IsRecord, ConveningExists
<1>4. Founded(c) /\ Reconstructs(c, convening)
  <2>1. Founded(c) /\ Reconstructs(c, HeadHeight(c)) /\ HeadHeight(c) \in Nat
    BY Heights DEF Healthy
  <2> QED
    BY <1>2, <2>1, ReconstructsBefore
<1>5. \A n \in DOMAIN agenda : agenda[n] = record.items[n].item
  BY DEF AgendaOf
<1>6. DOMAIN agenda = DOMAIN record.items
  BY DEF AgendaOf
<1>a. agenda = [n \in DOMAIN record.items |-> record.items[n].item]
  BY DEF AgendaOf
<1> HIDE DEF record, convened, agenda
<1>7. \A n \in VoteItems(agenda) :
          n \in DOMAIN record.items /\ record.items[n].item.is_vote
  BY <1>5, <1>6 DEF VoteItems
<1>8. \A n \in VoteItems(agenda) :
          ItemVoted(c, h, record.items[n], record.opened_at, record.channel,
                    subject_of(agenda, n))
  BY <1>1, <1>7 DEF ItemStands, agenda
<1>9. \A n \in VoteItems(agenda) : VoteVerifies(c, record.items[n])
  BY <1>4, <1>8, StandingVoteVerifies DEF ItemVoted, VoteVerifies, Some
<1>10. ASSUME NEW n \in VoteItems(agenda) PROVE VoteBelongs(c, h, n)
  <2> DEFINE entry == record.items[n]
             tx == Content(entry.vote_tx)
             vote == RecordAt(c, tx)
  <2>1. /\ entry.vote_tx = Some(tx) /\ tx < h /\ VoteStands(c, tx)
        /\ vote.snapshot.height = record.opened_at
        /\ vote.snapshot.channel = record.channel
        /\ vote.snapshot.proposal = subject_of(agenda, n)
        /\ entry.accepted = Some(vote.evaluation.accepted)
    BY <1>8 DEF ItemVoted
  <2>2. vote.snapshot.company = record.company
    <3>1. RollFrozenOn(c, vote.snapshot)
      BY <2>1 DEF VoteStands
    <3>2. RecordsResolve(c, vote.snapshot)
      BY <1>4, <3>1, RollFrozenResolves
    <3> QED
      BY <1>1, <3>2 DEF RecordsResolve
  <2>3. \A t \in entry.vote_tx : t = tx
    BY <2>1 DEF Some
  <2> HIDE DEF tx
  <2> QED
    BY <1>2, <1>a, <2>1, <2>2, <2>3 DEF VoteBelongs, record, convened
<1>11. \A n \in DOMAIN agenda :
           IF n \in VoteItems(agenda) THEN record.items[n].vote_tx # None
           ELSE record.items[n].vote_tx = None /\ record.items[n].accepted = None
  <2>1. \A n \in VoteItems(agenda) : record.items[n].vote_tx # None
    BY <1>8 DEF ItemVoted, Some, None
  <2>2. \A n \in DOMAIN agenda \ VoteItems(agenda) : ~record.items[n].item.is_vote
    BY <1>5 DEF VoteItems
  <2> QED
    BY <1>1, <1>6, <2>1, <2>2 DEF ItemStands
<1>12. MeetingChecks(c, h) = {}
  BY <1>1, <1>2, <1>4, <1>9, <1>10, <1>11, <1>a
     DEF MeetingChecks, Failed, record, convened
<1> QED
  BY <1>3, <1>12 DEF verify_meeting, record
=============================================================================
