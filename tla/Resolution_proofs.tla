--------------------------- MODULE Resolution_proofs ---------------------------
(* Theorems about Resolution: from what was decided to a resolution, an    *)
(* amendment and the record of its execution, for every company, agenda,   *)
(* state file and number of commands.                                      *)
EXTENDS Resolution, Records_proofs, FiniteSetTheorems

-----------------------------------------------------------------------------
(* Several records of no company at once, as a meeting leaves them.        *)

(* What appending them does to a chain.                                    *)
LEMMA JoinIsChain ==
    ASSUME NEW c, IsChain(c), NEW s, IsChain(s)
    PROVE  /\ Continues(c \o s, c)
           /\ Len(c \o s) = Len(c) + Len(s)
           /\ \A i \in 1..Len(s) : (c \o s)[Len(c) + i] = s[i]
<1> DEFINE S == {c[i] : i \in DOMAIN c} \cup {s[i] : i \in DOMAIN s}
           d == c \o s
<1>1. c \in Seq({c[i] : i \in DOMAIN c}) /\ s \in Seq({s[i] : i \in DOMAIN s})
  BY DEF IsChain
<1>2. c \in Seq(S) /\ s \in Seq(S)
  BY <1>1
<1> HIDE DEF S
<1>3. /\ d \in Seq(S) /\ Len(d) = Len(c) + Len(s) /\ Len(c) \in Nat /\ Len(s) \in Nat
      /\ \A i \in 1..Len(c) : d[i] = c[i]
      /\ \A i \in 1..Len(s) : d[Len(c) + i] = s[i]
  BY <1>2
<1> HIDE DEF d
<1>4. d \in Seq({d[i] : i \in DOMAIN d})
  BY <1>3, OwnEntries
<1>5. Continues(d, c)
  BY <1>1, <1>3, <1>4 DEF Continues, IsChain
<1> QED
  BY <1>3, <1>5 DEF d

(* The chain d is c with the records s of no company after it.             *)
OthersAdded(c, d, s) ==
    LET n == HeadHeight(c)
    IN  /\ Healthy(d) /\ Continues(d, c)
        /\ n \in Nat /\ Len(s) \in Nat /\ HeadHeight(d) = n + Len(s)
        /\ \A i \in 1..Len(s) : RecordAt(d, n + i) = s[i]
        /\ \A at \in n..HeadHeight(d) :
              /\ Reconstructs(d, at)
              /\ \A family, key : authorised_signer(d, at, family, key)
                                     <=> authorised_signer(c, n, family, key)

(* They leave the company as it is.                                        *)
LEMMA OthersKeepHealthy ==
    ASSUME NEW c, Healthy(c), NEW s, IsChain(s),
           \A i \in 1..Len(s) : ~IsCompanyRecord(s[i]) /\ DOMAIN s[i].parts = {}
    PROVE  OthersAdded(c, c \o s, s)
<1> DEFINE d == c \o s
           n == HeadHeight(c)
           m == HeadHeight(d)
<1>1. Founded(c) /\ Reconstructs(c, n) /\ ~LockedOut(c, n) /\ IsChain(c)
  BY DEF Healthy, Founded
<1>2. /\ Continues(d, c) /\ Len(d) = Len(c) + Len(s) /\ Len(s) \in Nat
      /\ \A i \in 1..Len(s) : d[Len(c) + i] = s[i]
  <2>1. Len(s) \in Nat
    BY DEF IsChain
  <2> QED
    BY <1>1, <2>1, JoinIsChain
<1>3. Founded(d) /\ n \in Nat /\ m \in Nat /\ n + 1 = Len(c) /\ m + 1 = Len(d)
  BY <1>1, <1>2, StillFounded, Heights
<1> HIDE DEF d
<1>4. m = n + Len(s)
  BY <1>2, <1>3
<1>5. \A i \in 1..Len(s) : RecordAt(d, n + i) = s[i]
  <2> SUFFICES ASSUME NEW i \in 1..Len(s) PROVE RecordAt(d, n + i) = s[i]
    OBVIOUS
  <2>1. \A k, j, l \in Nat : k + 1 = l => (k + j) + 1 = l + j
    OBVIOUS
  <2>2. n \in Nat /\ Len(c) \in Nat /\ n + 1 = Len(c) /\ i \in Nat
    BY <1>3, <1>2
  <2> HIDE DEF n
  <2>3. (n + i) + 1 = Len(c) + i
    BY <2>1, <2>2
  <2> QED
    BY <1>2, <2>3 DEF RecordAt
<1> HIDE DEF n, m
<1>6. \A h \in (n + 1)..m :
         ~IsCompanyRecord(RecordAt(d, h)) /\ DOMAIN RecordAt(d, h).parts = {}
  <2> SUFFICES ASSUME NEW h \in (n + 1)..m
               PROVE  ~IsCompanyRecord(RecordAt(d, h)) /\ DOMAIN RecordAt(d, h).parts = {}
    OBVIOUS
  <2>1. h - n \in 1..Len(s) /\ n + (h - n) = h
    BY <1>2, <1>3, <1>4
  <2>2. RecordAt(d, h) = s[h - n]
    BY <1>5, <2>1
  <2> QED
    BY <2>1, <2>2
<1>7. ASSUME NEW at \in n..m
      PROVE  /\ CompanyHeights(d, at) = CompanyHeights(d, n)
             /\ \A part : Providers(d, at, part) = Providers(d, n, part)
  <2>1. Upto(d, at) = 0..at /\ Upto(d, n) = 0..n
    BY <1>3, <1>4, <1>2, Heights DEF m
  <2>2. \A h \in 0..at : h \in 0..n \/ h \in (n + 1)..m
    BY <1>3
  <2>3. \A h \in 0..n : h \in 0..at
    BY <1>3
  <2> QED
    BY <1>6, <2>1, <2>2, <2>3 DEF CompanyHeights, Providers
<1>8. n \in 0..HeadHeight(c)
  BY <1>3 DEF n
<1>9. ASSUME NEW at \in n..m
      PROVE  /\ Reconstructs(d, at)
             /\ \A part \in Part : InForce(d, at, part) = InForce(c, n, part)
  <2>1. Reconstructs(d, n)
    BY <1>1, <1>2, <1>8, StillReconstructs
  <2>2. \A part \in Part : InForce(d, n, part) = InForce(c, n, part)
    BY <1>1, <1>2, <1>8, PastReadings
  <2> QED
    BY <1>7, <2>1, <2>2 DEF Reconstructs, InForce, provider_of
<1>10. "Identities" \in Part /\ "Authorisation" \in Part
  BY DEF Part
<1>11. m \in n..m
  BY <1>2, <1>3, <1>4
<1>12. ~LockedOut(d, m)
  BY <1>1, <1>9, <1>10, <1>11 DEF LockedOut, n
<1>13. \A at \in n..m : \A family, key : authorised_signer(d, at, family, key)
                                           <=> authorised_signer(c, n, family, key)
  BY <1>9, <1>10 DEF authorised_signer
<1>14. Healthy(d)
  BY <1>3, <1>9, <1>11, <1>12 DEF Healthy, m
<1> QED
  BY <1>2, <1>3, <1>4, <1>5, <1>9, <1>13, <1>14 DEF OthersAdded, d, n, m

(* One record of no company.                                               *)
LEMMA OtherAdded ==
    ASSUME NEW c, Healthy(c), NEW x, ~IsCompanyRecord(x), DOMAIN x.parts = {},
           NEW key, GovernanceSigner(c, key)
    PROVE  /\ Healthy(Append(c, x)) /\ Continues(Append(c, x), c)
           /\ HeadHeight(c) \in Nat /\ HeadHeight(Append(c, x)) = HeadHeight(c) + 1
           /\ RecordAt(Append(c, x), HeadHeight(c) + 1) = x
           /\ signer_authorised_at(Append(c, x), HeadHeight(c) + 1, key)
<1> DEFINE d == Append(c, x)
           n == HeadHeight(c)
<1>1. /\ Healthy(d) /\ Continues(d, c) /\ n \in Nat
      /\ HeadHeight(d) = n + 1 /\ RecordAt(d, n + 1) = x
      /\ \A family, k : authorised_signer(d, n + 1, family, k)
                           <=> authorised_signer(c, n, family, k)
  BY OtherKeepsHealthy
<1>2. authorised_signer(c, n, "governance", key)
  BY DEF GovernanceSigner
<1> HIDE DEF d, n
<1>3. signer_authorised_at(d, n + 1, key)
  BY <1>1, <1>2 DEF signer_authorised_at, Healthy
<1> QED
  BY <1>1, <1>3 DEF d, n

-----------------------------------------------------------------------------
(* What a resolution rests on, in terms that later records do not change   *)
(* (irena-resolution, lifecycle.rs and verify.rs).                         *)

(* The heights an authority names are on the chain.                        *)
AuthorityOK(c, authority) ==
    \/ /\ authority.mode = "individual"
       /\ authority.decision \in 0..HeadHeight(c)
    \/ /\ authority.mode = "collective"
       /\ authority.meeting \in 0..HeadHeight(c)
       /\ authority.vote \in 0..HeadHeight(c)

(* The record of the decision, or of the vote.                             *)
Decider(authority) ==
    IF authority.mode = "individual" THEN authority.decision ELSE authority.vote

(* What was approved can be read the same from a longer chain.             *)
LEMMA StillApproved ==
    ASSUME NEW c, NEW d, Founded(c), Continues(d, c),
           NEW authority, AuthorityOK(c, authority)
    PROVE  /\ AuthorityOK(d, authority)
           /\ Decider(authority) \in 0..HeadHeight(c)
           /\ RecordAt(d, Decider(authority)) = RecordAt(c, Decider(authority))
           /\ Decided(d, authority) = Decided(c, authority)
           /\ approval(d, authority) = approval(c, authority)
<1> DEFINE a == Decider(authority)
<1>1. /\ HeadHeight(c) \in Nat /\ HeadHeight(d) \in Nat
      /\ HeadHeight(c) <= HeadHeight(d)
  BY StillFounded
<1>2. AuthorityOK(d, authority)
  BY <1>1 DEF AuthorityOK
<1>3. a \in 0..HeadHeight(c) /\ a \in 0..a
  BY <1>1 DEF AuthorityOK, Decider
<1>4. RecordAt(d, a) = RecordAt(c, a)
  BY <1>3, PastReadings
<1>5. Decided(d, authority) = RecordAt(d, a).snapshot
      /\ Decided(c, authority) = RecordAt(c, a).snapshot
  BY DEF Decided, Decider
<1> HIDE DEF a
<1>6. Decided(d, authority) = Decided(c, authority)
  BY <1>4, <1>5
<1>7. approval(d, authority) = approval(c, authority)
  BY <1>6 DEF approval
<1> QED
  BY <1>2, <1>3, <1>4, <1>6, <1>7 DEF a

(* The record that decided stands, and answers what it is taken to answer. *)
Grounded(c, authority) ==
    IF authority.mode = "individual" THEN DecisionStands(c, authority.decision)
    ELSE /\ MeetingStands(c, authority.meeting)
         /\ AnsweredBy(c, authority)
         /\ VoteStands(c, authority.vote)
         /\ RecordAt(c, authority.vote).evaluation.accepted

Rests(c, h, authority, proposal) ==
    LET approved == approval(c, authority)
    IN  /\ AuthorityOK(c, authority) /\ DecidedHeight(authority) < h
        /\ Grounded(c, authority)
        /\ Decided(c, authority).channel = approved.channel
        /\ Amends(proposal) => WithinChannelScope(c, approved, proposal[1])
        /\ approved.proposal = proposal /\ approved.company = CompanyOf(c)

(* A standing record saw a height of the chain, and pinned what provided   *)
(* the parts then: the base is the record in force when it froze.          *)
LEMMA GroundedSaw ==
    ASSUME NEW c, Founded(c), NEW authority, AuthorityOK(c, authority),
           Grounded(c, authority)
    PROVE  LET approved == approval(c, authority)
           IN  /\ approved.height \in 0..HeadHeight(c)
               /\ \A part : base_of(c, approved, part) =
                               provider_of(c, approved.height, part)
<1> DEFINE approved == approval(c, authority)
           decided == RecordAt(c, Decider(authority)).snapshot
<1>1. /\ approved.height = decided.height /\ approved.pins = decided.pins
  BY DEF approval, Decided, Decider
<1>2. decided.height \in 0..HeadHeight(c) /\ decided.pins = pins(c, decided.height)
  <2>1. CASE authority.mode = "individual"
    <3>1. FrozenOn(c, decided)
      BY <2>1 DEF Grounded, DecisionStands, Decider
    <3> HIDE DEF decided
    <3> QED
      BY <3>1, FrozenResolves DEF FrozenOn
  <2>2. CASE authority.mode # "individual"
    <3>1. RollFrozenOn(c, decided)
      BY <2>2 DEF Grounded, VoteStands, Decider
    <3> HIDE DEF decided
    <3> QED
      BY <3>1, RollFrozenResolves DEF RollFrozenOn, RecordsResolve
  <2> QED
    BY <2>1, <2>2
<1> HIDE DEF approved, decided
<1>3. \A part : base_of(c, approved, part) = provider_of(c, approved.height, part)
  <2>1. \A part \in Pinned : pins(c, approved.height)[part] =
                                provider_of(c, approved.height, part)
    BY DEF pins
  <2> QED
    BY <1>1, <1>2, <2>1 DEF base_of
<1> QED
  BY <1>1, <1>2, <1>3 DEF approved

(* What a decision rests on it rests on whatever is appended.              *)
LEMMA StillGrounded ==
    ASSUME NEW c, NEW d, Founded(c), Continues(d, c), NEW authority,
           AuthorityOK(c, authority), Grounded(c, authority)
    PROVE  Grounded(d, authority)
<1>1. CASE authority.mode = "individual"
  <2>1. authority.decision \in 0..HeadHeight(c) /\ DecisionStands(c, authority.decision)
    BY <1>1 DEF AuthorityOK, Grounded
  <2> QED
    BY <1>1, <2>1, StillStands DEF Grounded
<1>2. CASE authority.mode # "individual"
  <2>1. /\ authority.meeting \in 0..HeadHeight(c) /\ authority.vote \in 0..HeadHeight(c)
        /\ MeetingStands(c, authority.meeting) /\ AnsweredBy(c, authority)
        /\ VoteStands(c, authority.vote)
        /\ RecordAt(c, authority.vote).evaluation.accepted
    BY <1>2 DEF AuthorityOK, Grounded
  <2>2. MeetingStands(d, authority.meeting) /\ VoteStands(d, authority.vote)
    BY <2>1, MeetingStillStands, VoteStillStands
  <2>3. HeadHeight(c) \in Nat
    BY StillFounded
  <2>4. authority.meeting \in 0..authority.meeting /\ authority.vote \in 0..authority.vote
    BY <2>1, <2>3
  <2>5. /\ RecordAt(d, authority.meeting) = RecordAt(c, authority.meeting)
        /\ RecordAt(d, authority.vote) = RecordAt(c, authority.vote)
    BY <2>1, <2>4, PastReadings
  <2> QED
    BY <1>2, <2>1, <2>2, <2>5 DEF Grounded, AnsweredBy
<1> QED
  BY <1>1, <1>2

(* A resolution rests on a longer chain as it did.                         *)
LEMMA StillRests ==
    ASSUME NEW c, NEW d, Founded(c), Continues(d, c),
           NEW h, NEW authority, NEW proposal, Rests(c, h, authority, proposal)
    PROVE  Rests(d, h, authority, proposal)
<1> DEFINE approved == approval(c, authority)
<1>1. /\ AuthorityOK(c, authority) /\ DecidedHeight(authority) < h
      /\ Grounded(c, authority)
      /\ Decided(c, authority).channel = approved.channel
      /\ Amends(proposal) => WithinChannelScope(c, approved, proposal[1])
      /\ approved.proposal = proposal /\ approved.company = CompanyOf(c)
  BY DEF Rests
<1>2. /\ AuthorityOK(d, authority) /\ Decided(d, authority) = Decided(c, authority)
      /\ approval(d, authority) = approved
  BY <1>1, StillApproved
<1>3. Grounded(d, authority)
  BY <1>1, StillGrounded
<1>4. approved.height \in 0..HeadHeight(c)
  BY <1>1, GroundedSaw
<1> HIDE DEF approved
<1>5. /\ Reconstructs(d, approved.height) <=> Reconstructs(c, approved.height)
      /\ ChannelsAt(d, approved.height) = ChannelsAt(c, approved.height)
  BY <1>4, StillReconstructs, PastGovernance
<1>6. Amends(proposal) => WithinChannelScope(d, approved, proposal[1])
  BY <1>1, <1>5 DEF WithinChannelScope
<1>7. CompanyOf(d) = CompanyOf(c)
  BY StillFounded
<1> QED
  BY <1>1, <1>2, <1>3, <1>6, <1>7 DEF Rests

-----------------------------------------------------------------------------
(* Records of resolutions that are in order.                               *)

ResolutionStands(c, h) ==
    LET record == RecordAt(c, h)
    IN  /\ h \in 0..HeadHeight(c)
        /\ record.namespace = "resolution" /\ record.company = CompanyOf(c)
        /\ Rests(c, h, record.authority, record.proposal)
        /\ signer_authorised_at(c, h, record.signer)

(* A resolution that stands on a chain stands on every chain that          *)
(* continues it.                                                           *)
LEMMA ResolutionStillStands ==
    ASSUME NEW c, NEW d, Founded(c), Continues(d, c), NEW h, ResolutionStands(c, h)
    PROVE  ResolutionStands(d, h) /\ RecordAt(d, h) = RecordAt(c, h)
<1> DEFINE record == RecordAt(c, h)
<1>1. /\ h \in 0..HeadHeight(c) /\ record.namespace = "resolution"
      /\ record.company = CompanyOf(c)
      /\ Rests(c, h, record.authority, record.proposal)
      /\ signer_authorised_at(c, h, record.signer)
  BY DEF ResolutionStands
<1>2. /\ HeadHeight(c) \in Nat /\ HeadHeight(d) \in Nat
      /\ HeadHeight(c) <= HeadHeight(d) /\ CompanyOf(d) = CompanyOf(c)
  BY StillFounded
<1>3. h \in 0..HeadHeight(d) /\ h \in 0..h
  BY <1>1, <1>2
<1>4. RecordAt(d, h) = record
  BY <1>1, <1>3, PastReadings
<1> HIDE DEF record
<1>5. Rests(d, h, record.authority, record.proposal)
  BY <1>1, StillRests
<1>6. signer_authorised_at(d, h, record.signer)
  BY <1>1, PastGovernance
<1> QED
  BY <1>1, <1>2, <1>3, <1>4, <1>5, <1>6 DEF ResolutionStands, record

(* What grounds a resolution passes the checks of its reader.              *)
LEMMA GroundedVerifies ==
    ASSUME NEW c, Healthy(c), NEW authority, Grounded(c, authority)
    PROVE  IF authority.mode = "individual"
           THEN verify_individual(c, authority) = {}
           ELSE verify_collective(c, authority) = {}
<1>1. CASE authority.mode = "individual"
  <2>1. verify_decision(c, authority.decision) = {}
    BY <1>1, StandingVerifies DEF Grounded, Healthy
  <2> QED
    BY <1>1, <2>1 DEF verify_individual, Failed
<1>2. CASE authority.mode # "individual"
  <2>1. /\ verify_meeting(c, authority.meeting) = {}
        /\ verify_vote(c, authority.vote) = {}
    BY <1>2, StandingMeetingVerifies, StandingVoteVerifies DEF Grounded, Healthy
  <2>2. AnsweredBy(c, authority) /\ RecordAt(c, authority.vote).evaluation.accepted
    BY <1>2 DEF Grounded
  <2> QED
    BY <1>2, <2>1, <2>2 DEF verify_collective, AnsweredBy, Failed
<1> QED
  BY <1>1, <1>2

(* verify_resolution finds nothing wrong with a resolution that stands.    *)
LEMMA StandingResolutionVerifies ==
    ASSUME NEW c, Healthy(c), NEW h, ResolutionStands(c, h)
    PROVE  verify_resolution(c, h) = {}
<1> DEFINE record == RecordAt(c, h)
           authority == record.authority
           approved == approval(c, authority)
<1>1. /\ record.namespace = "resolution" /\ record.company = CompanyOf(c)
      /\ Rests(c, h, authority, record.proposal)
      /\ signer_authorised_at(c, h, record.signer)
  BY DEF ResolutionStands
<1>2. /\ DecidedHeight(authority) < h /\ Grounded(c, authority)
      /\ Decided(c, authority).channel = approved.channel
      /\ Amends(record.proposal) => WithinChannelScope(c, approved, record.proposal[1])
      /\ record.proposal = approved.proposal /\ approved.company = CompanyOf(c)
  BY <1>1 DEF Rests
<1>3. ApprovalChecks(c, h) = {}
  <2>1. {record.company, approved.company} = {CompanyOf(c)}
    BY <1>1, <1>2
  <2> HIDE DEF approved
  <2>2. approved = approval(c, RecordAt(c, h).authority)
    BY DEF approved
  <2> QED
    BY <1>1, <1>2, <2>1, <2>2 DEF ApprovalChecks, Failed
<1>4. IF authority.mode = "individual" THEN verify_individual(c, authority) = {}
      ELSE verify_collective(c, authority) = {}
  BY <1>2, GroundedVerifies
<1> QED
  BY <1>1, <1>3, <1>4 DEF verify_resolution, verify_authority

-----------------------------------------------------------------------------
(* The record at m is the amendment by which the resolution at r was       *)
(* executed, over the record that was in force when what it rests on froze.*)

Effected(c, m, r, target, base) ==
    LET resolution == RecordAt(c, r)
        amendment == RecordAt(c, m)
        approved == approval(c, resolution.authority)
    IN  /\ ResolutionStands(c, r) /\ r < m /\ m \in 1..HeadHeight(c)
        /\ Amends(resolution.proposal) /\ resolution.proposal[1] = target
        /\ IsCompanyRecord(amendment) /\ amendment.company = CompanyOf(c)
        /\ DOMAIN amendment.parts = {target}
        /\ amendment.parts[target] = resolution.proposal[2]
        /\ amendment.supersedes = Some(base)
        /\ base = base_of(c, approved, target)
        /\ \A actor \in approved.actor :
              DemotionHolds(c, m - 1, actor, target, amendment.parts[target])

(* What may be amended is a part.                                          *)
LEMMA TargetIsPart == ASSUME NEW proposal, Amends(proposal) PROVE proposal[1] \in Part
  BY DEF Amends, Target

(* What one person's signature may change is read at a past height.        *)
LEMMA PastDemotion ==
    ASSUME NEW c, NEW d, Founded(c), Continues(d, c), NEW at \in 0..HeadHeight(c),
           NEW actor, NEW target \in Part, NEW value
    PROVE  DemotionHolds(d, at, actor, target, value)
               <=> DemotionHolds(c, at, actor, target, value)
<1>1. "ShareStructure" \in Part
  BY DEF Part
<1>2. \A part \in Part : InForce(d, at, part) = InForce(c, at, part)
  BY PastReadings
<1> QED
  BY <1>1, <1>2 DEF DemotionHolds

(* An amendment that executed a resolution did so on every longer chain.   *)
LEMMA StillEffected ==
    ASSUME NEW c, NEW d, Founded(c), Continues(d, c),
           NEW m, NEW r, NEW target, NEW base, Effected(c, m, r, target, base)
    PROVE  Effected(d, m, r, target, base)
<1> DEFINE resolution == RecordAt(c, r)
           amendment == RecordAt(c, m)
           approved == approval(c, resolution.authority)
<1>1. /\ ResolutionStands(c, r) /\ r < m /\ m \in 1..HeadHeight(c)
      /\ Amends(resolution.proposal) /\ resolution.proposal[1] = target
      /\ IsCompanyRecord(amendment) /\ amendment.company = CompanyOf(c)
      /\ DOMAIN amendment.parts = {target}
      /\ amendment.parts[target] = resolution.proposal[2]
      /\ amendment.supersedes = Some(base)
      /\ base = base_of(c, approved, target)
      /\ \A actor \in approved.actor :
            DemotionHolds(c, m - 1, actor, target, amendment.parts[target])
  BY DEF Effected
<1>2. /\ HeadHeight(c) \in Nat /\ HeadHeight(d) \in Nat
      /\ HeadHeight(c) <= HeadHeight(d) /\ CompanyOf(d) = CompanyOf(c)
  BY StillFounded
<1>3. ResolutionStands(d, r) /\ RecordAt(d, r) = resolution
  BY <1>1, ResolutionStillStands
<1>4. AuthorityOK(c, resolution.authority) /\ Grounded(c, resolution.authority)
  BY <1>1 DEF ResolutionStands, Rests
<1> HIDE DEF resolution
<1>5. approval(d, resolution.authority) = approved
  BY <1>4, StillApproved
<1>6. approved.height \in 0..HeadHeight(c)
  BY <1>4, GroundedSaw
<1>7. /\ m \in 1..HeadHeight(d) /\ m \in 0..HeadHeight(c) /\ m \in 0..m
      /\ m - 1 \in 0..HeadHeight(c)
  BY <1>1, <1>2
<1>8. RecordAt(d, m) = amendment
  BY <1>7, PastReadings
<1> HIDE DEF amendment, approved
<1>9. base = base_of(d, approved, target)
  BY <1>1, <1>6, PastReadings DEF base_of
<1>10. target \in Part
  BY <1>1, TargetIsPart
<1>11. \A actor \in approved.actor :
          DemotionHolds(d, m - 1, actor, target, amendment.parts[target])
  BY <1>1, <1>7, <1>10, PastDemotion
<1> QED
  BY <1>1, <1>2, <1>3, <1>5, <1>7, <1>8, <1>9, <1>11 DEF Effected

(* Who may sign is left alone by amending anything else.                   *)
SignersOf(target) == target \in {"Identities", "Authorisation"}

ExecutionStands(c, h) ==
    LET record == RecordAt(c, h)
    IN  /\ h \in 0..HeadHeight(c)
        /\ record.namespace = "execution" /\ record.amendment = h - 1
        /\ Effected(c, h - 1, record.resolution, record.target, record.replaced)
        /\ record.proposal = RecordAt(c, record.resolution).proposal
        /\ SignersOf(record.target) \/ signer_authorised_at(c, h, record.signer)

(* An execution that stands on a chain stands on every chain that          *)
(* continues it.                                                           *)
LEMMA ExecutionStillStands ==
    ASSUME NEW c, NEW d, Founded(c), Continues(d, c), NEW h, ExecutionStands(c, h)
    PROVE  ExecutionStands(d, h) /\ RecordAt(d, h) = RecordAt(c, h)
<1> DEFINE record == RecordAt(c, h)
<1>1. /\ h \in 0..HeadHeight(c)
      /\ record.namespace = "execution" /\ record.amendment = h - 1
      /\ Effected(c, h - 1, record.resolution, record.target, record.replaced)
      /\ record.proposal = RecordAt(c, record.resolution).proposal
      /\ SignersOf(record.target) \/ signer_authorised_at(c, h, record.signer)
  BY DEF ExecutionStands
<1>2. /\ HeadHeight(c) \in Nat /\ HeadHeight(d) \in Nat
      /\ HeadHeight(c) <= HeadHeight(d)
  BY StillFounded
<1>3. h \in 0..HeadHeight(d) /\ h \in 0..h
  BY <1>1, <1>2
<1>4. RecordAt(d, h) = record
  BY <1>1, <1>3, PastReadings
<1> HIDE DEF record
<1>5. Effected(d, h - 1, record.resolution, record.target, record.replaced)
  BY <1>1, StillEffected
<1>6. RecordAt(d, record.resolution) = RecordAt(c, record.resolution)
  BY <1>1, ResolutionStillStands DEF Effected
<1>7. signer_authorised_at(d, h, record.signer)
          <=> signer_authorised_at(c, h, record.signer)
  BY <1>1, PastGovernance
<1> QED
  BY <1>1, <1>3, <1>4, <1>5, <1>6, <1>7 DEF ExecutionStands, record

(* verify_execution finds nothing wrong with it, but perhaps its signer.   *)
LEMMA StandingExecutionVerifies ==
    ASSUME NEW c, Healthy(c), NEW h, ExecutionStands(c, h),
           find_execution(c, RecordAt(c, h).resolution) = Some(h)
    PROVE  verify_execution(c, h) =
               Failed("SignerAuthorised",
                      signer_authorised_at(c, h, RecordAt(c, h).signer))
<1> DEFINE execution == RecordAt(c, h)
           r == execution.resolution
           m == execution.amendment
           target == execution.target
           resolution == RecordAt(c, r)
           amendment == RecordAt(c, m)
           approved == approval(c, resolution.authority)
           value == amendment.parts[target]
           base == base_of(c, approved, target)
<1>1. /\ h \in 0..HeadHeight(c) /\ execution.namespace = "execution" /\ m = h - 1
      /\ Effected(c, m, r, target, execution.replaced)
      /\ execution.proposal = resolution.proposal
  BY DEF ExecutionStands
<1>2. /\ ResolutionStands(c, r) /\ r < m /\ m \in 1..HeadHeight(c)
      /\ Amends(resolution.proposal) /\ resolution.proposal[1] = target
      /\ IsCompanyRecord(amendment) /\ amendment.company = CompanyOf(c)
      /\ DOMAIN amendment.parts = {target}
      /\ value = resolution.proposal[2]
      /\ amendment.supersedes = Some(execution.replaced)
      /\ execution.replaced = base
      /\ \A actor \in approved.actor : DemotionHolds(c, m - 1, actor, target, value)
  BY <1>1 DEF Effected
<1>3. resolution.company = CompanyOf(c) /\ resolution.proposal = approved.proposal
  BY <1>2 DEF ResolutionStands, Rests
<1>4. verify_resolution(c, r) = {}
  BY <1>2, StandingResolutionVerifies
<1>5. AmendmentExists(c, execution, resolution)
  BY <1>2, <1>3 DEF AmendmentExists
<1>6. Reconstructs(c, m - 1) /\ Reconstructs(c, h) /\ m <= h
  <2>1. Founded(c) /\ Reconstructs(c, HeadHeight(c)) /\ HeadHeight(c) \in Nat
    BY Heights DEF Healthy
  <2>2. m - 1 \in 0..HeadHeight(c) /\ m <= h
    BY <1>1, <1>2, <2>1
  <2> QED
    BY <1>1, <2>1, <2>2, ReconstructsBefore
<1> HIDE DEF value, base, amendment, approved, resolution, r, m, target, execution
<1>7. EffectChecks(c, h) =
          Failed("SignerAuthorised", signer_authorised_at(c, h, execution.signer))
  <2>1. find_execution(c, r) = Some(h)
    BY DEF r, execution
  <2> QED
    BY <1>1, <1>2, <1>3, <1>6, <2>1
       DEF EffectChecks, Failed, value, base, amendment, approved, resolution, r, m,
           target, execution
<1> QED
  BY <1>1, <1>2, <1>4, <1>5, <1>7
     DEF verify_execution, resolution, r, execution, target

-----------------------------------------------------------------------------
(* What somebody may have published, and every record of a chain in order. *)

(* What the record at a height decided, whoever decided it.                *)
ApprovedOf(c, a) ==
    LET decided == RecordAt(c, a).snapshot.proposal
    IN  IF RecordAt(c, a).namespace = "vote" THEN decided[2] ELSE decided

Approves(c, a) ==
    \/ RecordAt(c, a).namespace = "decision"
    \/ RecordAt(c, a).namespace = "vote" /\ RecordAt(c, a).evaluation.accepted

(* An amendment has no resolution behind it, or a record approved it and   *)
(* saw the very record that it replaces.                                   *)
Licensed(c, n, part, value, base) ==
    \/ <<part, value>> \in Amendment
    \/ \E a \in 0..n :
          /\ Approves(c, a) /\ ApprovedOf(c, a) = <<part, value>>
          /\ RecordAt(c, a).snapshot.height \in 0..n
          /\ base = provider_of(c, RecordAt(c, a).snapshot.height, part)

Published(c, m) ==
    LET record == RecordAt(c, m)
    IN  \E part \in Part :
          /\ DOMAIN record.parts = {part}
          /\ record.supersedes = Some(provider_of(c, m - 1, part))
          /\ Licensed(c, m - 1, part, record.parts[part], provider_of(c, m - 1, part))

(* What is decided is never what is published without a resolution.        *)
Resolvable(proposal) == IsPair(proposal) /\ proposal \notin Amendment

MeetingOK(c, h) ==
    LET record == RecordAt(c, h)
    IN  \/ /\ ConvenedAt(c, h, record.channel, record.agenda)
           /\ IsChain(record.agenda)
           /\ \A n \in DOMAIN record.agenda : Resolvable(record.agenda[n].proposal)
        \/ MeetingStands(c, h)

RecordStands(c, h) ==
    LET kind == RecordAt(c, h).namespace
    IN  /\ kind = "company" => h = 0 \/ Published(c, h)
        /\ kind = "decision" => DecisionStands(c, h) /\ Resolvable(ApprovedOf(c, h))
        /\ kind = "vote" => VoteStands(c, h) /\ Resolvable(ApprovedOf(c, h))
        /\ kind = "meeting" => MeetingOK(c, h)
        /\ kind = "resolution" => ResolutionStands(c, h)
        /\ kind = "execution" => ExecutionStands(c, h)

(* What was published with reason, and for what reason, is a matter of the *)
(* past.                                                                   *)
LEMMA StillPublished ==
    ASSUME NEW c, NEW d, Founded(c), Continues(d, c),
           NEW m \in 1..HeadHeight(c), Published(c, m)
    PROVE  Published(d, m)
<1> DEFINE record == RecordAt(c, m)
<1>1. PICK part \in Part :
         /\ DOMAIN record.parts = {part}
         /\ record.supersedes = Some(provider_of(c, m - 1, part))
         /\ Licensed(c, m - 1, part, record.parts[part], provider_of(c, m - 1, part))
  BY DEF Published
<1>2. HeadHeight(c) \in Nat
  BY StillFounded
<1>3. m \in 0..HeadHeight(c) /\ m \in 0..m /\ m - 1 \in 0..HeadHeight(c)
  BY <1>2
<1>4. RecordAt(d, m) = record
  BY <1>3, PastReadings
<1>5. provider_of(d, m - 1, part) = provider_of(c, m - 1, part)
  BY <1>3, PastReadings
<1> DEFINE base == provider_of(c, m - 1, part)
           value == record.parts[part]
<1>6. Licensed(c, m - 1, part, value, base)
  BY <1>1
<1> HIDE DEF base, value
<1>7. Licensed(d, m - 1, part, value, base)
  <2>1. CASE <<part, value>> \in Amendment
    BY <2>1 DEF Licensed
  <2>2. CASE <<part, value>> \notin Amendment
    <3>1. PICK a \in 0..(m - 1) :
             /\ Approves(c, a) /\ ApprovedOf(c, a) = <<part, value>>
             /\ RecordAt(c, a).snapshot.height \in 0..(m - 1)
             /\ base = provider_of(c, RecordAt(c, a).snapshot.height, part)
      BY <1>6, <2>2 DEF Licensed
    <3>2. RecordAt(d, a) = RecordAt(c, a)
      BY <1>3, PastReadings
    <3>3. Approves(d, a) /\ ApprovedOf(d, a) = <<part, value>>
      BY <3>1, <3>2 DEF Approves, ApprovedOf
    <3>4. RecordAt(c, a).snapshot.height \in 0..HeadHeight(c)
      BY <1>2, <1>3, <3>1
    <3>5. base = provider_of(d, RecordAt(c, a).snapshot.height, part)
      BY <3>1, <3>4, PastReadings
    <3> QED
      BY <3>1, <3>2, <3>3, <3>5 DEF Licensed
  <2> QED
    BY <2>1, <2>2
<1> QED
  BY <1>1, <1>4, <1>5, <1>7 DEF Published, base, value

(* A record in order stays in order whatever is appended.                  *)
LEMMA RecordStillStands ==
    ASSUME NEW c, NEW d, Founded(c), Continues(d, c),
           NEW h \in 0..HeadHeight(c), RecordStands(c, h)
    PROVE  RecordStands(d, h) /\ RecordAt(d, h) = RecordAt(c, h)
<1> DEFINE kind == RecordAt(c, h).namespace
<1>1. HeadHeight(c) \in Nat
  BY StillFounded
<1>2. h \in 0..h /\ (h # 0 => h \in 1..HeadHeight(c))
  BY <1>1
<1>3. RecordAt(d, h) = RecordAt(c, h)
  BY <1>2, PastReadings
<1>4. ApprovedOf(d, h) = ApprovedOf(c, h)
  BY <1>3 DEF ApprovedOf
<1>5. kind = "company" => h = 0 \/ Published(d, h)
  BY <1>2, StillPublished DEF RecordStands
<1>6. kind = "decision" => DecisionStands(d, h) /\ Resolvable(ApprovedOf(d, h))
  BY <1>4, StillStands DEF RecordStands
<1>7. kind = "vote" => VoteStands(d, h) /\ Resolvable(ApprovedOf(d, h))
  BY <1>4, VoteStillStands DEF RecordStands
<1>8. kind = "meeting" => MeetingOK(d, h)
  <2> SUFFICES ASSUME MeetingOK(c, h) PROVE MeetingOK(d, h)
    BY DEF RecordStands
  <2> DEFINE record == RecordAt(c, h)
  <2>1. CASE MeetingStands(c, h)
    BY <2>1, MeetingStillStands DEF MeetingOK
  <2>2. CASE ~MeetingStands(c, h)
    <3>1. /\ ConvenedAt(c, h, record.channel, record.agenda)
          /\ IsChain(record.agenda)
          /\ \A n \in DOMAIN record.agenda : Resolvable(record.agenda[n].proposal)
      BY <2>2 DEF MeetingOK
    <3>2. ConvenedAt(d, h, record.channel, record.agenda)
      BY <3>1, StillConvened
    <3> QED
      BY <1>3, <3>1, <3>2 DEF MeetingOK
  <2> QED
    BY <2>1, <2>2
<1>9. kind = "resolution" => ResolutionStands(d, h)
  BY ResolutionStillStands DEF RecordStands
<1>10. kind = "execution" => ExecutionStands(d, h)
  BY ExecutionStillStands DEF RecordStands
<1> QED
  BY <1>3, <1>5, <1>6, <1>7, <1>8, <1>9, <1>10 DEF RecordStands

Executed(c, r) == \E g \in RecordsOf(c, "execution") : RecordAt(c, g).resolution = r

(* Every record of the chain is in order, and no resolution was executed   *)
(* twice.                                                                  *)
ChainInv(c) ==
    /\ Healthy(c)
    /\ \A h \in 0..HeadHeight(c) : RecordStands(c, h)
    /\ \A g, h \in RecordsOf(c, "execution") :
          RecordAt(c, g).resolution = RecordAt(c, h).resolution => g = h

(* The records at the heights d has and c has not are in order too.        *)
NewRecordsStand(c, d) ==
    \A h \in (HeadHeight(c) + 1)..HeadHeight(d) :
        /\ RecordStands(d, h)
        /\ RecordAt(d, h).namespace = "execution" =>
              h = HeadHeight(d) /\ ~Executed(c, RecordAt(d, h).resolution)

(* A chain in order grows into one.                                        *)
LEMMA ChainGrows ==
    ASSUME NEW c, ChainInv(c), NEW d, Healthy(d), Continues(d, c), NewRecordsStand(c, d)
    PROVE  ChainInv(d)
<1> DEFINE n == HeadHeight(c)
           m == HeadHeight(d)
<1>1. Founded(c)
  BY DEF ChainInv, Healthy
<1>2. n \in Nat /\ m \in Nat /\ n <= m
  BY <1>1, StillFounded
<1>3. \A h \in 0..n : RecordStands(d, h) /\ RecordAt(d, h) = RecordAt(c, h)
  BY <1>1, RecordStillStands DEF ChainInv
<1>4. \A h \in 0..m : h \in 0..n \/ h \in (n + 1)..m
  BY <1>2
<1>5. \A h \in 0..m : RecordStands(d, h)
  BY <1>3, <1>4 DEF NewRecordsStand
<1>6. ASSUME NEW g \in RecordsOf(d, "execution")
      PROVE  \/ g \in 0..n /\ g \in RecordsOf(c, "execution")
             \/ g = m /\ ~Executed(c, RecordAt(d, g).resolution)
  <2>1. g \in 0..m /\ RecordAt(d, g).namespace = "execution"
    BY DEF RecordsOf
  <2> QED
    BY <1>3, <1>4, <2>1 DEF RecordsOf, NewRecordsStand
<1>7. ASSUME NEW g \in RecordsOf(d, "execution"), NEW h \in RecordsOf(d, "execution"),
             RecordAt(d, g).resolution = RecordAt(d, h).resolution
      PROVE  g = h
  <2> HIDE DEF n, m
  <2>1. CASE g \in 0..n /\ g \in RecordsOf(c, "execution")
    <3>1. RecordAt(d, g) = RecordAt(c, g)
      BY <1>3, <2>1
    <3>2. Executed(c, RecordAt(d, g).resolution)
      BY <2>1, <3>1 DEF Executed
    <3>3. h \in 0..n /\ h \in RecordsOf(c, "execution")
      BY <1>6, <1>7, <3>2
    <3> QED
      BY <1>3, <1>7, <2>1, <3>1, <3>3 DEF ChainInv
  <2>2. CASE ~(g \in 0..n /\ g \in RecordsOf(c, "execution"))
    <3>1. g = m /\ ~Executed(c, RecordAt(d, h).resolution)
      BY <1>6, <1>7, <2>2
    <3>2. ~(h \in 0..n /\ h \in RecordsOf(c, "execution"))
      BY <1>3, <3>1 DEF Executed
    <3> QED
      BY <1>6, <3>1, <3>2
  <2> QED
    BY <2>1, <2>2
<1> QED
  BY <1>5, <1>7 DEF ChainInv

-----------------------------------------------------------------------------
(* What each step appends is in order.                                     *)

(* One record more.                                                        *)
LEMMA OneMore ==
    ASSUME NEW c, ChainInv(c), NEW d, Healthy(d), Continues(d, c),
           HeadHeight(d) = HeadHeight(c) + 1, RecordStands(d, HeadHeight(d)),
           RecordAt(d, HeadHeight(d)).namespace = "execution" =>
               ~Executed(c, RecordAt(d, HeadHeight(d)).resolution)
    PROVE  ChainInv(d)
<1>1. HeadHeight(c) \in Nat
  BY StillFounded DEF ChainInv, Healthy
<1>2. \A h \in (HeadHeight(c) + 1)..HeadHeight(d) : h = HeadHeight(d)
  BY <1>1
<1>3. NewRecordsStand(c, d)
  BY <1>2 DEF NewRecordsStand
<1> QED
  BY <1>3, ChainGrows

(* The parts in force once one of them is amended.                         *)
LEMMA PartAmended ==
    ASSUME NEW c, Founded(c), NEW m \in 1..HeadHeight(c), NEW part \in Part,
           DOMAIN RecordAt(c, m).parts = {part}
    PROVE  /\ provider_of(c, m, part) = m
           /\ InForce(c, m, part) = RecordAt(c, m).parts[part]
           /\ \A other \in Part \ {part} :
                 InForce(c, m, other) = InForce(c, m - 1, other)
<1>1. /\ HeadHeight(c) \in Nat
      /\ \A at \in 0..HeadHeight(c) : Upto(c, at) = 0..at
  BY Heights
<1>2. Upto(c, m) = 0..m /\ Upto(c, m - 1) = 0..(m - 1) /\ m \in Nat /\ m \in 0..m
  BY <1>1
<1>3. provider_of(c, m, part) = m
  <2>1. m \in Providers(c, m, part)
    BY <1>2 DEF Providers
  <2>2. /\ m <= provider_of(c, m, part) /\ provider_of(c, m, part) <= m
        /\ provider_of(c, m, part) \in 0..HeadHeight(c)
    BY <1>2, <2>1, ProviderExists
  <2> QED
    BY <2>2
<1>4. ASSUME NEW other \in Part \ {part}
      PROVE  InForce(c, m, other) = InForce(c, m - 1, other)
  <2>1. \A h \in 0..m : h \in 0..(m - 1) \/ h = m
    OBVIOUS
  <2>2. \A h \in 0..(m - 1) : h \in 0..m
    OBVIOUS
  <2>3. Providers(c, m, other) = Providers(c, m - 1, other)
    BY <1>2, <2>1, <2>2 DEF Providers
  <2> QED
    BY <2>3 DEF InForce, provider_of
<1> QED
  BY <1>3, <1>4 DEF InForce

(* An amendment somebody may publish is in order.                          *)
LEMMA AmendGrows ==
    ASSUME NEW c, ChainInv(c), NEW key, NEW part \in Part, NEW value, NEW base,
           Acceptable(c, key, part, value, base),
           Licensed(c, HeadHeight(c), part, value, base),
           NEW x, x = compose_record(c, part, value, base, key)
    PROVE  LET d == Append(c, x)
           IN  /\ ChainInv(d) /\ AmendedTo(c, d, x, part)
               /\ AmendsHead(c, x, part, base) /\ x.parts[part] = value
<1> DEFINE d == Append(c, x)
           n == HeadHeight(c)
<1>1. Healthy(c) /\ Founded(c)
  BY DEF ChainInv, Healthy
<1>2. AmendsHead(c, x, part, base) /\ x.namespace = "company"
  BY ComposedAmends
<1>3. AmendedTo(c, d, x, part)
  BY <1>1, <1>2, AmendKeepsHealthy
<1>4. x.parts[part] = value
  BY DEF compose_record, Record
<1> HIDE DEF d
<1>5. /\ Healthy(d) /\ Continues(d, c) /\ n \in Nat
      /\ HeadHeight(d) = n + 1 /\ RecordAt(d, n + 1) = x
  BY <1>3 DEF AmendedTo
<1> HIDE DEF n
<1>6. n \in 0..HeadHeight(c) /\ (n + 1) - 1 = n /\ n + 1 \in 1..HeadHeight(d)
  BY <1>5 DEF n
<1>7. base = provider_of(c, n, part) /\ provider_of(d, n, part) = provider_of(c, n, part)
  BY <1>1, <1>5, <1>6, PastReadings DEF Acceptable, n
<1>8. DOMAIN x.parts = {part} /\ x.supersedes = Some(base)
  BY <1>2 DEF AmendsHead
<1>9. Licensed(d, n, part, value, base)
  <2>1. Licensed(c, n, part, value, base)
    BY DEF n
  <2>2. CASE <<part, value>> \in Amendment
    BY <2>2 DEF Licensed
  <2>3. CASE <<part, value>> \notin Amendment
    <3>1. PICK a \in 0..n :
             /\ Approves(c, a) /\ ApprovedOf(c, a) = <<part, value>>
             /\ RecordAt(c, a).snapshot.height \in 0..n
             /\ base = provider_of(c, RecordAt(c, a).snapshot.height, part)
      BY <2>1, <2>3 DEF Licensed
    <3>2. RecordAt(d, a) = RecordAt(c, a)
      BY <1>1, <1>5, <1>6, PastReadings
    <3>3. Approves(d, a) /\ ApprovedOf(d, a) = <<part, value>>
      BY <3>1, <3>2 DEF Approves, ApprovedOf
    <3>4. base = provider_of(d, RecordAt(c, a).snapshot.height, part)
      BY <1>1, <1>5, <3>1, PastReadings DEF n
    <3> QED
      BY <3>1, <3>2, <3>3, <3>4 DEF Licensed
  <2> QED
    BY <2>2, <2>3
<1>10. Published(d, n + 1)
  BY <1>4, <1>5, <1>6, <1>7, <1>8, <1>9 DEF Published
<1>11. RecordStands(d, HeadHeight(d)) /\ RecordAt(d, HeadHeight(d)).namespace # "execution"
  BY <1>2, <1>5, <1>10 DEF RecordStands
<1>12. HeadHeight(d) = HeadHeight(c) + 1
  BY <1>5 DEF n
<1>13. ChainInv(d)
  BY <1>5, <1>11, <1>12, OneMore
<1> QED
  BY <1>2, <1>3, <1>4, <1>13 DEF d

(* A record of no company in order is appended by a governance signer.     *)
LEMMA OtherGrows ==
    ASSUME NEW c, ChainInv(c), NEW x, ~IsCompanyRecord(x), DOMAIN x.parts = {},
           RecordStands(Append(c, x), HeadHeight(c) + 1),
           x.namespace = "execution" => ~Executed(c, x.resolution)
    PROVE  /\ ChainInv(Append(c, x)) /\ Continues(Append(c, x), c)
<1> DEFINE d == Append(c, x)
<1>1. /\ Healthy(d) /\ Continues(d, c)
      /\ HeadHeight(d) = HeadHeight(c) + 1 /\ RecordAt(d, HeadHeight(c) + 1) = x
  BY OtherKeepsHealthy DEF ChainInv
<1>2. RecordStands(d, HeadHeight(c) + 1)
  OBVIOUS
<1> HIDE DEF d
<1>3. ChainInv(d)
  BY <1>1, <1>2, OneMore
<1> QED
  BY <1>1, <1>3 DEF d

(* A decision recorded is in order (DecisionV1::finalize).                 *)
LEMMA DecideGrows ==
    ASSUME NEW c, ChainInv(c), NEW key, NEW id, NEW at \in 0..HeadHeight(c),
           NEW proposal, Resolvable(proposal),
           Freezable(c, at, id), NEW snapshot, snapshot = Snapshot(c, at, id, proposal),
           NEW signature, Recordable(c, snapshot, signature, key),
           NEW x, x = DecisionRecord(snapshot, signature, key)
    PROVE  ChainInv(Append(c, x)) /\ Continues(Append(c, x), c)
<1> DEFINE d == Append(c, x)
           n == HeadHeight(c)
<1>1. /\ x.namespace = "decision" /\ x.parts = NoParts /\ x.signer = key
      /\ x.snapshot = snapshot /\ x.signature = signature
  BY DEF DecisionRecord
<1>2. ~IsCompanyRecord(x) /\ DOMAIN x.parts = {}
  BY <1>1 DEF IsCompanyRecord, NoParts
<1>3. GovernanceSigner(c, key) /\ check_signature(snapshot, signature)
  BY DEF Recordable
<1>4. /\ Continues(d, c) /\ n \in Nat
      /\ RecordAt(d, n + 1) = x /\ signer_authorised_at(d, n + 1, key)
  BY <1>2, <1>3, OtherAdded DEF ChainInv
<1>5. /\ snapshot.height = at /\ snapshot.channel = id /\ snapshot.proposal = proposal
  BY DEF Snapshot
<1>6. FrozenOn(c, snapshot)
  BY <1>5 DEF FrozenOn
<1> HIDE DEF d
<1>7. FrozenOn(d, snapshot)
  BY <1>4, <1>6, StillFrozen DEF ChainInv, Healthy
<1>8. snapshot.height < n + 1
  BY <1>4, <1>5
<1>9. DecisionStands(d, n + 1)
  BY <1>1, <1>3, <1>4, <1>7, <1>8 DEF DecisionStands
<1>10. Resolvable(ApprovedOf(d, n + 1))
  BY <1>1, <1>4, <1>5 DEF ApprovedOf
<1>11. RecordStands(d, n + 1)
  BY <1>1, <1>4, <1>9, <1>10 DEF RecordStands
<1> QED
  BY <1>1, <1>2, <1>11, OtherGrows DEF d, n

(* A meeting convened by a governance signer is in order.                  *)
LEMMA ConveneGrows ==
    ASSUME NEW c, ChainInv(c), NEW key, GovernanceSigner(c, key), NEW id, NEW agenda,
           IsChain(agenda), \A n \in DOMAIN agenda : Resolvable(agenda[n].proposal),
           NEW x, x = ConvenedRecord(CompanyOf(c), id, agenda, key)
    PROVE  ChainInv(Append(c, x)) /\ Continues(Append(c, x), c)
<1> DEFINE d == Append(c, x)
           n == HeadHeight(c)
<1>1. /\ x.namespace = "meeting" /\ x.kind = "convened" /\ x.parts = NoParts
      /\ x.signer = key /\ x.company = CompanyOf(c) /\ x.channel = id /\ x.agenda = agenda
  BY DEF ConvenedRecord
<1>2. ~IsCompanyRecord(x) /\ DOMAIN x.parts = {}
  BY <1>1 DEF IsCompanyRecord, NoParts
<1>3. /\ Continues(d, c) /\ n \in Nat /\ HeadHeight(d) = n + 1
      /\ RecordAt(d, n + 1) = x /\ signer_authorised_at(d, n + 1, key)
  BY <1>2, OtherAdded DEF ChainInv
<1> HIDE DEF d
<1>4. CompanyOf(d) = CompanyOf(c)
  BY <1>3, StillFounded DEF ChainInv, Healthy
<1>5. ConvenedAt(d, n + 1, x.channel, x.agenda)
  BY <1>1, <1>3, <1>4 DEF ConvenedAt
<1>6. MeetingOK(d, n + 1)
  BY <1>1, <1>3, <1>5 DEF MeetingOK
<1>7. RecordStands(d, n + 1)
  BY <1>1, <1>3, <1>6 DEF RecordStands
<1> QED
  BY <1>1, <1>2, <1>7, OtherGrows DEF d, n

-----------------------------------------------------------------------------
(* A meeting that is held and recorded: a record for each item put to the  *)
(* vote, in the order of the agenda, and one for its end.                  *)

(* Items put to the vote are numbered without a gap.                       *)
LEMMA PlacesNumber ==
    ASSUME NEW agenda, IsChain(agenda)
    PROVE  LET K == Cardinality(VoteItems(agenda))
           IN  /\ K \in Nat
               /\ \A n \in VoteItems(agenda) : Place(agenda, n) \in 1..K
               /\ \A n, m \in VoteItems(agenda) :
                     Place(agenda, n) = Place(agenda, m) => n = m
               /\ \A i \in 1..K : \E n \in VoteItems(agenda) : Place(agenda, n) = i
<1> DEFINE V == VoteItems(agenda)
           K == Cardinality(V)
           Below(n) == {k \in V : k <= n}
<1>1. V \subseteq 1..Len(agenda) /\ Len(agenda) \in Nat
  BY DEF VoteItems, IsChain
<1>2. \A n : Place(agenda, n) = Cardinality(Below(n))
  BY DEF Place
<1> HIDE DEF V
<1>3. IsFiniteSet(V) /\ K \in Nat /\ V \subseteq Nat
  <2>1. IsFiniteSet(1..Len(agenda))
    BY <1>1, FS_Interval
  <2>2. IsFiniteSet(V)
    BY <1>1, <2>1, FS_Subset
  <2>3. \A n \in 1..Len(agenda) : n \in Nat
    OBVIOUS
  <2> QED
    BY <1>1, <2>2, <2>3, FS_CardinalityType
<1>4. ASSUME NEW n \in V
      PROVE  /\ IsFiniteSet(Below(n)) /\ Cardinality(Below(n)) \in 1..K
             /\ n \in Below(n)
  <2>1. n \in Below(n) /\ Below(n) \in SUBSET V
    BY <1>3
  <2>2. /\ IsFiniteSet(Below(n)) /\ Cardinality(Below(n)) \in Nat
        /\ Cardinality(Below(n)) <= K
    <3> HIDE DEF Below
    <3> QED
      BY <1>3, <2>1, FS_Subset, FS_CardinalityType
  <2>3. Cardinality(Below(n)) # 0
    <3> HIDE DEF Below
    <3> QED
      BY <2>1, <2>2, FS_EmptySet
  <2> QED
    BY <1>3, <2>1, <2>2, <2>3
<1>5. ASSUME NEW n \in V, NEW m \in V, n <= m,
             Cardinality(Below(n)) = Cardinality(Below(m))
      PROVE  n = m
  <2>1. Below(n) \in SUBSET Below(m)
    <3>1. n \in Nat /\ m \in Nat /\ \A k \in V : k \in Nat
      BY <1>3
    <3>2. \A k \in V : k <= n => k <= m
      BY <1>5, <3>1
    <3> QED
      BY <3>2
  <2>2. Below(m) = Below(n)
    <3> HIDE DEF Below
    <3> QED
      BY <1>4, <1>5, <2>1, FS_Subset
  <2>3. m \in Below(n)
    BY <1>4, <2>2
  <2> QED
    BY <1>3, <1>5, <2>3
<1> DEFINE P(n) == Cardinality(Below(n))
<1>6. \A n \in V : P(n) \in 1..K
  BY <1>4
<1>7. \A n, m \in V : P(n) = P(m) => n = m
  <2> SUFFICES ASSUME NEW n \in V, NEW m \in V, P(n) = P(m) PROVE n = m
    OBVIOUS
  <2>1. n <= m \/ m <= n
    BY <1>3
  <2> QED
    BY <1>5, <2>1
<1> HIDE DEF P, K
<1>8. \A i \in 1..K : \E n \in V : P(n) = i
  <2> DEFINE f == [n \in V |-> P(n)]
  <2>1. f \in Injection(V, 1..K)
    BY <1>6, <1>7 DEF Injection, IsInjective
  <2>2. IsFiniteSet(1..K) /\ Cardinality(1..K) = K
    BY <1>3, FS_Interval
  <2>3. f \in Surjection(V, 1..K)
    <3>1. Cardinality(V) = Cardinality(1..K)
      BY <2>2 DEF K
    <3> HIDE DEF f
    <3> QED
      BY <2>1, <2>2, <3>1, FS_Injection
  <2> QED
    BY <2>3 DEF Surjection
<1> QED
  BY <1>2, <1>3, <1>6, <1>7, <1>8 DEF V, K, P

(* A vote of everybody, counted and recorded, is in order.                 *)
LEMMA UnanimousStands ==
    ASSUME NEW c, Founded(c), NEW d, Continues(d, c), NEW at \in 0..HeadHeight(c),
           NEW id, VoteFreezable(c, at, id), NEW proposal, NEW choice,
           NEW s, s = VoteSnapshot(c, at, id, proposal),
           NEW ballots, ballots = Unanimous(s, choice),
           \A voter \in DOMAIN ballots : check_ballot(ballots[voter], s),
           NEW result, evaluate_now(c, s, ballots, result),
           NEW h, at < h, NEW key, signer_authorised_at(d, h, key),
           NEW x, x.namespace = "vote", x.snapshot = s, x.ballots = ballots,
           x.evaluation = result, x.signer = key, RecordAt(d, h) = x
    PROVE  VoteStands(d, h)
<1>1. RollFrozenOn(c, s)
  BY FreezingFreezes
<1>2. RollFrozenOn(d, s)
  BY <1>1, StillRollFrozen
<1>3. BallotsStand(s, ballots)
  <2>1. \A voter \in DOMAIN ballots : ballots[voter].voter = voter
    BY DEF Unanimous, SignedBallot
  <2> QED
    BY <2>1 DEF BallotsStand
<1>4. Counted(c, s, ballots, result)
  BY DEF evaluate_now, Counted
<1>5. Counted(d, s, ballots, result)
  BY <1>1, <1>4, StillCounted
<1>6. s.height = at
  BY DEF VoteSnapshot
<1> QED
  BY <1>2, <1>3, <1>5, <1>6 DEF VoteStands

(* What is held of a vote that has been counted.                           *)
LEMMA VotedHolds ==
    ASSUME NEW convened, NEW at, NEW number, NEW choice,
           NEW s, s = VoteSnapshot(chain, at, convened.channel,
                                   subject_of(convened.agenda, number)),
           NEW v, v = Voted(convened, at, number, choice)
    PROVE  /\ Content(v.snapshot) = s /\ v.ballots = Unanimous(s, choice)
           /\ v.finalized = Some(HeadHeight(chain) + Place(convened.agenda, number))
           /\ s.height = at /\ s.channel = convened.channel
           /\ s.proposal = <<number, convened.agenda[number].proposal>>
<1>1. /\ v.snapshot = Some(s) /\ v.ballots = Unanimous(s, choice)
      /\ v.finalized = Some(HeadHeight(chain) + Place(convened.agenda, number))
  BY DEF Voted
<1>2. /\ s.height = at /\ s.channel = convened.channel
      /\ s.proposal = <<number, convened.agenda[number].proposal>>
  BY DEF VoteSnapshot, subject_of
<1> QED
  BY <1>1, <1>2, ContentOfSome

(* Each record of a vote stands on the chain that the meeting leaves, and  *)
(* answers its item.                                                       *)
LEMMA MeetGrows ==
    ASSUME ChainInv(chain), NEW key \in Key,
           NEW convening \in RecordsOf(chain, "meeting"),
           RecordAt(chain, convening).kind = "convened",
           NEW at \in convening..HeadHeight(chain), NEW choices,
           Meet(key, convening, at, choices)
    PROVE  ChainInv(chain') /\ Continues(chain', chain)
<1> DEFINE convened == RecordAt(chain, convening)
           id == convened.channel
           agenda == convened.agenda
           V == VoteItems(agenda)
           votes == [k \in V |-> Voted(convened, at, k, choices[k])]
           VoteAt(i) == CHOOSE k \in DOMAIN votes : Place(agenda, k) = i
           meeting == [channel |-> id, items |-> agenda, votes |-> votes,
                       convened |-> Some(convening), opened_at |-> Some(at)]
           K == Cardinality(V)
           A == [i \in 1..K |-> VoteRecord(votes[VoteAt(i)], key)]
           F == FinalRecord(CompanyOf(chain), meeting, key)
           d1 == chain \o A
           n == HeadHeight(chain)
           S(k) == VoteSnapshot(chain, at, id, subject_of(agenda, k))
<1>1. /\ VoteFreezable(chain, at, id) /\ GovernanceSigner(chain, key)
      /\ \A k \in DOMAIN votes :
            /\ \A voter \in DOMAIN votes[k].ballots :
                  check_ballot(votes[k].ballots[voter], Content(votes[k].snapshot))
            /\ evaluate_now(chain, Content(votes[k].snapshot), votes[k].ballots,
                            Content(votes[k].evaluation))
      /\ chain' = chain \o [i \in 1..Cardinality(DOMAIN votes) |->
                               VoteRecord(votes[VoteAt(i)], key)]
                        \o <<F>>
  BY DEF Meet
<1>2. DOMAIN votes = V
  OBVIOUS
<1>3. chain' = d1 \o <<F>>
  BY <1>1, <1>2
<1>4. Healthy(chain) /\ Founded(chain) /\ IsChain(chain) /\ n \in Nat
  BY Heights DEF ChainInv, Healthy, Founded
<1>5. /\ ConvenedAt(chain, convening, id, agenda) /\ IsChain(agenda)
      /\ \A k \in DOMAIN agenda : Resolvable(agenda[k].proposal)
      /\ convening \in 0..n /\ at \in 0..n /\ convening <= at
  <2>1. convening \in 0..n /\ convened.namespace = "meeting"
    BY DEF RecordsOf
  <2>2. MeetingOK(chain, convening) /\ ~MeetingStands(chain, convening)
    BY <2>1 DEF ChainInv, RecordStands, MeetingStands
  <2>3. at \in 0..n /\ convening <= at
    BY <1>4, <2>1
  <2> QED
    BY <2>1, <2>2, <2>3 DEF MeetingOK
<1>6. /\ K \in Nat
      /\ \A k \in V : Place(agenda, k) \in 1..K
      /\ \A k, m \in V : Place(agenda, k) = Place(agenda, m) => k = m
      /\ \A i \in 1..K : \E k \in V : Place(agenda, k) = i
  BY <1>5, PlacesNumber
<1>7. \A i \in 1..K : VoteAt(i) \in V /\ Place(agenda, VoteAt(i)) = i
  BY <1>2, <1>6
<1>8. \A k \in V : VoteAt(Place(agenda, k)) = k
  BY <1>6, <1>7
<1>9. \A k \in V : votes[k] = Voted(convened, at, k, choices[k])
  OBVIOUS
<1>10. V \subseteq DOMAIN agenda
  BY DEF VoteItems
<1> HIDE DEF votes, V, VoteAt
<1>11. ASSUME NEW k \in V
       PROVE  /\ Content(votes[k].snapshot) = S(k)
              /\ votes[k].ballots = Unanimous(S(k), choices[k])
              /\ votes[k].finalized = Some(n + Place(agenda, k))
              /\ S(k).height = at /\ S(k).channel = id
              /\ S(k).proposal = <<k, agenda[k].proposal>>
  <2> HIDE DEF convened
  <2> QED
    BY <1>9, VotedHolds DEF convened
<1> HIDE DEF S
<1>12. /\ IsChain(A) /\ Len(A) = K
       /\ \A i \in 1..K : A[i] = VoteRecord(votes[VoteAt(i)], key)
  BY <1>6 DEF IsChain
<1> HIDE DEF A
<1>13. \A i \in 1..Len(A) : ~IsCompanyRecord(A[i]) /\ DOMAIN A[i].parts = {}
  BY <1>12 DEF VoteRecord, IsCompanyRecord, NoParts
<1>14. OthersAdded(chain, d1, A)
  BY <1>4, <1>12, <1>13, OthersKeepHealthy
<1> HIDE DEF d1
<1>15. /\ Healthy(d1) /\ Continues(d1, chain) /\ HeadHeight(d1) = n + K
       /\ \A i \in 1..K : RecordAt(d1, n + i) = A[i]
       /\ \A h \in n..(n + K) : signer_authorised_at(d1, h, key)
  <2>1. \A h \in n..HeadHeight(d1) : signer_authorised_at(d1, h, key)
    BY <1>1, <1>14 DEF OthersAdded, GovernanceSigner, signer_authorised_at
  <2> QED
    BY <1>12, <1>14, <2>1 DEF OthersAdded
<1>16. ASSUME NEW k \in V
       PROVE  /\ VoteStands(d1, n + Place(agenda, k))
              /\ RecordAt(d1, n + Place(agenda, k)).namespace = "vote"
              /\ RecordAt(d1, n + Place(agenda, k)).snapshot = S(k)
              /\ RecordAt(d1, n + Place(agenda, k)).evaluation =
                    Content(votes[k].evaluation)
  <2> DEFINE h == n + Place(agenda, k)
             x == VoteRecord(votes[k], key)
  <2>1. Place(agenda, k) \in 1..K /\ VoteAt(Place(agenda, k)) = k
    BY <1>6, <1>8
  <2>2. RecordAt(d1, h) = x
    BY <1>12, <1>15, <2>1
  <2>3. /\ x.namespace = "vote" /\ x.snapshot = S(k) /\ x.ballots = votes[k].ballots
        /\ x.evaluation = Content(votes[k].evaluation) /\ x.signer = key
    BY <1>11 DEF VoteRecord
  <2>4. at < h /\ h \in n..(n + K)
    BY <1>4, <1>5, <1>6, <2>1
  <2>5. signer_authorised_at(d1, h, key)
    BY <1>15, <2>4
  <2> HIDE DEF h, x
  <2>6. VoteStands(d1, h)
    <3> DEFINE result == Content(votes[k].evaluation)
               ballots == votes[k].ballots
    <3>1. /\ \A voter \in DOMAIN ballots : check_ballot(ballots[voter], S(k))
          /\ evaluate_now(chain, S(k), ballots, result)
      BY <1>1, <1>2, <1>11
    <3>2. /\ S(k) = VoteSnapshot(chain, at, id, subject_of(agenda, k))
          /\ ballots = Unanimous(S(k), choices[k])
      BY <1>11 DEF S
    <3>3. x.ballots = ballots /\ x.evaluation = result
      BY <2>3
    <3> HIDE DEF ballots, result
    <3> QED
      BY <1>1, <1>4, <1>5, <1>15, <2>2, <2>3, <2>4, <2>5, <3>1, <3>2, <3>3, UnanimousStands
  <2> QED
    BY <2>2, <2>3, <2>6 DEF h
<1>17. ChainInv(d1)
  <2>1. ASSUME NEW h \in (n + 1)..(n + K)
        PROVE  RecordStands(d1, h) /\ RecordAt(d1, h).namespace # "execution"
    <3>1. h - n \in 1..K /\ n + (h - n) = h
      BY <1>4, <1>6
    <3>2. PICK k \in V : Place(agenda, k) = h - n
      BY <1>6, <3>1
    <3>3. /\ VoteStands(d1, h) /\ RecordAt(d1, h).namespace = "vote"
          /\ RecordAt(d1, h).snapshot = S(k)
      BY <1>16, <3>1, <3>2
    <3>4. ApprovedOf(d1, h) = agenda[k].proposal
      BY <1>11, <3>3 DEF ApprovedOf
    <3> QED
      BY <1>5, <1>10, <3>3, <3>4 DEF RecordStands
  <2>2. NewRecordsStand(chain, d1)
    BY <1>15, <2>1 DEF NewRecordsStand
  <2> QED
    BY <1>15, <2>2, ChainGrows
<1> DEFINE d == d1 \o <<F>>
           x == F
           top == n + K + 1
<1>18. /\ x.namespace = "meeting" /\ x.kind = "final" /\ DOMAIN x.parts = {}
       /\ x.company = CompanyOf(chain) /\ x.meeting_id = convening
       /\ x.channel = id /\ x.opened_at = at
       /\ DOMAIN x.items = DOMAIN agenda
       /\ \A k \in DOMAIN agenda : x.items[k] = FinalItem(meeting, k)
       /\ x.signer = key /\ ~IsCompanyRecord(x)
  <2>1. Content(Some(convening)) = convening /\ Content(Some(at)) = at
    BY ContentOfSome
  <2>2. /\ meeting.convened = Some(convening) /\ meeting.opened_at = Some(at)
        /\ meeting.channel = id /\ meeting.items = agenda
    OBVIOUS
  <2> HIDE DEF meeting
  <2> QED
    BY <2>1, <2>2 DEF FinalRecord, NoParts, IsCompanyRecord
<1>19. \A k \in DOMAIN agenda :
          /\ FinalItem(meeting, k).item = agenda[k]
          /\ FinalItem(meeting, k).vote_tx =
                IF k \in V THEN votes[k].finalized ELSE None
          /\ FinalItem(meeting, k).accepted =
                IF k \in V THEN Some(Content(votes[k].evaluation).accepted) ELSE None
  BY <1>2 DEF FinalItem
<1> HIDE DEF F, meeting, x
<1>20. OthersAdded(d1, d, <<x>>)
  <2>1. IsChain(<<x>>) /\ Len(<<x>>) = 1 /\ \A i \in 1..1 : <<x>>[i] = x
    BY DEF IsChain
  <2> QED
    BY <1>15, <1>18, <2>1, OthersKeepHealthy DEF x
<1> HIDE DEF d
<1>21. /\ Healthy(d) /\ Continues(d, d1) /\ HeadHeight(d) = top
       /\ RecordAt(d, top) = x /\ signer_authorised_at(d, top, key)
       /\ top \in Nat /\ top \in 0..HeadHeight(d)
  <2>1. /\ Len(<<x>>) = 1 /\ <<x>>[1] = x /\ 1 \in 1..1
    OBVIOUS
  <2>2. HeadHeight(d) = (n + K) + 1 /\ RecordAt(d, (n + K) + 1) = x /\ Healthy(d)
        /\ Continues(d, d1)
    BY <1>15, <1>20, <2>1 DEF OthersAdded
  <2>3. n + K \in n..(n + K) /\ top \in (n + K)..top /\ top = (n + K) + 1
    BY <1>4, <1>6
  <2>4. authorised_signer(d, top, "governance", key) /\ Reconstructs(d, top)
    BY <1>15, <1>20, <2>2, <2>3 DEF OthersAdded, signer_authorised_at
  <2> QED
    BY <1>4, <1>6, <2>2, <2>3, <2>4 DEF signer_authorised_at
<1>22. /\ Continues(d, chain) /\ CompanyOf(d) = CompanyOf(chain)
       /\ ConvenedAt(d, convening, id, agenda)
  <2>1. Continues(d, chain)
    BY <1>15, <1>21, ContinuesTransitive
  <2> QED
    BY <1>4, <1>5, <2>1, StillFounded, StillConvened
<1>23. AgendaOf(x.items) = agenda
  <2>1. agenda = [k \in DOMAIN agenda |-> agenda[k]]
    BY <1>5 DEF IsChain
  <2>2. \A k \in DOMAIN agenda : x.items[k].item = agenda[k]
    BY <1>18, <1>19
  <2>3. AgendaOf(x.items) = [k \in DOMAIN agenda |-> x.items[k].item]
    BY <1>18 DEF AgendaOf
  <2> HIDE DEF agenda
  <2> QED
    BY <2>1, <2>2, <2>3
<1>24. ASSUME NEW k \in DOMAIN agenda PROVE ItemStands(d, top, x, k)
  <2> DEFINE entry == x.items[k]
             tx == n + Place(agenda, k)
  <2>1. /\ entry.item = agenda[k]
        /\ entry.vote_tx = IF k \in V THEN votes[k].finalized ELSE None
        /\ entry.accepted =
              IF k \in V THEN Some(Content(votes[k].evaluation).accepted) ELSE None
    BY <1>18, <1>19
  <2>2. entry.item.is_vote <=> k \in V
    BY <2>1 DEF VoteItems, V
  <2>3. CASE k \notin V
    BY <2>1, <2>2, <2>3 DEF ItemStands
  <2>4. CASE k \in V
    <3>1. entry.vote_tx = Some(tx) /\ Content(entry.vote_tx) = tx
      BY <1>11, <2>1, <2>4, ContentOfSome
    <3>2. tx \in 0..HeadHeight(d1) /\ tx \in 0..HeadHeight(d) /\ tx < top /\ tx \in 0..tx
      BY <1>4, <1>6, <1>15, <1>21, <2>4
    <3>3. /\ VoteStands(d1, tx) /\ RecordAt(d1, tx).snapshot = S(k)
          /\ RecordAt(d1, tx).evaluation = Content(votes[k].evaluation)
      BY <1>16, <2>4
    <3>4. /\ S(k).height = at /\ S(k).channel = id
          /\ S(k).proposal = <<k, agenda[k].proposal>>
      BY <1>11, <2>4
    <3>5. entry.accepted = Some(Content(votes[k].evaluation).accepted)
      BY <2>1, <2>4
    <3> HIDE DEF tx, entry, agenda, id, top
    <3>6. VoteStands(d, tx)
      BY <1>15, <1>21, <3>2, <3>3, VoteStillStands DEF Healthy
    <3>7. RecordAt(d, tx) = RecordAt(d1, tx)
      BY <1>15, <1>21, <3>2, PastReadings DEF Healthy
    <3>8. ItemVoted(d, top, entry, at, id, <<k, agenda[k].proposal>>)
      BY <3>1, <3>2, <3>3, <3>4, <3>5, <3>6, <3>7 DEF ItemVoted
    <3>9. subject_of(AgendaOf(x.items), k) = <<k, agenda[k].proposal>>
      BY <1>23 DEF subject_of
    <3> QED
      BY <1>18, <2>2, <2>4, <3>8, <3>9 DEF ItemStands, entry
  <2> QED
    BY <2>3, <2>4
<1>25. at < top
  BY <1>4, <1>5, <1>6
<1> HIDE DEF top, agenda, id
<1>26. MeetingStands(d, top)
  BY <1>5, <1>18, <1>21, <1>22, <1>23, <1>24, <1>25 DEF MeetingStands
<1>27. RecordStands(d, top) /\ RecordAt(d, top).namespace # "execution"
  BY <1>18, <1>21, <1>26 DEF RecordStands, MeetingOK
<1>28. top = HeadHeight(d1) + 1
  BY <1>15, <1>4, <1>6 DEF top
<1>29. ChainInv(d)
  BY <1>17, <1>21, <1>27, <1>28, OneMore
<1>30. chain' = d
  BY <1>3 DEF d, x
<1> QED
  BY <1>22, <1>29, <1>30

-----------------------------------------------------------------------------
(* The inductive invariant: what a state file says was finalised is on the *)
(* chain, and a command that has amended the company has done so by its    *)
(* resolution and is alone in holding the chain.                           *)

StateFields == {"status", "authority", "proposal", "finalized", "executed"}

FinalizedOK(c, r, state) ==
    /\ ResolutionStands(c, r)
    /\ RecordAt(c, r).authority = state.authority
    /\ RecordAt(c, r).proposal = state.proposal

StateOK(c, state) ==
    /\ DOMAIN state = StateFields
    /\ state.status \in {"Draft", "Finalized", "Executed"}
    /\ AuthorityOK(c, state.authority)
    /\ state.status = "Finalized" => FinalizedOK(c, Content(state.finalized), state)

FileOK(c, f) == f \in {Missing, Torn} \/ StateOK(c, f)

(* The amendment at the head executed the resolution, which nothing else   *)
(* did, and the key may still sign the record of it, unless it was the     *)
(* amendment that took the right away.                                     *)
Pending(c, state, key, base) ==
    LET r == Content(state.finalized)
        target == state.proposal[1]
    IN  /\ StateOK(c, state) /\ state.status = "Finalized"
        /\ Effected(c, HeadHeight(c), r, target, base)
        /\ ~Executed(c, r)
        /\ SignersOf(target) \/ signer_authorised_at(c, HeadHeight(c), key)

CommandOK(c, cmd) ==
    \/ cmd = Idle
    \/ \E path \in File : \E opens \in BOOLEAN : \E state :
          cmd = Saving(path, opens, state) /\ StateOK(c, state)
    \/ \E path \in File : \E state, key, base :
          cmd = Amended(path, state, key, base) /\ Pending(c, state, key, base)

ResolutionInv ==
    /\ ChainInv(chain)
    /\ DOMAIN file = File /\ DOMAIN command = Process
    /\ \A path \in File : FileOK(chain, file[path])
    /\ \A p \in Process : CommandOK(chain, command[p])
    /\ \A p, q \in Process : Opens(command[p]) /\ Opens(command[q]) => p = q

(* What a file says of a chain it says of every chain that continues it.   *)
LEMMA StateStays ==
    ASSUME NEW c, NEW d, Founded(c), Continues(d, c), NEW state, StateOK(c, state)
    PROVE  StateOK(d, state)
<1>1. AuthorityOK(d, state.authority)
  BY StillApproved DEF StateOK
<1>2. ASSUME state.status = "Finalized"
      PROVE  FinalizedOK(d, Content(state.finalized), state)
  <2> DEFINE r == Content(state.finalized)
  <2>1. FinalizedOK(c, r, state)
    BY <1>2 DEF StateOK
  <2> HIDE DEF r
  <2>2. ResolutionStands(d, r) /\ RecordAt(d, r) = RecordAt(c, r)
    BY <2>1, ResolutionStillStands DEF FinalizedOK
  <2>3. FinalizedOK(d, r, state)
    BY <2>1, <2>2 DEF FinalizedOK
  <2> QED
    BY <2>3 DEF r
<1> QED
  BY <1>1, <1>2 DEF StateOK

(* What each stage of a command holds.                                     *)
LEMMA CommandStages ==
    ASSUME NEW c, NEW cmd, CommandOK(c, cmd)
    PROVE  /\ cmd = Idle => cmd.stage = "idle"
           /\ cmd.stage = "saving" =>
                 cmd.path \in File /\ StateOK(c, cmd.state) /\ cmd.opens \in BOOLEAN
           /\ cmd.stage = "amended" =>
                 cmd.path \in File /\ Pending(c, cmd.state, cmd.key, cmd.replaced)
           /\ cmd.stage \in {"idle", "saving", "amended"}
<1>1. CASE cmd = Idle
  BY <1>1 DEF Idle
<1>2. ASSUME NEW path \in File, NEW opens \in BOOLEAN, NEW state,
             cmd = Saving(path, opens, state), StateOK(c, state)
      PROVE  /\ cmd.stage = "saving" /\ cmd # Idle
             /\ cmd.path \in File /\ StateOK(c, cmd.state) /\ cmd.opens \in BOOLEAN
  BY <1>2 DEF Saving, Idle
<1>3. ASSUME NEW path \in File, NEW state, NEW key, NEW base,
             cmd = Amended(path, state, key, base), Pending(c, state, key, base)
      PROVE  /\ cmd.stage = "amended" /\ cmd # Idle
             /\ cmd.path \in File /\ Pending(c, cmd.state, cmd.key, cmd.replaced)
  BY <1>3 DEF Amended, Idle
<1> QED
  BY <1>1, <1>2, <1>3 DEF CommandOK

(* A command that is not between its two records holds what it holds       *)
(* whatever is appended.                                                   *)
LEMMA CommandStays ==
    ASSUME NEW c, NEW d, Founded(c), Continues(d, c), NEW cmd, CommandOK(c, cmd),
           cmd.stage # "amended"
    PROVE  CommandOK(d, cmd)
<1>1. CASE cmd = Idle
  BY <1>1 DEF CommandOK
<1>2. CASE cmd # Idle
  <2>1. ~ \E path \in File : \E state, key, base :
            cmd = Amended(path, state, key, base) /\ Pending(c, state, key, base)
    BY DEF Amended
  <2>2. PICK path \in File : \E opens \in BOOLEAN : \E state :
            cmd = Saving(path, opens, state) /\ StateOK(c, state)
    BY <1>2, <2>1 DEF CommandOK
  <2>3. PICK opens \in BOOLEAN : \E state :
            cmd = Saving(path, opens, state) /\ StateOK(c, state)
    BY <2>2
  <2>4. PICK state : cmd = Saving(path, opens, state) /\ StateOK(c, state)
    BY <2>3
  <2>5. StateOK(d, state)
    BY <2>4, StateStays
  <2> QED
    BY <2>4, <2>5 DEF CommandOK
<1> QED
  BY <1>1, <1>2

(* When the chain grows and nobody holds it but those in p, everybody else *)
(* is where they were.                                                     *)
LEMMA GrowKeepsStages ==
    ASSUME ResolutionInv, NEW p \in Process, ChainInv(chain'), Continues(chain', chain),
           \A q \in Process \ {p} : ~Opens(command[q]),
           NEW cmd, CommandOK(chain', cmd),
           command' = [command EXCEPT ![p] = cmd], file' = file
    PROVE  ResolutionInv'
<1>1. Founded(chain)
  BY DEF ResolutionInv, ChainInv, Healthy
<1>2. \A path \in File : FileOK(chain', file'[path])
  BY <1>1, StateStays DEF ResolutionInv, FileOK
<1>3. DOMAIN command' = Process /\ command'[p] = cmd
      /\ \A q \in Process \ {p} : command'[q] = command[q]
  BY DEF ResolutionInv
<1>4. ASSUME NEW q \in Process PROVE CommandOK(chain', command'[q])
  <2>1. CASE q = p
    BY <1>3, <2>1
  <2>2. CASE q # p
    <3>1. command[q].stage # "amended" /\ CommandOK(chain, command[q])
      BY <2>2 DEF Opens, ResolutionInv
    <3> QED
      BY <1>1, <1>3, <2>2, <3>1, CommandStays
  <2> QED
    BY <2>1, <2>2
<1>5. \A q, r \in Process : Opens(command'[q]) /\ Opens(command'[r]) => q = r
  <2> SUFFICES ASSUME NEW q \in Process, Opens(command'[q]) PROVE q = p
    OBVIOUS
  <2> QED
    BY <1>3
<1> QED
  BY <1>2, <1>3, <1>4, <1>5 DEF ResolutionInv

(* The same, when it is the rest of the world that appends.                *)
LEMMA OthersKeepStages ==
    ASSUME ResolutionInv, ~Held, ChainInv(chain'), Continues(chain', chain),
           UNCHANGED <<file, command>>
    PROVE  ResolutionInv'
<1>1. Founded(chain)
  BY DEF ResolutionInv, ChainInv, Healthy
<1>2. \A path \in File : FileOK(chain', file'[path])
  BY <1>1, StateStays DEF ResolutionInv, FileOK
<1>3. ASSUME NEW q \in Process PROVE CommandOK(chain', command'[q])
  <2>1. command[q].stage # "amended" /\ CommandOK(chain, command[q])
    BY DEF Held, Opens, ResolutionInv
  <2> QED
    BY <1>1, <2>1, CommandStays
<1> QED
  BY <1>2, <1>3 DEF ResolutionInv

-----------------------------------------------------------------------------
(* The commands.                                                           *)

(* What check_authority accepts, a resolution may rest on: the records     *)
(* that verify are records in order.                                       *)
LEMMA AuthorityRests ==
    ASSUME NEW c, ChainInv(c), NEW authority, AuthorityOK(c, authority), NEW proposal,
           check_authority(c, authority, proposal),
           approval(c, authority).company = CompanyOf(c)
    PROVE  /\ Rests(c, HeadHeight(c) + 1, authority, proposal)
           /\ Decider(authority) \in 0..HeadHeight(c)
           /\ Approves(c, Decider(authority))
           /\ ApprovedOf(c, Decider(authority)) = proposal
           /\ Resolvable(proposal)
<1> DEFINE a == Decider(authority)
           n == HeadHeight(c)
<1>1. n \in Nat
  BY Heights DEF ChainInv, Healthy
<1>2. /\ Granted(c, authority) /\ Decided(c, authority).channel = authority.channel
      /\ Amends(proposal) =>
            WithinChannelScope(c, approval(c, authority), proposal[1])
      /\ approval(c, authority).proposal = proposal
  BY DEF check_authority
<1>3. a \in 0..n /\ DecidedHeight(authority) < n + 1
  BY <1>1 DEF AuthorityOK, Decider, DecidedHeight
<1>4. approval(c, authority).channel = authority.channel
  BY DEF approval
<1>5. Grounded(c, authority) /\ Approves(c, a) /\ RecordStands(c, a)
      /\ (RecordAt(c, a).namespace = "vote" <=> authority.mode # "individual")
  <2>1. CASE authority.mode = "individual"
    <3>1. a = authority.decision /\ verify_decision(c, a) = {}
      BY <1>2, <2>1 DEF Granted, Decider
    <3>2. RecordAt(c, a).namespace = "decision"
      BY <3>1 DEF verify_decision
    <3>3. RecordStands(c, a)
      BY <1>3 DEF ChainInv
    <3>4. DecisionStands(c, a)
      BY <3>2, <3>3 DEF RecordStands
    <3> QED
      BY <2>1, <3>1, <3>2, <3>3, <3>4 DEF Grounded, Approves
  <2>2. CASE authority.mode # "individual"
    <3>1. /\ a = authority.vote /\ verify_vote(c, a) = {}
          /\ verify_meeting(c, authority.meeting) = {} /\ AnsweredBy(c, authority)
          /\ RecordAt(c, a).evaluation.accepted
      BY <1>2, <2>2 DEF Granted, Decider
    <3>2. RecordAt(c, a).namespace = "vote"
      BY <3>1 DEF verify_vote
    <3>3. RecordStands(c, a)
      BY <1>3 DEF ChainInv
    <3>4. VoteStands(c, a)
      BY <3>2, <3>3 DEF RecordStands
    <3>5. MeetingStands(c, authority.meeting)
      <4> DEFINE m == authority.meeting
      <4>1. IsRecord(c, m, "final")
        BY <3>1 DEF verify_meeting
      <4>2. RecordStands(c, m)
        BY <4>1 DEF IsRecord, ChainInv
      <4>3. MeetingOK(c, m) /\ RecordAt(c, m).kind = "final"
        BY <4>1, <4>2 DEF IsRecord, RecordStands
      <4> QED
        BY <4>3 DEF MeetingOK, ConvenedAt
    <3> QED
      BY <2>2, <3>1, <3>2, <3>3, <3>4, <3>5 DEF Grounded, Approves
  <2> QED
    BY <2>1, <2>2
<1>6. ApprovedOf(c, a) = proposal
  BY <1>2, <1>5 DEF ApprovedOf, approval, Decided, Decider
<1>7. Resolvable(proposal)
  BY <1>5, <1>6 DEF Approves, RecordStands
<1> HIDE DEF a
<1>8. Rests(c, n + 1, authority, proposal)
  BY <1>2, <1>3, <1>4, <1>5 DEF Rests
<1> QED
  BY <1>3, <1>5, <1>6, <1>7, <1>8 DEF a

(* finalize writes a resolution that stands, and its state file, once      *)
(* saved, says which one it is.                                            *)
LEMMA FinalizeKeepsResolutions ==
    ASSUME ResolutionInv, NEW p \in Process, NEW path \in File, NEW key \in Key,
           Finalize(p, path, key)
    PROVE  ResolutionInv' /\ Continues(chain', chain)
<1> DEFINE state == file[path]
           n == HeadHeight(chain)
           authority == state.authority
           proposal == state.proposal
           x == ResolutionRecord(CompanyOf(chain), authority, proposal, key)
           d == Append(chain, x)
           saved == [state EXCEPT !.status = "Finalized", !.finalized = Some(n + 1)]
           cmd == Saving(path, TRUE, saved)
<1>1. /\ ~Held /\ state.status = "Draft" /\ GovernanceSigner(chain, key)
      /\ check_authority(chain, authority, proposal)
      /\ approval(chain, authority).company = CompanyOf(chain)
      /\ chain' = d /\ command' = [command EXCEPT ![p] = cmd] /\ file' = file
  BY DEF Finalize
<1>2. StateOK(chain, state)
  BY <1>1 DEF ResolutionInv, FileOK, Missing, Torn
<1>3. DOMAIN state = StateFields /\ AuthorityOK(chain, authority)
  BY <1>2 DEF StateOK
<1>4. ChainInv(chain) /\ Healthy(chain) /\ Founded(chain)
  BY DEF ResolutionInv, ChainInv, Healthy
<1> HIDE DEF state
<1>5. Rests(chain, n + 1, authority, proposal)
  BY <1>1, <1>3, <1>4, AuthorityRests
<1>6. /\ x.namespace = "resolution" /\ x.parts = NoParts /\ x.company = CompanyOf(chain)
      /\ x.authority = authority /\ x.proposal = proposal /\ x.signer = key
  BY DEF ResolutionRecord
<1>7. ~IsCompanyRecord(x) /\ DOMAIN x.parts = {}
  BY <1>6 DEF IsCompanyRecord, NoParts
<1> HIDE DEF x
<1>8. /\ Continues(d, chain) /\ n \in Nat /\ HeadHeight(d) = n + 1
      /\ RecordAt(d, n + 1) = x /\ signer_authorised_at(d, n + 1, key)
  BY <1>1, <1>4, <1>7, OtherAdded
<1> HIDE DEF d, authority, proposal
<1>9. Rests(d, n + 1, authority, proposal) /\ CompanyOf(d) = CompanyOf(chain)
  BY <1>4, <1>5, <1>8, StillRests, StillFounded
<1>10. ResolutionStands(d, n + 1)
  BY <1>6, <1>8, <1>9 DEF ResolutionStands
<1>11. ChainInv(d)
  <2>1. RecordStands(d, n + 1)
    BY <1>6, <1>8, <1>10 DEF RecordStands
  <2> QED
    BY <1>4, <1>6, <1>7, <2>1, OtherGrows DEF d, n
<1>12. StateOK(d, saved)
  <2>1. /\ DOMAIN saved = StateFields /\ saved.status = "Finalized"
        /\ saved.finalized = Some(n + 1)
        /\ saved.authority = authority /\ saved.proposal = proposal
    BY <1>3 DEF StateFields, authority, proposal
  <2> HIDE DEF saved
  <2>2. Content(saved.finalized) = n + 1
    BY <2>1, ContentOfSome
  <2>3. FinalizedOK(d, n + 1, saved)
    BY <1>6, <1>8, <1>10, <2>1 DEF FinalizedOK
  <2>4. AuthorityOK(d, authority)
    BY <1>9 DEF Rests
  <2> QED
    BY <2>1, <2>2, <2>3, <2>4 DEF StateOK
<1> HIDE DEF saved
<1>13. CommandOK(d, cmd)
  BY <1>12 DEF CommandOK
<1>14. \A q \in Process \ {p} : ~Opens(command[q])
  BY <1>1 DEF Held
<1> HIDE DEF cmd
<1>15. ResolutionInv'
  BY <1>1, <1>8, <1>11, <1>13, <1>14, GrowKeepsStages
<1> QED
  BY <1>1, <1>8, <1>15

(* execute amends the company by the resolution, over the very record that *)
(* what it rests on saw in force.                                          *)
LEMMA ExecuteAmendKeepsResolutions ==
    ASSUME ResolutionInv, NEW p \in Process, NEW path \in File, NEW key \in Key,
           ExecuteAmend(p, path, key)
    PROVE  ResolutionInv' /\ Continues(chain', chain)
<1> DEFINE state == file[path]
           n == HeadHeight(chain)
           r == Content(state.finalized)
           authority == state.authority
           proposal == state.proposal
           approved == approval(chain, authority)
           target == proposal[1]
           value == proposal[2]
           base == base_of(chain, approved, target)
           x == compose_record(chain, target, value, base, key)
           d == Append(chain, x)
           cmd == Amended(path, state, key, base)
<1>1. /\ ~Held /\ state.status = "Finalized"
      /\ Executable(chain, r, authority, proposal, key)
      /\ chain' = d /\ command' = [command EXCEPT ![p] = cmd] /\ file' = file
  BY DEF ExecuteAmend
<1>2. StateOK(chain, state)
  BY <1>1 DEF ResolutionInv, FileOK, Missing, Torn
<1>3. AuthorityOK(chain, authority) /\ FinalizedOK(chain, r, state)
  BY <1>1, <1>2 DEF StateOK
<1>4. ChainInv(chain) /\ Healthy(chain) /\ Founded(chain) /\ n \in Nat
  BY Heights DEF ResolutionInv, ChainInv, Healthy
<1>5. /\ Amends(proposal) /\ find_execution(chain, r) = None
      /\ GovernanceSigner(chain, key) /\ provider_of(chain, n, target) = base
      /\ check_authority(chain, authority, proposal)
      /\ \A actor \in approved.actor : DemotionHolds(chain, n, actor, target, value)
      /\ Acceptable(chain, key, target, value, base)
  BY <1>1 DEF Executable
<1>6. /\ ResolutionStands(chain, r) /\ RecordAt(chain, r).authority = authority
      /\ RecordAt(chain, r).proposal = proposal
  BY <1>3 DEF FinalizedOK
<1> HIDE DEF state, r, authority, proposal
<1>7. approved.company = CompanyOf(chain)
  BY <1>6 DEF ResolutionStands, Rests
<1>8. /\ Decider(authority) \in 0..n /\ Approves(chain, Decider(authority))
      /\ ApprovedOf(chain, Decider(authority)) = proposal /\ Resolvable(proposal)
      /\ Grounded(chain, authority)
  <2>1. Rests(chain, n + 1, authority, proposal)
    BY <1>3, <1>4, <1>5, <1>7, AuthorityRests
  <2> QED
    BY <1>3, <1>4, <1>5, <1>7, <2>1, AuthorityRests DEF Rests
<1>9. target \in Part
  BY <1>5, TargetIsPart
<1>10. /\ approved.height \in 0..n
       /\ approved.height = RecordAt(chain, Decider(authority)).snapshot.height
       /\ base = provider_of(chain, approved.height, target)
  <2>1. approved.height = RecordAt(chain, Decider(authority)).snapshot.height
    BY DEF approval, Decided, Decider
  <2> QED
    BY <1>3, <1>4, <1>8, <2>1, GroundedSaw
<1> HIDE DEF base, approved
<1>11. Licensed(chain, n, target, value, base)
  <2>1. proposal = <<target, value>>
    BY <1>8 DEF Resolvable, IsPair
  <2> HIDE DEF target, value, n
  <2> QED
    BY <1>8, <1>10, <2>1 DEF Licensed
<1> HIDE DEF target, value
<1>12. /\ ChainInv(d) /\ AmendedTo(chain, d, x, target)
       /\ AmendsHead(chain, x, target, base) /\ x.parts[target] = value
  BY <1>4, <1>5, <1>9, <1>11, AmendGrows
<1> HIDE DEF d, x
<1>13. /\ Continues(d, chain) /\ HeadHeight(d) = n + 1 /\ RecordAt(d, n + 1) = x
       /\ \A other \in Part \ {target} :
             InForce(d, n + 1, other) = InForce(chain, n, other)
  BY <1>12 DEF AmendedTo
<1>14. /\ ResolutionStands(d, r) /\ RecordAt(d, r) = RecordAt(chain, r) /\ r < n + 1
  <2>1. r \in 0..n
    BY <1>6 DEF ResolutionStands
  <2> QED
    BY <1>4, <1>6, <1>13, <2>1, ResolutionStillStands
<1>15. approval(d, authority) = approved
  BY <1>3, <1>4, <1>13, StillApproved DEF approved
<1>16. base = base_of(d, approved, target)
  <2>1. base = base_of(chain, approved, target)
    BY DEF base, target, approved
  <2> QED
    BY <1>4, <1>10, <1>13, <2>1, PastReadings DEF base_of
<1>17. \A actor \in approved.actor : DemotionHolds(d, n, actor, target, value)
  <2>1. \A actor \in approved.actor : DemotionHolds(chain, n, actor, target, value)
    BY <1>5 DEF target, value, approved
  <2>2. n \in 0..n
    BY <1>4
  <2> QED
    BY <1>4, <1>9, <1>13, <2>1, <2>2, PastDemotion
<1>18. Effected(d, n + 1, r, target, base)
  <2>1. /\ IsCompanyRecord(x) /\ x.company = CompanyOf(chain)
        /\ DOMAIN x.parts = {target} /\ x.supersedes = Some(base)
    BY <1>12 DEF AmendsHead
  <2>2. CompanyOf(d) = CompanyOf(chain)
    BY <1>4, <1>13, StillFounded
  <2>3. n + 1 \in 1..HeadHeight(d) /\ (n + 1) - 1 = n
    BY <1>4, <1>13
  <2>4. Amends(proposal) /\ proposal[1] = target /\ proposal[2] = value
    BY <1>5 DEF target, value
  <2> HIDE DEF n
  <2> QED
    BY <1>6, <1>12, <1>13, <1>14, <1>15, <1>16, <1>17, <2>1, <2>2, <2>3, <2>4
       DEF Effected
<1>19. ~Executed(d, r)
  <2>1. ~Executed(chain, r)
    BY <1>5 DEF find_execution, Executed, Some, None
  <2>2. x.namespace # "execution"
    BY <1>12 DEF AmendsHead, IsCompanyRecord
  <2>3. \A h \in 0..(n + 1) : h \in 0..n \/ h = n + 1
    BY <1>4
  <2>4. \A h \in 0..n : RecordAt(d, h) = RecordAt(chain, h)
    BY <1>4, <1>13, PastReadings
  <2> HIDE DEF n
  <2>5. \A g \in RecordsOf(d, "execution") :
           g \in RecordsOf(chain, "execution") /\ RecordAt(d, g) = RecordAt(chain, g)
    BY <1>13, <2>2, <2>3, <2>4 DEF RecordsOf, n
  <2> QED
    BY <2>1, <2>5 DEF Executed
<1>20. SignersOf(target) \/ signer_authorised_at(d, n + 1, key)
  <2> SUFFICES ASSUME ~SignersOf(target) PROVE signer_authorised_at(d, n + 1, key)
    OBVIOUS
  <2>1. /\ "Identities" \in Part \ {target} /\ "Authorisation" \in Part \ {target}
    BY DEF Part, SignersOf
  <2>2. authorised_signer(d, n + 1, "governance", key)
    BY <1>5, <1>13, <2>1 DEF GovernanceSigner, authorised_signer
  <2>3. Reconstructs(d, n + 1)
    BY <1>12, <1>13 DEF ChainInv, Healthy
  <2> QED
    BY <2>2, <2>3 DEF signer_authorised_at
<1>21. StateOK(d, state)
  BY <1>2, <1>4, <1>13, StateStays
<1>22. Pending(d, state, key, base)
  <2>1. r = Content(state.finalized) /\ target = state.proposal[1]
    BY DEF r, target, proposal
  <2> HIDE DEF n
  <2> QED
    BY <1>1, <1>13, <1>18, <1>19, <1>20, <1>21, <2>1 DEF Pending
<1>23. CommandOK(d, cmd)
  BY <1>22 DEF CommandOK
<1>24. \A q \in Process \ {p} : ~Opens(command[q])
  BY <1>1 DEF Held
<1>25. /\ chain' = d /\ command' = [command EXCEPT ![p] = cmd] /\ file' = file
  BY <1>1 DEF d, x, target, value, base, approved, proposal, authority, state
<1> HIDE DEF cmd
<1>26. ResolutionInv'
  BY <1>12, <1>13, <1>23, <1>24, <1>25, GrowKeepsStages
<1> QED
  BY <1>13, <1>25, <1>26

(* The record of the execution follows at once; nobody else held the chain *)
(* since the amendment.                                                    *)
LEMMA ExecuteRecordKeepsResolutions ==
    ASSUME ResolutionInv, NEW p \in Process, ExecuteRecord(p)
    PROVE  ResolutionInv' /\ Continues(chain', chain)
<1> DEFINE c == command[p]
           state == c.state
           n == HeadHeight(chain)
           r == Content(state.finalized)
           target == state.proposal[1]
           x == ExecutionRecord(r, n, target, c.replaced, state.proposal, c.key)
           d == Append(chain, x)
           saved == [state EXCEPT !.status = "Executed",
                        !.executed = Some([amendment |-> n, execution |-> n + 1])]
           cmd == Saving(c.path, TRUE, saved)
<1>1. /\ c.stage = "amended" /\ chain' = d
      /\ command' = [command EXCEPT ![p] = cmd] /\ file' = file
  BY DEF ExecuteRecord
<1>2. c.path \in File /\ Pending(chain, state, c.key, c.replaced)
  BY <1>1, CommandStages DEF ResolutionInv
<1>3. \A q \in Process \ {p} : ~Opens(command[q])
  BY <1>1 DEF ResolutionInv, Opens
<1>4. ChainInv(chain) /\ Healthy(chain) /\ Founded(chain) /\ n \in Nat
  BY Heights DEF ResolutionInv, ChainInv, Healthy
<1>5. /\ StateOK(chain, state) /\ state.status = "Finalized"
      /\ Effected(chain, n, r, target, c.replaced) /\ ~Executed(chain, r)
      /\ SignersOf(target) \/ signer_authorised_at(chain, n, c.key)
  BY <1>2 DEF Pending
<1>6. /\ DOMAIN state = StateFields /\ AuthorityOK(chain, state.authority)
      /\ FinalizedOK(chain, r, state)
  BY <1>5 DEF StateOK
<1>7. /\ x.namespace = "execution" /\ x.parts = NoParts /\ x.resolution = r
      /\ x.amendment = n /\ x.target = target /\ x.replaced = c.replaced
      /\ x.proposal = state.proposal /\ x.signer = c.key
  BY DEF ExecutionRecord
<1>8. ~IsCompanyRecord(x) /\ DOMAIN x.parts = {}
  BY <1>7 DEF IsCompanyRecord, NoParts
<1> HIDE DEF x
<1>9. /\ Healthy(d) /\ Continues(d, chain) /\ HeadHeight(d) = n + 1
      /\ RecordAt(d, n + 1) = x
      /\ \A family, k : authorised_signer(d, n + 1, family, k)
                           <=> authorised_signer(chain, n, family, k)
  BY <1>4, <1>8, OtherKeepsHealthy
<1> HIDE DEF d, r, target
<1>10. Effected(d, n, r, target, c.replaced)
  BY <1>4, <1>5, <1>9, StillEffected
<1>11. RecordAt(d, r).proposal = state.proposal
  <2>1. ResolutionStands(chain, r) /\ RecordAt(chain, r).proposal = state.proposal
    BY <1>6 DEF FinalizedOK
  <2> QED
    BY <1>4, <1>9, <2>1, ResolutionStillStands
<1>12. SignersOf(target) \/ signer_authorised_at(d, n + 1, c.key)
  BY <1>5, <1>9 DEF signer_authorised_at, Healthy
<1>13. n + 1 \in 0..HeadHeight(d) /\ (n + 1) - 1 = n
  BY <1>4, <1>9
<1>14. ExecutionStands(d, n + 1)
  <2> HIDE DEF n, state, c
  <2> QED
    BY <1>7, <1>9, <1>10, <1>11, <1>12, <1>13 DEF ExecutionStands
<1>15. ChainInv(d)
  <2>1. RecordStands(d, n + 1)
    BY <1>7, <1>9, <1>14 DEF RecordStands
  <2> QED
    BY <1>4, <1>5, <1>7, <1>8, <2>1, OtherGrows DEF d, n
<1>16. StateOK(d, saved)
  <2>1. /\ DOMAIN saved = StateFields /\ saved.status = "Executed"
        /\ saved.authority = state.authority
    BY <1>6 DEF StateFields
  <2>2. AuthorityOK(d, state.authority)
    BY <1>4, <1>6, <1>9, StillApproved
  <2> HIDE DEF saved
  <2> QED
    BY <2>1, <2>2 DEF StateOK
<1> HIDE DEF saved
<1>17. CommandOK(d, cmd)
  BY <1>2, <1>16 DEF CommandOK
<1> HIDE DEF cmd, c
<1>18. ResolutionInv'
  BY <1>1, <1>3, <1>9, <1>15, <1>17, GrowKeepsStages
<1> QED
  BY <1>1, <1>9, <1>18

(* A step that only works on files and commands, each of them in order.    *)
LEMMA FilesMove ==
    ASSUME ResolutionInv, chain' = chain, NEW p \in Process, NEW cmd,
           CommandOK(chain, cmd), ~Opens(cmd), command' = [command EXCEPT ![p] = cmd],
           DOMAIN file' = File, \A path \in File : FileOK(chain, file'[path])
    PROVE  ResolutionInv' /\ Continues(chain', chain)
<1>1. DOMAIN command' = Process /\ command'[p] = cmd
      /\ \A q \in Process \ {p} : command'[q] = command[q]
  BY DEF ResolutionInv
<1>2. \A q \in Process : CommandOK(chain, command'[q])
  BY <1>1 DEF ResolutionInv
<1>3. \A q, r \in Process : Opens(command'[q]) /\ Opens(command'[r]) => q = r
  <2> SUFFICES ASSUME NEW q \in Process, NEW r \in Process,
                      Opens(command'[q]), Opens(command'[r])
               PROVE  q = r
    OBVIOUS
  <2>1. q # p /\ r # p
    BY <1>1
  <2> QED
    BY <1>1, <2>1 DEF ResolutionInv
<1>4. Continues(chain, chain)
  BY Heights DEF Continues, ResolutionInv, ChainInv, Healthy, Founded
<1> QED
  BY <1>1, <1>2, <1>3, <1>4 DEF ResolutionInv

(* resolution create: the draft names records of the chain.                *)
LEMMA CreateKeepsResolutions ==
    ASSUME ResolutionInv, NEW p \in Process, NEW path \in File, NEW authority,
           AuthorityOK(chain, authority), NEW proposal,
           Create(p, path, authority, proposal)
    PROVE  ResolutionInv' /\ Continues(chain', chain)
<1> DEFINE state == Draft(authority, proposal)
           cmd == Saving(path, FALSE, state)
<1>1. chain' = chain /\ file' = file /\ command' = [command EXCEPT ![p] = cmd]
  BY DEF Create
<1>2. StateOK(chain, state)
  BY DEF Draft, StateOK, StateFields
<1> HIDE DEF state
<1>3. CommandOK(chain, cmd)
  BY <1>2 DEF CommandOK
<1>4. ~Opens(cmd)
  BY DEF Opens, Saving
<1> HIDE DEF cmd
<1>5. DOMAIN file' = File /\ \A f \in File : FileOK(chain, file'[f])
  BY <1>1 DEF ResolutionInv
<1> QED
  BY <1>1, <1>3, <1>4, <1>5, FilesMove

(* save_state writes what its command holds.                               *)
LEMMA SaveKeepsResolutions ==
    ASSUME ResolutionInv, NEW p \in Process, Save(p)
    PROVE  ResolutionInv' /\ Continues(chain', chain)
<1> DEFINE path == command[p].path
           state == command[p].state
<1>1. /\ command[p].stage = "saving" /\ file' = [file EXCEPT ![path] = state]
      /\ command' = [command EXCEPT ![p] = Idle] /\ chain' = chain
  BY DEF Save
<1>2. path \in File /\ StateOK(chain, state)
  BY <1>1, CommandStages DEF ResolutionInv
<1> HIDE DEF path, state
<1>3. DOMAIN file' = File
  BY <1>1 DEF ResolutionInv
<1>4. \A f \in File : FileOK(chain, file'[f])
  <2> TAKE f \in File
  <2>1. CASE f = path
    BY <1>1, <1>2, <2>1 DEF ResolutionInv, FileOK
  <2>2. CASE f # path
    BY <1>1, <2>2 DEF ResolutionInv
  <2> QED
    BY <2>1, <2>2
<1>5. CommandOK(chain, Idle) /\ ~Opens(Idle)
  BY DEF CommandOK, Opens, Idle
<1> QED
  BY <1>1, <1>3, <1>4, <1>5, FilesMove

(* A process that dies leaves the chain as it is, and perhaps a file that  *)
(* cannot be read.                                                         *)
LEMMA CrashKeepsResolutions ==
    ASSUME ResolutionInv, NEW p \in Process, Crash(p)
    PROVE  ResolutionInv' /\ Continues(chain', chain)
<1> DEFINE path == command[p].path
<1>1. /\ command' = [command EXCEPT ![p] = Idle] /\ chain' = chain
      /\ file' = file \/ file' = [file EXCEPT ![path] = Torn]
  BY DEF Crash
<1> HIDE DEF path
<1>2. DOMAIN file' = File
  BY <1>1 DEF ResolutionInv
<1>3. \A f \in File : FileOK(chain, file'[f])
  <2> TAKE f \in File
  <2>1. file'[f] = file[f] \/ file'[f] = Torn
    BY <1>1 DEF ResolutionInv
  <2> QED
    BY <2>1 DEF ResolutionInv, FileOK
<1>4. CommandOK(chain, Idle) /\ ~Opens(Idle)
  BY DEF CommandOK, Opens, Idle
<1> QED
  BY <1>1, <1>2, <1>3, <1>4, FilesMove

(* What somebody may decide, or a meeting be convened on, is not what is   *)
(* published without a resolution.                                         *)
LEMMA Resolvables ==
    /\ \A proposal \in Proposal : Resolvable(proposal)
    /\ \A agenda \in Agenda :
          /\ IsChain(agenda)
          /\ \A n \in DOMAIN agenda : Resolvable(agenda[n].proposal)
<1>1. \A proposal \in Proposal : Resolvable(proposal)
  BY ProposalAssumption, DisjointAssumption DEF Resolvable
<1>2. \A agenda \in Agenda : IsChain(agenda)
  BY AgendaAssumption DEF IsChain
<1>3. \A agenda \in Agenda : \A n \in DOMAIN agenda : Resolvable(agenda[n].proposal)
  BY AgendaAssumption, DisjointAssumption DEF Resolvable
<1> QED
  BY <1>1, <1>2, <1>3

(* An amendment of somebody's own keeps the invariant.                     *)
LEMMA AmendKeepsResolutions ==
    ASSUME ResolutionInv, NEW key \in Key, NEW a \in Amendment, Amend(key, a[1], a[2])
    PROVE  ResolutionInv' /\ Continues(chain', chain)
<1> DEFINE n == HeadHeight(chain)
           part == a[1]
           value == a[2]
           base == provider_of(chain, n, part)
           x == compose_record(chain, part, value, base, key)
<1>1. /\ ~Held /\ Acceptable(chain, key, part, value, base)
      /\ chain' = Append(chain, x) /\ UNCHANGED <<file, command>>
  BY DEF Amend
<1>2. a = <<part, value>> /\ part \in Part
  BY AmendmentAssumption DEF IsPair
<1>3. Licensed(chain, n, part, value, base)
  BY <1>2 DEF Licensed
<1> HIDE DEF part, value, base
<1>4. ChainInv(Append(chain, x)) /\ AmendedTo(chain, Append(chain, x), x, part)
  BY <1>1, <1>2, <1>3, AmendGrows DEF ResolutionInv
<1>5. ChainInv(chain') /\ Continues(chain', chain)
  BY <1>1, <1>4 DEF AmendedTo
<1> QED
  BY <1>1, <1>5, OthersKeepStages

(* So does a decision.                                                     *)
LEMMA DecideKeepsResolutions ==
    ASSUME ResolutionInv, NEW key \in Key, NEW id, NEW at \in 0..HeadHeight(chain),
           NEW proposal \in Proposal, Decide(key, id, at, proposal)
    PROVE  ResolutionInv' /\ Continues(chain', chain)
<1> DEFINE snapshot == Snapshot(chain, at, id, proposal)
           signature == Signature(Content(snapshot.key), snapshot)
           x == DecisionRecord(snapshot, signature, key)
<1>1. /\ ~Held /\ Freezable(chain, at, id)
      /\ Recordable(chain, snapshot, signature, key)
      /\ chain' = Append(chain, x) /\ UNCHANGED <<file, command>>
  BY DEF Decide
<1>2. Resolvable(proposal)
  BY Resolvables
<1> HIDE DEF signature
<1>3. ChainInv(Append(chain, x)) /\ Continues(Append(chain, x), chain)
  BY <1>1, <1>2, DecideGrows DEF ResolutionInv
<1> HIDE DEF x
<1> QED
  BY <1>1, <1>3, OthersKeepStages

(* And the convening of a meeting.                                         *)
LEMMA ConveneKeepsResolutions ==
    ASSUME ResolutionInv, NEW key \in Key, NEW id, NEW agenda \in Agenda,
           Convene(key, id, agenda)
    PROVE  ResolutionInv' /\ Continues(chain', chain)
<1> DEFINE x == ConvenedRecord(CompanyOf(chain), id, agenda, key)
<1>1. /\ ~Held /\ GovernanceSigner(chain, key)
      /\ chain' = Append(chain, x) /\ UNCHANGED <<file, command>>
  BY DEF Convene
<1>2. IsChain(agenda) /\ \A n \in DOMAIN agenda : Resolvable(agenda[n].proposal)
  BY Resolvables
<1>3. ChainInv(Append(chain, x)) /\ Continues(Append(chain, x), chain)
  BY <1>1, <1>2, ConveneGrows DEF ResolutionInv
<1> HIDE DEF x
<1> QED
  BY <1>1, <1>3, OthersKeepStages

(* And a meeting, with the votes it took.                                  *)
LEMMA MeetKeepsResolutions ==
    ASSUME ResolutionInv, NEW key \in Key, NEW h \in RecordsOf(chain, "meeting"),
           RecordAt(chain, h).kind = "convened",
           NEW at \in h..HeadHeight(chain), NEW choices, Meet(key, h, at, choices)
    PROVE  ResolutionInv' /\ Continues(chain', chain)
<1>1. ~Held /\ UNCHANGED <<file, command>>
  BY DEF Meet
<1>2. ChainInv(chain') /\ Continues(chain', chain)
  BY MeetGrows DEF ResolutionInv
<1> QED
  BY <1>1, <1>2, OthersKeepStages

(* A file may be drafted on records of the chain only.                     *)
LEMMA DraftsKeepResolutions ==
    ASSUME ResolutionInv, NEW p \in Process, NEW path \in File
    PROVE  /\ \A id \in ChannelId, h \in RecordsOf(chain, "decision") : \A proposal :
                 Create(p, path, Individual(id, h), proposal)
                     => ResolutionInv' /\ Continues(chain', chain)
           /\ \A id \in ChannelId, m \in Finals, h \in RecordsOf(chain, "vote") :
                 \A number, proposal :
                 Create(p, path, Collective(id, m, number, h), proposal)
                     => ResolutionInv' /\ Continues(chain', chain)
<1>1. ASSUME NEW id, NEW h \in RecordsOf(chain, "decision"), NEW proposal,
             Create(p, path, Individual(id, h), proposal)
      PROVE  ResolutionInv' /\ Continues(chain', chain)
  <2> DEFINE authority == Individual(id, h)
  <2>1. AuthorityOK(chain, authority)
    BY DEF Individual, AuthorityOK, RecordsOf
  <2> HIDE DEF authority
  <2>2. Create(p, path, authority, proposal)
    BY <1>1 DEF authority
  <2> QED
    BY <2>1, <2>2, CreateKeepsResolutions
<1>2. ASSUME NEW id, NEW m \in Finals, NEW number, NEW h \in RecordsOf(chain, "vote"),
             NEW proposal, Create(p, path, Collective(id, m, number, h), proposal)
      PROVE  ResolutionInv' /\ Continues(chain', chain)
  <2> DEFINE authority == Collective(id, m, number, h)
  <2>1. AuthorityOK(chain, authority)
    BY DEF Collective, AuthorityOK, RecordsOf, Finals
  <2> HIDE DEF authority
  <2>2. Create(p, path, authority, proposal)
    BY <1>2 DEF authority
  <2> QED
    BY <2>1, <2>2, CreateKeepsResolutions
<1> QED
  BY <1>1, <1>2

(* Every step keeps the invariant, and only adds to the chain.             *)
LEMMA StepKeepsResolutions ==
    ASSUME ResolutionInv, [Next]_vars
    PROVE  ResolutionInv' /\ Continues(chain', chain)
<1>1. CASE UNCHANGED vars
  <2>1. chain' = chain /\ file' = file /\ command' = command
    BY <1>1 DEF vars
  <2>2. Continues(chain, chain)
    BY Heights DEF Continues, ResolutionInv, ChainInv, Healthy, Founded
  <2> QED
    BY <2>1, <2>2 DEF ResolutionInv
<1>2. ASSUME NEW key \in Key, NEW a \in Amendment, Amend(key, a[1], a[2])
      PROVE  ResolutionInv' /\ Continues(chain', chain)
  BY <1>2, AmendKeepsResolutions
<1>3. ASSUME NEW key \in Key, NEW id \in ChannelId, NEW at \in 0..HeadHeight(chain),
             NEW proposal \in Proposal, Decide(key, id, at, proposal)
      PROVE  ResolutionInv' /\ Continues(chain', chain)
  BY <1>3, DecideKeepsResolutions
<1>4. ASSUME NEW key \in Key, NEW id \in ChannelId, NEW agenda \in Agenda,
             Convene(key, id, agenda)
      PROVE  ResolutionInv' /\ Continues(chain', chain)
  BY <1>4, ConveneKeepsResolutions
<1>5. ASSUME NEW key \in Key, NEW h \in RecordsOf(chain, "meeting"),
             RecordAt(chain, h).kind = "convened",
             NEW at \in h..HeadHeight(chain),
             NEW choices \in [VoteItems(RecordAt(chain, h).agenda) -> {"yes", "no"}],
             Meet(key, h, at, choices)
      PROVE  ResolutionInv' /\ Continues(chain', chain)
  BY <1>5, MeetKeepsResolutions
<1>6. ASSUME NEW p \in Process, NEW path \in File, NEW id \in ChannelId,
             NEW h \in RecordsOf(chain, "decision"),
             NEW proposal \in {Approved(h)} \cup Substitute,
             Create(p, path, Individual(id, h), proposal)
      PROVE  ResolutionInv' /\ Continues(chain', chain)
  BY <1>6, DraftsKeepResolutions
<1>7. ASSUME NEW p \in Process, NEW path \in File, NEW id \in ChannelId, NEW m \in Finals,
             NEW h \in RecordsOf(chain, "vote"),
             NEW number \in DOMAIN RecordAt(chain, m).items,
             NEW proposal \in {Approved(h)} \cup Substitute,
             Create(p, path, Collective(id, m, number, h), proposal)
      PROVE  ResolutionInv' /\ Continues(chain', chain)
  BY <1>7, DraftsKeepResolutions
<1>8. ASSUME NEW p \in Process, NEW path \in File, NEW key \in Key, Finalize(p, path, key)
      PROVE  ResolutionInv' /\ Continues(chain', chain)
  BY <1>8, FinalizeKeepsResolutions
<1>9. ASSUME NEW p \in Process, NEW path \in File, NEW key \in Key,
             ExecuteAmend(p, path, key)
      PROVE  ResolutionInv' /\ Continues(chain', chain)
  BY <1>9, ExecuteAmendKeepsResolutions
<1>10. ASSUME NEW p \in Process, ExecuteRecord(p) \/ Save(p) \/ Crash(p)
       PROVE  ResolutionInv' /\ Continues(chain', chain)
  BY <1>10, ExecuteRecordKeepsResolutions, SaveKeepsResolutions, CrashKeepsResolutions
<1> QED
  BY <1>1, <1>2, <1>3, <1>4, <1>5, <1>6, <1>7, <1>8, <1>9, <1>10 DEF Next

(* The invariant holds at the founding, before there is a state file.      *)
LEMMA ResolutionsBegin == Init => ResolutionInv
<1> SUFFICES ASSUME Init PROVE ResolutionInv
  OBVIOUS
<1>1. PICK company \in Company, parts \in Founding :
         ValidFounding(parts) /\ chain = <<Record(company, parts, None, AnyKey)>>
  BY DEF Init
<1> DEFINE record == Record(company, parts, None, AnyKey)
<1>2. /\ IsCompanyRecord(record) /\ IsGenesis(record) /\ record.supersedes = None
      /\ ~lockout_after(record.parts["Identities"], record.parts["Authorisation"])
      /\ record.namespace = "company"
  BY <1>1, FoundingAssumption DEF Record, IsCompanyRecord, IsGenesis, ValidFounding
<1> HIDE DEF record
<1>3. Healthy(chain) /\ HeadHeight(chain) = 0 /\ RecordAt(chain, 0) = record
  BY <1>1, <1>2, FoundingIsHealthy DEF record, RecordAt
<1>4. ChainInv(chain)
  <2>1. \A h \in 0..0 : h = 0
    OBVIOUS
  <2>2. RecordStands(chain, 0)
    BY <1>2, <1>3 DEF RecordStands
  <2>3. RecordsOf(chain, "execution") = {}
    BY <1>2, <1>3, <2>1 DEF RecordsOf
  <2> QED
    BY <1>3, <2>1, <2>2, <2>3 DEF ChainInv
<1>5. /\ file = [path \in File |-> Missing] /\ command = [p \in Process |-> Idle]
  BY DEF Init
<1>6. CommandOK(chain, Idle) /\ ~Opens(Idle)
  BY DEF CommandOK, Opens, Idle
<1> QED
  BY <1>4, <1>5, <1>6 DEF ResolutionInv, FileOK

(* Every record of the chain, every state file and every command stays in  *)
(* order: a resolution rests on what was decided, an execution on a        *)
(* resolution and the amendment before it.                                 *)
THEOREM ResolutionsStayInOrder == Spec => []ResolutionInv
<1>1. Init => ResolutionInv
  BY ResolutionsBegin
<1>2. ResolutionInv /\ [Next]_vars => ResolutionInv'
  BY StepKeepsResolutions
<1> QED
  BY <1>1, <1>2, PTL DEF Spec

-----------------------------------------------------------------------------
(* What follows for a reader of the chain.                                 *)

(* The execution a reader finds is the only one.                           *)
LEMMA ExecutionFound ==
    ASSUME NEW c, ChainInv(c), NEW h \in RecordsOf(c, "execution")
    PROVE  /\ ExecutionStands(c, h)
           /\ find_execution(c, RecordAt(c, h).resolution) = Some(h)
<1> DEFINE r == RecordAt(c, h).resolution
           found == {g \in RecordsOf(c, "execution") : RecordAt(c, g).resolution = r}
<1>1. h \in 0..HeadHeight(c) /\ RecordAt(c, h).namespace = "execution"
  BY DEF RecordsOf
<1>2. ExecutionStands(c, h)
  BY <1>1 DEF ChainInv, RecordStands
<1>3. found = {h}
  BY DEF ChainInv
<1>4. found \subseteq Nat /\ found # {}
  BY <1>1, <1>3
<1> HIDE DEF found
<1>5. Min(found) \in found
  BY <1>4, FirstNumber
<1>6. find_execution(c, r) = IF found = {} THEN None ELSE Some(Min(found))
  BY DEF find_execution, found
<1> QED
  BY <1>2, <1>3, <1>4, <1>5, <1>6

(* A resolution and an execution in order pass their reader's checks.      *)
LEMMA ReadersAgree ==
    ASSUME NEW c, ChainInv(c)
    PROVE  /\ \A h \in RecordsOf(c, "resolution") :
                 ResolutionStands(c, h) /\ verify_resolution(c, h) = {}
           /\ \A h \in RecordsOf(c, "execution") :
                 /\ ExecutionStands(c, h)
                 /\ verify_execution(c, h) =
                       Failed("SignerAuthorised",
                              signer_authorised_at(c, h, RecordAt(c, h).signer))
<1>1. Healthy(c)
  BY DEF ChainInv
<1>2. ASSUME NEW h \in RecordsOf(c, "resolution")
      PROVE  ResolutionStands(c, h) /\ verify_resolution(c, h) = {}
  <2>1. ResolutionStands(c, h)
    BY DEF RecordsOf, ChainInv, RecordStands
  <2> QED
    BY <1>1, <2>1, StandingResolutionVerifies
<1>3. ASSUME NEW h \in RecordsOf(c, "execution")
      PROVE  /\ ExecutionStands(c, h)
             /\ verify_execution(c, h) =
                   Failed("SignerAuthorised",
                          signer_authorised_at(c, h, RecordAt(c, h).signer))
  BY <1>1, ExecutionFound, StandingExecutionVerifies
<1> QED
  BY <1>2, <1>3

(* Every resolution finalize wrote verifies, and so does every execution,  *)
(* whatever crashed in between and was tried again - but that amending who *)
(* holds which key or who may sign can take the executing key's own right  *)
(* away before it signs the execution record (execute).                    *)
THEOREM RecordedResolutionsVerify == Spec => []RecordsVerify
<1>1. ResolutionInv => RecordsVerify
  <2> SUFFICES ASSUME ResolutionInv PROVE RecordsVerify
    OBVIOUS
  <2>1. ChainInv(chain)
    BY DEF ResolutionInv
  <2>2. \A h \in Resolutions : verify_resolution(chain, h) = {}
    BY <2>1, ReadersAgree DEF Resolutions
  <2>3. ASSUME NEW h \in Executions
        PROVE  verify_execution(chain, h) \subseteq
                  (IF RecordAt(chain, h).target \in {"Identities", "Authorisation"}
                   THEN {"SignerAuthorised"} ELSE {})
    <3>1. /\ ExecutionStands(chain, h)
          /\ verify_execution(chain, h) =
                Failed("SignerAuthorised",
                       signer_authorised_at(chain, h, RecordAt(chain, h).signer))
      BY <2>1, ReadersAgree DEF Executions
    <3>2. \/ RecordAt(chain, h).target \in {"Identities", "Authorisation"}
          \/ signer_authorised_at(chain, h, RecordAt(chain, h).signer)
      BY <3>1 DEF ExecutionStands, SignersOf
    <3> QED
      BY <3>1, <3>2 DEF Failed
  <2> QED
    BY <2>2, <2>3 DEF RecordsVerify
<1> QED
  BY <1>1, ResolutionsStayInOrder, PTL

(* The verdict on a resolution or an execution never changes, and nothing  *)
(* that is appended can make one of them verify that did not or fail that  *)
(* verified (verify_resolution, verify_execution).                         *)
THEOREM ResolutionVerdictsStand == Spec => VerdictsStand
<1> DEFINE Unchanged ==
              /\ \A h \in Resolutions :
                    verify_resolution(chain', h) = verify_resolution(chain, h)
              /\ \A h \in Executions :
                    verify_execution(chain', h) = verify_execution(chain, h)
<1>1. ResolutionInv /\ [Next]_vars => Unchanged
  <2> SUFFICES ASSUME ResolutionInv, [Next]_vars PROVE Unchanged
    OBVIOUS
  <2> DEFINE d == chain'
  <2>1. /\ ChainInv(chain) /\ ChainInv(d) /\ Continues(d, chain) /\ Founded(chain)
    BY StepKeepsResolutions DEF ResolutionInv, ChainInv, Healthy
  <2> HIDE DEF d
  <2>2. /\ HeadHeight(chain) \in Nat /\ HeadHeight(d) \in Nat
        /\ HeadHeight(chain) <= HeadHeight(d)
    BY <2>1, StillFounded
  <2>3. ASSUME NEW h \in Resolutions
        PROVE  verify_resolution(d, h) = verify_resolution(chain, h)
    <3>1. ResolutionStands(chain, h) /\ verify_resolution(chain, h) = {}
      BY <2>1, ReadersAgree DEF Resolutions
    <3>2. ResolutionStands(d, h)
      BY <2>1, <3>1, ResolutionStillStands
    <3>3. Healthy(d)
      BY <2>1 DEF ChainInv
    <3>4. verify_resolution(d, h) = {}
      BY <3>2, <3>3, StandingResolutionVerifies
    <3> QED
      BY <3>1, <3>4
  <2>4. ASSUME NEW h \in Executions
        PROVE  verify_execution(d, h) = verify_execution(chain, h)
    <3> DEFINE signer == RecordAt(chain, h).signer
    <3>1. /\ h \in 0..HeadHeight(chain) /\ RecordAt(chain, h).namespace = "execution"
          /\ h \in 0..HeadHeight(d)
      BY <2>2 DEF Executions, RecordsOf
    <3>2. /\ ExecutionStands(chain, h)
          /\ verify_execution(chain, h) =
                Failed("SignerAuthorised", signer_authorised_at(chain, h, signer))
      BY <2>1, ReadersAgree DEF Executions
    <3>3. RecordAt(d, h) = RecordAt(chain, h)
      BY <2>1, <3>2, ExecutionStillStands
    <3>4. h \in RecordsOf(d, "execution")
      BY <3>1, <3>3 DEF RecordsOf
    <3>5. verify_execution(d, h) =
             Failed("SignerAuthorised", signer_authorised_at(d, h, signer))
      BY <2>1, <3>3, <3>4, ReadersAgree
    <3>6. signer_authorised_at(d, h, signer) <=> signer_authorised_at(chain, h, signer)
      BY <2>1, <3>1, PastGovernance
    <3> QED
      BY <3>2, <3>5, <3>6 DEF Failed
  <2> QED
    BY <2>3, <2>4 DEF d
<1>2. Unchanged =>
         [chain' # chain =>
            /\ \A h \in Resolutions :
                  verify_resolution(chain', h) = verify_resolution(chain, h)
            /\ \A h \in Executions :
                  verify_execution(chain', h) = verify_execution(chain, h)]_vars
  OBVIOUS
<1> QED
  BY <1>1, <1>2, ResolutionsStayInOrder, PTL DEF Spec, VerdictsStand

-----------------------------------------------------------------------------
(* What one person's signature did to the company (demotion.rs).           *)

(* An amendment by which one person's decision was executed gave that      *)
(* person nothing, but for the seats of a first share.                     *)
LEMMA DemotedOnly ==
    ASSUME NEW c, Founded(c), NEW m \in 1..HeadHeight(c), NEW target \in Part,
           DOMAIN RecordAt(c, m).parts = {target}, NEW actor,
           DemotionHolds(c, m - 1, actor, target, RecordAt(c, m).parts[target])
    PROVE  LET PeopleAt(at) == InForce(c, at, "Identities")
               SharesAt(at) == InForce(c, at, "ShareStructure")
               SeatsAt(at) == seats(ChannelsAt(c, at), actor, SharesAt(at))
               RightsAt(at) == families_of(InForce(c, at, "Authorisation"), actor)
           IN  /\ \A id \in SeatsAt(m) \ SeatsAt(m - 1) :
                     /\ target = "ShareStructure"
                     /\ ChannelsAt(c, m)[id].roster = ShareRegister
                     /\ actor \in DOMAIN SharesAt(m) \ DOMAIN SharesAt(m - 1)
               /\ \A id \in SeatsAt(m) \cap SeatsAt(m - 1) :
                     ChannelsAt(c, m)[id] = ChannelsAt(c, m - 1)[id]
               /\ RightsAt(m) \subseteq RightsAt(m - 1)
               /\ \A p \in DOMAIN PeopleAt(m - 1) \ {actor} :
                     key_of(PeopleAt(m), p) = key_of(PeopleAt(m - 1), p)
<1> DEFINE value == RecordAt(c, m).parts[target]
           PeopleAt(at) == InForce(c, at, "Identities")
           Shares(at) == InForce(c, at, "ShareStructure")
           Channels(at) == InForce(c, at, "DecisionChannels")
           Rows(at) == InForce(c, at, "Authorisation")
           SeatsAt(at) == seats(Channels(at), actor, Shares(at))
<1>1. /\ InForce(c, m, target) = value
      /\ \A other \in Part \ {target} : InForce(c, m, other) = InForce(c, m - 1, other)
  BY PartAmended
<1>2. /\ "Identities" \in Part /\ "ShareStructure" \in Part
      /\ "DecisionChannels" \in Part /\ "Authorisation" \in Part
  BY DEF Part
<1>3. DemotionHolds(c, m - 1, actor, target, value)
  OBVIOUS
<1> HIDE DEF value
<1>4. \A id \in SeatsAt(m) \cap SeatsAt(m - 1) : Channels(m)[id] = Channels(m - 1)[id]
  <2>1. CASE target = "DecisionChannels"
    <3>1. self_demotion(actor, Channels(m - 1), value, Shares(m - 1))
      BY <1>3, <2>1 DEF DemotionHolds
    <3>2. Channels(m) = value /\ Shares(m) = Shares(m - 1)
      BY <1>1, <1>2, <2>1
    <3> HIDE DEF Channels, Shares
    <3> QED
      BY <3>1, <3>2 DEF self_demotion
  <2>2. CASE target # "DecisionChannels"
    BY <1>1, <1>2, <2>2
  <2> QED
    BY <2>1, <2>2
<1>5. ASSUME NEW id \in SeatsAt(m) \ SeatsAt(m - 1)
      PROVE  /\ target = "ShareStructure"
             /\ Channels(m)[id].roster = ShareRegister
             /\ actor \in DOMAIN Shares(m) \ DOMAIN Shares(m - 1)
  <2>1. target # "DecisionChannels"
    <3> SUFFICES ASSUME target = "DecisionChannels" PROVE FALSE
      OBVIOUS
    <3>1. self_demotion(actor, Channels(m - 1), value, Shares(m - 1))
      BY <1>3 DEF DemotionHolds
    <3>2. Channels(m) = value /\ Shares(m) = Shares(m - 1)
      BY <1>1, <1>2
    <3> HIDE DEF Channels, Shares
    <3> QED
      BY <1>5, <3>1, <3>2 DEF self_demotion
  <2>2. Channels(m) = Channels(m - 1)
    BY <1>1, <1>2, <2>1
  <2>3. target # "ShareStructure" => Shares(m) = Shares(m - 1)
    BY <1>1, <1>2
  <2> HIDE DEF Channels, Shares
  <2>4. id \in SeatsAt(m) /\ id \notin SeatsAt(m - 1)
    BY <1>5
  <2>5. /\ actor \in DOMAIN actors_of(Channels(m)[id], Shares(m))
        /\ actor \notin DOMAIN actors_of(Channels(m)[id], Shares(m - 1))
    BY <2>2, <2>4 DEF seats
  <2> QED
    BY <2>3, <2>5 DEF actors_of
<1>6. families_of(Rows(m), actor) \subseteq families_of(Rows(m - 1), actor)
  <2>1. CASE target = "Authorisation"
    <3>1. authorisation_demotion(actor, Rows(m - 1), value)
      BY <1>3, <2>1 DEF DemotionHolds
    <3> QED
      BY <1>1, <2>1, <3>1 DEF authorisation_demotion
  <2>2. CASE target # "Authorisation"
    BY <1>1, <1>2, <2>2
  <2> QED
    BY <2>1, <2>2
<1>7. \A p \in DOMAIN PeopleAt(m - 1) \ {actor} :
         key_of(PeopleAt(m), p) = key_of(PeopleAt(m - 1), p)
  <2>1. CASE target = "Identities"
    <3>1. identity_demotion(actor, PeopleAt(m - 1), value)
      BY <1>3, <2>1 DEF DemotionHolds
    <3>2. PeopleAt(m) = value
      BY <1>1, <2>1
    <3> HIDE DEF PeopleAt
    <3> QED
      BY <3>1, <3>2 DEF identity_demotion, key_of
  <2>2. CASE target # "Identities"
    BY <1>1, <1>2, <2>2
  <2> QED
    BY <2>1, <2>2
<1> QED
  BY <1>4, <1>5, <1>6, <1>7 DEF ChannelsAt

(* Executing what one person decided gives that person no right to file    *)
(* records, changes no channel the person stays on and nobody else's key;  *)
(* and it adds a seat only as an issue of shares does, to a person who had *)
(* none and on a channel of the register (demotion.rs, as execute asks).   *)
THEOREM SoleSignersGainSeatsOnlyByShares == Spec => []OnlySharesAddSeats
<1>1. ResolutionInv => OnlySharesAddSeats
  <2> SUFFICES ASSUME ResolutionInv, NEW h \in Executions,
                      NEW actor \in approval(chain,
                          RecordAt(chain, RecordAt(chain, h).resolution).authority).actor
               PROVE  LET execution == RecordAt(chain, h)
                          m == execution.amendment
                          PeopleAt(at) == InForce(chain, at, "Identities")
                          SharesAt(at) == InForce(chain, at, "ShareStructure")
                          SeatsAt(at) == seats(ChannelsAt(chain, at), actor, SharesAt(at))
                          RightsAt(at) == families_of(InForce(chain, at, "Authorisation"),
                                                      actor)
                      IN  /\ \A id \in SeatsAt(m) \ SeatsAt(m - 1) :
                                /\ execution.target = "ShareStructure"
                                /\ ChannelsAt(chain, m)[id].roster = ShareRegister
                                /\ actor \in DOMAIN SharesAt(m) \ DOMAIN SharesAt(m - 1)
                          /\ \A id \in SeatsAt(m) \cap SeatsAt(m - 1) :
                                ChannelsAt(chain, m)[id] = ChannelsAt(chain, m - 1)[id]
                          /\ RightsAt(m) \subseteq RightsAt(m - 1)
                          /\ \A p \in DOMAIN PeopleAt(m - 1) \ {actor} :
                                key_of(PeopleAt(m), p) = key_of(PeopleAt(m - 1), p)
    BY DEF OnlySharesAddSeats
  <2> DEFINE execution == RecordAt(chain, h)
             m == execution.amendment
             target == execution.target
             resolution == RecordAt(chain, execution.resolution)
  <2>1. ChainInv(chain) /\ Founded(chain)
    BY DEF ResolutionInv, ChainInv, Healthy
  <2>2. ExecutionStands(chain, h)
    BY <2>1, ReadersAgree DEF Executions
  <2>3. Effected(chain, m, execution.resolution, target, execution.replaced)
    BY <2>2 DEF ExecutionStands
  <2>4. /\ m \in 1..HeadHeight(chain) /\ DOMAIN RecordAt(chain, m).parts = {target}
        /\ DemotionHolds(chain, m - 1, actor, target, RecordAt(chain, m).parts[target])
        /\ target \in Part
    <3>1. Amends(resolution.proposal) /\ resolution.proposal[1] = target
      BY <2>3 DEF Effected
    <3> QED
      BY <2>3, <3>1, TargetIsPart DEF Effected
  <2> HIDE DEF m, target
  <2> QED
    BY <2>1, <2>4, DemotedOnly DEF m, target
<1> QED
  BY <1>1, ResolutionsStayInOrder, PTL

-----------------------------------------------------------------------------
(* What was approved is published once.                                    *)

(* Two amendments that replaced the same record of a part are one.         *)
LEMMA ReplacedOnce ==
    ASSUME NEW c, Founded(c), NEW part \in Part,
           NEW m \in 1..HeadHeight(c), NEW k \in 1..HeadHeight(c),
           part \in DOMAIN RecordAt(c, m).parts,
           provider_of(c, m - 1, part) = provider_of(c, k - 1, part)
    PROVE  ~(m < k)
<1> SUFFICES ASSUME m < k PROVE FALSE
  OBVIOUS
<1>1. HeadHeight(c) \in Nat /\ \A at \in 0..HeadHeight(c) : Upto(c, at) = 0..at
  BY Heights
<1>2. m \in 0..(k - 1) /\ k - 1 \in 0..HeadHeight(c) /\ k - 1 \in Nat /\ m - 1 \in Nat
  BY <1>1
<1>3. m \in Providers(c, k - 1, part)
  BY <1>1, <1>2 DEF Providers
<1>4. m <= provider_of(c, k - 1, part) /\ provider_of(c, k - 1, part) \in 0..HeadHeight(c)
  BY <1>2, <1>3, ProviderExists
<1>5. provider_of(c, m - 1, part) <= m - 1
  BY <1>2, ProviderExists
<1> QED
  BY <1>1, <1>4, <1>5

(* An approval is what some amendments published: each of them has an      *)
(* approval of its own, for each replaced what its approval saw.           *)
LEMMA ApprovalsCover ==
    ASSUME NEW c, ChainInv(c), NEW target \in Part, NEW value,
           <<target, value>> \notin Amendment,
           NEW M, M = {m \in 1..HeadHeight(c) :
                         /\ RecordAt(c, m).namespace = "company"
                         /\ target \in DOMAIN RecordAt(c, m).parts
                         /\ RecordAt(c, m).parts[target] = value},
           NEW A, A = {a \in 0..HeadHeight(c) :
                         Approves(c, a) /\ ApprovedOf(c, a) = <<target, value>>}
    PROVE  IsFiniteSet(M) /\ IsFiniteSet(A) /\ Cardinality(M) <= Cardinality(A)
<1> DEFINE n == HeadHeight(c)
           Behind(m, a) == provider_of(c, m - 1, target) =
                              provider_of(c, RecordAt(c, a).snapshot.height, target)
<1>1. Founded(c) /\ n \in Nat
  BY Heights DEF ChainInv, Healthy
<1>2. ASSUME NEW m \in M PROVE \E a \in A : Behind(m, a)
  <2>1. /\ m \in 1..n /\ RecordAt(c, m).namespace = "company"
        /\ target \in DOMAIN RecordAt(c, m).parts /\ RecordAt(c, m).parts[target] = value
    OBVIOUS
  <2>2. m \in 0..n /\ m # 0
    BY <1>1, <2>1
  <2>3. Published(c, m)
    BY <2>1, <2>2 DEF ChainInv, RecordStands
  <2>4. PICK part \in Part :
           /\ DOMAIN RecordAt(c, m).parts = {part}
           /\ Licensed(c, m - 1, part, RecordAt(c, m).parts[part],
                       provider_of(c, m - 1, part))
    BY <2>3 DEF Published
  <2>5. part = target
    BY <2>1, <2>4
  <2>6. Licensed(c, m - 1, target, value, provider_of(c, m - 1, target))
    BY <2>1, <2>4, <2>5
  <2>7. PICK a \in 0..(m - 1) :
           /\ Approves(c, a) /\ ApprovedOf(c, a) = <<target, value>>
           /\ provider_of(c, m - 1, target) =
                 provider_of(c, RecordAt(c, a).snapshot.height, target)
    BY <2>6 DEF Licensed
  <2>8. a \in 0..n
    BY <1>1, <2>1
  <2> QED
    BY <2>7, <2>8
<1>3. ASSUME NEW m \in M, NEW k \in M, NEW a, Behind(m, a), Behind(k, a)
      PROVE  m = k
  <2>1. /\ m \in 1..n /\ k \in 1..n /\ target \in DOMAIN RecordAt(c, m).parts
        /\ target \in DOMAIN RecordAt(c, k).parts
    OBVIOUS
  <2>2. provider_of(c, m - 1, target) = provider_of(c, k - 1, target)
    BY <1>3
  <2>3. ~(m < k) /\ ~(k < m)
    BY <1>1, <2>1, <2>2, ReplacedOnce
  <2> QED
    BY <1>1, <2>1, <2>3
<1>4. IsFiniteSet(A)
  <2>1. IsFiniteSet(0..n) /\ A \in SUBSET (0..n)
    BY <1>1, FS_Interval
  <2> HIDE DEF n
  <2> QED
    BY <2>1, FS_Subset
<1> HIDE DEF Behind
<1> DEFINE f == [m \in M |-> CHOOSE a \in A : Behind(m, a)]
<1>5. \A m \in M : f[m] \in A /\ Behind(m, f[m])
  BY <1>2
<1>6. f \in Injection(M, A)
  <2>1. f \in [M -> A]
    BY <1>5
  <2>2. \A m, k \in M : f[m] = f[k] => m = k
    <3> HIDE DEF f
    <3> QED
      BY <1>3, <1>5
  <2> HIDE DEF f
  <2> QED
    BY <2>1, <2>2 DEF Injection, IsInjective
<1> HIDE DEF f
<1> QED
  BY <1>4, <1>6, FS_Injection

(* However many resolutions rest on an approval, and whatever is retried   *)
(* after a crash, what it approved is published once (execute: the base    *)
(* that was approved must still be the record in force).                   *)
THEOREM ApprovalsAreSpentOnce == Spec => []SpentOnce
<1>1. ResolutionInv => SpentOnce
  <2> SUFFICES ASSUME ResolutionInv, NEW h \in Approvals, Amends(Approved(h))
               PROVE  LET target == Approved(h)[1]
                      IN  Cardinality({m \in Amendments :
                                /\ m > h
                                /\ target \in DOMAIN RecordAt(chain, m).parts
                                /\ RecordAt(chain, m).parts[target] = Approved(h)[2]})
                          <= Cardinality({a \in Approvals : Approved(a) = Approved(h)})
    BY DEF SpentOnce
  <2> DEFINE c == chain
             target == Approved(h)[1]
             value == Approved(h)[2]
             M == {m \in 1..HeadHeight(c) :
                     /\ RecordAt(c, m).namespace = "company"
                     /\ target \in DOMAIN RecordAt(c, m).parts
                     /\ RecordAt(c, m).parts[target] = value}
             A == {a \in 0..HeadHeight(c) :
                     Approves(c, a) /\ ApprovedOf(c, a) = <<target, value>>}
             Since == {m \in Amendments :
                         /\ m > h
                         /\ target \in DOMAIN RecordAt(chain, m).parts
                         /\ RecordAt(chain, m).parts[target] = value}
  <2>1. ChainInv(c) /\ HeadHeight(c) \in Nat
    BY Heights DEF ResolutionInv, ChainInv, Healthy
  <2>2. target \in Part
    BY TargetIsPart
  <2>3. \A a : Approved(a) = ApprovedOf(c, a)
    BY DEF Approved, ApprovedOf
  <2>4. Approvals = {a \in 0..HeadHeight(c) : Approves(c, a)}
    BY DEF Approvals, Approves, RecordsOf
  <2>5. Resolvable(Approved(h))
    <3>1. h \in 0..HeadHeight(c) /\ Approves(c, h)
      BY <2>4
    <3>2. RecordStands(c, h)
      BY <2>1, <3>1 DEF ChainInv
    <3> QED
      BY <2>3, <3>1, <3>2 DEF RecordStands, Approves
  <2>6. Approved(h) = <<target, value>> /\ <<target, value>> \notin Amendment
    BY <2>5 DEF Resolvable, IsPair
  <2>7. {a \in Approvals : Approved(a) = Approved(h)} = A
    BY <2>3, <2>4, <2>6
  <2>8. Since \in SUBSET M
    <3>1. \A m \in Amendments :
             m \in 1..HeadHeight(c) /\ RecordAt(c, m).namespace = "company"
      BY <2>1 DEF Amendments, RecordsOf
    <3> QED
      BY <3>1
  <2> HIDE DEF target, value, c
  <2>9. IsFiniteSet(M) /\ IsFiniteSet(A) /\ Cardinality(M) <= Cardinality(A)
    BY <2>1, <2>2, <2>6, ApprovalsCover
  <2> HIDE DEF M, A, Since
  <2>10. /\ IsFiniteSet(Since) /\ Cardinality(Since) <= Cardinality(M)
    BY <2>8, <2>9, FS_Subset
  <2>11. /\ Cardinality(Since) \in Nat /\ Cardinality(M) \in Nat /\ Cardinality(A) \in Nat
    BY <2>9, <2>10, FS_CardinalityType
  <2>12. Cardinality(Since) <= Cardinality(A)
    BY <2>9, <2>10, <2>11
  <2> QED
    BY <2>7, <2>12 DEF Since, target, value
<1> QED
  BY <1>1, ResolutionsStayInOrder, PTL
=============================================================================
