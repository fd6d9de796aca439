---------------------------- MODULE Meeting_proofs ----------------------------
(* Theorems about Meeting: a meeting of a collective channel, from its     *)
(* agenda to its final record, for every company and every agenda.         *)
EXTENDS Meeting, Records_proofs

-----------------------------------------------------------------------------
(* What a meeting holds of the chain, at each stage.                       *)

MeetingFields == {"status", "channel", "items", "votes", "convened", "opened_at",
                  "finalized"}
VoteFields == {"snapshot", "ballots", "evaluation", "finalized"}

(* The vote of an item, frozen when the meeting opened.                    *)
VoteOK(c, vote, at, channel, subject) ==
    /\ DOMAIN vote = VoteFields
    /\ RollFrozenOn(c, vote.snapshot)
    /\ vote.snapshot.height = at /\ vote.snapshot.channel = channel
    /\ vote.snapshot.proposal = subject
    /\ BallotsStand(vote.snapshot, vote.ballots)

TalliedOK(c, vote) == Counted(c, vote.snapshot, vote.ballots, Content(vote.evaluation))

(* The vote's record, and a vote that has one if it says so.               *)
OnChain(c, tx, vote) ==
    LET record == RecordAt(c, tx)
    IN  /\ tx \in 0..HeadHeight(c) /\ VoteStands(c, tx)
        /\ record.snapshot = vote.snapshot
        /\ record.evaluation = Content(vote.evaluation)

FinalizedOK(c, vote) ==
    \/ vote.finalized = None
    \/ /\ vote.finalized = Some(Content(vote.finalized))
       /\ OnChain(c, Content(vote.finalized), vote)

(* A vote recorded on a chain is recorded on every chain that continues    *)
(* it.                                                                     *)
LEMMA StillOnChain ==
    ASSUME NEW c, NEW d, Founded(c), Continues(d, c), NEW tx, NEW vote,
           OnChain(c, tx, vote)
    PROVE  OnChain(d, tx, vote)
<1>1. tx \in 0..HeadHeight(c) /\ VoteStands(c, tx)
  BY DEF OnChain
<1>2. /\ HeadHeight(c) \in Nat /\ HeadHeight(d) \in Nat
      /\ HeadHeight(c) <= HeadHeight(d)
  BY StillFounded
<1>3. tx \in 0..HeadHeight(d) /\ tx \in 0..tx
  BY <1>1, <1>2
<1>4. RecordAt(d, tx) = RecordAt(c, tx)
  BY <1>1, <1>3, PastReadings
<1>5. VoteStands(d, tx)
  BY <1>1, VoteStillStands
<1> QED
  BY <1>3, <1>4, <1>5 DEF OnChain

(* A meeting opened at a height of the chain, with one vote for each item  *)
(* put to the vote.                                                        *)
OpenedOK(c, m) ==
    LET at == Content(m.opened_at)
    IN  /\ m.opened_at = Some(at)
        /\ at \in 0..HeadHeight(c) /\ Content(m.convened) <= at
        /\ DOMAIN m.votes = VoteItems(m.items)
        /\ \A n \in VoteItems(m.items) :
              VoteOK(c, m.votes[n], at, m.channel, subject_of(m.items, n))

MeetingOK(c, m) ==
    /\ DOMAIN m = MeetingFields
    /\ m.status \in {"Draft", "Convened", "Open", "Closed", "Finalized"}
    /\ IsChain(m.items)
    /\ m.status # "Draft" =>
          /\ m.convened = Some(Content(m.convened))
          /\ ConvenedAt(c, Content(m.convened), m.channel, m.items)
    /\ m.status \in {"Open", "Closed", "Finalized"} => OpenedOK(c, m)
    /\ m.status = "Open" => \A n \in VoteItems(m.items) : m.votes[n].finalized = None
    /\ m.status \in {"Closed", "Finalized"} =>
          \A n \in VoteItems(m.items) :
              TalliedOK(c, m.votes[n]) /\ FinalizedOK(c, m.votes[n])

(* A meeting in order stays so when the chain grows.                       *)
LEMMA MeetingStays ==
    ASSUME NEW c, NEW d, Founded(c), Continues(d, c), NEW m, MeetingOK(c, m)
    PROVE  MeetingOK(d, m)
<1>1. m.status # "Draft" => ConvenedAt(d, Content(m.convened), m.channel, m.items)
  BY StillConvened DEF MeetingOK
<1>2. ASSUME OpenedOK(c, m) PROVE OpenedOK(d, m)
  <2> DEFINE at == Content(m.opened_at)
  <2>1. at \in 0..HeadHeight(d)
    BY <1>2, StillFounded DEF OpenedOK
  <2>2. ASSUME NEW n \in VoteItems(m.items)
        PROVE  VoteOK(d, m.votes[n], at, m.channel, subject_of(m.items, n))
    BY <1>2, StillRollFrozen DEF OpenedOK, VoteOK
  <2> QED
    BY <1>2, <2>1, <2>2 DEF OpenedOK
<1>3. ASSUME OpenedOK(c, m), NEW n \in VoteItems(m.items),
             TalliedOK(c, m.votes[n]), FinalizedOK(c, m.votes[n])
      PROVE  TalliedOK(d, m.votes[n]) /\ FinalizedOK(d, m.votes[n])
  <2> DEFINE vote == m.votes[n]
  <2>1. RollFrozenOn(c, vote.snapshot)
    BY <1>3 DEF OpenedOK, VoteOK
  <2>2. TalliedOK(c, vote) /\ FinalizedOK(c, vote)
    BY <1>3
  <2> HIDE DEF vote
  <2>3. TalliedOK(d, vote)
    BY <2>1, <2>2, StillCounted DEF TalliedOK
  <2>4. FinalizedOK(d, vote)
    BY <2>2, StillOnChain DEF FinalizedOK
  <2> QED
    BY <2>3, <2>4 DEF vote
<1> QED
  BY <1>1, <1>2, <1>3 DEF MeetingOK

-----------------------------------------------------------------------------
(* The inductive invariant: the company stays readable and amendable; the  *)
(* meeting on file, and the one a command is about to write, rest on this  *)
(* very chain; whoever is recording it may; and every record stands.       *)

FileOK(c, f) == f \in {Missing, Torn} \/ MeetingOK(c, f)

CommandOK(c, cmd) ==
    \/ cmd = Idle
    \/ \E m : cmd = Saving(m) /\ MeetingOK(c, m)
    \/ \E m, key : /\ cmd = Finalizing(m, key)
                   /\ MeetingOK(c, m) /\ m.status = "Closed"
                   /\ authorised_signer(c, HeadHeight(c), "governance", key)

MeetingInv ==
    /\ Healthy(chain)
    /\ FileOK(chain, file)
    /\ CommandOK(chain, command)
    /\ \A h \in Finals : MeetingStands(chain, h)
    /\ \A h \in Votes : VoteStands(chain, h)

IsFinal(x) == x.namespace = "meeting" /\ x.kind = "final"

(* The records of votes and of meetings, one record later.                 *)
LEMMA RecordsAfter ==
    ASSUME Healthy(chain), NEW x, chain' = Append(chain, x)
    PROVE  /\ HeadHeight(chain) \in Nat
           /\ \A h \in Votes' : h \in Votes \/ (h = HeadHeight(chain) + 1
                                                 /\ x.namespace = "vote")
           /\ \A h \in Finals' : h \in Finals \/ (h = HeadHeight(chain) + 1 /\ IsFinal(x))
<1> DEFINE d == Append(chain, x)
           n == HeadHeight(chain)
<1>1. /\ Founded(chain) /\ Founded(d) /\ Continues(d, chain)
      /\ HeadHeight(d) = n + 1 /\ n \in Nat /\ RecordAt(d, n + 1) = x
  BY AppendedReadings DEF Healthy
<1>2. \A h \in 0..n : RecordAt(d, h) = RecordAt(chain, h)
  <2>1. \A h \in 0..n : h \in 0..h
    OBVIOUS
  <2> QED
    BY <1>1, <2>1, PastReadings
<1> HIDE DEF d, n
<1>3. 0..(n + 1) = (0..n) \cup {n + 1}
  BY <1>1
<1>4. /\ Votes = {h \in 0..n : RecordAt(chain, h).namespace = "vote"}
      /\ Finals = {h \in 0..n : IsFinal(RecordAt(chain, h))}
  BY DEF Votes, Finals, IsRecord, IsFinal, n
<1>5. /\ Votes' = {h \in 0..(n + 1) : RecordAt(d, h).namespace = "vote"}
      /\ Finals' = {h \in 0..(n + 1) : IsFinal(RecordAt(d, h))}
  BY <1>1 DEF Votes, Finals, IsRecord, IsFinal, d
<1> QED
  BY <1>1, <1>2, <1>3, <1>4, <1>5 DEF n

(* A record that stands joins records that do.                             *)
LEMMA GrowKeepsMeetings ==
    ASSUME MeetingInv, NEW x, chain' = Append(chain, x),
           Healthy(chain'), Continues(chain', chain), file' = file,
           x.namespace = "vote" => VoteStands(chain', HeadHeight(chain) + 1),
           IsFinal(x) => MeetingStands(chain', HeadHeight(chain) + 1),
           CommandOK(chain', command')
    PROVE  MeetingInv'
<1>1. Healthy(chain) /\ Founded(chain)
  BY DEF MeetingInv, Healthy
<1>2. FileOK(chain', file)
  BY <1>1, MeetingStays DEF MeetingInv, FileOK
<1>3. \A h \in Votes : VoteStands(chain', h)
  BY <1>1, VoteStillStands DEF MeetingInv, Votes
<1>4. \A h \in Finals : MeetingStands(chain', h)
  BY <1>1, MeetingStillStands DEF MeetingInv
<1> QED
  BY <1>1, <1>2, <1>3, <1>4, RecordsAfter DEF MeetingInv

(* A step that leaves the chain alone.                                     *)
LEMMA StillKeepsMeetings ==
    ASSUME MeetingInv, chain' = chain, FileOK(chain, file'),
           CommandOK(chain, command')
    PROVE  MeetingInv'
  BY DEF MeetingInv, Votes, Finals

(* The file a command found in a status is a meeting.                      *)
LEMMA MeetingOfFile ==
    ASSUME NEW c, NEW f, FileOK(c, f), f.status \notin {"Missing", "Torn"}
    PROVE  MeetingOK(c, f)
  BY DEF FileOK, Missing, Torn

(* A command up to its save, which leaves the chain alone.                 *)
LEMMA StepOnFile ==
    ASSUME MeetingInv, NEW status, NEW m, Step(status, m), chain' = chain,
           MeetingOK(chain, m)
    PROVE  MeetingInv'
<1>1. CommandOK(chain, Saving(m))
  BY DEF CommandOK
<1> QED
  BY <1>1, StillKeepsMeetings DEF Step, MeetingInv

(* Drafting a meeting keeps the invariant.                                 *)
LEMMA NewKeepsMeetings ==
    ASSUME MeetingInv, NEW channel, New(channel)
    PROVE  MeetingInv'
<1> DEFINE m == Draft(channel)
<1>1. /\ DOMAIN m = MeetingFields /\ m.status = "Draft" /\ m.items = << >>
  BY DEF Draft, MeetingFields
<1>2. /\ command' = Saving(m) /\ file' = file /\ chain' = chain
  BY DEF New
<1> HIDE DEF m
<1>3. IsChain(<< >>)
  BY DEF IsChain
<1>4. MeetingOK(chain, m)
  BY <1>1, <1>3 DEF MeetingOK
<1>5. CommandOK(chain, Saving(m))
  BY <1>4 DEF CommandOK
<1> QED
  BY <1>2, <1>5, StillKeepsMeetings DEF MeetingInv

(* Adding an item to an agenda keeps the invariant.                        *)
LEMMA AddItemKeepsMeetings ==
    ASSUME MeetingInv, NEW item, AddItem(item)
    PROVE  MeetingInv'
<1> DEFINE m == [file EXCEPT !.items = Append(@, item)]
<1>1. /\ file.status = "Draft" /\ Step("Draft", m) /\ chain' = chain
  BY DEF AddItem
<1>2. DOMAIN file = MeetingFields /\ IsChain(file.items)
  BY <1>1, MeetingOfFile DEF MeetingInv, MeetingOK
<1>3. IsChain(Append(file.items, item))
  BY <1>2, AppendIsChain DEF Continues
<1>4. /\ DOMAIN m = MeetingFields /\ m.status = "Draft"
      /\ m.items = Append(file.items, item)
  BY <1>1, <1>2 DEF MeetingFields
<1> HIDE DEF m
<1>5. MeetingOK(chain, m)
  BY <1>3, <1>4 DEF MeetingOK
<1> QED
  BY <1>1, <1>5, StepOnFile

(* The convening record is the company's own, by a signer of the day.      *)
LEMMA ConveneKeepsMeetings ==
    ASSUME MeetingInv, NEW key, Convene(key)
    PROVE  MeetingInv'
<1> DEFINE n == HeadHeight(chain)
           m == [file EXCEPT !.status = "Convened", !.convened = Some(n + 1)]
           x == ConvenedRecord(CompanyOf(chain), file.channel, file.items, key)
<1>1. /\ file.status = "Draft" /\ GovernanceSigner(chain, key)
      /\ Step("Draft", m) /\ chain' = Append(chain, x)
  BY DEF Convene
<1>2. DOMAIN file = MeetingFields /\ IsChain(file.items)
  BY <1>1, MeetingOfFile DEF MeetingInv, MeetingOK
<1>3. /\ DOMAIN m = MeetingFields /\ m.status = "Convened" /\ m.convened = Some(n + 1)
      /\ m.items = file.items /\ m.channel = file.channel
  BY <1>2 DEF MeetingFields
<1>4. /\ x.namespace = "meeting" /\ x.kind = "convened" /\ DOMAIN x.parts = {}
      /\ x.company = CompanyOf(chain) /\ x.channel = file.channel
      /\ x.agenda = file.items /\ x.signer = key /\ ~IsCompanyRecord(x)
  BY DEF ConvenedRecord, NoParts, IsCompanyRecord
<1> HIDE DEF m, x
<1>5. authorised_signer(chain, n, "governance", key)
  BY <1>1 DEF GovernanceSigner
<1>6. /\ Healthy(chain') /\ Continues(chain', chain) /\ n \in Nat
      /\ HeadHeight(chain') = n + 1 /\ RecordAt(chain', n + 1) = x
      /\ authorised_signer(chain', n + 1, "governance", key)
  BY <1>1, <1>4, <1>5, OtherKeepsHealthy DEF MeetingInv
<1>7. CompanyOf(chain') = CompanyOf(chain)
  BY <1>6, StillFounded DEF MeetingInv, Healthy
<1>8. signer_authorised_at(chain', n + 1, key)
  BY <1>6 DEF signer_authorised_at, Healthy
<1>9. n + 1 \in 0..(n + 1)
  BY <1>6
<1>10. ConvenedAt(chain', n + 1, m.channel, m.items)
  BY <1>3, <1>4, <1>6, <1>7, <1>8, <1>9 DEF ConvenedAt
<1>11. MeetingOK(chain', m)
  BY <1>2, <1>3, <1>10, ContentOfSome DEF MeetingOK
<1>12. CommandOK(chain', command') /\ file' = file
  BY <1>1, <1>11 DEF CommandOK, Step
<1> QED
  BY <1>1, <1>4, <1>6, <1>12, GrowKeepsMeetings DEF IsFinal

(* A meeting that opens freezes its votes at the head.                     *)
LEMMA OpenKeepsMeetings ==
    ASSUME MeetingInv, Open
    PROVE  MeetingInv'
<1> DEFINE at == HeadHeight(chain)
           items == file.items
           snap(number) == VoteSnapshot(chain, at, file.channel, subject_of(items, number))
           votes == [number \in VoteItems(items) |-> Vote(snap(number))]
           m == [file EXCEPT !.status = "Open", !.opened_at = Some(at), !.votes = votes]
<1>1. /\ file.status = "Convened" /\ Step("Convened", m) /\ chain' = chain
      /\ VoteItems(items) # {} => VoteFreezable(chain, at, file.channel)
  BY DEF Open
<1>2. /\ DOMAIN file = MeetingFields /\ IsChain(items)
      /\ file.convened = Some(Content(file.convened))
      /\ ConvenedAt(chain, Content(file.convened), file.channel, items)
  BY <1>1, MeetingOfFile DEF MeetingInv, MeetingOK
<1>3. /\ at \in Nat /\ at \in 0..at /\ Founded(chain)
  BY Heights DEF MeetingInv, Healthy
<1>4. /\ DOMAIN votes = VoteItems(items)
      /\ \A number \in VoteItems(items) : votes[number] = Vote(snap(number))
  OBVIOUS
<1>5. ASSUME NEW number \in VoteItems(items)
      PROVE  /\ VoteOK(chain, votes[number], at, file.channel, subject_of(items, number))
             /\ votes[number].finalized = None
  <2> DEFINE s == snap(number)
             v == Vote(s)
  <2>1. /\ s.height = at /\ s.channel = file.channel
        /\ s.proposal = subject_of(items, number)
    BY DEF VoteSnapshot
  <2>2. s = VoteSnapshot(chain, at, file.channel, subject_of(items, number))
    OBVIOUS
  <2> HIDE DEF snap
  <2>3. VoteFreezable(chain, at, file.channel)
    BY <1>1, <1>5
  <2>4. RollFrozenOn(chain, s)
    BY <1>3, <2>2, <2>3, FreezingFreezes
  <2>5. DOMAIN v = VoteFields /\ v.snapshot = s /\ v.ballots = NoBallots
        /\ v.finalized = None
    BY DEF Vote, VoteFields
  <2>6. BallotsStand(s, NoBallots)
    BY DEF NoBallots, BallotsStand
  <2> HIDE DEF s, v
  <2>7. VoteOK(chain, v, at, file.channel, subject_of(items, number))
    BY <2>1, <2>4, <2>5, <2>6 DEF VoteOK
  <2>8. votes[number] = v
    BY <1>4 DEF v, s
  <2> HIDE DEF votes
  <2> QED
    BY <2>5, <2>7, <2>8
<1> HIDE DEF snap, votes
<1>6. /\ DOMAIN m = MeetingFields /\ m.status = "Open" /\ m.opened_at = Some(at)
      /\ m.votes = votes /\ m.items = items /\ m.channel = file.channel
      /\ m.convened = file.convened
  BY <1>2 DEF MeetingFields
<1> HIDE DEF m, items, at
<1>7. Content(file.convened) <= at
  BY <1>2, <1>3 DEF ConvenedAt, at
<1>8. Content(m.opened_at) = at
  BY <1>6, ContentOfSome
<1>9. OpenedOK(chain, m)
  BY <1>3, <1>4, <1>5, <1>6, <1>7, <1>8 DEF OpenedOK, at
<1>10. MeetingOK(chain, m)
  BY <1>2, <1>5, <1>6, <1>9 DEF MeetingOK
<1> QED
  BY <1>1, <1>10, StepOnFile

(* A ballot that checks joins those of one vote.                           *)
LEMMA CastKeepsMeetings ==
    ASSUME MeetingInv, NEW number, NEW ballot, Cast(number, ballot)
    PROVE  MeetingInv'
<1> DEFINE vote == file.votes[number]
           ballots == [voter \in DOMAIN vote.ballots \cup {ballot.voter} |->
                          IF voter = ballot.voter THEN ballot ELSE vote.ballots[voter]]
           m == [file EXCEPT !.votes[number].ballots =
                    [voter \in DOMAIN @ \cup {ballot.voter} |->
                        IF voter = ballot.voter THEN ballot ELSE @[voter]]]
           at == Content(file.opened_at)
<1>1. /\ file.status = "Open" /\ number \in DOMAIN file.votes
      /\ check_ballot(ballot, vote.snapshot)
      /\ Step("Open", m) /\ chain' = chain
  BY DEF Cast
<1>2. /\ DOMAIN file = MeetingFields /\ IsChain(file.items)
      /\ file.convened = Some(Content(file.convened))
      /\ ConvenedAt(chain, Content(file.convened), file.channel, file.items)
      /\ OpenedOK(chain, file)
      /\ \A n \in VoteItems(file.items) : file.votes[n].finalized = None
  BY <1>1, MeetingOfFile DEF MeetingInv, MeetingOK
<1>3. /\ DOMAIN file.votes = VoteItems(file.items)
      /\ \A n \in VoteItems(file.items) :
            VoteOK(chain, file.votes[n], at, file.channel, subject_of(file.items, n))
  BY <1>2 DEF OpenedOK
<1>4. BallotsStand(vote.snapshot, ballots)
  <2>1. BallotsStand(vote.snapshot, vote.ballots)
    BY <1>1, <1>3 DEF VoteOK
  <2>2. /\ DOMAIN ballots = DOMAIN vote.ballots \cup {ballot.voter}
        /\ \A voter \in DOMAIN ballots :
              ballots[voter] = IF voter = ballot.voter THEN ballot ELSE vote.ballots[voter]
    OBVIOUS
  <2> HIDE DEF ballots, vote
  <2> QED
    BY <1>1, <2>1, <2>2 DEF BallotsStand
<1> DEFINE w == [vote EXCEPT !.ballots = ballots]
           votes == [file.votes EXCEPT ![number] = w]
<1>5. m = [file EXCEPT !.votes = votes]
  OBVIOUS
<1> HIDE DEF m, ballots
<1>6. /\ DOMAIN w = VoteFields /\ w.snapshot = vote.snapshot /\ w.ballots = ballots
      /\ RollFrozenOn(chain, w.snapshot) /\ w.finalized = None
  BY <1>1, <1>2, <1>3 DEF VoteOK, VoteFields
<1> HIDE DEF w
<1>7. /\ DOMAIN votes = DOMAIN file.votes
      /\ \A n \in DOMAIN votes : votes[n] = IF n = number THEN w ELSE file.votes[n]
  BY <1>1
<1> HIDE DEF votes
<1>8. /\ DOMAIN m = MeetingFields /\ m.status = "Open" /\ m.votes = votes
      /\ m.items = file.items /\ m.channel = file.channel
      /\ m.convened = file.convened /\ m.opened_at = file.opened_at
  BY <1>1, <1>2, <1>5 DEF MeetingFields
<1>9. ASSUME NEW n \in VoteItems(file.items)
      PROVE  VoteOK(chain, votes[n], at, file.channel, subject_of(file.items, n))
  <2>1. CASE n = number
    <3>1. votes[n] = w
      BY <1>3, <1>7, <2>1
    <3>2. VoteOK(chain, vote, at, file.channel, subject_of(file.items, n))
      BY <1>3, <2>1
    <3> HIDE DEF vote
    <3> QED
      BY <1>4, <1>6, <3>1, <3>2 DEF VoteOK
  <2>2. CASE n # number
    BY <1>3, <1>7, <2>2
  <2> QED
    BY <2>1, <2>2
<1>10. OpenedOK(chain, m)
  BY <1>2, <1>3, <1>7, <1>8, <1>9 DEF OpenedOK
<1>11. \A n \in VoteItems(file.items) : votes[n].finalized = None
  BY <1>2, <1>3, <1>6, <1>7
<1>12. MeetingOK(chain, m)
  BY <1>2, <1>8, <1>10, <1>11 DEF MeetingOK
<1> QED
  BY <1>1, <1>12, StepOnFile

(* Closing counts every vote by the rules it froze.                        *)
LEMMA CloseKeepsMeetings ==
    ASSUME MeetingInv, Close
    PROVE  MeetingInv'
<1> DEFINE votes == [number \in DOMAIN file.votes |-> Tallied(file.votes[number])]
           m == [file EXCEPT !.status = "Closed",
                    !.votes = [number \in DOMAIN @ |-> Tallied(@[number])]]
           at == Content(file.opened_at)
<1>1. /\ file.status = "Open" /\ Step("Open", m) /\ chain' = chain
      /\ \A number \in DOMAIN file.votes :
            LET vote == file.votes[number]
            IN  evaluate_now(chain, vote.snapshot, vote.ballots,
                             Count(chain, vote.snapshot, vote.ballots))
  BY DEF Close
<1>2. /\ DOMAIN file = MeetingFields /\ IsChain(file.items)
      /\ file.convened = Some(Content(file.convened))
      /\ ConvenedAt(chain, Content(file.convened), file.channel, file.items)
      /\ OpenedOK(chain, file)
      /\ \A n \in VoteItems(file.items) : file.votes[n].finalized = None
  BY <1>1, MeetingOfFile DEF MeetingInv, MeetingOK
<1>3. /\ DOMAIN file.votes = VoteItems(file.items)
      /\ \A n \in VoteItems(file.items) :
            VoteOK(chain, file.votes[n], at, file.channel, subject_of(file.items, n))
  BY <1>2 DEF OpenedOK
<1>4. /\ DOMAIN votes = VoteItems(file.items)
      /\ \A n \in VoteItems(file.items) : votes[n] = Tallied(file.votes[n])
  BY <1>3
<1>5. ASSUME NEW n \in VoteItems(file.items)
      PROVE  /\ VoteOK(chain, votes[n], at, file.channel, subject_of(file.items, n))
             /\ TalliedOK(chain, votes[n]) /\ FinalizedOK(chain, votes[n])
  <2> DEFINE vote == file.votes[n]
             result == Count(chain, vote.snapshot, vote.ballots)
             w == [vote EXCEPT !.evaluation = Some(result)]
  <2>1. /\ VoteOK(chain, vote, at, file.channel, subject_of(file.items, n))
        /\ vote.finalized = None
    BY <1>2, <1>3
  <2>2. Counted(chain, vote.snapshot, vote.ballots, result)
    BY <1>1, <1>3 DEF evaluate_now, Counted
  <2>3. votes[n] = w
    BY <1>4 DEF Tallied
  <2> HIDE DEF result, vote, votes
  <2>4. /\ DOMAIN w = VoteFields /\ w.snapshot = vote.snapshot
        /\ w.ballots = vote.ballots /\ w.finalized = None
        /\ w.evaluation = Some(result)
    BY <2>1 DEF VoteOK, VoteFields
  <2> HIDE DEF w
  <2>5. VoteOK(chain, w, at, file.channel, subject_of(file.items, n))
    BY <2>1, <2>4 DEF VoteOK
  <2>6. TalliedOK(chain, w) /\ FinalizedOK(chain, w)
    BY <2>2, <2>4, ContentOfSome DEF TalliedOK, FinalizedOK
  <2> QED
    BY <2>3, <2>5, <2>6
<1>6. m = [file EXCEPT !.status = "Closed", !.votes = votes]
  OBVIOUS
<1> HIDE DEF votes, m
<1>7. /\ DOMAIN m = MeetingFields /\ m.status = "Closed" /\ m.votes = votes
      /\ m.items = file.items /\ m.channel = file.channel
      /\ m.convened = file.convened /\ m.opened_at = file.opened_at
  BY <1>2, <1>6 DEF MeetingFields
<1>8. OpenedOK(chain, m)
  BY <1>2, <1>4, <1>5, <1>7 DEF OpenedOK
<1>9. MeetingOK(chain, m)
  BY <1>2, <1>5, <1>7, <1>8 DEF MeetingOK
<1> QED
  BY <1>1, <1>9, StepOnFile

(* Starting to finalise a closed meeting keeps the invariant.              *)
LEMMA BeginKeepsMeetings ==
    ASSUME MeetingInv, NEW key, BeginFinalize(key)
    PROVE  MeetingInv'
<1>1. /\ file.status = "Closed" /\ GovernanceSigner(chain, key)
      /\ command' = Finalizing(file, key) /\ UNCHANGED <<chain, file>>
  BY DEF BeginFinalize
<1>2. MeetingOK(chain, file)
  BY <1>1, MeetingOfFile DEF MeetingInv
<1>3. authorised_signer(chain, HeadHeight(chain), "governance", key)
  BY <1>1 DEF GovernanceSigner
<1>4. CommandOK(chain, Finalizing(file, key))
  BY <1>1, <1>2, <1>3 DEF CommandOK
<1> QED
  BY <1>1, <1>4, StillKeepsMeetings DEF MeetingInv

(* What a command under way is about.                                      *)
LEMMA CommandStages ==
    /\ Idle.stage = "idle"
    /\ \A m : Saving(m).stage = "saving" /\ Saving(m).meeting = m
    /\ \A m, key : /\ Finalizing(m, key).stage = "finalizing"
                   /\ Finalizing(m, key).meeting = m /\ Finalizing(m, key).key = key
  BY DEF Idle, Saving, Finalizing

(* A command that finalises works on a closed meeting in order, with a key *)
(* that may sign.                                                          *)
LEMMA FinalizingCommand ==
    ASSUME MeetingInv, command.stage = "finalizing"
    PROVE  LET m == command.meeting
               key == command.key
           IN  /\ command = Finalizing(m, key)
               /\ MeetingOK(chain, m) /\ m.status = "Closed"
               /\ authorised_signer(chain, HeadHeight(chain), "governance", key)
  BY CommandStages DEF MeetingInv, CommandOK

(* Marking a vote as recorded, once its record is on the chain.            *)
LEMMA MarkedRecorded ==
    ASSUME NEW c, NEW m, MeetingOK(c, m), m.status = "Closed",
           NEW number \in DOMAIN m.votes, NEW tx,
           OnChain(c, tx, m.votes[number])
    PROVE  LET marked == [m EXCEPT !.votes[number].finalized = Some(tx)]
           IN  MeetingOK(c, marked) /\ marked.status = "Closed"
<1> DEFINE vote == m.votes[number]
           w == [vote EXCEPT !.finalized = Some(tx)]
           votes == [m.votes EXCEPT ![number] = w]
           marked == [m EXCEPT !.votes[number].finalized = Some(tx)]
           at == Content(m.opened_at)
<1>1. /\ DOMAIN m = MeetingFields /\ IsChain(m.items)
      /\ m.convened = Some(Content(m.convened))
      /\ ConvenedAt(c, Content(m.convened), m.channel, m.items)
      /\ OpenedOK(c, m)
      /\ \A n \in VoteItems(m.items) :
            TalliedOK(c, m.votes[n]) /\ FinalizedOK(c, m.votes[n])
  BY DEF MeetingOK
<1>2. /\ DOMAIN m.votes = VoteItems(m.items)
      /\ \A n \in VoteItems(m.items) :
            VoteOK(c, m.votes[n], at, m.channel, subject_of(m.items, n))
  BY <1>1 DEF OpenedOK
<1>3. marked = [m EXCEPT !.votes = votes]
  OBVIOUS
<1>4. /\ VoteOK(c, vote, at, m.channel, subject_of(m.items, number))
      /\ TalliedOK(c, vote) /\ OnChain(c, tx, vote)
  BY <1>1, <1>2
<1> HIDE DEF marked, vote
<1>5. /\ DOMAIN w = VoteFields /\ w.snapshot = vote.snapshot
      /\ w.ballots = vote.ballots /\ w.evaluation = vote.evaluation
      /\ w.finalized = Some(tx)
  BY <1>4 DEF VoteOK, VoteFields
<1> HIDE DEF w
<1>6. /\ VoteOK(c, w, at, m.channel, subject_of(m.items, number))
      /\ TalliedOK(c, w) /\ FinalizedOK(c, w)
  BY <1>4, <1>5, ContentOfSome DEF VoteOK, TalliedOK, FinalizedOK, OnChain
<1>7. /\ DOMAIN votes = VoteItems(m.items)
      /\ \A n \in VoteItems(m.items) : votes[n] = IF n = number THEN w ELSE m.votes[n]
  BY <1>2
<1> HIDE DEF votes
<1>8. \A n \in VoteItems(m.items) :
          /\ VoteOK(c, votes[n], at, m.channel, subject_of(m.items, n))
          /\ TalliedOK(c, votes[n]) /\ FinalizedOK(c, votes[n])
  BY <1>1, <1>2, <1>6, <1>7
<1>9. /\ DOMAIN marked = MeetingFields /\ marked.status = "Closed"
      /\ marked.votes = votes /\ marked.items = m.items /\ marked.channel = m.channel
      /\ marked.convened = m.convened /\ marked.opened_at = m.opened_at
  BY <1>1, <1>3 DEF MeetingFields
<1>10. OpenedOK(c, marked)
  BY <1>1, <1>7, <1>8, <1>9 DEF OpenedOK
<1>11. MeetingOK(c, marked)
  BY <1>1, <1>8, <1>9, <1>10 DEF MeetingOK
<1> QED
  BY <1>9, <1>11 DEF marked

(* finalize records the next vote, whose result it just reproduced.        *)
LEMMA FinalizeVoteKeepsMeetings ==
    ASSUME MeetingInv, NEW number, FinalizeVote(number)
    PROVE  MeetingInv'
<1> DEFINE n == HeadHeight(chain)
           m == command.meeting
           key == command.key
           vote == m.votes[number]
           x == VoteRecord([vote EXCEPT !.snapshot = Some(@)], key)
           marked == [m EXCEPT !.votes[number].finalized = Some(n + 1)]
<1>1. /\ command.stage = "finalizing" /\ Unrecorded(m) # {}
      /\ number = Min(Unrecorded(m)) /\ chain' = Append(chain, x) /\ file' = file
      /\ command' = [command EXCEPT !.meeting.votes[number].finalized = Some(n + 1)]
  BY DEF FinalizeVote
<1>2. /\ command = Finalizing(m, key) /\ MeetingOK(chain, m) /\ m.status = "Closed"
      /\ authorised_signer(chain, n, "governance", key)
  BY <1>1, FinalizingCommand
<1>3. /\ IsChain(m.items) /\ OpenedOK(chain, m)
      /\ \A k \in VoteItems(m.items) : TalliedOK(chain, m.votes[k])
  BY <1>2 DEF MeetingOK
<1>4. DOMAIN m.votes = VoteItems(m.items) /\ VoteItems(m.items) \subseteq Nat
  BY <1>3 DEF OpenedOK, VoteItems, IsChain
<1>5. number \in DOMAIN m.votes
  <2>1. Unrecorded(m) \subseteq DOMAIN m.votes
    BY DEF Unrecorded
  <2> QED
    BY <1>1, <1>4, <2>1, FirstNumber
<1>6. /\ DOMAIN vote = VoteFields /\ RollFrozenOn(chain, vote.snapshot)
      /\ BallotsStand(vote.snapshot, vote.ballots) /\ TalliedOK(chain, vote)
  BY <1>3, <1>4, <1>5 DEF OpenedOK, VoteOK
<1>7. command' = Finalizing(marked, key)
  <2>1. command = [stage |-> "finalizing", meeting |-> m, key |-> key]
    BY <1>2 DEF Finalizing
  <2>2. command' = [command EXCEPT !.meeting = marked]
    BY <1>1
  <2> HIDE DEF marked, m, key
  <2> QED
    BY <2>1, <2>2 DEF Finalizing
<1>8. /\ x.namespace = "vote" /\ DOMAIN x.parts = {} /\ ~IsCompanyRecord(x)
      /\ x.snapshot = vote.snapshot /\ x.ballots = vote.ballots
      /\ x.evaluation = Content(vote.evaluation) /\ x.signer = key
  <2> DEFINE v == [vote EXCEPT !.snapshot = Some(@)]
  <2> HIDE DEF vote, key
  <2>1. /\ v.snapshot = Some(vote.snapshot) /\ v.ballots = vote.ballots
        /\ v.evaluation = vote.evaluation
    BY <1>6 DEF VoteFields
  <2>2. x = VoteRecord(v, key)
    OBVIOUS
  <2> HIDE DEF v, x
  <2> QED
    BY <2>1, <2>2, ContentOfSome DEF VoteRecord, NoParts, IsCompanyRecord
<1> HIDE DEF x, key, marked
<1>9. /\ Healthy(chain') /\ Continues(chain', chain) /\ n \in Nat
      /\ HeadHeight(chain') = n + 1 /\ RecordAt(chain', n + 1) = x
      /\ authorised_signer(chain', n + 1, "governance", key)
  BY <1>1, <1>2, <1>8, OtherKeepsHealthy DEF MeetingInv
<1>10. Founded(chain)
  BY DEF MeetingInv, Healthy
<1>11. VoteStands(chain', n + 1)
  <2>1. /\ RollFrozenOn(chain', vote.snapshot)
        /\ Counted(chain', vote.snapshot, vote.ballots, Content(vote.evaluation))
    <3> DEFINE s == vote.snapshot
               ballots == vote.ballots
               result == Content(vote.evaluation)
    <3>1. RollFrozenOn(chain, s) /\ Counted(chain, s, ballots, result)
      BY <1>6 DEF TalliedOK
    <3> HIDE DEF s, ballots, result
    <3>2. RollFrozenOn(chain', s)
      BY <3>1, <1>9, <1>10, StillRollFrozen
    <3>3. Counted(chain', s, ballots, result)
      BY <3>1, <1>9, <1>10, StillCounted
    <3> QED
      BY <3>2, <3>3 DEF s, ballots, result
  <2>2. vote.snapshot.height < n + 1
    BY <1>6, <1>9, SMTT(30) DEF RollFrozenOn
  <2>3. signer_authorised_at(chain', n + 1, key)
    BY <1>9 DEF signer_authorised_at, Healthy
  <2> QED
    BY <1>6, <1>8, <1>9, <2>1, <2>2, <2>3 DEF VoteStands
<1>12. OnChain(chain', n + 1, vote)
  <2>1. n + 1 \in 0..HeadHeight(chain')
    BY <1>9
  <2> QED
    BY <1>8, <1>9, <1>11, <2>1 DEF OnChain
<1>13. MeetingOK(chain', m)
  BY <1>2, <1>9, <1>10, MeetingStays
<1>14. MeetingOK(chain', marked) /\ marked.status = "Closed"
  BY <1>2, <1>5, <1>12, <1>13, MarkedRecorded DEF marked
<1>15. CommandOK(chain', command')
  BY <1>7, <1>9, <1>14 DEF CommandOK
<1> QED
  BY <1>1, <1>8, <1>9, <1>11, <1>15, GrowKeepsMeetings DEF IsFinal

(* An item of a closed meeting all of whose votes are recorded, as the     *)
(* final record will carry it.                                             *)
LEMMA FinalItemStands ==
    ASSUME NEW c, NEW d, Founded(c), Continues(d, c), NEW h, h = HeadHeight(c) + 1,
           NEW m, MeetingOK(c, m), m.status = "Closed", Unrecorded(m) = {},
           NEW k \in DOMAIN m.items, NEW entry, entry = FinalItem(m, k)
    PROVE  /\ entry.item = m.items[k]
           /\ IF entry.item.is_vote
              THEN ItemVoted(d, h, entry, Content(m.opened_at), m.channel,
                             subject_of(m.items, k))
              ELSE entry.vote_tx = None /\ entry.accepted = None
<1> DEFINE vote == m.votes[k]
           tx == Content(vote.finalized)
           at == Content(m.opened_at)
           voted == k \in DOMAIN m.votes
<1>1. /\ OpenedOK(c, m)
      /\ \A n \in VoteItems(m.items) :
            TalliedOK(c, m.votes[n]) /\ FinalizedOK(c, m.votes[n])
  BY DEF MeetingOK
<1>2. /\ DOMAIN m.votes = VoteItems(m.items)
      /\ \A n \in VoteItems(m.items) :
            VoteOK(c, m.votes[n], at, m.channel, subject_of(m.items, n))
  BY <1>1 DEF OpenedOK
<1>3. /\ entry.item = m.items[k]
      /\ entry.vote_tx = IF voted THEN vote.finalized ELSE None
      /\ entry.accepted = IF voted THEN Some(Content(vote.evaluation).accepted) ELSE None
  BY DEF FinalItem
<1>4. voted <=> m.items[k].is_vote
  BY <1>2 DEF VoteItems
<1>5. CASE ~voted
  BY <1>3, <1>4, <1>5
<1>6. CASE voted
  <2>1. /\ FinalizedOK(c, vote) /\ vote.finalized # None
        /\ VoteOK(c, vote, at, m.channel, subject_of(m.items, k))
    BY <1>1, <1>2, <1>6 DEF Unrecorded
  <2>2. vote.finalized = Some(tx) /\ OnChain(c, tx, vote)
    BY <2>1 DEF FinalizedOK
  <2>3. OnChain(d, tx, vote)
    BY <2>2, StillOnChain
  <2>4. tx < h
    BY <2>2, Heights DEF OnChain
  <2>5. entry.vote_tx = Some(tx) /\ Content(entry.vote_tx) = tx
    BY <1>3, <1>6, <2>2, ContentOfSome
  <2>6. ItemVoted(d, h, entry, at, m.channel, subject_of(m.items, k))
    <3> HIDE DEF tx, vote, at
    <3> QED
      BY <1>3, <1>6, <2>1, <2>3, <2>4, <2>5 DEF OnChain, VoteOK, ItemVoted
  <2> QED
    BY <1>3, <1>4, <1>6, <2>6
<1> QED
  BY <1>5, <1>6

(* The final record stands, on those of the convening and of the votes.    *)
LEMMA FinalizeMeetingKeepsMeetings ==
    ASSUME MeetingInv, FinalizeMeeting
    PROVE  MeetingInv'
<1> DEFINE n == HeadHeight(chain)
           m == command.meeting
           key == command.key
           x == FinalRecord(CompanyOf(chain), m, key)
           saved == [m EXCEPT !.status = "Finalized", !.finalized = Some(n + 1)]
<1>1. /\ command.stage = "finalizing" /\ Unrecorded(m) = {}
      /\ chain' = Append(chain, x) /\ command' = Saving(saved) /\ file' = file
  BY DEF FinalizeMeeting
<1>2. /\ MeetingOK(chain, m) /\ m.status = "Closed"
      /\ authorised_signer(chain, n, "governance", key)
  BY <1>1, FinalizingCommand
<1>3. /\ x.namespace = "meeting" /\ x.kind = "final" /\ DOMAIN x.parts = {}
      /\ x.company = CompanyOf(chain) /\ x.meeting_id = Content(m.convened)
      /\ x.channel = m.channel /\ x.opened_at = Content(m.opened_at)
      /\ DOMAIN x.items = DOMAIN m.items
      /\ \A k \in DOMAIN m.items : x.items[k] = FinalItem(m, k)
      /\ x.signer = key /\ ~IsCompanyRecord(x)
  BY DEF FinalRecord, NoParts, IsCompanyRecord
<1> HIDE DEF x, key, m
<1>4. /\ Healthy(chain') /\ Continues(chain', chain) /\ n \in Nat
      /\ HeadHeight(chain') = n + 1 /\ RecordAt(chain', n + 1) = x
      /\ authorised_signer(chain', n + 1, "governance", key)
  BY <1>1, <1>2, <1>3, OtherKeepsHealthy DEF MeetingInv
<1>5. Founded(chain) /\ CompanyOf(chain') = CompanyOf(chain)
  BY <1>4, StillFounded DEF MeetingInv, Healthy
<1>6. MeetingOK(chain', m)
  BY <1>2, <1>4, <1>5, MeetingStays
<1>7. /\ DOMAIN m = MeetingFields /\ IsChain(m.items) /\ OpenedOK(chain', m)
      /\ m.convened = Some(Content(m.convened))
      /\ ConvenedAt(chain', Content(m.convened), m.channel, m.items)
      /\ \A k \in VoteItems(m.items) :
            TalliedOK(chain', m.votes[k]) /\ FinalizedOK(chain', m.votes[k])
  BY <1>2, <1>6 DEF MeetingOK
<1>8. /\ DOMAIN saved = MeetingFields /\ saved.status = "Finalized"
      /\ saved.items = m.items /\ saved.votes = m.votes /\ saved.channel = m.channel
      /\ saved.convened = m.convened /\ saved.opened_at = m.opened_at
  BY <1>7 DEF MeetingFields
<1> HIDE DEF saved
<1>9. OpenedOK(chain', saved)
  BY <1>7, <1>8 DEF OpenedOK
<1>10. MeetingOK(chain', saved)
  BY <1>7, <1>8, <1>9 DEF MeetingOK
<1>11. CommandOK(chain', command')
  BY <1>1, <1>10 DEF CommandOK
<1>12. AgendaOf(x.items) = m.items
  <2>1. m.items = [k \in DOMAIN m.items |-> m.items[k]]
    BY <1>7 DEF IsChain
  <2>2. \A k \in DOMAIN m.items : x.items[k].item = m.items[k]
    <3>1. \A k : FinalItem(m, k).item = m.items[k]
      BY DEF FinalItem
    <3> QED
      BY <1>3, <3>1
  <2>3. AgendaOf(x.items) = [k \in DOMAIN m.items |-> x.items[k].item]
    BY <1>3 DEF AgendaOf
  <2> QED
    BY <2>1, <2>2, <2>3
<1>13. \A k \in DOMAIN x.items : ItemStands(chain', n + 1, x, k)
  <2> SUFFICES ASSUME NEW k \in DOMAIN m.items
               PROVE  ItemStands(chain', n + 1, x, k)
    BY <1>3
  <2> DEFINE entry == x.items[k]
  <2>1. entry = FinalItem(m, k)
    BY <1>3
  <2> HIDE DEF entry
  <2>2. IF entry.item.is_vote
        THEN ItemVoted(chain', n + 1, entry, Content(m.opened_at), m.channel,
                       subject_of(m.items, k))
        ELSE entry.vote_tx = None /\ entry.accepted = None
    BY <1>1, <1>2, <1>4, <1>5, <2>1, FinalItemStands
  <2> QED
    BY <1>3, <1>12, <2>2 DEF ItemStands, entry
<1>14. MeetingStands(chain', n + 1)
  <2>1. /\ x.meeting_id <= x.opened_at /\ x.opened_at < n + 1
        /\ n + 1 \in 0..(n + 1)
    <3>1. OpenedOK(chain, m)
      BY <1>2 DEF MeetingOK
    <3>2. Content(m.opened_at) \in 0..n /\ Content(m.convened) <= Content(m.opened_at)
      BY <3>1 DEF OpenedOK
    <3> QED
      BY <1>3, <1>4, <3>2
  <2>2. signer_authorised_at(chain', n + 1, key)
    BY <1>4 DEF signer_authorised_at, Healthy
  <2>3. ConvenedAt(chain', x.meeting_id, x.channel, AgendaOf(x.items))
    BY <1>3, <1>7, <1>12
  <2>4. n + 1 \in 0..HeadHeight(chain') /\ x.company = CompanyOf(chain')
    BY <1>3, <1>4, <1>5, <2>1
  <2> HIDE DEF n
  <2> QED
    BY <1>3, <1>4, <1>13, <2>1, <2>2, <2>3, <2>4 DEF MeetingStands
<1> QED
  BY <1>1, <1>3, <1>4, <1>11, <1>14, GrowKeepsMeetings

(* An amendment of the company keeps the invariant.                        *)
LEMMA AmendKeepsMeetings ==
    ASSUME MeetingInv, NEW key \in Key, NEW a \in Amendment, Amend(key, a[1], a[2])
    PROVE  MeetingInv'
<1> DEFINE base == provider_of(chain, HeadHeight(chain), a[1])
           x == compose_record(chain, a[1], a[2], base, key)
<1>1. /\ Acceptable(chain, key, a[1], a[2], base) /\ command = Idle
      /\ chain' = Append(chain, x) /\ UNCHANGED <<file, command>>
  BY DEF Amend
<1>2. a[1] \in Part
  BY AmendmentAssumption
<1>3. AmendsHead(chain, x, a[1], base) /\ x.namespace = "company"
  BY <1>1, ComposedAmends
<1> HIDE DEF base, x
<1>4. AmendedTo(chain, Append(chain, x), x, a[1])
  BY <1>2, <1>3, AmendKeepsHealthy DEF MeetingInv
<1>5. Healthy(chain') /\ Continues(chain', chain)
  BY <1>1, <1>4 DEF AmendedTo
<1>6. CommandOK(chain', command')
  BY <1>1 DEF CommandOK
<1> QED
  BY <1>1, <1>3, <1>5, <1>6, GrowKeepsMeetings DEF IsFinal

(* Saving writes what the command worked out; a crash writes it, or half   *)
(* of it, or nothing; and a refusal nothing.                               *)
LEMMA EndKeepsMeetings ==
    ASSUME MeetingInv, Save \/ Crash \/ RefuseFinalRecord
    PROVE  MeetingInv'
<1>1. command' = Idle /\ chain' = chain
  BY DEF Save, Crash, RefuseFinalRecord
<1>2. ASSUME command.stage = "saving" PROVE MeetingOK(chain, command.meeting)
  BY <1>2, CommandStages DEF MeetingInv, CommandOK
<1>3. FileOK(chain, file')
  BY <1>2 DEF Save, Crash, RefuseFinalRecord, MeetingInv, FileOK
<1>4. CommandOK(chain, Idle)
  BY DEF CommandOK
<1> QED
  BY <1>1, <1>3, <1>4, StillKeepsMeetings

(* Every step keeps the invariant.                                         *)
LEMMA StepKeepsMeetings ==
    ASSUME MeetingInv, [Next]_vars
    PROVE  MeetingInv'
<1>1. CASE UNCHANGED vars
  BY <1>1, StillKeepsMeetings DEF vars, MeetingInv
<1>2. ASSUME NEW key \in Key, NEW a \in Amendment, Amend(key, a[1], a[2])
      PROVE  MeetingInv'
  BY <1>2, AmendKeepsMeetings
<1>3. ASSUME NEW channel \in ChannelId, New(channel) PROVE MeetingInv'
  BY <1>3, NewKeepsMeetings
<1>4. ASSUME NEW item \in Items, AddItem(item) PROVE MeetingInv'
  BY <1>4, AddItemKeepsMeetings
<1>5. ASSUME NEW key \in Key, Convene(key) PROVE MeetingInv'
  BY <1>5, ConveneKeepsMeetings
<1>6. ASSUME Open PROVE MeetingInv'
  BY <1>6, OpenKeepsMeetings
<1>7. ASSUME NEW number, NEW ballot, Cast(number, ballot) PROVE MeetingInv'
  BY <1>7, CastKeepsMeetings
<1>8. ASSUME Close PROVE MeetingInv'
  BY <1>8, CloseKeepsMeetings
<1>9. ASSUME NEW key \in Key, BeginFinalize(key) PROVE MeetingInv'
  BY <1>9, BeginKeepsMeetings
<1>10. ASSUME NEW number, FinalizeVote(number) PROVE MeetingInv'
  BY <1>10, FinalizeVoteKeepsMeetings
<1>11. ASSUME FinalizeMeeting PROVE MeetingInv'
  BY <1>11, FinalizeMeetingKeepsMeetings
<1>12. ASSUME Save \/ Crash \/ RefuseFinalRecord PROVE MeetingInv'
  BY <1>12, EndKeepsMeetings
<1>13. CASE Next
  BY <1>2, <1>3, <1>4, <1>5, <1>6, <1>7, <1>8, <1>9, <1>10, <1>11, <1>12, <1>13 DEF Next
<1> QED
  BY <1>1, <1>13

(* A company begins with its genesis, no meeting and no vote.              *)
LEMMA MeetingsBegin == Init => MeetingInv
<1> SUFFICES ASSUME Init PROVE MeetingInv
  OBVIOUS
<1>1. PICK company \in Company, parts \in Founding :
          /\ ValidFounding(parts)
          /\ chain = <<Record(company, parts, None, AnyKey)>>
  BY DEF Init
<1> DEFINE record == Record(company, parts, None, AnyKey)
<1>2. /\ IsCompanyRecord(record) /\ IsGenesis(record) /\ record.supersedes = None
      /\ ~lockout_after(record.parts["Identities"], record.parts["Authorisation"])
      /\ record.namespace = "company"
  BY <1>1, FoundingAssumption DEF Record, IsCompanyRecord, IsGenesis, ValidFounding
<1> HIDE DEF record
<1>3. Healthy(<<record>>) /\ HeadHeight(<<record>>) = 0
  BY <1>2, FoundingIsHealthy
<1>4. chain = <<record>> /\ chain[1] = record
  BY <1>1 DEF record
<1>5. \A h \in 0..HeadHeight(chain) : RecordAt(chain, h) = record
  BY <1>3, <1>4 DEF RecordAt
<1>6. Votes = {} /\ Finals = {}
  BY <1>2, <1>5 DEF Votes, Finals, IsRecord
<1>7. FileOK(chain, file) /\ CommandOK(chain, command)
  BY DEF Init, FileOK, CommandOK
<1> QED
  BY <1>3, <1>4, <1>6, <1>7 DEF MeetingInv

(* Every stage of every meeting stays reproducible from the chain.         *)
THEOREM MeetingsStayInOrder == Spec => []MeetingInv
<1>1. MeetingInv /\ [Next]_vars => MeetingInv'
  BY StepKeepsMeetings
<1> QED
  BY <1>1, MeetingsBegin, PTL DEF Spec

(* Every final record verifies, and so does every vote record, those an    *)
(* interrupted finalisation left behind included (verify.rs).              *)
THEOREM RecordedMeetingsVerify == Spec => []MeetingsVerify
<1>1. MeetingInv => MeetingsVerify
  BY StandingMeetingVerifies, StandingVoteVerifies DEF MeetingInv, Healthy, MeetingsVerify
<1> QED
  BY <1>1, MeetingsStayInOrder, PTL

(* The votes of a closed meeting can be recorded by any governance signer  *)
(* of the day, whatever was amended since it opened and however often      *)
(* recording them was interrupted: each still counts to what it says       *)
(* (finalize).                                                             *)
THEOREM ClosedMeetingsAreRecordable == Spec => []NeverStranded
<1>1. MeetingInv => NeverStranded
  <2> SUFFICES ASSUME MeetingInv, file.status = "Closed", NEW key \in Key,
                      GovernanceSigner(chain, key), NEW n \in Unrecorded(file)
               PROVE  VoteFinalizable(file.votes[n], key)
    BY DEF NeverStranded
  <2> DEFINE vote == file.votes[n]
  <2>1. /\ OpenedOK(chain, file)
        /\ \A k \in VoteItems(file.items) : TalliedOK(chain, file.votes[k])
    BY MeetingOfFile DEF MeetingInv, MeetingOK
  <2>2. n \in VoteItems(file.items)
    BY <2>1 DEF OpenedOK, Unrecorded
  <2>3. RollFrozenOn(chain, vote.snapshot) /\ TalliedOK(chain, vote)
    BY <2>1, <2>2 DEF OpenedOK, VoteOK
  <2>4. evaluate_now(chain, vote.snapshot, vote.ballots, Content(vote.evaluation))
    BY <2>3, CountedEvaluates DEF TalliedOK, MeetingInv, Healthy
  <2> QED
    BY <2>4 DEF VoteFinalizable
<1> QED
  BY <1>1, MeetingsStayInOrder, PTL

(* A ballot counts for the one item it was signed for: two votes of a      *)
(* meeting have no vote id in common, even on the same proposal, and so no *)
(* ballot (lifecycle.rs, subject_of).                                      *)
THEOREM BallotsCountForOneItem == Spec => []OneItemPerBallot
<1>1. MeetingInv => OneItemPerBallot
  <2> SUFFICES ASSUME MeetingInv, NEW h \in Finals,
                      NEW m \in DOMAIN RecordAt(chain, h).items,
                      NEW n \in DOMAIN RecordAt(chain, h).items, m # n,
                      NEW s \in RecordAt(chain, h).items[m].vote_tx,
                      NEW t \in RecordAt(chain, h).items[n].vote_tx
               PROVE  LET ours == RecordAt(chain, s).ballots
                          theirs == RecordAt(chain, t).ballots
                      IN  /\ s # t
                          /\ {ours[v] : v \in DOMAIN ours}
                               \cap {theirs[v] : v \in DOMAIN theirs} = {}
    BY DEF OneItemPerBallot
  <2> DEFINE record == RecordAt(chain, h)
             agenda == AgendaOf(record.items)
  <2>1. MeetingStands(chain, h)
    BY DEF MeetingInv
  <2>2. ASSUME NEW k \in DOMAIN record.items, NEW tx \in record.items[k].vote_tx
        PROVE  /\ VoteStands(chain, tx)
               /\ RecordAt(chain, tx).snapshot.proposal = subject_of(agenda, k)
    <3>1. ItemStands(chain, h, record, k)
      BY <2>1 DEF MeetingStands
    <3> DEFINE entry == record.items[k]
    <3>2. entry.vote_tx # None
      BY <2>2 DEF None
    <3>3. ItemVoted(chain, h, entry, record.opened_at, record.channel,
                    subject_of(agenda, k))
      BY <3>1, <3>2 DEF ItemStands
    <3>4. tx = Content(entry.vote_tx)
      BY <2>2, <3>3 DEF ItemVoted, Some
    <3> QED
      BY <3>3, <3>4 DEF ItemVoted
  <2>3. /\ VoteStands(chain, s) /\ VoteStands(chain, t)
        /\ RecordAt(chain, s).snapshot.proposal = subject_of(agenda, m)
        /\ RecordAt(chain, t).snapshot.proposal = subject_of(agenda, n)
    BY <2>2
  <2>4. subject_of(agenda, m) # subject_of(agenda, n)
    BY DEF subject_of
  <2>5. RecordAt(chain, s).snapshot # RecordAt(chain, t).snapshot
    BY <2>3, <2>4
  <2>6. /\ \A v \in DOMAIN RecordAt(chain, s).ballots :
              RecordAt(chain, s).ballots[v].vote_id = RecordAt(chain, s).snapshot
        /\ \A v \in DOMAIN RecordAt(chain, t).ballots :
              RecordAt(chain, t).ballots[v].vote_id = RecordAt(chain, t).snapshot
    BY <2>3 DEF VoteStands, BallotsStand, check_ballot
  <2> QED
    BY <2>5, <2>6
<1> QED
  BY <1>1, MeetingsStayInOrder, PTL
====
