------------------------------- MODULE Meeting -------------------------------
(***************************************************************************)
(* irena-meeting and the meeting commands of irena-cli: a meeting of a     *)
(* collective channel from its agenda to its final record, carrying one    *)
(* vote per item put to the vote.                                          *)
(*                                                                         *)
(* One secretary runs the commands, one after the other, on one state      *)
(* file.  Convening, opening, closing and finalising hold the chain file;  *)
(* finalising appends a record per vote and then its own, one block each,  *)
(* and the state file is saved only at the end.                            *)
(***************************************************************************)
EXTENDS MeetingRecords

CONSTANTS Company,      \* company ids
          Founding,     \* the parts a genesis may carry
          Amendment,    \* <<part, value>> pairs an amendment may carry
          Items,        \* what an agenda may list
          ChannelId,    \* the channels a meeting may be a meeting of
          Offered,      \* the choices ballots may carry
          MaxItems,     \* bound on the length of an agenda
          MaxHeight     \* bound on the height of the chain

ASSUME BoundsAssumption == MaxItems \in Nat /\ MaxHeight \in Nat
ASSUME OfferedAssumption == Offered \subseteq Choice

(* A genesis document carries every part, and an amendment is of one.      *)
ASSUME FoundingAssumption == \A parts \in Founding : DOMAIN parts = Part
ASSUME AmendmentAssumption == \A a \in Amendment : a[1] \in Part

VARIABLES chain,        \* the records on the chain
          file,         \* what the state file holds
          command       \* the finalisation or the save under way, if any

vars == <<chain, file, command>>

Missing == [status |-> "Missing"]
Torn == [status |-> "Torn"]     \* a write cut short: the file does not decode

Draft(channel) ==
    [status |-> "Draft", channel |-> channel, items |-> << >>,
     votes |-> [number \in {} |-> None], convened |-> None, opened_at |-> None,
     finalized |-> None]

Idle == [stage |-> "idle"]
Saving(meeting) == [stage |-> "saving", meeting |-> meeting]
Finalizing(meeting, key) == [stage |-> "finalizing", meeting |-> meeting, key |-> key]

AnyKey == CHOOSE key \in Key : TRUE     \* nothing judges who signs a genesis

Init ==
    /\ \E company \in Company, parts \in Founding :
          /\ ValidFounding(parts)
          /\ chain = <<Record(company, parts, None, AnyKey)>>
    /\ file = Missing
    /\ command = Idle

-----------------------------------------------------------------------------
(* The rest of the world: somebody amends the company.                     *)

Amend(key, part, value) ==
    LET base == provider_of(chain, HeadHeight(chain), part)
    IN  /\ command = Idle
        /\ HeadHeight(chain) < MaxHeight
        /\ Acceptable(chain, key, part, value, base)
        /\ chain' = Append(chain, compose_record(chain, part, value, base, key))
        /\ UNCHANGED <<file, command>>

-----------------------------------------------------------------------------
(* The commands, each up to its save                                       *)

Step(status, meeting) ==
    /\ command = Idle
    /\ file.status = status
    /\ command' = Saving(meeting)
    /\ UNCHANGED file

New(channel) ==
    /\ command = Idle
    /\ command' = Saving(Draft(channel))
    /\ UNCHANGED <<chain, file>>

(* Fault: items are still taken once the meeting is convened.              *)
AddItem_Late(item) ==
    /\ file.status \in {"Draft", "Convened"}
    /\ Len(file.items) < MaxItems
    /\ Step(file.status, [file EXCEPT !.items = Append(@, item)])
    /\ UNCHANGED chain

AddItem(item) ==
    /\ file.status = "Draft"
    /\ Len(file.items) < MaxItems
    /\ Step("Draft", [file EXCEPT !.items = Append(@, item)])
    /\ UNCHANGED chain

(* meeting convene: the convening record is the meeting's identity.        *)
Convene(key) ==
    /\ file.status = "Draft"
    /\ file.items # << >>
    /\ HeadHeight(chain) < MaxHeight
    /\ GovernanceSigner(chain, key)
    /\ Step("Draft", [file EXCEPT !.status = "Convened",
                                  !.convened = Some(HeadHeight(chain) + 1)])
    /\ chain' = Append(chain, ConvenedRecord(CompanyOf(chain), file.channel, file.items, key))

(* Every vote of the meeting is frozen at the head, and opened.            *)
Vote(snapshot) ==
    [snapshot |-> snapshot, ballots |-> NoBallots, evaluation |-> None, finalized |-> None]

Open ==
    LET at == HeadHeight(chain)
    IN  /\ file.status = "Convened"
        /\ VoteItems(file.items) # {} => VoteFreezable(chain, at, file.channel)
        /\ Step("Convened",
                [file EXCEPT !.status = "Open", !.opened_at = Some(at),
                    !.votes = [number \in VoteItems(file.items) |->
                        Vote(VoteSnapshot(chain, at, file.channel,
                                          subject_of(file.items, number)))]])
        /\ UNCHANGED chain

Cast(number, ballot) ==
    /\ file.status = "Open"
    /\ number \in DOMAIN file.votes
    /\ check_ballot(ballot, file.votes[number].snapshot)
    /\ ballot.voter \notin DOMAIN file.votes[number].ballots
    /\ Step("Open",
            [file EXCEPT !.votes[number].ballots =
                [voter \in DOMAIN @ \cup {ballot.voter} |->
                    IF voter = ballot.voter THEN ballot ELSE @[voter]]])
    /\ UNCHANGED chain

(* meeting close: every vote is closed and evaluated.                      *)
Tallied(vote) ==
    [vote EXCEPT !.evaluation = Some(Count(chain, vote.snapshot, vote.ballots))]

Close ==
    /\ file.status = "Open"
    /\ \A number \in DOMAIN file.votes :
          LET vote == file.votes[number]
          IN  evaluate_now(chain, vote.snapshot, vote.ballots,
                           Count(chain, vote.snapshot, vote.ballots))
    /\ Step("Open",
            [file EXCEPT !.status = "Closed",
                !.votes = [number \in DOMAIN @ |-> Tallied(@[number])]])
    /\ UNCHANGED chain

Unrecorded(meeting) ==
    {number \in DOMAIN meeting.votes : meeting.votes[number].finalized = None}

(* What recording a vote demands: the same result again, and a signer.     *)
VoteFinalizable(vote, key) ==
    /\ evaluate_now(chain, vote.snapshot, vote.ballots, Content(vote.evaluation))
    /\ GovernanceSigner(chain, key)

(* meeting finalize: its signer is checked before anything is written.     *)
BeginFinalize(key) ==
    /\ command = Idle
    /\ file.status = "Closed"
    /\ GovernanceSigner(chain, key)
    /\ command' = Finalizing(file, key)
    /\ UNCHANGED <<chain, file>>

(* The votes that have no record yet get one, in the order of the agenda.  *)
FinalizeVote(number) ==
    /\ command.stage = "finalizing"
    /\ Unrecorded(command.meeting) # {}
    /\ number = Min(Unrecorded(command.meeting))
    /\ HeadHeight(chain) < MaxHeight
    /\ LET vote == command.meeting.votes[number]
       IN  /\ VoteFinalizable(vote, command.key)
           /\ chain' = Append(chain, VoteRecord([vote EXCEPT !.snapshot = Some(@)], command.key))
    /\ command' = [command EXCEPT !.meeting.votes[number].finalized = Some(HeadHeight(chain) + 1)]
    /\ UNCHANGED file

(* Then the meeting itself.                                                *)
FinalizeMeeting ==
    /\ command.stage = "finalizing"
    /\ Unrecorded(command.meeting) = {}
    /\ HeadHeight(chain) < MaxHeight
    /\ chain' = Append(chain, FinalRecord(CompanyOf(chain), command.meeting, command.key))
    /\ command' = Saving([command.meeting EXCEPT !.status = "Finalized",
                                                 !.finalized = Some(HeadHeight(chain) + 1)])
    /\ UNCHANGED file

(* Or it is refused, the notarisation being looked at only now: the votes  *)
(* are on the chain, and nothing is saved.                                 *)
RefuseFinalRecord ==
    /\ command.stage = "finalizing"
    /\ Unrecorded(command.meeting) = {}
    /\ command' = Idle
    /\ UNCHANGED <<chain, file>>

Save ==
    /\ command.stage = "saving"
    /\ file' = command.meeting
    /\ command' = Idle
    /\ UNCHANGED chain

(* The process dies between two blocks, before it saves, or while it does. *)
Crash ==
    /\ command # Idle
    /\ \/ UNCHANGED file
       \/ command.stage = "saving" /\ file' = Torn
    /\ command' = Idle
    /\ UNCHANGED chain

VoteIds == IF file.status = "Open"
           THEN {file.votes[number].snapshot : number \in DOMAIN file.votes} ELSE {}

Next ==
    \/ \E key \in Key, a \in Amendment : Amend(key, a[1], a[2])
    \/ \E channel \in ChannelId : New(channel)
    \/ \E item \in Items : AddItem(item)
    \/ \E key \in Key : Convene(key)
    \/ Open
    \/ \E number \in 1..MaxItems, key \in Key, vote_id \in VoteIds, voter \in Person,
          choice \in Offered : Cast(number, SignedBallot(key, vote_id, voter, choice))
    \/ Close
    \/ \E key \in Key : BeginFinalize(key)
    \/ \E number \in 1..MaxItems : FinalizeVote(number)
    \/ FinalizeMeeting
    \/ RefuseFinalRecord
    \/ Save
    \/ Crash

Spec == Init /\ [][Next]_vars

-----------------------------------------------------------------------------
(* Properties                                                              *)

Finals == {h \in 0..HeadHeight(chain) : IsRecord(chain, h, "final")}
Votes == {h \in 0..HeadHeight(chain) : RecordAt(chain, h).namespace = "vote"}

(* Every final record verifies, and so does every vote record, those an    *)
(* interrupted finalisation left behind included (verify.rs).              *)
MeetingsVerify ==
    /\ \A h \in Finals : verify_meeting(chain, h) = {}
    /\ \A h \in Votes : verify_vote(chain, h) = {}

(* The votes of a closed meeting can be recorded by any governance signer  *)
(* of the day, whatever was amended since it opened and however often      *)
(* recording them was interrupted; the final record, which may be refused  *)
(* its notarisation, is not covered.                                       *)
NeverStranded ==
    file.status = "Closed" =>
        \A key \in Key :
            GovernanceSigner(chain, key) =>
                \A number \in Unrecorded(file) : VoteFinalizable(file.votes[number], key)

(* A ballot counts for the one item it was signed for: two votes of a      *)
(* meeting have no vote id in common, even on the same proposal, and so no *)
(* ballot (lifecycle.rs, subject_of).                                      *)
OneItemPerBallot ==
    \A h \in Finals :
        LET items == RecordAt(chain, h).items
        IN  \A m, n \in DOMAIN items :
               m # n => \A s \in items[m].vote_tx, t \in items[n].vote_tx :
                    LET ours == RecordAt(chain, s).ballots
                        theirs == RecordAt(chain, t).ballots
                    IN  /\ s # t
                        /\ {ours[v] : v \in DOMAIN ours}
                             \cap {theirs[v] : v \in DOMAIN theirs} = {}

(* "An interrupted finalisation is resumed rather than repeated"           *)
(* (IRENA_V1.md): no vote is on the chain twice.                           *)
Resumed ==
    \A g, h \in Votes :
        RecordAt(chain, g).snapshot = RecordAt(chain, h).snapshot => g = h
=============================================================================
