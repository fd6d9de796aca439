--------------------------- MODULE MeetingRecords ---------------------------
(***************************************************************************)
(* irena-meeting: the two records of a meeting - its convening and its     *)
(* end - and what a verifier re-establishes about the second.              *)
(*                                                                         *)
(* A meeting's metadata is the channel it is a meeting of; an agenda is a  *)
(* sequence of items, each informational or put to the vote.  An item is   *)
(* voted on as its number and its proposal, the subject and the digest of  *)
(* the vote.  A record is named by its height.                             *)
(***************************************************************************)
EXTENDS VoteRecords

Item(is_vote, proposal) == [is_vote |-> is_vote, proposal |-> proposal]

(* Fault: the subject of an item's vote does not carry its number.         *)
subject_of_Unnumbered(agenda, number) == <<0, agenda[number].proposal>>

subject_of(agenda, number) == <<number, agenda[number].proposal>>

VoteItems(agenda) == {number \in DOMAIN agenda : agenda[number].is_vote}

ConvenedRecord(company, channel, agenda, signer) ==
    [namespace |-> "meeting", kind |-> "convened", parts |-> NoParts,
     company |-> company, channel |-> channel, agenda |-> agenda, signer |-> signer]

(* final_record and compose_final: each item with its vote's record and    *)
(* outcome, if it was voted on.                                            *)
FinalItem(meeting, number) ==
    LET voted == number \in DOMAIN meeting.votes
        vote == meeting.votes[number]
    IN  [item |-> meeting.items[number],
         vote_tx |-> IF voted THEN vote.finalized ELSE None,
         accepted |-> IF voted THEN Some(Content(vote.evaluation).accepted) ELSE None]

FinalRecord(company, meeting, signer) ==
    [namespace |-> "meeting", kind |-> "final", parts |-> NoParts, company |-> company,
     meeting_id |-> Content(meeting.convened), channel |-> meeting.channel,
     opened_at |-> Content(meeting.opened_at),
     items |-> [number \in DOMAIN meeting.items |-> FinalItem(meeting, number)],
     signer |-> signer]

-----------------------------------------------------------------------------
(* verify.rs                                                               *)

IsRecord(chain, h, kind) ==
    /\ h \in 0..HeadHeight(chain)
    /\ RecordAt(chain, h).namespace = "meeting"
    /\ RecordAt(chain, h).kind = kind

ConveningExists(chain, record) ==
    /\ IsRecord(chain, record.meeting_id, "convened")
    /\ RecordAt(chain, record.meeting_id).company = record.company

VoteVerifies(chain, entry) ==
    \E tx \in entry.vote_tx : verify_vote(chain, tx) = {}

(* Whether a vote that decodes is the vote of that item of that meeting.   *)
VoteBelongs(chain, h, number) ==
    LET record == RecordAt(chain, h)
        entry == record.items[number]
        convened == RecordAt(chain, record.meeting_id)
    IN  \A tx \in entry.vote_tx :
          LET vote == RecordAt(chain, tx)
          IN  vote.namespace = "vote" =>
                /\ vote.snapshot.company = record.company
                /\ vote.snapshot.channel = convened.channel
                /\ vote.snapshot.proposal =
                      subject_of([n \in DOMAIN record.items |-> record.items[n].item], number)
                /\ vote.snapshot.height = record.opened_at
                /\ tx < h
                /\ entry.accepted = Some(vote.evaluation.accepted)

MeetingChecks(chain, h) ==
    LET record == RecordAt(chain, h)
        convening == record.meeting_id
        convened == RecordAt(chain, convening)
        agenda == [n \in DOMAIN record.items |-> record.items[n].item]
        voted == VoteItems(agenda)
    IN  Failed("HeightsOrdered", convening <= record.opened_at /\ record.opened_at < h)
        \cup Failed("AgendaMatches", agenda = convened.agenda)
        \cup Failed("MetadataMatches", convened.channel = record.channel)
        \cup Failed("CompanyReconstructs",
                    Reconstructs(chain, convening) /\ CompanyOf(chain) = record.company)
        \cup Failed("SignerAuthorised",
                    /\ signer_authorised_at(chain, convening, convened.signer)
                    /\ signer_authorised_at(chain, h, record.signer))
        \cup Failed("VotesVerify", \A n \in voted : VoteVerifies(chain, record.items[n]))
        \cup Failed("VotesBelong", \A n \in voted : VoteBelongs(chain, h, n))
        \cup Failed("ItemsConsistent",
                    \A n \in DOMAIN agenda :
                        IF n \in voted THEN record.items[n].vote_tx # None
                        ELSE record.items[n].vote_tx = None /\ record.items[n].accepted = None)

verify_meeting(chain, h) ==
    IF ~IsRecord(chain, h, "final") THEN {"Decodes"}
    ELSE IF ~ConveningExists(chain, RecordAt(chain, h)) THEN {"ConveningExists"}
    ELSE MeetingChecks(chain, h)
=============================================================================
