------------------------------ MODULE Resolution ------------------------------
(***************************************************************************)
(* irena-resolution and the resolution commands of irena-cli: a decision   *)
(* on the chain, or a vote at a meeting, becomes a resolution, and the     *)
(* resolution an amendment of the company followed by the record of its    *)
(* execution, two blocks.                                                  *)
(*                                                                         *)
(* A resolution lives in a state file, as a decision does.  Creating one   *)
(* touches the file only; finalising and executing hold the chain file     *)
(* from before the state file is loaded until after it is saved, and may   *)
(* die between any two of their writes.                                    *)
(***************************************************************************)
EXTENDS ResolutionRecords

CONSTANTS Company,      \* company ids
          Founding,     \* the parts a genesis may carry
          Amendment,    \* <<part, value>> pairs published without a resolution
          Proposal,     \* what one person may decide
          Agenda,       \* what a meeting may be convened on
          ChannelId,    \* the channels there may be
          File,         \* paths of state files
          Process,      \* commands that may run at once
          Substitute,   \* what a draft may carry in place of what was decided
          MaxDecisions, \* bound on the decisions and meetings
          MaxChanges    \* bound on the amendments, resolutions and executions

(* A proposal, like an amendment, is a part and the value it is to have.   *)
IsPair(x) == x = <<x[1], x[2]>>
ASSUME ProposalAssumption == \A proposal \in Proposal : IsPair(proposal)
ASSUME AgendaAssumption ==
    \A agenda \in Agenda :
        /\ agenda \in Seq({agenda[n] : n \in DOMAIN agenda})
        /\ \A n \in DOMAIN agenda : IsPair(agenda[n].proposal)
ASSUME BoundAssumption == MaxChanges \in Nat /\ MaxDecisions \in Nat
(* So that a record tells whether a resolution published it.               *)
ASSUME DisjointAssumption ==
    /\ Amendment \cap Proposal = {}
    /\ \A agenda \in Agenda : \A n \in DOMAIN agenda : agenda[n].proposal \notin Amendment
ASSUME SubstituteAssumption == Substitute \subseteq Proposal

(* A genesis document carries every part, and an amendment is of one.      *)
ASSUME FoundingAssumption == \A parts \in Founding : DOMAIN parts = Part
ASSUME AmendmentAssumption == \A a \in Amendment : IsPair(a) /\ a[1] \in Part

VARIABLES chain,        \* the records on the chain
          file,         \* per path: what the state file holds
          command       \* per process: the command it runs

vars == <<chain, file, command>>

Missing == [status |-> "Missing"]
Torn == [status |-> "Torn"]

Draft(authority, proposal) ==
    [status |-> "Draft", authority |-> authority, proposal |-> proposal,
     finalized |-> None, executed |-> None]

Idle == [stage |-> "idle"]

(* A command that has still to append the execution record.                *)
Amended(path, state, key, replaced) ==
    [stage |-> "amended", path |-> path, state |-> state, key |-> key,
     replaced |-> replaced]

(* A command that has still to save the state file.                        *)
Saving(path, opens, state) ==
    [stage |-> "saving", path |-> path, opens |-> opens, state |-> state]

Opens(c) == c.stage = "amended" \/ (c.stage = "saving" /\ c.opens)
Held == \E p \in Process : Opens(command[p])
Changes == {h \in 1..HeadHeight(chain) :
              RecordAt(chain, h).namespace \in {"company", "resolution", "execution"}}
Room(blocks) == Cardinality(Changes) + blocks <= MaxChanges
AnyKey == CHOOSE key \in Key : TRUE
Finals == {h \in RecordsOf(chain, "meeting") : RecordAt(chain, h).kind = "final"}

Init ==
    /\ \E company \in Company, parts \in Founding :
          /\ ValidFounding(parts)
          /\ chain = <<Record(company, parts, None, AnyKey)>>
    /\ file = [path \in File |-> Missing]
    /\ command = [p \in Process |-> Idle]

-----------------------------------------------------------------------------
(* The rest of the world                                                   *)

(* Somebody publishes an amendment of their own.  Bound: it changes        *)
(* something.                                                              *)
Amend(key, part, value) ==
    LET base == provider_of(chain, HeadHeight(chain), part)
    IN  /\ ~Held
        /\ Room(1)
        /\ InForce(chain, HeadHeight(chain), part) # value
        /\ Acceptable(chain, key, part, value, base)
        /\ chain' = Append(chain, compose_record(chain, part, value, base, key))
        /\ UNCHANGED <<file, command>>

MayDecide ==
    Cardinality(RecordsOf(chain, "decision")
                \cup {h \in RecordsOf(chain, "meeting") :
                        RecordAt(chain, h).kind = "convened"}) < MaxDecisions

(* Somebody decides, and has it recorded: the whole life of a decision     *)
(* frozen at a height up to the head.                                      *)
Decide(key, id, at, proposal) ==
    LET snapshot == Snapshot(chain, at, id, proposal)
        signature == Signature(Content(snapshot.key), snapshot)
    IN  /\ ~Held
        /\ MayDecide
        /\ Freezable(chain, at, id)
        /\ Recordable(chain, snapshot, signature, key)
        /\ chain' = Append(chain, DecisionRecord(snapshot, signature, key))
        /\ UNCHANGED <<file, command>>

(* A meeting of a channel is convened.                                     *)
Convene(key, id, agenda) ==
    /\ ~Held
    /\ MayDecide
    /\ IsCollective(chain, HeadHeight(chain), id)
    /\ GovernanceSigner(chain, key)
    /\ chain' = Append(chain, ConvenedRecord(CompanyOf(chain), id, agenda, key))
    /\ UNCHANGED <<file, command>>

(* Everybody who can vote on an item casts the same choice.                *)
Unanimous(snapshot, choice) ==
    [voter \in {v \in DOMAIN snapshot.electorate : snapshot.electorate[v].key # None} |->
        SignedBallot(Content(snapshot.electorate[voter].key), snapshot, voter, choice)]

(* The place of an item among those put to the vote.                       *)
Place(agenda, number) == Cardinality({n \in VoteItems(agenda) : n <= number})

Voted(convened, at, number, choice) ==
    LET snapshot == VoteSnapshot(chain, at, convened.channel,
                                 subject_of(convened.agenda, number))
        ballots == Unanimous(snapshot, choice)
    IN  [snapshot |-> Some(snapshot), ballots |-> ballots,
         evaluation |-> Some(Count(chain, snapshot, ballots)),
         finalized |-> Some(HeadHeight(chain) + Place(convened.agenda, number))]

(* It is opened at a height since, and its votes and its end are recorded. *)
Meet(key, convening, at, choices) ==
    LET convened == RecordAt(chain, convening)
        agenda == convened.agenda
        votes == [n \in VoteItems(agenda) |-> Voted(convened, at, n, choices[n])]
        meeting == [channel |-> convened.channel, items |-> agenda, votes |-> votes,
                    convened |-> Some(convening), opened_at |-> Some(at)]
        VoteAt(i) == CHOOSE n \in DOMAIN votes : Place(agenda, n) = i
    IN  /\ ~Held
        /\ \A h \in Finals : RecordAt(chain, h).meeting_id # convening
        /\ VoteFreezable(chain, at, convened.channel)
        /\ GovernanceSigner(chain, key)
        /\ \A n \in DOMAIN votes :
              /\ \A voter \in DOMAIN votes[n].ballots :
                    check_ballot(votes[n].ballots[voter], Content(votes[n].snapshot))
              /\ evaluate_now(chain, Content(votes[n].snapshot), votes[n].ballots,
                              Content(votes[n].evaluation))
        /\ chain' = chain \o [i \in 1..Cardinality(DOMAIN votes) |->
                                VoteRecord(votes[VoteAt(i)], key)]
                          \o <<FinalRecord(CompanyOf(chain), meeting, key)>>
        /\ UNCHANGED <<file, command>>

-----------------------------------------------------------------------------
(* The commands                                                            *)

(* resolution create: whatever the file holds.  Bound: not over another    *)
(* draft, which nobody has seen yet.                                       *)
Create(p, path, authority, proposal) ==
    /\ command[p] = Idle
    /\ file[path].status # "Draft"
    /\ command' = [command EXCEPT ![p] =
                      Saving(path, FALSE, Draft(authority, proposal))]
    /\ UNCHANGED <<chain, file>>

(* resolution finalize                                                     *)
Finalize(p, path, key) ==
    LET state == file[path]
    IN  /\ command[p] = Idle
        /\ ~Held
        /\ Room(1)
        /\ state.status = "Draft"
        /\ GovernanceSigner(chain, key)
        /\ check_authority(chain, state.authority, state.proposal)
        /\ approval(chain, state.authority).company = CompanyOf(chain)
        /\ chain' = Append(chain, ResolutionRecord(CompanyOf(chain), state.authority,
                                                   state.proposal, key))
        /\ command' = [command EXCEPT ![p] = Saving(path, TRUE,
                          [state EXCEPT !.status = "Finalized",
                                        !.finalized = Some(HeadHeight(chain) + 1)])]
        /\ UNCHANGED file

(* resolution execute, to the amendment.                                   *)
ExecuteAmend(p, path, key) ==
    LET state == file[path]
        target == state.proposal[1]
        base == base_of(chain, approval(chain, state.authority), target)
    IN  /\ command[p] = Idle
        /\ ~Held
        /\ Room(2)
        /\ state.status = "Finalized"
        /\ Executable(chain, Content(state.finalized), state.authority,
                      state.proposal, key)
        /\ chain' = Append(chain, compose_record(chain, target, state.proposal[2],
                                                 base, key))
        /\ command' = [command EXCEPT ![p] = Amended(path, state, key, base)]
        /\ UNCHANGED file

ExecuteRecord(p) ==
    LET c == command[p]
        resolution == Content(c.state.finalized)
        amendment == HeadHeight(chain)
    IN  /\ c.stage = "amended"
        /\ chain' = Append(chain, ExecutionRecord(resolution, amendment,
                              c.state.proposal[1], c.replaced, c.state.proposal, c.key))
        /\ command' = [command EXCEPT ![p] = Saving(c.path, TRUE,
                          [c.state EXCEPT !.status = "Executed",
                              !.executed = Some([amendment |-> amendment,
                                                 execution |-> amendment + 1])])]
        /\ UNCHANGED file

Save(p) ==
    /\ command[p].stage = "saving"
    /\ file' = [file EXCEPT ![command[p].path] = command[p].state]
    /\ command' = [command EXCEPT ![p] = Idle]
    /\ UNCHANGED chain

(* The process dies before its next write, or tearing the state file.      *)
Crash(p) ==
    /\ command[p] # Idle
    /\ \/ UNCHANGED file
       \/ /\ command[p].stage = "saving"
          /\ file' = [file EXCEPT ![command[p].path] = Torn]
    /\ command' = [command EXCEPT ![p] = Idle]
    /\ UNCHANGED chain

(* What was decided by a decision or a vote, and through which channel.    *)
Approved(h) ==
    LET decided == RecordAt(chain, h).snapshot.proposal
    IN  IF RecordAt(chain, h).namespace = "vote" THEN decided[2] ELSE decided
ChannelOf(h) == RecordAt(chain, h).snapshot.channel

(* Bound: a draft is mistaken in one thing at most.                        *)
Next ==
    \/ \E key \in Key, a \in Amendment : Amend(key, a[1], a[2])
    \/ \E key \in Key, id \in ChannelId, at \in 0..HeadHeight(chain),
          proposal \in Proposal : Decide(key, id, at, proposal)
    \/ \E key \in Key, id \in ChannelId, agenda \in Agenda : Convene(key, id, agenda)
    \/ \E key \in Key, h \in RecordsOf(chain, "meeting") :
          /\ RecordAt(chain, h).kind = "convened"
          /\ \E at \in h..HeadHeight(chain),
                choices \in [VoteItems(RecordAt(chain, h).agenda) -> {"yes", "no"}] :
                Meet(key, h, at, choices)
    \/ \E p \in Process, path \in File :
          \/ \E id \in ChannelId, h \in RecordsOf(chain, "decision") :
                \E proposal \in {Approved(h)} \cup Substitute :
                   /\ id = ChannelOf(h) \/ proposal = Approved(h)
                   /\ Create(p, path, Individual(id, h), proposal)
          \/ \E id \in ChannelId, m \in Finals, h \in RecordsOf(chain, "vote") :
                \E number \in DOMAIN RecordAt(chain, m).items,
                   proposal \in {Approved(h)} \cup Substitute :
                   LET answered == RecordAt(chain, m).items[number].vote_tx = Some(h)
                   IN  /\ id = ChannelOf(h) \/ (answered /\ proposal = Approved(h))
                       /\ answered \/ proposal = Approved(h)
                       /\ Create(p, path, Collective(id, m, number, h), proposal)
          \/ \E key \in Key : Finalize(p, path, key)
          \/ \E key \in Key : ExecuteAmend(p, path, key)
    \/ \E p \in Process : ExecuteRecord(p) \/ Save(p) \/ Crash(p)

Spec == Init /\ [][Next]_vars

-----------------------------------------------------------------------------
(* Properties                                                              *)

Resolutions == RecordsOf(chain, "resolution")
Executions == RecordsOf(chain, "execution")
Amendments == {h \in RecordsOf(chain, "company") : h > 0}

(* Every resolution finalize wrote verifies, and so does every execution,  *)
(* but for one check: an amendment of who holds which key or who may sign  *)
(* can take the executing key's own right away before the execution record *)
(* is signed with it.                                                      *)
RecordsVerify ==
    /\ \A h \in Resolutions : verify_resolution(chain, h) = {}
    /\ \A h \in Executions :
          verify_execution(chain, h) \subseteq
              (IF RecordAt(chain, h).target \in {"Identities", "Authorisation"}
               THEN {"SignerAuthorised"} ELSE {})

(* "Publishing refuses an unauthorised key before writing" (README.md).    *)
ExecutionsSigned ==
    \A h \in Executions : "SignerAuthorised" \notin verify_execution(chain, h)

Approvals ==
    RecordsOf(chain, "decision")
    \cup {h \in RecordsOf(chain, "vote") : RecordAt(chain, h).evaluation.accepted}

(* However many resolutions rest on an approval, and whatever is retried   *)
(* after a crash, what it approved is published once.                      *)
SpentOnce ==
    \A h \in Approvals :
        Amends(Approved(h)) =>
            LET target == Approved(h)[1]
            IN  Cardinality({m \in Amendments :
                               /\ m > h
                               /\ target \in DOMAIN RecordAt(chain, m).parts
                               /\ RecordAt(chain, m).parts[target] = Approved(h)[2]})
                <= Cardinality({a \in Approvals : Approved(a) = Approved(h)})

(* What one person's signature adds to that person's power (demotion.rs):  *)
(* no right to file records, no change to a channel the person stays on,   *)
(* nobody else's key.  A seat it can add, by one way only: shares issued   *)
(* to a person who had none seat that person on every channel that takes   *)
(* its actors from the register, because no rule is applied to the share   *)
(* structure.                                                              *)
OnlySharesAddSeats ==
    \A h \in Executions :
        LET execution == RecordAt(chain, h)
            m == execution.amendment
            PeopleAt(at) == InForce(chain, at, "Identities")
            SharesAt(at) == InForce(chain, at, "ShareStructure")
        IN  \A actor \in approval(chain,
                            RecordAt(chain, execution.resolution).authority).actor :
            LET SeatsAt(at) == seats(ChannelsAt(chain, at), actor, SharesAt(at))
                RightsAt(at) == families_of(InForce(chain, at, "Authorisation"), actor)
            IN  /\ \A id \in SeatsAt(m) \ SeatsAt(m - 1) :
                      /\ execution.target = "ShareStructure"
                      /\ ChannelsAt(chain, m)[id].roster = ShareRegister
                      /\ actor \in DOMAIN SharesAt(m) \ DOMAIN SharesAt(m - 1)
                /\ \A id \in SeatsAt(m) \cap SeatsAt(m - 1) :
                      ChannelsAt(chain, m)[id] = ChannelsAt(chain, m - 1)[id]
                /\ RightsAt(m) \subseteq RightsAt(m - 1)
                /\ \A p \in DOMAIN PeopleAt(m - 1) \ {actor} :
                      key_of(PeopleAt(m), p) = key_of(PeopleAt(m - 1), p)

(* The verdict on a record never changes as the chain grows.               *)
VerdictsStand ==
    [][chain' # chain =>
          /\ \A h \in Resolutions :
                verify_resolution(chain', h) = verify_resolution(chain, h)
          /\ \A h \in Executions :
                verify_execution(chain', h) = verify_execution(chain, h)]_vars
=============================================================================
