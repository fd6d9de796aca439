-------------------------------- MODULE Vote --------------------------------
(***************************************************************************)
(* irena-vote and the vote commands of irena-cli: a collective channel's   *)
(* vote, from a draft to a record on the chain.                            *)
(*                                                                         *)
(* As in Decision, every command loads the state file, moves the vote on   *)
(* in memory and saves it back.  Freezing, evaluating and finalising hold  *)
(* the chain file meanwhile; drafting, opening, casting and closing do     *)
(* not, and nothing locks the state file.                                  *)
(***************************************************************************)
EXTENDS VoteRecords

CONSTANTS Company,      \* company ids
          Founding,     \* the parts a genesis may carry
          Amendment,    \* <<part, value>> pairs an amendment may carry
          Proposal,     \* what may be voted on
          ChannelId,    \* the channels a vote may be put to
          Offered,      \* the choices ballots may carry
          File,         \* paths of state files
          Process,      \* commands that may run at once
          Ahead,        \* how far beyond the head --at may point
          MaxHeight     \* bound on the height of the chain

ASSUME OfferedAssumption == Offered \subseteq Choice
ASSUME AheadAssumption == Ahead \in Nat
ASSUME HeightAssumption == MaxHeight \in Nat

(* A genesis document carries every part, and an amendment is of one.      *)
ASSUME FoundingAssumption == \A parts \in Founding : DOMAIN parts = Part
ASSUME AmendmentAssumption == \A a \in Amendment : a[1] \in Part

VARIABLES chain,        \* the records on the chain
          file,         \* per path: what the state file holds
          command,      \* per process: the command it runs
          undone        \* how often the record of a vote was lost sight of

vars == <<chain, file, command, undone>>

Missing == [status |-> "Missing"]
Torn == [status |-> "Torn"]     \* a write cut short: the file does not decode

Draft(proposal) ==
    [status |-> "Draft", proposal |-> proposal, snapshot |-> None,
     ballots |-> NoBallots, evaluation |-> None, finalized |-> None]

Idle == [path |-> None]

(* Between loading and saving: whether the chain file is held, whether the *)
(* file still holds what was read, and what is to be written.              *)
Working(path, opens, fresh, write) ==
    [path |-> Some(path), opens |-> opens, fresh |-> fresh, write |-> write]

(* The paths whose vote is known to be on record: the file says so, or the *)
(* command that recorded it is about to make it say so.                    *)
OnRecord(files, commands) ==
    {path \in File :
        \/ files[path].status = "Finalized"
        \/ \E p \in Process : /\ commands[p].path = Some(path)
                              /\ commands[p].write.status = "Finalized"}

(* What this step makes a path forget, if it forgets anything.             *)
Forgets(path) == path \in OnRecord(file, command) \ OnRecord(file', command')

Held == \E p \in Process : command[p] # Idle /\ command[p].opens

AnyKey == CHOOSE key \in Key : TRUE     \* nothing judges who signs a genesis

Init ==
    /\ \E company \in Company, parts \in Founding :
          /\ ValidFounding(parts)
          /\ chain = <<Record(company, parts, None, AnyKey)>>
    /\ file = [path \in File |-> Missing]
    /\ command = [p \in Process |-> Idle]
    /\ undone = 0

-----------------------------------------------------------------------------
(* The rest of the world: somebody amends the company.                     *)

Amend(key, part, value) ==
    LET base == provider_of(chain, HeadHeight(chain), part)
    IN  /\ ~Held
        /\ HeadHeight(chain) < MaxHeight
        /\ Acceptable(chain, key, part, value, base)
        /\ chain' = Append(chain, compose_record(chain, part, value, base, key))
        /\ UNCHANGED <<file, command, undone>>

-----------------------------------------------------------------------------
(* The commands                                                            *)

(* A command that loads a vote in this status and does not open the chain. *)
Step(p, path, status, write) ==
    /\ command[p] = Idle
    /\ file[path].status = status
    /\ command' = [command EXCEPT ![p] = Working(path, FALSE, TRUE, write)]
    /\ UNCHANGED <<chain, file, undone>>

(* One that holds the chain file from before it loads until it has saved.  *)
ChainStep(p, path, status, write) ==
    /\ command[p] = Idle
    /\ ~Held
    /\ file[path].status = status
    /\ command' = [command EXCEPT ![p] = Working(path, TRUE, TRUE, write)]
    /\ UNCHANGED <<file, undone>>

(* vote new: does not look at what the file holds.                         *)
New(p, path, proposal) ==
    /\ command[p] = Idle
    /\ command' = [command EXCEPT ![p] =
                      Working(path, FALSE, file[path] = Missing, Draft(proposal))]
    /\ UNCHANGED <<chain, file, undone>>

(* vote freeze --at                                                        *)
Freeze(p, path, id, at) ==
    /\ file[path].status = "Draft"
    /\ VoteFreezable(chain, at, id)
    /\ ChainStep(p, path, "Draft",
                 [file[path] EXCEPT !.status = "Frozen",
                    !.snapshot = Some(VoteSnapshot(chain, at, id, file[path].proposal))])
    /\ UNCHANGED chain

Open(p, path) == Step(p, path, "Frozen", [file[path] EXCEPT !.status = "Open"])

(* Fault: a second ballot replaces the first.                              *)
Cast_Revote(p, path, ballot) ==
    /\ file[path].status = "Open"
    /\ check_ballot(ballot, Content(file[path].snapshot))
    /\ Step(p, path, "Open",
            [file[path] EXCEPT !.ballots =
                [voter \in DOMAIN @ \cup {ballot.voter} |->
                    IF voter = ballot.voter THEN ballot ELSE @[voter]]])

(* vote cast: the first ballot of a voter stands.                          *)
Cast(p, path, ballot) ==
    /\ file[path].status = "Open"
    /\ check_ballot(ballot, Content(file[path].snapshot))
    /\ ballot.voter \notin DOMAIN file[path].ballots
    /\ Step(p, path, "Open",
            [file[path] EXCEPT !.ballots =
                [voter \in DOMAIN @ \cup {ballot.voter} |->
                    IF voter = ballot.voter THEN ballot ELSE @[voter]]])

Close(p, path) == Step(p, path, "Open", [file[path] EXCEPT !.status = "Closed"])

Evaluate(p, path) ==
    /\ file[path].status = "Closed"
    /\ LET snapshot == Content(file[path].snapshot)
           ballots == file[path].ballots
           result == Count(chain, snapshot, ballots)
       IN  /\ evaluate_now(chain, snapshot, ballots, result)
           /\ ChainStep(p, path, "Closed",
                        [file[path] EXCEPT !.status = "Evaluated",
                                           !.evaluation = Some(result)])
    /\ UNCHANGED chain

(* What finalize demands of an evaluated vote: the same result again, and  *)
(* a governance signer.                                                    *)
Finalizable(vote, key) ==
    /\ evaluate_now(chain, Content(vote.snapshot), vote.ballots, Content(vote.evaluation))
    /\ GovernanceSigner(chain, key)

Recorded(vote) ==
    [vote EXCEPT !.status = "Finalized", !.finalized = Some(HeadHeight(chain) + 1)]

(* Fault: who signs the record is not looked at.                           *)
Finalize_AnyKey(p, path, key) ==
    /\ file[path].status = "Evaluated"
    /\ HeadHeight(chain) < MaxHeight
    /\ evaluate_now(chain, Content(file[path].snapshot), file[path].ballots,
                    Content(file[path].evaluation))
    /\ ChainStep(p, path, "Evaluated", Recorded(file[path]))
    /\ chain' = Append(chain, VoteRecord(file[path], key))

(* Fault: the status stays Evaluated, so the vote may be recorded again.   *)
Finalize_Forgets(p, path, key) ==
    /\ file[path].status = "Evaluated"
    /\ HeadHeight(chain) < MaxHeight
    /\ Finalizable(file[path], key)
    /\ ChainStep(p, path, "Evaluated", file[path])
    /\ chain' = Append(chain, VoteRecord(file[path], key))

(* vote finalize: the record is on the chain before the file says so.      *)
Finalize(p, path, key) ==
    /\ file[path].status = "Evaluated"
    /\ HeadHeight(chain) < MaxHeight
    /\ Finalizable(file[path], key)
    /\ ChainStep(p, path, "Evaluated", Recorded(file[path]))
    /\ chain' = Append(chain, VoteRecord(file[path], key))

(* The state file is replaced, whatever became of it since it was read;    *)
(* whoever else had read it holds an old copy.                             *)
Save(p) ==
    /\ command[p] # Idle
    /\ LET path == Content(command[p].path)
       IN  /\ file' = [file EXCEPT ![path] = command[p].write]
           /\ command' = [q \in Process |->
                 IF q = p THEN Idle
                 ELSE IF command[q].path = Some(path)
                      THEN [command[q] EXCEPT !.fresh = FALSE]
                      ELSE command[q]]
           /\ undone' = IF ~command[p].fresh /\ Forgets(path) THEN undone + 1 ELSE undone
    /\ UNCHANGED chain

(* The process dies before it saves, or while it writes.                   *)
Crash(p) ==
    /\ command[p] # Idle
    /\ LET path == Content(command[p].path)
       IN  /\ \/ UNCHANGED file
              \/ file' = [file EXCEPT ![path] = Torn]
           /\ command' = [q \in Process |->
                 IF q = p THEN Idle
                 ELSE IF command[q].path = Some(path) /\ file' # file
                      THEN [command[q] EXCEPT !.fresh = FALSE]
                      ELSE command[q]]
           /\ undone' = IF Forgets(path) THEN undone + 1 ELSE undone
    /\ UNCHANGED chain

(* Ballots anybody may sign, for any vote a file or the chain shows.       *)
VoteIds ==
    UNION {file[path].snapshot : path \in {f \in File : "snapshot" \in DOMAIN file[f]}}

Next ==
    \/ \E key \in Key, a \in Amendment : Amend(key, a[1], a[2])
    \/ \E p \in Process, path \in File :
          \/ \E proposal \in Proposal : New(p, path, proposal)
          \/ \E id \in ChannelId, at \in 0..HeadHeight(chain) + Ahead :
                Freeze(p, path, id, at)
          \/ Open(p, path)
          \/ \E key \in Key, vote_id \in VoteIds, voter \in Person, choice \in Offered :
                Cast(p, path, SignedBallot(key, vote_id, voter, choice))
          \/ Close(p, path)
          \/ Evaluate(p, path)
          \/ \E key \in Key : Finalize(p, path, key)
    \/ \E p \in Process : Save(p) \/ Crash(p)

Spec == Init /\ [][Next]_vars

-----------------------------------------------------------------------------
(* Properties                                                              *)

HasRoll(state) == state.status \notin {"Missing", "Torn"} /\ state.snapshot # None

Votes == {h \in 0..HeadHeight(chain) : RecordAt(chain, h).namespace = "vote"}

(* Every vote finalize wrote verifies, whatever was appended since, and    *)
(* whatever commands overwrote each other on the way (verify.rs).          *)
VotesVerify == \A h \in Votes : verify_vote(chain, h) = {}

(* An evaluated vote can be recorded by any governance signer of the day:  *)
(* rules amended, keys rotated and shares moved since the freeze are       *)
(* "irrelevant to this vote for ever after" (IRENA_V1.md 7.2).             *)
NeverStranded ==
    \A path \in File, key \in Key :
        (/\ file[path].status = "Evaluated"
         /\ authorised_signer(chain, HeadHeight(chain), "governance", key))
            => Finalizable(file[path], key)

(* Once frozen, "nothing appended to the chain can change what this vote   *)
(* is decided against" (lifecycle.rs, freeze): the records its snapshot    *)
(* pins stay those in force at its height.                                 *)
FrozenForGood ==
    \A path \in File :
        HasRoll(file[path]) => RecordsResolve(chain, Content(file[path].snapshot))

(* The roll of a recorded vote counts and weighs what the channel's actors *)
(* weighed when it froze: an actor without a key casts nothing, weighs on  *)
(* the side of those who cast nothing, and the quorum is judged with it.   *)
KeylessCount ==
    \A h \in Votes :
        LET record == RecordAt(chain, h)
            count == record.evaluation
            at == record.snapshot.height
            channel == record.snapshot.channel
            rules == RulesAt(chain, at, channel)
            shares == ActorsAt(chain, at, channel)
            keyless == {v \in DOMAIN shares :
                key_of(InForce(chain, at, "Identities"), v) = None}
            weighed(voters) ==
                MapThenSumSet(LAMBDA v : IF rules.weight = "equal" THEN 1 ELSE shares[v],
                              voters)
            total == weighed(DOMAIN shares)
            cast == weighed(DOMAIN record.ballots)
        IN  /\ DOMAIN record.ballots \subseteq DOMAIN shares \ keyless
            /\ count.voter_count = Cardinality(DOMAIN shares)
            /\ count.total_weight = total
            /\ count.participating_weight = cast
            /\ count.non_participant_weight = total - cast
            /\ count.quorum_met <=> quorum_met(rules, cast, total, total)

(* A file's vote is recorded once: the chain holds one record for each     *)
(* file that says so or is about to, and one more for each time a crash, a *)
(* save by a command that had read the file before another save, or a new  *)
(* draft over the file made it forget a record.  Commands that overlap, or *)
(* start over, before anything is recorded cost nothing.                   *)
RecordedOnce ==
    Cardinality(Votes) = undone + Cardinality(OnRecord(file, command))

(* A ballot the file held for a vote is still there, as it was cast, in    *)
(* whatever the file next says about that vote.                            *)
Kept(before, after) ==
    HasRoll(before) /\ HasRoll(after) /\ before.snapshot = after.snapshot =>
        \A voter \in DOMAIN before.ballots :
            voter \in DOMAIN after.ballots /\ after.ballots[voter] = before.ballots[voter]

(* The step is a save by a command that had read the file before another   *)
(* save: its copy of the ballots may be an old one.                        *)
SavesOldCopy(path) ==
    \E p \in Process :
        /\ command[p].path = Some(path)
        /\ ~command[p].fresh
        /\ command'[p] = Idle
        /\ file'[path] = command[p].write

(* "The first ballot stands" (IRENA_V1.md 7.3): in every step but the save *)
(* of an old copy, by which one of two commands that overlap drops what    *)
(* the other saved.                                                        *)
FirstBallotStands ==
    [][\A path \in File : Kept(file[path], file'[path]) \/ SavesOldCopy(path)]_vars
=============================================================================
