------------------------------- MODULE Decision -------------------------------
(***************************************************************************)
(* irena-decision and the decision commands of irena-cli: one person's     *)
(* decision, from a draft to a record on the chain.                        *)
(*                                                                         *)
(* A decision lives in a state file.  Every command loads the file, moves  *)
(* the decision one stage on in memory, and saves it back; freezing and    *)
(* finalising hold the chain file meanwhile, drafting and signing do not,  *)
(* and nothing locks the state file.  What happens to the chain happens    *)
(* as the command loads: nobody else can write while it holds the file.    *)
(***************************************************************************)
EXTENDS GovernanceRecords

CONSTANTS Company,      \* company ids
          Founding,     \* the parts a genesis may carry
          Amendment,    \* <<part, value>> pairs an amendment may carry
          Proposal,     \* what may be decided
          ChannelId,    \* the channels a decision may be taken through
          File,         \* paths of state files
          Process,      \* commands that may run at once
          Ahead,        \* how far beyond the head --at may point
          MaxHeight     \* bound on the height of the chain

ASSUME AheadAssumption == Ahead \in Nat
ASSUME HeightAssumption == MaxHeight \in Nat

(* A genesis document carries every part, and an amendment is of one.      *)
ASSUME FoundingAssumption == \A parts \in Founding : DOMAIN parts = Part
ASSUME AmendmentAssumption == \A a \in Amendment : a[1] \in Part

VARIABLES chain,        \* the records on the chain
          file,         \* per path: what the state file holds
          command,      \* per process: the command it runs
          undone        \* how often the record of a decision was lost sight of

vars == <<chain, file, command, undone>>

Missing == [status |-> "Missing"]
Torn == [status |-> "Torn"]     \* a write cut short: the file does not decode

Draft(proposal) ==
    [status |-> "Draft", proposal |-> proposal, snapshot |-> None,
     signature |-> None, finalized |-> None]

Idle == [path |-> None]

(* Between loading and saving: whether the chain file is held, whether the *)
(* file still holds what was read, and what is to be written.              *)
Working(path, opens, fresh, write) ==
    [path |-> Some(path), opens |-> opens, fresh |-> fresh, write |-> write]

(* The paths whose decision is known to be on record: the file says so, or *)
(* the command that recorded it is about to make it say so.                *)
OnRecord(files, commands) ==
    {path \in File :
        \/ files[path].status = "Finalized"
        \/ \E p \in Process : /\ commands[p].path = Some(path)
                              /\ commands[p].write.status = "Finalized"}

(* What this step makes a path forget, if it forgets anything.             *)
Forgets(path) == path \in OnRecord(file, command) \ OnRecord(file', command')

Held == \E p \in Process : command[p] # Idle /\ command[p].opens

AnyKey == CHOOSE key \in Key : TRUE     \* nothing judges who signs a genesis

Init ==
    /\ \E company \in Company, parts \in Founding :
          /\ ValidFounding(parts)
          /\ chain = <<Record(company, parts, None, AnyKey)>>
    /\ file = [path \in File |-> Missing]
    /\ command = [p \in Process |-> Idle]
    /\ undone = 0

-----------------------------------------------------------------------------
(* The rest of the world: somebody amends the company.                     *)

Amend(key, part, value) ==
    LET base == provider_of(chain, HeadHeight(chain), part)
    IN  /\ ~Held
        /\ HeadHeight(chain) < MaxHeight
        /\ Acceptable(chain, key, part, value, base)
        /\ chain' = Append(chain, compose_record(chain, part, value, base, key))
        /\ UNCHANGED <<file, command, undone>>

-----------------------------------------------------------------------------
(* The commands                                                            *)

Work(p, path, opens, write) ==
    command' = [command EXCEPT ![p] = Working(path, opens, TRUE, write)]

(* decision draft: does not look at what the file holds.                   *)
StartDraft(p, path, proposal) ==
    /\ command[p] = Idle
    /\ command' = [command EXCEPT ![p] =
                      Working(path, FALSE, file[path] = Missing, Draft(proposal))]
    /\ UNCHANGED <<chain, file, undone>>

(* decision freeze --at                                                    *)
Freeze(p, path, id, at) ==
    /\ command[p] = Idle
    /\ ~Held
    /\ file[path].status = "Draft"
    /\ Freezable(chain, at, id)
    /\ Work(p, path, TRUE,
            [file[path] EXCEPT !.status = "Frozen",
                !.snapshot = Some(Snapshot(chain, at, id, file[path].proposal))])
    /\ UNCHANGED <<chain, file, undone>>

(* decision sign: with the key the actor held when the decision froze.     *)
Sign(p, path, key) ==
    /\ command[p] = Idle
    /\ file[path].status = "Frozen"
    /\ Content(file[path].snapshot).key = Some(key)
    /\ Work(p, path, FALSE,
            [file[path] EXCEPT !.status = "Signed",
                !.signature = Some(Signature(key, Content(file[path].snapshot)))])
    /\ UNCHANGED <<chain, file, undone>>

(* Fault: a decision already recorded may be recorded.                     *)
Finalize_Again(p, path, key) ==
    /\ command[p] = Idle
    /\ ~Held
    /\ HeadHeight(chain) < MaxHeight
    /\ file[path].status \in {"Signed", "Finalized"}
    /\ LET snapshot == Content(file[path].snapshot)
           signature == Content(file[path].signature)
       IN  /\ Recordable(chain, snapshot, signature, key)
           /\ chain' = Append(chain, DecisionRecord(snapshot, signature, key))
    /\ Work(p, path, TRUE,
            [file[path] EXCEPT !.status = "Finalized",
                !.finalized = Some(HeadHeight(chain) + 1)])
    /\ UNCHANGED <<file, undone>>

(* decision finalize: the record is on the chain before the file says so.  *)
Finalize(p, path, key) ==
    /\ command[p] = Idle
    /\ ~Held
    /\ HeadHeight(chain) < MaxHeight
    /\ file[path].status = "Signed"
    /\ LET snapshot == Content(file[path].snapshot)
           signature == Content(file[path].signature)
       IN  /\ Recordable(chain, snapshot, signature, key)
           /\ chain' = Append(chain, DecisionRecord(snapshot, signature, key))
    /\ Work(p, path, TRUE,
            [file[path] EXCEPT !.status = "Finalized",
                !.finalized = Some(HeadHeight(chain) + 1)])
    /\ UNCHANGED <<file, undone>>

(* The state file is replaced, whatever became of it since it was read;    *)
(* whoever else had read it holds an old copy.                             *)
Save(p) ==
    /\ command[p] # Idle
    /\ LET path == Content(command[p].path)
       IN  /\ file' = [file EXCEPT ![path] = command[p].write]
           /\ command' = [q \in Process |->
                 IF q = p THEN Idle
                 ELSE IF command[q].path = Some(path)
                      THEN [command[q] EXCEPT !.fresh = FALSE]
                      ELSE command[q]]
           /\ undone' = IF ~command[p].fresh /\ Forgets(path) THEN undone + 1 ELSE undone
    /\ UNCHANGED chain

(* The process dies before it saves, or while it writes.                   *)
Crash(p) ==
    /\ command[p] # Idle
    /\ LET path == Content(command[p].path)
       IN  /\ \/ UNCHANGED file
              \/ file' = [file EXCEPT ![path] = Torn]
           /\ command' = [q \in Process |->
                 IF q = p THEN Idle
                 ELSE IF command[q].path = Some(path) /\ file' # file
                      THEN [command[q] EXCEPT !.fresh = FALSE]
                      ELSE command[q]]
           /\ undone' = IF Forgets(path) THEN undone + 1 ELSE undone
    /\ UNCHANGED chain

Next ==
    \/ \E key \in Key, a \in Amendment : Amend(key, a[1], a[2])
    \/ \E p \in Process, path \in File :
          \/ \E proposal \in Proposal : StartDraft(p, path, proposal)
          \/ \E id \in ChannelId, at \in 0..HeadHeight(chain) + Ahead :
                Freeze(p, path, id, at)
          \/ \E key \in Key : Sign(p, path, key)
          \/ \E key \in Key : Finalize(p, path, key)
    \/ \E p \in Process : Save(p) \/ Crash(p)

Spec == Init /\ [][Next]_vars

-----------------------------------------------------------------------------
(* Properties                                                              *)

Decisions == {h \in 0..HeadHeight(chain) : RecordAt(chain, h).namespace = "decision"}

(* Every decision finalize wrote verifies, whatever was appended since:    *)
(* "a decision that cannot be reproduced at the moment of finalisation is  *)
(* not finalised" (finalize's documentation).                              *)
RecordsVerify == \A h \in Decisions : verify_decision(chain, h) = {}

(* Amending the company between freezing and finalising never strands a    *)
(* decision: with the channel it froze through gone, its actor's key       *)
(* rotated, any governance signer of the day can still record it.          *)
NeverStranded ==
    \A path \in File, key \in Key :
        (/\ file[path].status = "Signed"
         /\ authorised_signer(chain, HeadHeight(chain), "governance", key))
            => Recordable(chain, Content(file[path].snapshot),
                          Content(file[path].signature), key)

(* A file's decision is recorded once: the chain holds one record for each *)
(* file that says so or is about to, and one more for each time a crash, a *)
(* save by a command that had read the file before another save, or a new  *)
(* draft over the file made it forget a record.  Commands that overlap, or *)
(* start over, before anything is recorded cost nothing.                   *)
RecordedOnce ==
    Cardinality(Decisions) = undone + Cardinality(OnRecord(file, command))
=============================================================================
