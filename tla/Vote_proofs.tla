----------------------------- MODULE Vote_proofs -----------------------------
(* Theorems about Vote: a collective channel's vote, from a draft to a     *)
(* record on the chain, for every company, file and number of commands.    *)
EXTENDS Vote, Records_proofs, FiniteSetTheorems

-----------------------------------------------------------------------------
(* Every command works on a state file in the same way: it reads a stage   *)
(* of the vote, and some time later replaces the file by another one.      *)

Fields == {"status", "proposal", "snapshot", "ballots", "evaluation", "finalized"}

(* The stage a command that read the file in a status goes on to.          *)
Follows(read, written) ==
    \/ read = "Missing" /\ written = "Draft"
    \/ read = "Draft" /\ written = "Frozen"
    \/ read = "Frozen" /\ written = "Open"
    \/ read = "Open" /\ written \in {"Open", "Closed"}
    \/ read = "Closed" /\ written = "Evaluated"
    \/ read = "Evaluated" /\ written = "Finalized"

FileShaped(f) == f \in {Missing, Torn} \/ DOMAIN f = Fields

CommandShaped(cmd) ==
    \/ cmd = Idle
    \/ /\ DOMAIN cmd = {"path", "opens", "fresh", "write"}
       /\ \E path \in File : cmd.path = Some(path)
       /\ cmd.opens \in BOOLEAN /\ cmd.fresh \in BOOLEAN
       /\ DOMAIN cmd.write = Fields

Busy(cmd) == cmd # Idle
WorksOn(cmd, path) == Busy(cmd) /\ cmd.path = Some(path)

(* The invariant of the state files: what a command read last, what it     *)
(* will write keeps the ballots of.                                        *)
ShapeInv ==
    /\ DOMAIN file = File /\ DOMAIN command = Process
    /\ \A path \in File : FileShaped(file[path])
    /\ \A p \in Process : CommandShaped(command[p])
    /\ \A p \in Process, path \in File :
          WorksOn(command[p], path) /\ command[p].fresh
              => Kept(file[path], command[p].write)

(* A command starts on a file, holding the chain only if nobody does.      *)
Starts(p, path, opens, fresh, write) ==
    /\ command[p] = Idle /\ (opens => ~Held)
    /\ command' = [command EXCEPT ![p] = Working(path, opens, fresh, write)]
    /\ UNCHANGED <<file, undone>>
    /\ DOMAIN write = Fields
    /\ fresh => /\ Kept(file[path], write)
                /\ Follows(file[path].status, write.status)
    /\ write.status = "Finalized" => opens /\ fresh

(* What the stage about to be written says.                                *)
Stage(write, status, snapshot, ballots, evaluation) ==
    /\ write.status = status /\ write.snapshot = snapshot
    /\ write.ballots = ballots /\ write.evaluation = evaluation

(* What leaves the ballots alone keeps them.                               *)
LEMMA SameBallotsKept ==
    ASSUME NEW f, NEW g, g.ballots = f.ballots
    PROVE  Kept(f, g)
  BY DEF Kept

(* A file read in a status of a vote's is a stage of one.                  *)
LEMMA StageShaped ==
    ASSUME ShapeInv, NEW path \in File,
           file[path].status \notin {"Missing", "Torn"}
    PROVE  DOMAIN file[path] = Fields
<1>1. FileShaped(file[path])
  BY DEF ShapeInv
<1>2. Missing.status = "Missing" /\ Torn.status = "Torn"
  BY DEF Missing, Torn
<1> QED
  BY <1>1, <1>2 DEF FileShaped

(* vote new sets out to write a draft without ballots.                     *)
LEMMA NewStarts ==
    ASSUME ShapeInv, NEW p \in Process, NEW path \in File, NEW proposal,
           New(p, path, proposal)
    PROVE  \E fresh \in BOOLEAN : \E w :
              /\ Starts(p, path, FALSE, fresh, w)
              /\ Stage(w, "Draft", None, NoBallots, None)
              /\ fresh = (file[path] = Missing) /\ chain' = chain
<1> DEFINE fresh == file[path] = Missing
           w == Draft(proposal)
<1>1. /\ command[p] = Idle /\ UNCHANGED <<chain, file, undone>>
      /\ command' = [command EXCEPT ![p] = Working(path, FALSE, fresh, w)]
  BY DEF New
<1>2. DOMAIN w = Fields /\ Stage(w, "Draft", None, NoBallots, None)
  BY DEF Draft, Fields, Stage
<1>3. fresh => Missing = file[path] /\ Missing.status = "Missing"
  BY DEF Missing
<1> HIDE DEF w
<1>4. fresh => Kept(file[path], w) /\ Follows(file[path].status, w.status)
  BY <1>2, <1>3 DEF Kept, HasRoll, Follows, Stage
<1>5. Starts(p, path, FALSE, fresh, w)
  BY <1>1, <1>2, <1>4 DEF Starts, Stage
<1> QED
  BY <1>1, <1>2, <1>5

(* vote freeze sets out to write what the channel showed at a height.      *)
LEMMA FreezeStarts ==
    ASSUME ShapeInv, NEW p \in Process, NEW path \in File, NEW id, NEW at,
           Freeze(p, path, id, at)
    PROVE  \E w, s :
              /\ Starts(p, path, TRUE, TRUE, w)
              /\ Stage(w, "Frozen", Some(s), file[path].ballots, file[path].evaluation)
              /\ s = VoteSnapshot(chain, at, id, file[path].proposal)
              /\ VoteFreezable(chain, at, id)
              /\ file[path].status = "Draft" /\ chain' = chain
<1> DEFINE s == VoteSnapshot(chain, at, id, file[path].proposal)
           w == [file[path] EXCEPT !.status = "Frozen", !.snapshot = Some(s)]
<1>1. /\ command[p] = Idle /\ ~Held /\ file[path].status = "Draft"
      /\ VoteFreezable(chain, at, id) /\ UNCHANGED <<chain, file, undone>>
      /\ command' = [command EXCEPT ![p] = Working(path, TRUE, TRUE, w)]
  BY DEF Freeze, ChainStep
<1>2. DOMAIN file[path] = Fields
  BY <1>1, StageShaped
<1>3. s = VoteSnapshot(chain, at, id, file[path].proposal)
  OBVIOUS
<1> HIDE DEF s
<1>4. /\ DOMAIN w = Fields
      /\ Stage(w, "Frozen", Some(s), file[path].ballots, file[path].evaluation)
  BY <1>2 DEF Fields, Stage
<1> HIDE DEF w
<1>5. Starts(p, path, TRUE, TRUE, w)
  BY <1>1, <1>4, SameBallotsKept DEF Starts, Stage, Follows
<1> QED
  BY <1>1, <1>3, <1>4, <1>5

(* vote open sets out to write an open vote, the rest unchanged.           *)
LEMMA OpenStarts ==
    ASSUME ShapeInv, NEW p \in Process, NEW path \in File, Open(p, path)
    PROVE  \E w :
              /\ Starts(p, path, FALSE, TRUE, w)
              /\ Stage(w, "Open", file[path].snapshot, file[path].ballots,
                       file[path].evaluation)
              /\ file[path].status = "Frozen" /\ chain' = chain
<1> DEFINE w == [file[path] EXCEPT !.status = "Open"]
<1>1. /\ command[p] = Idle /\ file[path].status = "Frozen"
      /\ UNCHANGED <<chain, file, undone>>
      /\ command' = [command EXCEPT ![p] = Working(path, FALSE, TRUE, w)]
  BY DEF Open, Step
<1>2. DOMAIN file[path] = Fields
  BY <1>1, StageShaped
<1>3. /\ DOMAIN w = Fields
      /\ Stage(w, "Open", file[path].snapshot, file[path].ballots, file[path].evaluation)
  BY <1>2 DEF Fields, Stage
<1> HIDE DEF w
<1>4. Starts(p, path, FALSE, TRUE, w)
  BY <1>1, <1>3, SameBallotsKept DEF Starts, Stage, Follows
<1> QED
  BY <1>1, <1>3, <1>4

(* The ballots once another is added: the first ballot of a voter stands.  *)
With(ballots, ballot) ==
    [voter \in DOMAIN ballots \cup {ballot.voter} |->
        IF voter = ballot.voter THEN ballot ELSE ballots[voter]]

(* vote cast sets out to write one checked ballot more.                    *)
LEMMA CastStarts ==
    ASSUME ShapeInv, NEW p \in Process, NEW path \in File, NEW ballot,
           Cast(p, path, ballot)
    PROVE  \E w :
              /\ Starts(p, path, FALSE, TRUE, w)
              /\ Stage(w, "Open", file[path].snapshot, With(file[path].ballots, ballot),
                       file[path].evaluation)
              /\ check_ballot(ballot, Content(file[path].snapshot))
              /\ file[path].status = "Open" /\ chain' = chain
<1> DEFINE w == [file[path] EXCEPT !.ballots =
                [voter \in DOMAIN @ \cup {ballot.voter} |->
                    IF voter = ballot.voter THEN ballot ELSE @[voter]]]
<1>1. /\ command[p] = Idle /\ file[path].status = "Open"
      /\ check_ballot(ballot, Content(file[path].snapshot))
      /\ ballot.voter \notin DOMAIN file[path].ballots
      /\ UNCHANGED <<chain, file, undone>>
      /\ command' = [command EXCEPT ![p] = Working(path, FALSE, TRUE, w)]
  BY DEF Cast, Step
<1>2. DOMAIN file[path] = Fields
  BY <1>1, StageShaped
<1>3. w = [file[path] EXCEPT !.ballots = With(file[path].ballots, ballot)]
  BY DEF With
<1> HIDE DEF w
<1>4. /\ DOMAIN w = Fields
      /\ Stage(w, "Open", file[path].snapshot, With(file[path].ballots, ballot),
               file[path].evaluation)
  BY <1>1, <1>2, <1>3 DEF Fields, Stage
<1>5. Kept(file[path], w)
  BY <1>1, <1>4 DEF Kept, Stage, With
<1>6. Starts(p, path, FALSE, TRUE, w)
  BY <1>1, <1>4, <1>5 DEF Starts, Stage, Follows
<1> QED
  BY <1>1, <1>4, <1>6

(* vote close sets out to write a closed vote, the rest unchanged.         *)
LEMMA CloseStarts ==
    ASSUME ShapeInv, NEW p \in Process, NEW path \in File, Close(p, path)
    PROVE  \E w :
              /\ Starts(p, path, FALSE, TRUE, w)
              /\ Stage(w, "Closed", file[path].snapshot, file[path].ballots,
                       file[path].evaluation)
              /\ file[path].status = "Open" /\ chain' = chain
<1> DEFINE w == [file[path] EXCEPT !.status = "Closed"]
<1>1. /\ command[p] = Idle /\ file[path].status = "Open"
      /\ UNCHANGED <<chain, file, undone>>
      /\ command' = [command EXCEPT ![p] = Working(path, FALSE, TRUE, w)]
  BY DEF Close, Step
<1>2. DOMAIN file[path] = Fields
  BY <1>1, StageShaped
<1>3. /\ DOMAIN w = Fields
      /\ Stage(w, "Closed", file[path].snapshot, file[path].ballots, file[path].evaluation)
  BY <1>2 DEF Fields, Stage
<1> HIDE DEF w
<1>4. Starts(p, path, FALSE, TRUE, w)
  BY <1>1, <1>3, SameBallotsKept DEF Starts, Stage, Follows
<1> QED
  BY <1>1, <1>3, <1>4

(* vote evaluate sets out to write the count of the ballots it read.       *)
LEMMA EvaluateStarts ==
    ASSUME ShapeInv, NEW p \in Process, NEW path \in File, Evaluate(p, path)
    PROVE  \E w, result :
              /\ Starts(p, path, TRUE, TRUE, w)
              /\ Stage(w, "Evaluated", file[path].snapshot, file[path].ballots, Some(result))
              /\ Counted(chain, Content(file[path].snapshot), file[path].ballots, result)
              /\ file[path].status = "Closed" /\ chain' = chain
<1> DEFINE result == Count(chain, Content(file[path].snapshot), file[path].ballots)
           w == [file[path] EXCEPT !.status = "Evaluated", !.evaluation = Some(result)]
<1>1. /\ command[p] = Idle /\ ~Held /\ file[path].status = "Closed"
      /\ evaluate_now(chain, Content(file[path].snapshot), file[path].ballots, result)
      /\ UNCHANGED <<chain, file, undone>>
      /\ command' = [command EXCEPT ![p] = Working(path, TRUE, TRUE, w)]
  BY DEF Evaluate, ChainStep
<1>2. DOMAIN file[path] = Fields
  BY <1>1, StageShaped
<1> HIDE DEF result
<1>3. Counted(chain, Content(file[path].snapshot), file[path].ballots, result)
  BY <1>1 DEF evaluate_now, Counted
<1>4. /\ DOMAIN w = Fields
      /\ Stage(w, "Evaluated", file[path].snapshot, file[path].ballots, Some(result))
  BY <1>2 DEF Fields, Stage
<1> HIDE DEF w
<1>5. Starts(p, path, TRUE, TRUE, w)
  BY <1>1, <1>4, SameBallotsKept DEF Starts, Stage, Follows
<1> QED
  BY <1>1, <1>3, <1>4, <1>5

(* vote finalize appends the record and sets out to mark the file.         *)
LEMMA FinalizeStarts ==
    ASSUME ShapeInv, NEW p \in Process, NEW path \in File, NEW key,
           Finalize(p, path, key)
    PROVE  \E w :
              /\ Starts(p, path, TRUE, TRUE, w)
              /\ Stage(w, "Finalized", file[path].snapshot, file[path].ballots,
                       file[path].evaluation)
              /\ file[path].status = "Evaluated" /\ ~Held
              /\ Finalizable(file[path], key)
              /\ chain' = Append(chain, VoteRecord(file[path], key))
<1> DEFINE w == Recorded(file[path])
<1>1. /\ command[p] = Idle /\ ~Held /\ file[path].status = "Evaluated"
      /\ Finalizable(file[path], key) /\ UNCHANGED <<file, undone>>
      /\ chain' = Append(chain, VoteRecord(file[path], key))
      /\ command' = [command EXCEPT ![p] = Working(path, TRUE, TRUE, w)]
  BY DEF Finalize, ChainStep
<1>2. DOMAIN file[path] = Fields
  BY <1>1, StageShaped
<1>3. /\ DOMAIN w = Fields
      /\ Stage(w, "Finalized", file[path].snapshot, file[path].ballots,
               file[path].evaluation)
  BY <1>2 DEF Recorded, Fields, Stage
<1> HIDE DEF w
<1>4. Starts(p, path, TRUE, TRUE, w)
  BY <1>1, <1>3, SameBallotsKept DEF Starts, Stage, Follows
<1> QED
  BY <1>1, <1>3, <1>4

-----------------------------------------------------------------------------
(* A command ends in replacing the file, in tearing it, or in nothing.     *)

(* What is left of a command once another one replaced the file it read.   *)
Stale(cmd, copy) ==
    /\ CommandShaped(copy) /\ Busy(copy)
    /\ copy.path = cmd.path /\ copy.opens = cmd.opens
    /\ copy.write = cmd.write /\ copy.fresh = FALSE

(* The command dies and the file is as it was.                             *)
Leaves(p, path) ==
    /\ file' = file
    /\ \A q \in Process \ {p} : command'[q] = command[q]

(* The file is replaced, by what the command says or by a torn one.        *)
Replaces(p, path) ==
    /\ \A f \in File \ {path} : file'[f] = file[f]
    /\ file'[path] \in {command[p].write, Torn}
    /\ \A q \in Process \ {p} :
          IF WorksOn(command[q], path) THEN Stale(command[q], command'[q])
          ELSE command'[q] = command[q]

(* What the path forgot is counted; a save of what was read last need not, *)
(* as it forgets nothing.                                                  *)
Owns(p, path) ==
    \/ undone' = IF Forgets(path) THEN undone + 1 ELSE undone
    \/ command[p].fresh /\ Replaces(p, path) /\ file'[path] = command[p].write
       /\ undone' = undone

Ends(p, path) ==
    /\ WorksOn(command[p], path) /\ chain' = chain
    /\ DOMAIN file' = File /\ DOMAIN command' = Process
    /\ command'[p] = Idle
    /\ Leaves(p, path) \/ Replaces(p, path)
    /\ Owns(p, path)

(* A stale copy of a command is one.                                       *)
LEMMA StaleCopy ==
    ASSUME NEW cmd, CommandShaped(cmd), Busy(cmd)
    PROVE  Stale(cmd, [cmd EXCEPT !.fresh = FALSE])
<1> DEFINE copy == [cmd EXCEPT !.fresh = FALSE]
<1>1. /\ DOMAIN cmd = {"path", "opens", "fresh", "write"}
      /\ \E path \in File : cmd.path = Some(path)
      /\ cmd.opens \in BOOLEAN /\ DOMAIN cmd.write = Fields
  BY DEF CommandShaped, Busy
<1>2. /\ DOMAIN copy = {"path", "opens", "fresh", "write"}
      /\ copy.path = cmd.path /\ copy.opens = cmd.opens
      /\ copy.write = cmd.write /\ copy.fresh = FALSE
  BY <1>1
<1> HIDE DEF copy
<1>3. Busy(copy)
  BY <1>1, <1>2 DEF Busy, Idle, Some, None
<1>4. CommandShaped(copy)
  BY <1>1, <1>2 DEF CommandShaped
<1> QED
  BY <1>2, <1>3, <1>4 DEF Stale, copy

(* A busy command works on a file.                                         *)
LEMMA WorksSomewhere ==
    ASSUME NEW cmd, CommandShaped(cmd), Busy(cmd)
    PROVE  /\ Content(cmd.path) \in File /\ WorksOn(cmd, Content(cmd.path))
           /\ cmd.opens \in BOOLEAN /\ cmd.fresh \in BOOLEAN
           /\ DOMAIN cmd.write = Fields
  BY ContentOfSome DEF CommandShaped, Busy, WorksOn

(* An idle command works on no file.                                       *)
LEMMA OnlyTheBusyWork ==
    ASSUME NEW cmd, NEW path, cmd.path = Some(path)
    PROVE  Busy(cmd)
  BY DEF Busy, Idle, Some, None

(* Saving ends a command, and the file holds what it set out to write.     *)
LEMMA SaveEnds ==
    ASSUME ShapeInv, NEW p \in Process, Save(p)
    PROVE  \E path \in File : Ends(p, path)
<1> DEFINE path == Content(command[p].path)
<1>1. /\ Busy(command[p]) /\ chain' = chain
      /\ file' = [file EXCEPT ![path] = command[p].write]
      /\ undone' = IF ~command[p].fresh /\ Forgets(path) THEN undone + 1 ELSE undone
      /\ command' = [q \in Process |->
                 IF q = p THEN Idle
                 ELSE IF command[q].path = Some(path)
                      THEN [command[q] EXCEPT !.fresh = FALSE]
                      ELSE command[q]]
  BY DEF Save, Busy
<1>2. path \in File /\ WorksOn(command[p], path) /\ command[p].fresh \in BOOLEAN
  BY <1>1, WorksSomewhere DEF ShapeInv
<1> HIDE DEF path
<1>3. /\ DOMAIN file' = File /\ file'[path] = command[p].write
      /\ \A f \in File \ {path} : file'[f] = file[f]
  BY <1>1, <1>2 DEF ShapeInv
<1>5. DOMAIN command' = Process /\ command'[p] = Idle
  BY <1>1
<1>6. ASSUME NEW q \in Process \ {p}
      PROVE  IF WorksOn(command[q], path) THEN Stale(command[q], command'[q])
             ELSE command'[q] = command[q]
  <2>1. CASE WorksOn(command[q], path)
    <3>1. command'[q] = [command[q] EXCEPT !.fresh = FALSE]
      BY <1>1, <2>1 DEF WorksOn
    <3>2. CommandShaped(command[q]) /\ Busy(command[q])
      BY <2>1 DEF WorksOn, ShapeInv
    <3> QED
      BY <2>1, <3>1, <3>2, StaleCopy
  <2>2. CASE ~WorksOn(command[q], path)
    <3>1. command[q].path # Some(path)
      BY <2>2, OnlyTheBusyWork DEF WorksOn
    <3> QED
      BY <1>1, <2>2, <3>1
  <2> QED
    BY <2>1, <2>2
<1>7. Replaces(p, path)
  BY <1>3, <1>6 DEF Replaces
<1>8. Owns(p, path)
  BY <1>1, <1>2, <1>3, <1>7 DEF Owns
<1> QED
  BY <1>1, <1>2, <1>3, <1>5, <1>7, <1>8 DEF Ends

(* A crash ends a command, and the file is as it was or torn.              *)
LEMMA CrashEnds ==
    ASSUME ShapeInv, NEW p \in Process, Crash(p)
    PROVE  \E path \in File : Ends(p, path)
<1> DEFINE path == Content(command[p].path)
<1>1. /\ Busy(command[p]) /\ chain' = chain
      /\ file' = file \/ file' = [file EXCEPT ![path] = Torn]
      /\ undone' = IF Forgets(path) THEN undone + 1 ELSE undone
      /\ command' = [q \in Process |->
                 IF q = p THEN Idle
                 ELSE IF command[q].path = Some(path) /\ file' # file
                      THEN [command[q] EXCEPT !.fresh = FALSE]
                      ELSE command[q]]
  BY DEF Crash, Busy
<1>2. path \in File /\ WorksOn(command[p], path)
  BY <1>1, WorksSomewhere DEF ShapeInv
<1> HIDE DEF path
<1>3. /\ DOMAIN file' = File
      /\ file' = file \/ file'[path] = Torn
      /\ \A f \in File \ {path} : file'[f] = file[f]
  BY <1>1, <1>2 DEF ShapeInv
<1>4. Owns(p, path)
  BY <1>1 DEF Owns
<1>5. DOMAIN command' = Process /\ command'[p] = Idle
  BY <1>1
<1>6. CASE file' = file
  <2>1. \A q \in Process \ {p} : command'[q] = command[q]
    BY <1>1, <1>6
  <2>2. Leaves(p, path)
    BY <1>6, <2>1 DEF Leaves
  <2> QED
    BY <1>1, <1>2, <1>3, <1>4, <1>5, <2>2 DEF Ends
<1>7. CASE file' # file
  <2>1. ASSUME NEW q \in Process \ {p}
        PROVE  IF WorksOn(command[q], path) THEN Stale(command[q], command'[q])
               ELSE command'[q] = command[q]
    <3>1. CASE WorksOn(command[q], path)
      <4>1. command'[q] = [command[q] EXCEPT !.fresh = FALSE]
        BY <1>1, <1>7, <3>1 DEF WorksOn
      <4>2. CommandShaped(command[q]) /\ Busy(command[q])
        BY <3>1 DEF WorksOn, ShapeInv
      <4> QED
        BY <3>1, <4>1, <4>2, StaleCopy
    <3>2. CASE ~WorksOn(command[q], path)
      <4>1. command[q].path # Some(path)
        BY <3>2, OnlyTheBusyWork DEF WorksOn
      <4> QED
        BY <1>1, <3>2, <4>1
    <3> QED
      BY <3>1, <3>2
  <2>2. Replaces(p, path)
    BY <1>3, <1>7, <2>1 DEF Replaces
  <2> QED
    BY <1>1, <1>2, <1>3, <1>4, <1>5, <2>2 DEF Ends
<1> QED
  BY <1>6, <1>7

(* What a step does to files and commands.                                 *)
StartsSomewhere ==
    \E p \in Process, path \in File, opens \in BOOLEAN, fresh \in BOOLEAN :
        \E w : Starts(p, path, opens, fresh, w)

EndsSomewhere == \E p \in Process, path \in File : Ends(p, path)

(* A step starts a command, ends one, or leaves files and commands alone.  *)
LEMMA EveryStep ==
    ASSUME ShapeInv, [Next]_vars
    PROVE  UNCHANGED <<file, command, undone>> \/ StartsSomewhere \/ EndsSomewhere
<1>1. ASSUME NEW key \in Key, NEW a \in Amendment, Amend(key, a[1], a[2])
      PROVE  UNCHANGED <<file, command, undone>>
  BY <1>1 DEF Amend
<1>2. ASSUME NEW p \in Process, NEW path \in File, NEW proposal \in Proposal,
             New(p, path, proposal)
      PROVE  StartsSomewhere
  BY <1>2, NewStarts DEF StartsSomewhere
<1>3. ASSUME NEW p \in Process, NEW path \in File,
             NEW id \in ChannelId, NEW at \in 0..HeadHeight(chain) + Ahead,
             Freeze(p, path, id, at)
      PROVE  StartsSomewhere
  BY <1>3, FreezeStarts DEF StartsSomewhere
<1>4. ASSUME NEW p \in Process, NEW path \in File, Open(p, path)
      PROVE  StartsSomewhere
  BY <1>4, OpenStarts DEF StartsSomewhere
<1>5. ASSUME NEW p \in Process, NEW path \in File,
             NEW ballot, Cast(p, path, ballot)
      PROVE  StartsSomewhere
  BY <1>5, CastStarts DEF StartsSomewhere
<1>6. ASSUME NEW p \in Process, NEW path \in File, Close(p, path)
      PROVE  StartsSomewhere
  BY <1>6, CloseStarts DEF StartsSomewhere
<1>7. ASSUME NEW p \in Process, NEW path \in File, Evaluate(p, path)
      PROVE  StartsSomewhere
  BY <1>7, EvaluateStarts DEF StartsSomewhere
<1>8. ASSUME NEW p \in Process, NEW path \in File, NEW key \in Key, Finalize(p, path, key)
      PROVE  StartsSomewhere
  BY <1>8, FinalizeStarts DEF StartsSomewhere
<1>9. ASSUME NEW p \in Process, Save(p) \/ Crash(p) PROVE EndsSomewhere
  BY <1>9, SaveEnds, CrashEnds DEF EndsSomewhere
<1>10. CASE UNCHANGED vars
  BY <1>10 DEF vars
<1> QED
  BY <1>1, <1>2, <1>3, <1>4, <1>5, <1>6, <1>7, <1>8, <1>9, <1>10 DEF Next

(* A command taken up.                                                     *)
LEMMA Started ==
    ASSUME ShapeInv, NEW p \in Process, NEW path \in File,
           NEW opens \in BOOLEAN, NEW fresh \in BOOLEAN, NEW w,
           Starts(p, path, opens, fresh, w)
    PROVE  /\ DOMAIN command' = Process
           /\ CommandShaped(command'[p]) /\ WorksOn(command'[p], path)
           /\ command'[p].opens = opens /\ command'[p].fresh = fresh
           /\ command'[p].write = w /\ command'[p].path = Some(path)
           /\ \A q \in Process \ {p} : command'[q] = command[q]
<1> DEFINE cmd == Working(path, opens, fresh, w)
<1>1. /\ DOMAIN cmd = {"path", "opens", "fresh", "write"}
      /\ cmd.path = Some(path) /\ cmd.opens = opens /\ cmd.fresh = fresh
      /\ cmd.write = w
  BY DEF Working
<1>2. DOMAIN w = Fields /\ command' = [command EXCEPT ![p] = cmd]
  BY DEF Starts
<1> HIDE DEF cmd
<1>3. CommandShaped(cmd)
  BY <1>1, <1>2 DEF CommandShaped
<1>4. WorksOn(cmd, path)
  BY <1>1, OnlyTheBusyWork DEF WorksOn
<1>5. DOMAIN command' = Process /\ command'[p] = cmd
      /\ \A q \in Process \ {p} : command'[q] = command[q]
  BY <1>2 DEF ShapeInv
<1> QED
  BY <1>1, <1>3, <1>4, <1>5

(* Starting a command keeps the shape of files and commands.               *)
LEMMA StartKeepsShape ==
    ASSUME ShapeInv, StartsSomewhere
    PROVE  ShapeInv'
<1>0. PICK p \in Process, path \in File, opens \in BOOLEAN, fresh \in BOOLEAN :
          \E w : Starts(p, path, opens, fresh, w)
  BY DEF StartsSomewhere
<1>1. PICK w : Starts(p, path, opens, fresh, w)
  BY <1>0
<1>2. /\ DOMAIN command' = Process
      /\ CommandShaped(command'[p]) /\ WorksOn(command'[p], path)
      /\ command'[p].fresh = fresh /\ command'[p].write = w
      /\ command'[p].path = Some(path)
      /\ \A q \in Process \ {p} : command'[q] = command[q]
  BY <1>1, Started
<1>3. file' = file /\ (fresh => Kept(file[path], w))
  BY <1>1 DEF Starts
<1>4. \A q \in Process : CommandShaped(command'[q])
  BY <1>2, Zenon DEF ShapeInv
<1>5. ASSUME NEW q \in Process, NEW f \in File, WorksOn(command'[q], f), command'[q].fresh
      PROVE  Kept(file'[f], command'[q].write)
  <2>1. CASE q = p
    <3>1. f = path
      BY <1>2, <1>5, <2>1, ContentOfSome DEF WorksOn
    <3> QED
      BY <1>2, <1>3, <1>5, <2>1, <3>1
  <2>2. CASE q # p
    <3>1. command'[q] = command[q] /\ file'[f] = file[f]
      BY <1>2, <1>3, <2>2
    <3>2. WorksOn(command[q], f) /\ command[q].fresh
      BY <3>1, <1>5
    <3> QED
      BY <3>1, <3>2 DEF ShapeInv
  <2> QED
    BY <2>1, <2>2
<1> QED
  BY <1>2, <1>3, <1>4, <1>5 DEF ShapeInv

(* Ending a command keeps the shape of files and commands.                 *)
LEMMA EndKeepsShape ==
    ASSUME ShapeInv, EndsSomewhere
    PROVE  ShapeInv'
<1>1. PICK p \in Process, path \in File : Ends(p, path)
  BY DEF EndsSomewhere
<1>2. /\ WorksOn(command[p], path) /\ DOMAIN file' = File /\ DOMAIN command' = Process
      /\ command'[p] = Idle
      /\ Leaves(p, path) \/ Replaces(p, path)
  BY <1>1 DEF Ends
<1>3. DOMAIN command[p].write = Fields
  BY <1>2, WorksSomewhere DEF ShapeInv, WorksOn
<1>4. \A f \in File : FileShaped(file'[f])
  BY <1>2, <1>3 DEF Leaves, Replaces, ShapeInv, FileShaped
<1>5. \A q \in Process : CommandShaped(command'[q])
  BY <1>2 DEF Leaves, Replaces, ShapeInv, CommandShaped, Stale
<1>6. ASSUME NEW q \in Process, NEW f \in File, WorksOn(command'[q], f), command'[q].fresh
      PROVE  Kept(file'[f], command'[q].write)
  <2>1. q # p
    BY <1>2, <1>6 DEF WorksOn, Busy
  <2>2. CASE Leaves(p, path)
    BY <1>6, <2>1, <2>2 DEF Leaves, ShapeInv
  <2>3. CASE Replaces(p, path)
    <3>1. ~WorksOn(command[q], path) /\ command'[q] = command[q]
      BY <1>6, <2>1, <2>3 DEF Replaces, Stale
    <3>2. f # path
      BY <1>6, <3>1
    <3>3. file'[f] = file[f]
      BY <2>3, <3>2 DEF Replaces
    <3> QED
      BY <1>6, <3>1, <3>3 DEF ShapeInv
  <2> QED
    BY <1>2, <2>2, <2>3
<1> QED
  BY <1>2, <1>4, <1>5, <1>6 DEF ShapeInv

(* The vote channel's files and commands keep their shape.                 *)
LEMMA StepKeepsShape ==
    ASSUME ShapeInv, [Next]_vars
    PROVE  ShapeInv'
<1>1. CASE UNCHANGED <<file, command, undone>>
  BY <1>1 DEF ShapeInv
<1> QED
  BY <1>1, EveryStep, StartKeepsShape, EndKeepsShape

(* The shape holds before there is a file or a command.                    *)
LEMMA ShapeBegins == Init => ShapeInv
<1> SUFFICES ASSUME Init PROVE ShapeInv
  OBVIOUS
<1>1. /\ file = [path \in File |-> Missing]
      /\ command = [p \in Process |-> Idle]
  BY DEF Init
<1> QED
  BY <1>1 DEF ShapeInv, FileShaped, CommandShaped, WorksOn, Busy

(* "The first ballot stands" (IRENA_V1.md 7.3): a ballot the file held for *)
(* a vote is there as it was cast in whatever the next step makes the file *)
(* say about that vote - cast refuses a second one, and every other        *)
(* command carries the ballots it read - but for one kind of step: the     *)
(* save by a command that had read the file before another save, so that   *)
(* of two casts that overlap the later save drops the other's ballot       *)
(* (irena-cli, vote).  It holds however far beyond the head freeze --at    *)
(* points.                                                                 *)
THEOREM TheFirstBallotStands == Spec => FirstBallotStands
<1>1. ShapeInv /\ [Next]_vars => ShapeInv'
  BY StepKeepsShape
<1>2. ShapeInv /\ [Next]_vars
         => [\A path \in File : Kept(file[path], file'[path]) \/ SavesOldCopy(path)]_vars
  <2> SUFFICES ASSUME ShapeInv, [Next]_vars, NEW path \in File
               PROVE  Kept(file[path], file'[path]) \/ SavesOldCopy(path)
    OBVIOUS
  <2>1. CASE file'[path] = file[path]
    BY <2>1, SameBallotsKept
  <2>2. CASE UNCHANGED <<file, command, undone>>
    BY <2>1, <2>2
  <2>3. CASE StartsSomewhere
    BY <2>1, <2>3 DEF StartsSomewhere, Starts
  <2>4. CASE EndsSomewhere
    <3>1. PICK p \in Process, f \in File : Ends(p, f)
      BY <2>4 DEF EndsSomewhere
    <3>2. CASE path # f \/ Leaves(p, f)
      <4>1. Leaves(p, f) \/ Replaces(p, f)
        BY <3>1 DEF Ends
      <4> QED
        BY <4>1, <3>2, <2>1 DEF Leaves, Replaces
    <3>3. CASE path = f /\ Replaces(p, f)
      <4>1. /\ WorksOn(command[p], path) /\ command'[p] = Idle
            /\ file'[path] \in {command[p].write, Torn}
        BY <3>1, <3>3 DEF Ends, Replaces
      <4>2. CASE file'[path] = Torn
        BY <4>2 DEF Kept, HasRoll, Torn
      <4>3. CASE file'[path] = command[p].write /\ command[p].fresh
        BY <4>1, <4>3 DEF ShapeInv
      <4>4. CASE file'[path] = command[p].write /\ ~command[p].fresh
        BY <4>1, <4>4 DEF SavesOldCopy, WorksOn
      <4> QED
        BY <4>1, <4>2, <4>3, <4>4
    <3> QED
      BY <3>1, <3>2, <3>3 DEF Ends
  <2> QED
    BY <2>2, <2>3, <2>4, EveryStep
<1> QED
  BY <1>1, <1>2, ShapeBegins, PTL DEF Spec, FirstBallotStands

-----------------------------------------------------------------------------
(* The inductive invariant: the company stays readable and amendable; what *)
(* a state file or a command about to write one holds was frozen on this   *)
(* very chain, its ballots are the voters' own and its result is theirs;   *)
(* and every record stands.                                                *)

(* What a stage of a vote holds, whether on file or about to be.           *)
StageOK(c, f) ==
    /\ f.status \in {"Draft", "Frozen", "Open", "Closed", "Evaluated", "Finalized"}
    /\ f.status = "Draft" => f.snapshot = None /\ f.ballots = NoBallots
    /\ f.status # "Draft" =>
          /\ f.snapshot = Some(Content(f.snapshot))
          /\ RollFrozenOn(c, Content(f.snapshot))
          /\ BallotsStand(Content(f.snapshot), f.ballots)
    /\ f.status \in {"Evaluated", "Finalized"} =>
          Counted(c, Content(f.snapshot), f.ballots, Content(f.evaluation))

FileOK(c, f) == f \in {Missing, Torn} \/ StageOK(c, f)
CommandOK(c, cmd) == Busy(cmd) => StageOK(c, cmd.write)

VoteInv ==
    /\ ShapeInv
    /\ Healthy(chain)
    /\ \A path \in File : FileOK(chain, file[path])
    /\ \A p \in Process : CommandOK(chain, command[p])
    /\ \A h \in Votes : VoteStands(chain, h)

(* A stage frozen at the head or before stays in order as the chain grows. *)
LEMMA StageStays ==
    ASSUME NEW c, NEW d, Founded(c), Continues(d, c)
    PROVE  /\ \A f : StageOK(c, f) => StageOK(d, f)
           /\ \A f : FileOK(c, f) => FileOK(d, f)
           /\ \A cmd : CommandOK(c, cmd) => CommandOK(d, cmd)
<1>1. ASSUME NEW f, StageOK(c, f) PROVE StageOK(d, f)
  <2> DEFINE s == Content(f.snapshot)
  <2>1. RollFrozenOn(c, s) => RollFrozenOn(d, s)
    BY StillRollFrozen
  <2>2. ASSUME RollFrozenOn(c, s), Counted(c, s, f.ballots, Content(f.evaluation))
        PROVE  Counted(d, s, f.ballots, Content(f.evaluation))
    BY <2>2, StillCounted
  <2>3. f.status \in {"Evaluated", "Finalized"} => f.status # "Draft"
    OBVIOUS
  <2> HIDE DEF s
  <2> QED
    BY <1>1, <2>1, <2>2, <2>3 DEF StageOK, s
<1> QED
  BY <1>1 DEF FileOK, CommandOK

(* The records of votes, one record later.                                 *)
LEMMA VotesAfter ==
    ASSUME Healthy(chain), NEW x, chain' = Append(chain, x)
    PROVE  /\ HeadHeight(chain) \in Nat
           /\ Votes' = Votes \cup
                 (IF x.namespace = "vote" THEN {HeadHeight(chain) + 1} ELSE {})
           /\ HeadHeight(chain) + 1 \notin Votes
<1> DEFINE d == Append(chain, x)
           n == HeadHeight(chain)
<1>1. /\ Founded(chain) /\ Founded(d) /\ Continues(d, chain)
      /\ HeadHeight(d) = n + 1 /\ n \in Nat /\ RecordAt(d, n + 1) = x
  BY AppendedReadings DEF Healthy
<1>2. \A h \in 0..n : RecordAt(d, h) = RecordAt(chain, h)
  <2>1. \A h \in 0..n : h \in 0..h
    OBVIOUS
  <2> QED
    BY <1>1, <2>1, PastReadings
<1> HIDE DEF d, n
<1>3. 0..(n + 1) = (0..n) \cup {n + 1} /\ n + 1 \notin 0..n
  BY <1>1
<1>4. Votes = {h \in 0..n : RecordAt(chain, h).namespace = "vote"}
  BY DEF Votes, n
<1>5. Votes' = {h \in 0..(n + 1) : RecordAt(d, h).namespace = "vote"}
  BY <1>1 DEF Votes, d
<1> QED
  BY <1>1, <1>2, <1>3, <1>4, <1>5 DEF n

(* The file a command found in a status is a stage of a vote.              *)
LEMMA StageOfFile ==
    ASSUME NEW c, NEW f, FileOK(c, f), f.status \notin {"Missing", "Torn"}
    PROVE  StageOK(c, f)
  BY DEF FileOK, Missing, Torn

(* A process takes up a command that is in order.                          *)
LEMMA StartsInOrder ==
    ASSUME VoteInv, NEW p \in Process, NEW path \in File, NEW c,
           NEW opens \in BOOLEAN, NEW fresh \in BOOLEAN, NEW w,
           Starts(p, path, opens, fresh, w), StageOK(c, w),
           \A q \in Process : CommandOK(c, command[q])
    PROVE  /\ ShapeInv' /\ file' = file
           /\ \A q \in Process : CommandOK(c, command'[q])
<1>1. ShapeInv /\ StartsSomewhere
  BY DEF VoteInv, StartsSomewhere
<1>2. ShapeInv'
  BY <1>1, StartKeepsShape
<1>3. command'[p].write = w /\ \A q \in Process \ {p} : command'[q] = command[q]
  BY <1>1, Started
<1>4. file' = file
  BY DEF Starts
<1>5. \A q \in Process : CommandOK(c, command'[q])
  BY <1>3 DEF CommandOK
<1> QED
  BY <1>2, <1>4, <1>5

(* One that leaves the chain alone.                                        *)
LEMMA StartKeepsVotes ==
    ASSUME VoteInv, NEW p \in Process, NEW path \in File,
           NEW opens \in BOOLEAN, NEW fresh \in BOOLEAN, NEW w,
           Starts(p, path, opens, fresh, w), StageOK(chain, w), chain' = chain
    PROVE  VoteInv'
<1>1. /\ ShapeInv' /\ file' = file
      /\ \A q \in Process : CommandOK(chain, command'[q])
  BY StartsInOrder DEF VoteInv
<1>2. Votes' = Votes
  BY DEF Votes
<1> QED
  BY <1>1, <1>2 DEF VoteInv

(* Ending a command keeps the invariant.                                   *)
LEMMA EndKeepsVotes ==
    ASSUME VoteInv, NEW p \in Process, Save(p) \/ Crash(p)
    PROVE  VoteInv'
<1>1. PICK path \in File : Ends(p, path)
  BY SaveEnds, CrashEnds DEF VoteInv
<1>2. ShapeInv'
  BY <1>1, EndKeepsShape DEF VoteInv, EndsSomewhere
<1>3. /\ chain' = chain /\ WorksOn(command[p], path) /\ command'[p] = Idle
      /\ Leaves(p, path) \/ Replaces(p, path)
  BY <1>1 DEF Ends
<1>4. StageOK(chain, command[p].write)
  BY <1>3 DEF WorksOn, VoteInv, CommandOK
<1>5. ASSUME NEW f \in File PROVE FileOK(chain, file'[f])
  <2>1. file'[f] \in {file[f], command[p].write, Torn}
    BY <1>3 DEF Leaves, Replaces
  <2> QED
    BY <1>4, <2>1 DEF VoteInv, FileOK
<1>6. ASSUME NEW q \in Process PROVE CommandOK(chain, command'[q])
  <2>1. CASE q = p
    BY <1>3, <2>1 DEF CommandOK, Busy
  <2>2. CASE command'[q] = command[q]
    BY <2>2 DEF VoteInv
  <2>3. CASE WorksOn(command[q], path) /\ Stale(command[q], command'[q])
    BY <2>3 DEF WorksOn, Stale, VoteInv, CommandOK
  <2> QED
    BY <1>3, <2>1, <2>2, <2>3 DEF Leaves, Replaces
<1>7. Votes' = Votes
  BY <1>3 DEF Votes
<1> QED
  BY <1>2, <1>3, <1>5, <1>6, <1>7 DEF VoteInv

(* A ballot that checks joins ballots that stand.                          *)
LEMMA BallotJoins ==
    ASSUME NEW snapshot, NEW ballots, BallotsStand(snapshot, ballots),
           NEW ballot, check_ballot(ballot, snapshot)
    PROVE  BallotsStand(snapshot, With(ballots, ballot))
<1> DEFINE more == With(ballots, ballot)
<1>1. /\ DOMAIN more = DOMAIN ballots \cup {ballot.voter}
      /\ more[ballot.voter] = ballot
      /\ \A voter \in DOMAIN ballots : voter # ballot.voter => more[voter] = ballots[voter]
  BY DEF With
<1> HIDE DEF more
<1>2. BallotsStand(snapshot, more)
  BY <1>1 DEF BallotsStand
<1> QED
  BY <1>2 DEF more

(* The commands that move a vote on without the chain growing.             *)
LEMMA CommandKeepsVotes ==
    ASSUME Ahead = 0, VoteInv, NEW p \in Process, NEW path \in File,
           \/ \E proposal \in Proposal : New(p, path, proposal)
           \/ \E id \in ChannelId, at \in 0..HeadHeight(chain) + Ahead :
                 Freeze(p, path, id, at)
           \/ Open(p, path)
           \/ \E ballot : Cast(p, path, ballot)
           \/ Close(p, path)
           \/ Evaluate(p, path)
    PROVE  VoteInv'
<1>0. ShapeInv /\ FileOK(chain, file[path]) /\ HeadHeight(chain) \in Nat
  BY Heights DEF VoteInv, Healthy
<1> DEFINE s == Content(file[path].snapshot)
<1>s. file[path].status \in {"Frozen", "Open", "Closed"} =>
          /\ file[path].snapshot = Some(s) /\ RollFrozenOn(chain, s)
          /\ BallotsStand(s, file[path].ballots)
  BY <1>0, StageOfFile DEF StageOK
<1> HIDE DEF s
<1>1. ASSUME NEW proposal \in Proposal, New(p, path, proposal) PROVE VoteInv'
  <2>0. PICK fresh \in BOOLEAN : \E w :
            /\ Starts(p, path, FALSE, fresh, w)
            /\ Stage(w, "Draft", None, NoBallots, None) /\ chain' = chain
    BY <1>0, <1>1, NewStarts
  <2>1. PICK w : /\ Starts(p, path, FALSE, fresh, w)
                 /\ Stage(w, "Draft", None, NoBallots, None) /\ chain' = chain
    BY <2>0
  <2>2. StageOK(chain, w)
    BY <2>1 DEF Stage, StageOK
  <2> QED
    BY <2>1, <2>2, StartKeepsVotes
<1>2. ASSUME NEW id \in ChannelId, NEW at \in 0..HeadHeight(chain) + Ahead,
             Freeze(p, path, id, at)
      PROVE  VoteInv'
  <2>1. PICK w, r :
            /\ Starts(p, path, TRUE, TRUE, w)
            /\ Stage(w, "Frozen", Some(r), file[path].ballots, file[path].evaluation)
            /\ r = VoteSnapshot(chain, at, id, file[path].proposal)
            /\ VoteFreezable(chain, at, id)
            /\ file[path].status = "Draft" /\ chain' = chain
    BY <1>0, <1>2, FreezeStarts
  <2>2. at \in 0..HeadHeight(chain)
    BY <1>0
  <2>3. RollFrozenOn(chain, r)
    BY <2>1, <2>2, FreezingFreezes
  <2>4. BallotsStand(r, file[path].ballots)
    <3>1. file[path].ballots = NoBallots
      BY <1>0, <2>1, StageOfFile DEF StageOK
    <3> QED
      BY <3>1 DEF NoBallots, BallotsStand
  <2>5. StageOK(chain, w)
    BY <2>1, <2>3, <2>4, ContentOfSome DEF Stage, StageOK
  <2> QED
    BY <2>1, <2>5, StartKeepsVotes
<1>3. ASSUME Open(p, path) PROVE VoteInv'
  <2>1. PICK w :
            /\ Starts(p, path, FALSE, TRUE, w)
            /\ Stage(w, "Open", file[path].snapshot, file[path].ballots,
                     file[path].evaluation)
            /\ file[path].status = "Frozen" /\ chain' = chain
    BY <1>0, <1>3, OpenStarts
  <2>2. StageOK(chain, w)
    BY <1>s, <2>1 DEF Stage, StageOK, s
  <2> QED
    BY <2>1, <2>2, StartKeepsVotes
<1>4. ASSUME NEW ballot, Cast(p, path, ballot) PROVE VoteInv'
  <2>1. PICK w :
            /\ Starts(p, path, FALSE, TRUE, w)
            /\ Stage(w, "Open", file[path].snapshot, With(file[path].ballots, ballot),
                     file[path].evaluation)
            /\ check_ballot(ballot, Content(file[path].snapshot))
            /\ file[path].status = "Open" /\ chain' = chain
    BY <1>0, <1>4, CastStarts
  <2>2. BallotsStand(s, With(file[path].ballots, ballot))
    BY <1>s, <2>1, BallotJoins DEF s
  <2>3. StageOK(chain, w)
    BY <1>s, <2>1, <2>2 DEF Stage, StageOK, s
  <2> QED
    BY <2>1, <2>3, StartKeepsVotes
<1>5. ASSUME Close(p, path) PROVE VoteInv'
  <2>1. PICK w :
            /\ Starts(p, path, FALSE, TRUE, w)
            /\ Stage(w, "Closed", file[path].snapshot, file[path].ballots,
                     file[path].evaluation)
            /\ file[path].status = "Open" /\ chain' = chain
    BY <1>0, <1>5, CloseStarts
  <2>2. StageOK(chain, w)
    BY <1>s, <2>1 DEF Stage, StageOK, s
  <2> QED
    BY <2>1, <2>2, StartKeepsVotes
<1>6. ASSUME Evaluate(p, path) PROVE VoteInv'
  <2>1. PICK w, result :
            /\ Starts(p, path, TRUE, TRUE, w)
            /\ Stage(w, "Evaluated", file[path].snapshot, file[path].ballots, Some(result))
            /\ Counted(chain, Content(file[path].snapshot), file[path].ballots, result)
            /\ file[path].status = "Closed" /\ chain' = chain
    BY <1>0, <1>6, EvaluateStarts
  <2>2. StageOK(chain, w)
    BY <1>s, <2>1, ContentOfSome DEF Stage, StageOK, s
  <2> QED
    BY <2>1, <2>2, StartKeepsVotes
<1> QED
  BY <1>1, <1>2, <1>3, <1>4, <1>5, <1>6

(* finalize appends a record of a vote whose result it just reproduced.    *)
LEMMA FinalizeKeepsVotes ==
    ASSUME VoteInv, NEW p \in Process, NEW path \in File, NEW key,
           Finalize(p, path, key)
    PROVE  VoteInv'
<1> DEFINE n == HeadHeight(chain)
           s == Content(file[path].snapshot)
           result == Content(file[path].evaluation)
           x == VoteRecord(file[path], key)
<1>1. PICK w :
          /\ Starts(p, path, TRUE, TRUE, w)
          /\ Stage(w, "Finalized", file[path].snapshot, file[path].ballots,
                   file[path].evaluation)
          /\ file[path].status = "Evaluated" /\ Finalizable(file[path], key)
          /\ chain' = Append(chain, x)
  BY FinalizeStarts DEF VoteInv
<1>2. /\ Healthy(chain) /\ Founded(chain) /\ n \in Nat
      /\ \A f \in File : FileOK(chain, file[f])
      /\ \A q \in Process : CommandOK(chain, command[q])
  BY Heights DEF VoteInv, Healthy
<1>3. /\ file[path].snapshot = Some(s) /\ RollFrozenOn(chain, s)
      /\ BallotsStand(s, file[path].ballots)
      /\ Counted(chain, s, file[path].ballots, result)
  BY <1>1, <1>2, StageOfFile DEF StageOK
<1>4. StageOK(chain, w)
  BY <1>1, <1>3 DEF StageOK, Stage
<1>5. /\ x.namespace = "vote" /\ DOMAIN x.parts = {} /\ ~IsCompanyRecord(x)
      /\ x.snapshot = s /\ x.ballots = file[path].ballots /\ x.evaluation = result
      /\ x.signer = key
  BY DEF VoteRecord, NoParts, IsCompanyRecord
<1> HIDE DEF x, s, result
<1>6. /\ Healthy(chain') /\ Continues(chain', chain)
      /\ HeadHeight(chain') = n + 1 /\ RecordAt(chain', n + 1) = x
      /\ authorised_signer(chain', n + 1, "governance", key)
  <2>1. authorised_signer(chain, n, "governance", key)
    BY <1>1 DEF Finalizable, GovernanceSigner
  <2> QED
    BY <1>1, <1>2, <1>5, <2>1, OtherKeepsHealthy
<1>7. /\ StageOK(chain', w)
      /\ \A f \in File : FileOK(chain', file[f])
      /\ \A q \in Process : CommandOK(chain', command[q])
  BY <1>2, <1>4, <1>6, StageStays
<1>8. /\ ShapeInv' /\ file' = file
      /\ \A q \in Process : CommandOK(chain', command'[q])
  BY <1>1, <1>7, StartsInOrder
<1>9. VoteStands(chain', n + 1)
  <2>1. /\ RollFrozenOn(chain', s)
        /\ Counted(chain', s, file[path].ballots, result)
    BY <1>2, <1>3, <1>6, StillRollFrozen, StillCounted
  <2>2. s.height < n + 1
    BY <1>2, <1>3 DEF RollFrozenOn
  <2>3. signer_authorised_at(chain', n + 1, key)
    BY <1>6 DEF signer_authorised_at, Healthy
  <2> QED
    BY <1>3, <1>5, <1>6, <2>1, <2>2, <2>3 DEF VoteStands
<1>10. \A h \in Votes' : VoteStands(chain', h)
  <2>1. \A h \in Votes : VoteStands(chain', h)
    BY <1>2, <1>6, VoteStillStands DEF VoteInv, Votes
  <2>2. Votes' = Votes \cup {n + 1}
    BY <1>1, <1>2, <1>5, VotesAfter
  <2> QED
    BY <2>1, <2>2, <1>9
<1> QED
  BY <1>6, <1>7, <1>8, <1>10 DEF VoteInv

(* An amendment of the company keeps the invariant.                        *)
LEMMA AmendKeepsVotes ==
    ASSUME VoteInv, NEW key \in Key, NEW a \in Amendment, Amend(key, a[1], a[2])
    PROVE  VoteInv'
<1> DEFINE base == provider_of(chain, HeadHeight(chain), a[1])
           x == compose_record(chain, a[1], a[2], base, key)
<1>1. /\ Acceptable(chain, key, a[1], a[2], base)
      /\ chain' = Append(chain, x)
      /\ UNCHANGED <<file, command, undone>>
  BY DEF Amend
<1>2. a[1] \in Part /\ Founded(chain)
  BY AmendmentAssumption DEF VoteInv, Healthy
<1>3. AmendsHead(chain, x, a[1], base) /\ x.namespace = "company"
  BY <1>1, ComposedAmends
<1> HIDE DEF base, x
<1>4. AmendedTo(chain, Append(chain, x), x, a[1])
  BY <1>2, <1>3, AmendKeepsHealthy DEF VoteInv
<1>5. Healthy(chain') /\ Continues(chain', chain)
  BY <1>1, <1>4 DEF AmendedTo
<1>6. Votes' = Votes
  BY <1>1, <1>3, VotesAfter DEF VoteInv
<1>7. \A h \in Votes : VoteStands(chain', h)
  BY <1>2, <1>5, VoteStillStands DEF VoteInv, Votes
<1>8. /\ \A f \in File : FileOK(chain', file[f])
      /\ \A q \in Process : CommandOK(chain', command[q])
  BY <1>2, <1>5, StageStays DEF VoteInv
<1>9. ShapeInv'
  BY <1>1 DEF VoteInv, ShapeInv
<1> QED
  BY <1>1, <1>5, <1>6, <1>7, <1>8, <1>9 DEF VoteInv

(* Where nothing is frozen beyond the head, every step keeps the           *)
(* invariant.                                                              *)
LEMMA StepKeepsVotes ==
    ASSUME Ahead = 0, VoteInv, [Next]_vars
    PROVE  VoteInv'
<1>1. CASE UNCHANGED vars
  BY <1>1 DEF vars, VoteInv, ShapeInv, Votes
<1>2. ASSUME NEW key \in Key, NEW a \in Amendment, Amend(key, a[1], a[2])
      PROVE  VoteInv'
  BY <1>2, AmendKeepsVotes
<1>3. ASSUME NEW p \in Process, NEW path \in File,
             \/ \E proposal \in Proposal : New(p, path, proposal)
             \/ \E id \in ChannelId, at \in 0..HeadHeight(chain) + Ahead :
                   Freeze(p, path, id, at)
             \/ Open(p, path)
             \/ \E ballot : Cast(p, path, ballot)
             \/ Close(p, path)
             \/ Evaluate(p, path)
      PROVE  VoteInv'
  BY <1>3, CommandKeepsVotes
<1>4. ASSUME NEW p \in Process, NEW path \in File, NEW key \in Key, Finalize(p, path, key)
      PROVE  VoteInv'
  BY <1>4, FinalizeKeepsVotes
<1>5. ASSUME NEW p \in Process, Save(p) \/ Crash(p) PROVE VoteInv'
  BY <1>5, EndKeepsVotes
<1>6. CASE Next
  BY <1>2, <1>3, <1>4, <1>5, <1>6 DEF Next
<1> QED
  BY <1>1, <1>6

(* The chain a company is founded with: its genesis, and no vote.          *)
LEMMA VotesBegin == Init => VoteInv
<1> SUFFICES ASSUME Init PROVE VoteInv
  OBVIOUS
<1>1. PICK company \in Company, parts \in Founding :
          /\ ValidFounding(parts)
          /\ chain = <<Record(company, parts, None, AnyKey)>>
  BY DEF Init
<1> DEFINE record == Record(company, parts, None, AnyKey)
<1>2. /\ IsCompanyRecord(record) /\ IsGenesis(record) /\ record.supersedes = None
      /\ ~lockout_after(record.parts["Identities"], record.parts["Authorisation"])
      /\ record.namespace # "vote"
  BY <1>1, FoundingAssumption DEF Record, IsCompanyRecord, IsGenesis, ValidFounding
<1> HIDE DEF record
<1>3. Healthy(<<record>>) /\ HeadHeight(<<record>>) = 0
  BY <1>2, FoundingIsHealthy
<1>4. chain = <<record>> /\ chain[1] = record
  BY <1>1 DEF record
<1>5. Votes = {}
  <2>1. \A h \in 0..HeadHeight(chain) : RecordAt(chain, h) = record
    BY <1>3, <1>4 DEF RecordAt
  <2> QED
    BY <2>1, <1>2 DEF Votes
<1>6. ShapeInv
  BY ShapeBegins
<1>7. \A path \in File : FileOK(chain, file[path])
  BY DEF Init, FileOK
<1>8. \A p \in Process : CommandOK(chain, command[p])
  BY DEF Init, CommandOK, Busy
<1> QED
  BY <1>3, <1>4, <1>5, <1>6, <1>7, <1>8 DEF VoteInv

(* Every stage of every vote stays reproducible from the chain.            *)
THEOREM VotesStayInOrder == ASSUME Ahead = 0 PROVE Spec => []VoteInv
<1>1. VoteInv /\ [Next]_vars => VoteInv'
  BY StepKeepsVotes
<1> QED
  BY <1>1, VotesBegin, PTL DEF Spec

(* Every vote finalize wrote verifies, whatever was appended since and     *)
(* whatever commands overwrote each other on the way (verify.rs).  --at    *)
(* points at the chain, not beyond it.                                     *)
THEOREM RecordedVotesVerify == ASSUME Ahead = 0 PROVE Spec => []VotesVerify
<1>1. VoteInv => VotesVerify
  BY StandingVoteVerifies DEF VoteInv, Healthy, VotesVerify
<1> QED
  BY <1>1, VotesStayInOrder, PTL

(* An evaluated vote can be recorded by any governance signer of the day:  *)
(* rules amended, keys rotated and shares moved since the freeze are       *)
(* "irrelevant to this vote for ever after" (IRENA_V1.md 7.2).             *)
THEOREM EvaluatedVotesAreRecordable == ASSUME Ahead = 0 PROVE Spec => []NeverStranded
<1>1. VoteInv => NeverStranded
  <2> SUFFICES ASSUME VoteInv, NEW path \in File, NEW key \in Key,
                      file[path].status = "Evaluated",
                      authorised_signer(chain, HeadHeight(chain), "governance", key)
               PROVE  Finalizable(file[path], key)
    BY DEF NeverStranded
  <2> DEFINE s == Content(file[path].snapshot)
             result == Content(file[path].evaluation)
  <2>1. Founded(chain) /\ Reconstructs(chain, HeadHeight(chain))
    BY DEF VoteInv, Healthy
  <2>2. RollFrozenOn(chain, s) /\ Counted(chain, s, file[path].ballots, result)
    BY StageOfFile DEF VoteInv, StageOK
  <2>3. evaluate_now(chain, s, file[path].ballots, result)
    BY <2>1, <2>2, CountedEvaluates
  <2> QED
    BY <2>1, <2>3 DEF Finalizable, GovernanceSigner
<1> QED
  BY <1>1, VotesStayInOrder, PTL

(* The roll of a recorded vote counts and weighs what the channel's actors *)
(* weighed when it froze: an actor without a key casts nothing, weighs on  *)
(* the side of those who cast nothing, and the quorum is judged with it    *)
(* (lifecycle.rs of irena-vote, freeze, and evaluate of bornite).          *)
THEOREM TheKeylessCount == ASSUME Ahead = 0 PROVE Spec => []KeylessCount
<1>1. VoteInv => KeylessCount
  BY StandingCountsKeyless DEF VoteInv, Healthy, KeylessCount, Shared
<1> QED
  BY <1>1, VotesStayInOrder, PTL

(* Once frozen, "nothing appended to the chain can change what this vote   *)
(* is decided against" (lifecycle.rs, freeze) - as long as it was frozen   *)
(* at a height the chain has.  Beyond the head the claim fails, as the run *)
(* that lets --at point there shows.                                       *)
THEOREM FrozenAtTheHeadIsFrozenForGood ==
    ASSUME Ahead = 0 PROVE Spec => []FrozenForGood
<1>1. VoteInv => FrozenForGood
  <2> SUFFICES ASSUME VoteInv, NEW path \in File, HasRoll(file[path])
               PROVE  RecordsResolve(chain, Content(file[path].snapshot))
    BY DEF FrozenForGood
  <2>1. StageOK(chain, file[path]) /\ file[path].status # "Draft"
    BY StageOfFile DEF VoteInv, HasRoll, StageOK
  <2>2. Founded(chain) /\ RollFrozenOn(chain, Content(file[path].snapshot))
    BY <2>1 DEF StageOK, VoteInv, Healthy
  <2> QED
    BY <2>2, RollFrozenResolves
<1> QED
  BY <1>1, VotesStayInOrder, PTL

-----------------------------------------------------------------------------
(* State files: who is doing what to them, and what is on record.          *)

Finalizing(cmd) == Busy(cmd) /\ cmd.write.status = "Finalized"

(* A command is about to save that the path is finalized.                  *)
Pending(commands, path) ==
    \E q \in Process : commands[q].path = Some(path) /\ Finalizing(commands[q])

(* Whoever is about to save a recorded vote holds the chain; and what a    *)
(* command read that nobody saved over since is still what the file says.  *)
Attended ==
    \A p \in Process, path \in File : WorksOn(command[p], path) =>
        /\ Finalizing(command[p]) => command[p].opens
        /\ command[p].fresh => Follows(file[path].status, command[p].write.status)

OnceInv ==
    /\ undone \in Nat
    /\ IsFiniteSet(Votes) /\ IsFiniteSet(OnRecord(file, command))
    /\ RecordedOnce
    /\ Attended

(* A path is on record if its file says so or a command is about to.       *)
LEMMA WhatIsOnRecord ==
    ASSUME NEW files, NEW commands, NEW g
    PROVE  g \in OnRecord(files, commands) <=>
              /\ g \in File
              /\ \/ files[g].status = "Finalized"
                 \/ Pending(commands, g)
<1>1. \A q : commands[q].path = Some(g) => Busy(commands[q])
  BY OnlyTheBusyWork
<1> QED
  BY <1>1 DEF OnRecord, Finalizing, Pending

(* Whoever starts on a file is attended to.                                *)
LEMMA StartIsAttended ==
    ASSUME ShapeInv, Attended, NEW p \in Process, NEW path \in File,
           NEW opens \in BOOLEAN, NEW fresh \in BOOLEAN, NEW w,
           Starts(p, path, opens, fresh, w)
    PROVE  Attended'
<1>1. /\ command'[p].opens = opens /\ command'[p].write = w
      /\ command'[p].fresh = fresh /\ command'[p].path = Some(path)
      /\ \A q \in Process \ {p} : command'[q] = command[q]
  BY Started
<1>2. /\ w.status = "Finalized" => opens
      /\ fresh => Follows(file[path].status, w.status)
      /\ file' = file
  BY DEF Starts
<1> SUFFICES ASSUME NEW q \in Process, NEW f \in File, WorksOn(command'[q], f)
             PROVE  /\ Finalizing(command'[q]) => command'[q].opens
                    /\ command'[q].fresh =>
                          Follows(file'[f].status, command'[q].write.status)
  BY DEF Attended
<1>3. CASE q = p
  <2>1. f = path
    BY <1>1, <1>3, ContentOfSome DEF WorksOn
  <2> QED
    BY <1>1, <1>2, <1>3, <2>1 DEF Finalizing
<1>4. CASE q # p
  BY <1>1, <1>2, <1>4 DEF Attended
<1> QED
  BY <1>3, <1>4

(* A command that does not record the vote, started on the file.           *)
LEMMA StartKeepsOnce ==
    ASSUME ShapeInv, OnceInv, NEW p \in Process, NEW path \in File,
           NEW opens \in BOOLEAN, NEW fresh \in BOOLEAN, NEW w,
           Starts(p, path, opens, fresh, w), w.status # "Finalized", Votes' = Votes
    PROVE  OnceInv'
<1>1. /\ command'[p].write = w
      /\ \A q \in Process \ {p} : command'[q] = command[q]
  BY Started
<1>2. /\ command[p] = Idle /\ file' = file /\ undone' = undone
  BY DEF Starts
<1>3. ~Finalizing(command'[p]) /\ ~Finalizing(command[p])
  BY <1>1, <1>2 DEF Finalizing, Busy
<1>4. ASSUME NEW g
      PROVE  g \in OnRecord(file', command') <=> g \in OnRecord(file, command)
  <2>1. Pending(command', g) <=> Pending(command, g)
    BY <1>1, <1>3 DEF Pending
  <2> QED
    BY <2>1, <1>2, WhatIsOnRecord
<1>5. OnRecord(file', command') = OnRecord(file, command)
  BY <1>4
<1> QED
  BY <1>2, <1>5, StartIsAttended DEF OnceInv, RecordedOnce

(* finalize appends one record, of a path not on record: its file is still *)
(* Evaluated, and nobody else holds the chain.                             *)
LEMMA FinalizeKeepsOnce ==
    ASSUME VoteInv, OnceInv, NEW p \in Process, NEW path \in File,
           NEW key, Finalize(p, path, key)
    PROVE  OnceInv'
<1> DEFINE x == VoteRecord(file[path], key)
           n == HeadHeight(chain)
<1>0. ShapeInv
  BY DEF VoteInv
<1>1. PICK w :
          /\ Starts(p, path, TRUE, TRUE, w)
          /\ Stage(w, "Finalized", file[path].snapshot, file[path].ballots,
                   file[path].evaluation)
          /\ file[path].status = "Evaluated" /\ ~Held
          /\ chain' = Append(chain, x)
  BY <1>0, FinalizeStarts
<1>2. w.status = "Finalized" /\ x.namespace = "vote"
  BY <1>1 DEF Stage, VoteRecord
<1> HIDE DEF x
<1>3. n \in Nat /\ Votes' = Votes \cup {n + 1} /\ n + 1 \notin Votes
  BY <1>1, <1>2, VotesAfter DEF VoteInv
<1> HIDE DEF n
<1>4. /\ command'[p].write = w /\ WorksOn(command'[p], path)
      /\ command'[p].path = Some(path)
      /\ \A q \in Process \ {p} : command'[q] = command[q]
  BY <1>0, <1>1, Started
<1>5. file' = file /\ undone' = undone
  BY <1>1 DEF Starts
<1>6. ASSUME NEW q \in Process PROVE ~Finalizing(command[q])
  <2>1. ~ (Busy(command[q]) /\ command[q].opens)
    BY <1>1 DEF Held, Busy
  <2>2. Busy(command[q]) => \E f \in File : WorksOn(command[q], f)
    BY <1>0, WorksSomewhere DEF ShapeInv
  <2> QED
    BY <2>1, <2>2 DEF OnceInv, Attended, Finalizing
<1>7. Finalizing(command'[p])
  BY <1>2, <1>4 DEF Finalizing, WorksOn
<1>8. path \notin OnRecord(file, command)
  BY <1>1, <1>6, WhatIsOnRecord DEF Pending
<1>9. ASSUME NEW g
      PROVE  g \in OnRecord(file', command') <=> g \in OnRecord(file, command) \cup {path}
  <2>1. ~Pending(command, g)
    BY <1>6 DEF Pending
  <2>2. Pending(command', g) <=> command'[p].path = Some(g)
    BY <1>4, <1>6, <1>7 DEF Pending
  <2>3. command'[p].path = Some(g) <=> g = path
    BY <1>4, ContentOfSome
  <2> QED
    BY <2>1, <2>2, <2>3, <1>5, WhatIsOnRecord
<1>10. OnRecord(file', command') = OnRecord(file, command) \cup {path}
  BY <1>9
<1>11. /\ IsFiniteSet(Votes') /\ Cardinality(Votes') = Cardinality(Votes) + 1
       /\ IsFiniteSet(OnRecord(file', command'))
       /\ Cardinality(OnRecord(file', command')) = Cardinality(OnRecord(file, command)) + 1
  BY <1>3, <1>8, <1>10, FS_AddElement DEF OnceInv
<1>12. Cardinality(OnRecord(file, command)) \in Nat
  BY FS_CardinalityType DEF OnceInv
<1>13. RecordedOnce'
  BY <1>5, <1>11, <1>12 DEF OnceInv, RecordedOnce
<1>14. Attended'
  BY <1>0, <1>1, StartIsAttended DEF OnceInv
<1> QED
  BY <1>5, <1>11, <1>13, <1>14 DEF OnceInv

(* What ends leaves every other command at work on what it was, and no     *)
(* longer fresh if its file changed.                                       *)
LEMMA OthersWorkOn ==
    ASSUME ShapeInv, NEW p \in Process, NEW path \in File, Ends(p, path)
    PROVE  /\ ~Busy(command'[p])
           /\ \A q \in Process \ {p} :
                 /\ command'[q].path = command[q].path
                 /\ Finalizing(command'[q]) <=> Finalizing(command[q])
                 /\ command'[q] = command[q] \/ command'[q].fresh = FALSE
                 /\ Busy(command'[q]) =>
                       /\ Busy(command[q])
                       /\ command'[q].write = command[q].write
                       /\ command'[q].opens = command[q].opens
           /\ \A q \in Process \ {p}, f \in File :
                 WorksOn(command'[q], f) /\ command'[q].fresh =>
                    command'[q] = command[q] /\ file'[f] = file[f]
<1>1. /\ command'[p] = Idle /\ (Leaves(p, path) \/ Replaces(p, path))
      /\ DOMAIN file' = File
  BY DEF Ends
<1>2. ~Busy(command'[p])
  BY <1>1 DEF Busy
<1>3. ASSUME NEW q \in Process \ {p}
      PROVE  \/ command'[q] = command[q]
             \/ /\ Busy(command[q]) /\ Stale(command[q], command'[q])
                /\ WorksOn(command[q], path) /\ Replaces(p, path)
  BY <1>1 DEF Leaves, Replaces, WorksOn
<1>4. ASSUME NEW q \in Process \ {p}
      PROVE  /\ command'[q].path = command[q].path
             /\ Finalizing(command'[q]) <=> Finalizing(command[q])
             /\ command'[q] = command[q] \/ command'[q].fresh = FALSE
             /\ Busy(command'[q]) =>
                   /\ Busy(command[q])
                   /\ command'[q].write = command[q].write
                   /\ command'[q].opens = command[q].opens
  BY <1>3 DEF Stale, Finalizing
<1>5. ASSUME NEW q \in Process \ {p}, NEW f \in File,
             WorksOn(command'[q], f), command'[q].fresh
      PROVE  command'[q] = command[q] /\ file'[f] = file[f]
  <2>1. command'[q] = command[q]
    BY <1>3, <1>5 DEF Stale
  <2>2. CASE Leaves(p, path)
    BY <2>1, <2>2 DEF Leaves
  <2>3. CASE Replaces(p, path)
    <3>1. ~WorksOn(command[q], path)
      BY <1>5, <2>1, <2>3 DEF Replaces, Stale
    <3>2. f # path
      BY <1>5, <2>1, <3>1
    <3> QED
      BY <2>1, <2>3, <3>2 DEF Replaces
  <2> QED
    BY <1>1, <2>2, <2>3
<1> QED
  BY <1>2, <1>4, <1>5

(* A save of what was read last moves the file one stage on and forgets    *)
(* nothing; any other save and a crash may, and what they make the path    *)
(* forget is counted (save_state overwrites whatever the file holds).      *)
LEMMA EndKeepsOnce ==
    ASSUME ShapeInv, OnceInv, NEW p \in Process, NEW path \in File,
           Ends(p, path)
    PROVE  OnceInv'
<1> DEFINE before == OnRecord(file, command)
           after == OnRecord(file', command')
<1>1. /\ WorksOn(command[p], path) /\ Votes' = Votes
      /\ Leaves(p, path) \/ Replaces(p, path)
      /\ Owns(p, path)
  BY DEF Ends, Votes
<1>2. ~Busy(command'[p]) /\ ~Finalizing(command'[p])
  BY OthersWorkOn DEF Finalizing
<1>3. \A q \in Process \ {p} :
         /\ command'[q].path = command[q].path
         /\ Finalizing(command'[q]) <=> Finalizing(command[q])
  BY OthersWorkOn
<1>4. /\ \A g \in File \ {path} : file'[g] = file[g]
      /\ file'[path].status = "Finalized" =>
            file[path].status = "Finalized" \/ Finalizing(command[p])
  BY <1>1 DEF Leaves, Replaces, Torn, Finalizing, WorksOn
<1>5. ASSUME NEW g \in after PROVE g \in before
  <2>1. ASSUME NEW q \in Process, command'[q].path = Some(g), Finalizing(command'[q])
        PROVE  Pending(command, g)
    <3>1. q \in Process \ {p}
      BY <2>1, <1>2
    <3>2. command[q].path = Some(g) /\ Finalizing(command[q])
      BY <3>1, <2>1, <1>3
    <3> QED
      BY <3>2 DEF Pending
  <2>2. Finalizing(command[p]) => Pending(command, path)
    BY <1>1 DEF Pending, WorksOn
  <2>3. g \in File /\ (file'[g].status = "Finalized" \/ Pending(command', g))
    BY <1>5, WhatIsOnRecord
  <2> QED
    BY <2>1, <2>2, <2>3, <1>4, WhatIsOnRecord DEF Pending
<1>6. ASSUME NEW g \in before, g # path PROVE g \in after
  <2>1. command[p].path # Some(g)
    BY <1>1, <1>6, ContentOfSome DEF WorksOn
  <2>2. Pending(command, g) => Pending(command', g)
    BY <2>1, <1>3 DEF Pending
  <2>3. g \in File /\ (file[g].status = "Finalized" \/ Pending(command, g))
    BY <1>6, WhatIsOnRecord
  <2> QED
    BY <2>2, <2>3, <1>4, <1>6, WhatIsOnRecord
<1>7. ASSUME command[p].fresh, file'[path] = command[p].write, path \in before
      PROVE  path \in after
  <2>1. Follows(file[path].status, command[p].write.status)
    BY <1>1, <1>7 DEF OnceInv, Attended
  <2>2. CASE command[p].write.status = "Finalized"
    BY <2>2, <1>7, WhatIsOnRecord
  <2>3. CASE command[p].write.status # "Finalized"
    <3>1. file[path].status # "Finalized" /\ ~Finalizing(command[p])
      BY <2>1, <2>3 DEF Follows, Finalizing
    <3>2. Pending(command, path)
      BY <3>1, <1>7, WhatIsOnRecord
    <3>3. Pending(command', path)
      BY <3>1, <3>2, <1>3 DEF Pending
    <3> QED
      BY <3>3, WhatIsOnRecord
  <2> QED
    BY <2>2, <2>3
<1>8. undone' = IF Forgets(path) THEN undone + 1 ELSE undone
  BY <1>1, <1>7 DEF Owns, Forgets
<1>9. Attended'
  <2> SUFFICES ASSUME NEW q \in Process, NEW f \in File, WorksOn(command'[q], f)
               PROVE  /\ Finalizing(command'[q]) => command'[q].opens
                      /\ command'[q].fresh =>
                            Follows(file'[f].status, command'[q].write.status)
    BY DEF Attended
  <2>1. q \in Process \ {p}
    BY <1>2 DEF WorksOn
  <2>2. /\ WorksOn(command[q], f) /\ command'[q].opens = command[q].opens
        /\ Finalizing(command'[q]) <=> Finalizing(command[q])
        /\ command'[q].fresh => command'[q] = command[q] /\ file'[f] = file[f]
    BY <2>1, OthersWorkOn DEF WorksOn
  <2> QED
    BY <2>2 DEF OnceInv, Attended
<1>10. /\ IsFiniteSet(before) /\ Cardinality(before) \in Nat /\ undone \in Nat
       /\ Cardinality(Votes) = undone + Cardinality(before)
  BY FS_CardinalityType DEF OnceInv, RecordedOnce
<1>11. /\ IsFiniteSet(after) /\ undone' \in Nat
       /\ Cardinality(Votes) = undone' + Cardinality(after)
  <2>1. CASE Forgets(path)
    <3>1. after = before \ {path} /\ path \in before
      BY <2>1, <1>5, <1>6 DEF Forgets
    <3>2. undone' = undone + 1
      BY <2>1, <1>8
    <3> HIDE DEF before, after
    <3>3. IsFiniteSet(after) /\ Cardinality(after) = Cardinality(before) - 1
      BY <3>1, <1>10, FS_RemoveElement
    <3> QED
      BY <3>2, <3>3, <1>10
  <2>2. CASE ~Forgets(path)
    <3>1. after = before /\ undone' = undone
      BY <2>2, <1>5, <1>6, <1>8 DEF Forgets
    <3> QED
      BY <3>1, <1>10
  <2> QED
    BY <2>1, <2>2
<1> QED
  BY <1>1, <1>9, <1>11 DEF OnceInv, RecordedOnce

(* The commands that leave the chain alone.                                *)
TakesUp(p, path) ==
    /\ \E opens \in BOOLEAN, fresh \in BOOLEAN : \E w :
          Starts(p, path, opens, fresh, w) /\ w.status # "Finalized"
    /\ chain' = chain

(* None of them records the vote.                                          *)
LEMMA CommandKeepsOnce ==
    ASSUME ShapeInv, OnceInv, NEW p \in Process, NEW path \in File,
           \/ \E proposal \in Proposal : New(p, path, proposal)
           \/ \E id, at : Freeze(p, path, id, at)
           \/ Open(p, path)
           \/ \E ballot : Cast(p, path, ballot)
           \/ Close(p, path)
           \/ Evaluate(p, path)
    PROVE  OnceInv'
<1>1. TakesUp(p, path)
  <2>1. ASSUME NEW proposal \in Proposal, New(p, path, proposal) PROVE TakesUp(p, path)
    BY <2>1, NewStarts DEF Stage, TakesUp
  <2>2. ASSUME NEW id, NEW at, Freeze(p, path, id, at) PROVE TakesUp(p, path)
    BY <2>2, FreezeStarts DEF Stage, TakesUp
  <2>3. ASSUME Open(p, path) PROVE TakesUp(p, path)
    BY <2>3, OpenStarts DEF Stage, TakesUp
  <2>4. ASSUME NEW ballot, Cast(p, path, ballot) PROVE TakesUp(p, path)
    BY <2>4, CastStarts DEF Stage, TakesUp
  <2>5. ASSUME Close(p, path) PROVE TakesUp(p, path)
    BY <2>5, CloseStarts DEF Stage, TakesUp
  <2>6. ASSUME Evaluate(p, path) PROVE TakesUp(p, path)
    BY <2>6, EvaluateStarts DEF Stage, TakesUp
  <2> QED
    BY <2>1, <2>2, <2>3, <2>4, <2>5, <2>6
<1>2. chain' = chain => Votes' = Votes
  BY DEF Votes
<1> QED
  BY <1>1, <1>2, StartKeepsOnce DEF TakesUp

(* Every step keeps one record for each path on record and for each time a *)
(* record was lost sight of.                                               *)
LEMMA StepKeepsOnce ==
    ASSUME VoteInv, OnceInv, [Next]_vars
    PROVE  OnceInv'
<1>0. ShapeInv
  BY DEF VoteInv
<1>1. ASSUME UNCHANGED <<file, command, undone>>, Votes' = Votes PROVE OnceInv'
  BY <1>1 DEF OnceInv, RecordedOnce, Attended
<1>2. ASSUME NEW key \in Key, NEW a \in Amendment, Amend(key, a[1], a[2])
      PROVE  OnceInv'
  <2> DEFINE x == compose_record(chain, a[1], a[2],
                                 provider_of(chain, HeadHeight(chain), a[1]), key)
  <2>1. chain' = Append(chain, x) /\ UNCHANGED <<file, command, undone>>
    BY <1>2 DEF Amend
  <2>2. x.namespace # "vote"
    BY DEF compose_record, Record
  <2> HIDE DEF x
  <2>3. Votes' = Votes
    BY <2>1, <2>2, VotesAfter DEF VoteInv
  <2> QED
    BY <1>1, <2>1, <2>3
<1>3. ASSUME NEW p \in Process, NEW path \in File,
             \/ \E proposal \in Proposal : New(p, path, proposal)
             \/ \E id, at : Freeze(p, path, id, at)
             \/ Open(p, path)
             \/ \E ballot : Cast(p, path, ballot)
             \/ Close(p, path)
             \/ Evaluate(p, path)
      PROVE  OnceInv'
  BY <1>0, <1>3, CommandKeepsOnce
<1>4. ASSUME NEW p \in Process, NEW path \in File, NEW key \in Key, Finalize(p, path, key)
      PROVE  OnceInv'
  BY <1>4, FinalizeKeepsOnce
<1>5. ASSUME NEW p \in Process, Save(p) \/ Crash(p) PROVE OnceInv'
  <2>1. PICK path \in File : Ends(p, path)
    BY <1>0, <1>5, SaveEnds, CrashEnds
  <2> QED
    BY <1>0, <2>1, EndKeepsOnce
<1>6. CASE UNCHANGED vars
  BY <1>1, <1>6 DEF vars, Votes
<1>7. CASE Next
  BY <1>2, <1>3, <1>4, <1>5, <1>7 DEF Next
<1> QED
  BY <1>6, <1>7

(* A vote is recorded once for each state file it is kept in: however many *)
(* commands load, work and save at the same time (irena-cli, vote), on     *)
(* however many files, the chain holds one record for each file that says  *)
(* it is finalized or is about to, and one more for each time a file was   *)
(* made to forget one: by a crash after the append, by the save of a       *)
(* command that had read the file before another save, or by a new draft   *)
(* over a finished file.  No other step costs a second record.             *)
THEOREM VotesAreRecordedOnce == ASSUME Ahead = 0 PROVE Spec => []RecordedOnce
<1>1. Init => OnceInv
  <2> SUFFICES ASSUME Init PROVE OnceInv
    OBVIOUS
  <2>1. \A p \in Process : ~Busy(command[p]) /\ ~Finalizing(command[p])
    BY DEF Init, Busy, Finalizing
  <2>2. Votes = {}
    <3>1. PICK company \in Company, parts \in Founding :
              chain = <<Record(company, parts, None, AnyKey)>>
      BY DEF Init
    <3>2. chain[1].namespace = "company" /\ HeadHeight(chain) = 0
      BY <3>1 DEF Record, HeadHeight
    <3> QED
      BY <3>2 DEF Votes, RecordAt
  <2>3. OnRecord(file, command) = {}
    <3>1. \A g \in File : file[g].status # "Finalized"
      BY DEF Init, Missing
    <3>2. \A g : ~Pending(command, g)
      BY <2>1 DEF Pending
    <3>3. \A g : g \notin OnRecord(file, command)
      BY <3>1, <3>2, WhatIsOnRecord
    <3> QED
      BY <3>3
  <2>4. IsFiniteSet({}) /\ Cardinality({}) = 0
    BY FS_EmptySet
  <2>5. undone = 0 /\ Attended
    BY <2>1 DEF Init, Attended, WorksOn
  <2> QED
    BY <2>2, <2>3, <2>4, <2>5 DEF OnceInv, RecordedOnce
<1>2. VoteInv /\ OnceInv /\ [Next]_vars => OnceInv'
  BY StepKeepsOnce
<1>3. OnceInv => RecordedOnce
  BY DEF OnceInv
<1> QED
  BY <1>1, <1>2, <1>3, VotesStayInOrder, PTL DEF Spec
====
