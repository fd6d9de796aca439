---------------------------- MODULE Decision_proofs ----------------------------
(* Theorems about Decision: one person's decision, from a draft to a       *)
(* record on the chain, for every company, file and number of commands.    *)
EXTENDS Decision, Records_proofs, FiniteSetTheorems

-----------------------------------------------------------------------------
(* The inductive invariant: the company stays readable and amendable; what *)
(* a state file or a command about to write one holds was frozen on this   *)
(* very chain and signed as its status says; and every record stands.      *)

Fields == {"status", "proposal", "snapshot", "signature", "finalized"}

(* What a stage of a decision holds, whether on file or about to be.       *)
StageOK(c, f) ==
    /\ DOMAIN f = Fields
    /\ f.status \in {"Draft", "Frozen", "Signed", "Finalized"}
    /\ f.status # "Draft" =>
          /\ f.snapshot = Some(Content(f.snapshot))
          /\ FrozenOn(c, Content(f.snapshot))
    /\ f.status \in {"Signed", "Finalized"} =>
          check_signature(Content(f.snapshot), Content(f.signature))

FileOK(c, f) == f \in {Missing, Torn} \/ StageOK(c, f)

CommandOK(c, cmd) ==
    \/ cmd = Idle
    \/ /\ DOMAIN cmd = {"path", "opens", "fresh", "write"}
       /\ \E path \in File : cmd.path = Some(path)
       /\ cmd.opens \in BOOLEAN /\ cmd.fresh \in BOOLEAN
       /\ StageOK(c, cmd.write)

DecisionInv ==
    /\ Healthy(chain)
    /\ DOMAIN file = File /\ DOMAIN command = Process
    /\ \A path \in File : FileOK(chain, file[path])
    /\ \A p \in Process : CommandOK(chain, command[p])
    /\ \A h \in Decisions : DecisionStands(chain, h)

(* A file frozen at the head or before stays in order as the chain grows.  *)
LEMMA StageStays ==
    ASSUME NEW c, NEW d, Founded(c), Continues(d, c)
    PROVE  /\ \A f : StageOK(c, f) => StageOK(d, f)
           /\ \A f : FileOK(c, f) => FileOK(d, f)
           /\ \A cmd : CommandOK(c, cmd) => CommandOK(d, cmd)
<1>1. ASSUME NEW f, StageOK(c, f) PROVE StageOK(d, f)
  BY <1>1, StillFrozen DEF StageOK
<1> QED
  BY <1>1 DEF FileOK, CommandOK

(* The records of decisions, one record later.                             *)
LEMMA DecisionsAfter ==
    ASSUME Healthy(chain), NEW x, chain' = Append(chain, x)
    PROVE  /\ HeadHeight(chain) \in Nat
           /\ Decisions' = Decisions \cup
                 (IF x.namespace = "decision" THEN {HeadHeight(chain) + 1} ELSE {})
           /\ HeadHeight(chain) + 1 \notin Decisions
<1> DEFINE d == Append(chain, x)
           n == HeadHeight(chain)
<1>1. /\ Founded(chain) /\ Founded(d) /\ Continues(d, chain)
      /\ HeadHeight(d) = n + 1 /\ n \in Nat /\ RecordAt(d, n + 1) = x
  BY AppendedReadings DEF Healthy
<1>2. \A h \in 0..n : RecordAt(d, h) = RecordAt(chain, h)
  <2>1. \A h \in 0..n : h \in 0..h
    OBVIOUS
  <2> QED
    BY <1>1, <2>1, PastReadings
<1> HIDE DEF d, n
<1>3. 0..(n + 1) = (0..n) \cup {n + 1} /\ n + 1 \notin 0..n
  BY <1>1
<1>4. Decisions = {h \in 0..n : RecordAt(chain, h).namespace = "decision"}
  BY DEF Decisions, n
<1>5. Decisions' = {h \in 0..(n + 1) : RecordAt(d, h).namespace = "decision"}
  BY <1>1 DEF Decisions, d
<1> QED
  BY <1>1, <1>2, <1>3, <1>4, <1>5 DEF n

(* A step that only works on files and commands, each of them in order.    *)
LEMMA FilesMove ==
    ASSUME DecisionInv, chain' = chain,
           DOMAIN file' = File, DOMAIN command' = Process,
           \A path \in File : FileOK(chain, file'[path]),
           \A p \in Process : CommandOK(chain, command'[p])
    PROVE  DecisionInv'
  BY DEF DecisionInv, Decisions

(* A process takes up a command that is in order.                          *)
LEMMA TakesUp ==
    ASSUME DecisionInv, NEW p \in Process, NEW path \in File, NEW c,
           NEW opens \in BOOLEAN, NEW fresh \in BOOLEAN, NEW write,
           StageOK(c, write), \A q \in Process : CommandOK(c, command[q]),
           command' = [command EXCEPT ![p] = Working(path, opens, fresh, write)]
    PROVE  /\ DOMAIN command' = Process
           /\ \A q \in Process : CommandOK(c, command'[q])
<1>1. CommandOK(c, Working(path, opens, fresh, write))
  BY DEF CommandOK, Working
<1> QED
  BY <1>1 DEF DecisionInv

(* Another process's save leaves a command as it was, but for its copy.    *)
LEMMA StaleCommand ==
    ASSUME NEW c, NEW cmd, CommandOK(c, cmd), cmd # Idle
    PROVE  LET stale == [cmd EXCEPT !.fresh = FALSE]
           IN  /\ CommandOK(c, stale) /\ stale.path = cmd.path
               /\ stale.write = cmd.write /\ stale.opens = cmd.opens
               /\ stale.fresh = FALSE /\ stale # Idle
<1> DEFINE stale == [cmd EXCEPT !.fresh = FALSE]
<1>1. /\ DOMAIN cmd = {"path", "opens", "fresh", "write"}
      /\ \E path \in File : cmd.path = Some(path)
      /\ cmd.opens \in BOOLEAN /\ StageOK(c, cmd.write)
  BY DEF CommandOK
<1>2. /\ DOMAIN stale = {"path", "opens", "fresh", "write"}
      /\ stale.path = cmd.path /\ stale.opens = cmd.opens
      /\ stale.write = cmd.write /\ stale.fresh = FALSE
  BY <1>1
<1> HIDE DEF stale
<1>3. stale # Idle
  BY <1>1, <1>2 DEF Idle, Some, None
<1>4. CommandOK(c, stale)
  BY <1>1, <1>2 DEF CommandOK
<1> QED
  BY <1>2, <1>3, <1>4 DEF stale

(* A command that runs has a path, and what it is about to write is in     *)
(* order.                                                                  *)
LEMMA PathOf ==
    ASSUME NEW c, NEW cmd, CommandOK(c, cmd), cmd # Idle
    PROVE  /\ Content(cmd.path) \in File /\ cmd.path = Some(Content(cmd.path))
           /\ cmd.opens \in BOOLEAN /\ cmd.fresh \in BOOLEAN
           /\ StageOK(c, cmd.write)
  BY ContentOfSome DEF CommandOK

(* The file a command found in a status is a stage of a decision.          *)
LEMMA StageOfFile ==
    ASSUME NEW c, NEW f, FileOK(c, f), f.status \notin {"Missing", "Torn"}
    PROVE  StageOK(c, f)
  BY DEF FileOK, Missing, Torn

(* Where nothing is frozen beyond the head, every step keeps the           *)
(* invariant.                                                              *)
LEMMA StepKeepsDecisions ==
    ASSUME Ahead = 0, DecisionInv, [Next]_vars
    PROVE  DecisionInv'
<1> DEFINE n == HeadHeight(chain)
<1>0. /\ Founded(chain) /\ n \in Nat
      /\ \A path \in File : FileOK(chain, file[path])
      /\ \A q \in Process : CommandOK(chain, command[q])
  BY Heights DEF DecisionInv, Healthy
<1>1. ASSUME NEW key \in Key, NEW a \in Amendment, Amend(key, a[1], a[2])
      PROVE  DecisionInv'
  <2> DEFINE base == provider_of(chain, n, a[1])
             x == compose_record(chain, a[1], a[2], base, key)
  <2>1. /\ Acceptable(chain, key, a[1], a[2], base)
        /\ chain' = Append(chain, x)
        /\ UNCHANGED <<file, command>>
    BY <1>1 DEF Amend
  <2>2. a[1] \in Part
    BY AmendmentAssumption
  <2>3. AmendsHead(chain, x, a[1], base) /\ x.namespace = "company"
    BY <2>1, ComposedAmends
  <2> HIDE DEF base, x
  <2>4. /\ Healthy(chain') /\ Continues(chain', chain)
    <3>1. AmendedTo(chain, Append(chain, x), x, a[1])
      BY <2>2, <2>3, AmendKeepsHealthy DEF DecisionInv
    <3> QED
      BY <2>1, <3>1 DEF AmendedTo
  <2>5. Decisions' = Decisions
    BY <2>1, <2>3, DecisionsAfter DEF DecisionInv
  <2>6. \A h \in Decisions : DecisionStands(chain', h)
    BY <1>0, <2>4, StillStands DEF DecisionInv, Decisions
  <2> QED
    BY <1>0, <2>1, <2>4, <2>5, <2>6, StageStays DEF DecisionInv
<1>2. ASSUME NEW p \in Process, NEW path \in File, NEW proposal \in Proposal,
             StartDraft(p, path, proposal)
      PROVE  DecisionInv'
  <2>1. StageOK(chain, Draft(proposal))
    BY DEF StageOK, Draft, Fields
  <2>2. /\ DOMAIN command' = Process
        /\ \A q \in Process : CommandOK(chain, command'[q])
    BY <1>0, <1>2, <2>1, TakesUp DEF StartDraft
  <2> QED
    BY <1>2, <2>2, FilesMove DEF StartDraft, DecisionInv
<1>3. ASSUME NEW p \in Process, NEW path \in File, NEW id \in ChannelId,
             NEW at \in 0..n + Ahead, Freeze(p, path, id, at)
      PROVE  DecisionInv'
  <2> DEFINE s == Snapshot(chain, at, id, file[path].proposal)
             w == [file[path] EXCEPT !.status = "Frozen", !.snapshot = Some(s)]
  <2>1. /\ file[path].status = "Draft" /\ Freezable(chain, at, id)
        /\ Work(p, path, TRUE, w) /\ UNCHANGED <<chain, file>>
    BY <1>3 DEF Freeze
  <2>2. at \in 0..n
    BY <1>0
  <2>3. FrozenOn(chain, s)
    <3>1. /\ s.height = at /\ s.channel = id /\ s.proposal = file[path].proposal
      BY DEF Snapshot
    <3> HIDE DEF s
    <3>2. s = Snapshot(chain, at, id, file[path].proposal)
      BY DEF s
    <3> QED
      BY <2>1, <2>2, <3>1, <3>2 DEF FrozenOn
  <2>4. DOMAIN file[path] = Fields
    BY <1>0, <2>1, StageOfFile DEF StageOK
  <2> HIDE DEF s
  <2>5. DOMAIN w = Fields /\ w.status = "Frozen" /\ w.snapshot = Some(s)
    BY <2>4 DEF Fields
  <2> HIDE DEF w
  <2>6. StageOK(chain, w)
    BY <2>3, <2>5, ContentOfSome DEF StageOK
  <2>7. /\ DOMAIN command' = Process
        /\ \A q \in Process : CommandOK(chain, command'[q])
    BY <1>0, <2>1, <2>6, TakesUp DEF Work
  <2> QED
    BY <1>0, <2>1, <2>7, FilesMove DEF DecisionInv
<1>4. ASSUME NEW p \in Process, NEW path \in File, NEW key \in Key, Sign(p, path, key)
      PROVE  DecisionInv'
  <2> DEFINE s == Content(file[path].snapshot)
             sig == Signature(key, s)
             w == [file[path] EXCEPT !.status = "Signed", !.signature = Some(sig)]
  <2>1. /\ file[path].status = "Frozen" /\ s.key = Some(key)
        /\ Work(p, path, FALSE, w) /\ UNCHANGED <<chain, file>>
    BY <1>4 DEF Sign
  <2>2. /\ DOMAIN file[path] = Fields
        /\ file[path].snapshot = Some(s) /\ FrozenOn(chain, s)
    BY <1>0, <2>1, StageOfFile DEF StageOK
  <2>3. check_signature(s, sig)
    BY <2>1 DEF check_signature, Signature
  <2> HIDE DEF s, sig
  <2>4. /\ DOMAIN w = Fields /\ w.status = "Signed" /\ w.snapshot = Some(s)
        /\ w.signature = Some(sig)
    BY <2>2 DEF Fields
  <2> HIDE DEF w
  <2>5. StageOK(chain, w)
    BY <2>2, <2>3, <2>4, ContentOfSome DEF StageOK
  <2>6. /\ DOMAIN command' = Process
        /\ \A q \in Process : CommandOK(chain, command'[q])
    BY <1>0, <2>1, <2>5, TakesUp DEF Work
  <2> QED
    BY <1>0, <2>1, <2>6, FilesMove DEF DecisionInv
<1>5. ASSUME NEW p \in Process, NEW path \in File, NEW key \in Key, Finalize(p, path, key)
      PROVE  DecisionInv'
  <2> DEFINE s == Content(file[path].snapshot)
             sig == Content(file[path].signature)
             x == DecisionRecord(s, sig, key)
             w == [file[path] EXCEPT !.status = "Finalized", !.finalized = Some(n + 1)]
  <2>1. /\ file[path].status = "Signed" /\ Recordable(chain, s, sig, key)
        /\ chain' = Append(chain, x)
        /\ Work(p, path, TRUE, w) /\ file' = file
    BY <1>5 DEF Finalize
  <2>2. /\ DOMAIN file[path] = Fields
        /\ file[path].snapshot = Some(s) /\ FrozenOn(chain, s)
        /\ check_signature(s, sig)
    BY <1>0, <2>1, StageOfFile DEF StageOK
  <2>3. /\ x.namespace = "decision" /\ DOMAIN x.parts = {} /\ ~IsCompanyRecord(x)
        /\ x.snapshot = s /\ x.signature = sig /\ x.signer = key
    BY DEF DecisionRecord, NoParts, IsCompanyRecord
  <2> HIDE DEF x
  <2>4. /\ DOMAIN w = Fields /\ w.status = "Finalized"
        /\ w.snapshot = file[path].snapshot /\ w.signature = file[path].signature
    BY <2>2 DEF Fields
  <2> HIDE DEF w
  <2>5. StageOK(chain, w)
    BY <2>2, <2>4 DEF StageOK
  <2>6. /\ Healthy(chain') /\ Continues(chain', chain)
        /\ HeadHeight(chain') = n + 1 /\ RecordAt(chain', n + 1) = x
        /\ authorised_signer(chain', n + 1, "governance", key)
    BY <2>1, <2>3, OtherKeepsHealthy DEF DecisionInv, Recordable, GovernanceSigner
  <2>7. StageOK(chain', w)
    BY <1>0, <2>5, <2>6, StageStays
  <2>8. /\ DOMAIN command' = Process
        /\ \A q \in Process : CommandOK(chain', command'[q])
    <3>1. \A q \in Process : CommandOK(chain', command[q])
      BY <1>0, <2>6, StageStays
    <3> QED
      BY <3>1, <2>1, <2>7, TakesUp DEF Work
  <2>9. DecisionStands(chain', n + 1)
    <3>1. FrozenOn(chain', s)
      BY <1>0, <2>2, <2>6, StillFrozen
    <3>2. s.height < n + 1
      BY <1>0, <2>2 DEF FrozenOn
    <3>3. signer_authorised_at(chain', n + 1, key)
      BY <2>6 DEF signer_authorised_at, Healthy
    <3> QED
      BY <2>2, <2>3, <2>6, <3>1, <3>2, <3>3 DEF DecisionStands
  <2>10. \A h \in Decisions' : DecisionStands(chain', h)
    <3>1. \A h \in Decisions : DecisionStands(chain', h)
      BY <1>0, <2>6, StillStands DEF DecisionInv, Decisions
    <3>2. Decisions' = Decisions \cup {n + 1}
      BY <2>1, <2>3, DecisionsAfter DEF DecisionInv
    <3> QED
      BY <3>1, <3>2, <2>9
  <2> QED
    BY <1>0, <2>1, <2>6, <2>8, <2>10, StageStays DEF DecisionInv
<1>6. ASSUME NEW p \in Process, Save(p) \/ Crash(p) PROVE DecisionInv'
  <2> DEFINE path == Content(command[p].path)
  <2>1. command[p] # Idle /\ chain' = chain
    BY <1>6 DEF Save, Crash
  <2>2. path \in File /\ StageOK(chain, command[p].write)
    BY <1>0, <2>1, PathOf
  <2>3. DOMAIN file' = File /\ \A f \in File : FileOK(chain, file'[f])
    <3>1. \/ file' = [file EXCEPT ![path] = command[p].write]
          \/ file' = [file EXCEPT ![path] = Torn]
          \/ file' = file
      BY <1>6 DEF Save, Crash
    <3> QED
      BY <1>0, <2>2, <3>1 DEF FileOK, DecisionInv
  <2>4. /\ DOMAIN command' = Process
        /\ \A q \in Process : command'[q] \in {Idle, command[q]}
              \/ (command[q].path = Some(path)
                   /\ command'[q] = [command[q] EXCEPT !.fresh = FALSE])
    BY <1>6 DEF Save, Crash
  <2>5. \A q \in Process : CommandOK(chain, command'[q])
    <3> SUFFICES ASSUME NEW q \in Process PROVE CommandOK(chain, command'[q])
      OBVIOUS
    <3>1. CASE command'[q] \in {Idle, command[q]}
      BY <3>1, <1>0 DEF CommandOK
    <3>2. CASE /\ command[q].path = Some(path)
               /\ command'[q] = [command[q] EXCEPT !.fresh = FALSE]
      <4>1. command[q] # Idle
        BY <3>2 DEF Idle, None, Some
      <4> QED
        BY <3>2, <4>1, <1>0, StaleCommand
    <3> QED
      BY <2>4, <3>1, <3>2
  <2> QED
    BY <2>1, <2>3, <2>4, <2>5, FilesMove
<1>7. CASE UNCHANGED vars
  BY <1>7 DEF vars, DecisionInv, Decisions
<1> QED
  BY <1>1, <1>2, <1>3, <1>4, <1>5, <1>6, <1>7 DEF Next

(* The invariant holds at the founding, before there is a state file.      *)
LEMMA DecisionsBegin == Init => DecisionInv
<1> SUFFICES ASSUME Init PROVE DecisionInv
  OBVIOUS
<1>1. PICK company \in Company, parts \in Founding :
          /\ ValidFounding(parts)
          /\ chain = <<Record(company, parts, None, AnyKey)>>
  BY DEF Init
<1> DEFINE record == Record(company, parts, None, AnyKey)
<1>2. /\ IsCompanyRecord(record) /\ IsGenesis(record) /\ record.supersedes = None
      /\ ~lockout_after(record.parts["Identities"], record.parts["Authorisation"])
      /\ record.namespace # "decision"
  BY <1>1, FoundingAssumption DEF Record, IsCompanyRecord, IsGenesis, ValidFounding
<1> HIDE DEF record
<1>3. Healthy(<<record>>) /\ HeadHeight(<<record>>) = 0
  BY <1>2, FoundingIsHealthy
<1>4. chain = <<record>> /\ chain[1] = record
  BY <1>1 DEF record
<1>5. Decisions = {}
  <2>1. \A h \in 0..HeadHeight(chain) : RecordAt(chain, h) = record
    BY <1>3, <1>4 DEF RecordAt
  <2> QED
    BY <2>1, <1>2 DEF Decisions
<1> QED
  BY <1>3, <1>4, <1>5 DEF Init, DecisionInv, FileOK, CommandOK

(* Every stage of every decision stays reproducible from the chain.        *)
THEOREM DecisionsStayInOrder == ASSUME Ahead = 0 PROVE Spec => []DecisionInv
<1>1. DecisionInv /\ [Next]_vars => DecisionInv'
  BY StepKeepsDecisions
<1> QED
  BY <1>1, DecisionsBegin, PTL DEF Spec

(* Every decision finalize wrote verifies, whatever was appended since:    *)
(* "a decision that cannot be reproduced at the moment of finalisation is  *)
(* not finalised" (finalize).  --at points at the chain, not beyond it.    *)
THEOREM RecordedDecisionsVerify == ASSUME Ahead = 0 PROVE Spec => []RecordsVerify
<1>1. DecisionInv => RecordsVerify
  BY StandingVerifies DEF DecisionInv, Healthy, RecordsVerify
<1> QED
  BY <1>1, DecisionsStayInOrder, PTL

(* Amending the company between freezing and finalising never strands a    *)
(* signed decision: any governance signer of the day can still record it,  *)
(* for finalize judges it by the company of its own height (finalize).     *)
THEOREM SignedDecisionsAreRecordable == ASSUME Ahead = 0 PROVE Spec => []NeverStranded
<1>1. DecisionInv => NeverStranded
  <2> SUFFICES ASSUME DecisionInv, NEW path \in File, NEW key \in Key,
                      file[path].status = "Signed",
                      authorised_signer(chain, HeadHeight(chain), "governance", key)
               PROVE  Recordable(chain, Content(file[path].snapshot),
                                 Content(file[path].signature), key)
    BY DEF NeverStranded
  <2> DEFINE s == Content(file[path].snapshot)
  <2>1. Founded(chain) /\ Reconstructs(chain, HeadHeight(chain))
    BY DEF DecisionInv, Healthy
  <2>2. FrozenOn(chain, s) /\ check_signature(s, Content(file[path].signature))
    BY StageOfFile DEF DecisionInv, StageOK
  <2>3. /\ Reconstructs(chain, s.height)
        /\ s.pins = pins(chain, s.height)
        /\ s.company = CompanyOf(chain)
    BY <2>1, <2>2, FrozenResolves
  <2>4. s.pins["DecisionChannels"] = provider_of(chain, s.height, "DecisionChannels")
    BY <2>3 DEF pins, Pinned
  <2> QED
    BY <2>1, <2>2, <2>3, <2>4 DEF Recordable, GovernanceSigner
<1> QED
  BY <1>1, DecisionsStayInOrder, PTL

-----------------------------------------------------------------------------
(* State files: who is doing what to them, and what is on record.          *)

(* The stage a command that read the file in a status goes on to.          *)
Follows(read, written) ==
    \/ read = "Missing" /\ written = "Draft"
    \/ read = "Draft" /\ written = "Frozen"
    \/ read = "Frozen" /\ written = "Signed"
    \/ read = "Signed" /\ written = "Finalized"

Busy(cmd) == cmd # Idle
Finalizing(cmd) == Busy(cmd) /\ cmd.write.status = "Finalized"

(* A command is about to save that the path is finalized.                  *)
Pending(commands, path) ==
    \E q \in Process : commands[q].path = Some(path) /\ Finalizing(commands[q])

(* Whoever is about to save a recorded decision holds the chain; and what  *)
(* a command read that nobody saved over since is still what the file says.*)
Attended ==
    \A p \in Process : Busy(command[p]) =>
        /\ Finalizing(command[p]) => command[p].opens
        /\ command[p].fresh =>
              Follows(file[Content(command[p].path)].status, command[p].write.status)

OnceInv ==
    /\ undone \in Nat
    /\ IsFiniteSet(Decisions) /\ IsFiniteSet(OnRecord(file, command))
    /\ RecordedOnce
    /\ Attended

(* A path is on record if its file says so or a command is about to.       *)
LEMMA WhatIsOnRecord ==
    ASSUME NEW files, NEW commands, NEW g
    PROVE  g \in OnRecord(files, commands) <=>
              /\ g \in File
              /\ \/ files[g].status = "Finalized"
                 \/ Pending(commands, g)
<1>1. \A q : commands[q].path = Some(g) => Busy(commands[q])
  BY DEF Busy, Idle, Some, None
<1> QED
  BY <1>1 DEF OnRecord, Finalizing, Pending

(* A command starts on a file; nothing about the record changes.           *)
LEMMA StartKeepsOnce ==
    ASSUME DecisionInv, OnceInv, NEW p \in Process, NEW path \in File,
           NEW opens \in BOOLEAN, NEW fresh \in BOOLEAN, NEW write,
           ~Busy(command[p]),
           command' = [command EXCEPT ![p] = Working(path, opens, fresh, write)],
           UNCHANGED <<file, undone>>, Decisions' = Decisions,
           write.status # "Finalized",
           fresh => Follows(file[path].status, write.status)
    PROVE  OnceInv'
<1>1. /\ command'[p] = Working(path, opens, fresh, write)
      /\ \A q \in Process \ {p} : command'[q] = command[q]
  BY DEF DecisionInv
<1>2. /\ command'[p].write = write /\ command'[p].fresh = fresh
      /\ Content(command'[p].path) = path
  BY <1>1, ContentOfSome DEF Working
<1>3. ~Finalizing(command'[p]) /\ ~Finalizing(command[p])
  BY <1>2 DEF Finalizing
<1>4. ASSUME NEW g
      PROVE  g \in OnRecord(file', command') <=> g \in OnRecord(file, command)
  <2>1. Pending(command', g) <=> Pending(command, g)
    BY <1>1, <1>3 DEF Pending
  <2> QED
    BY <2>1, WhatIsOnRecord
<1>5. OnRecord(file', command') = OnRecord(file, command)
  BY <1>4
<1>6. ASSUME NEW q \in Process, Busy(command'[q])
      PROVE  /\ Finalizing(command'[q]) => command'[q].opens
             /\ command'[q].fresh =>
                   Follows(file'[Content(command'[q].path)].status,
                           command'[q].write.status)
  <2>1. CASE q = p
    BY <2>1, <1>2, <1>3
  <2>2. CASE q # p
    BY <2>2, <1>1, <1>6 DEF OnceInv, Attended
  <2> QED
    BY <2>1, <2>2
<1>7. Attended'
  BY <1>6 DEF Attended
<1> QED
  BY <1>5, <1>7 DEF OnceInv, RecordedOnce

(* finalize appends one record, of a path not on record: its file is still *)
(* Signed, and nobody else holds the chain.                                *)
LEMMA FinalizeKeepsOnce ==
    ASSUME DecisionInv, OnceInv, NEW p \in Process, NEW path \in File,
           NEW key \in Key, Finalize(p, path, key)
    PROVE  OnceInv'
<1> DEFINE n == HeadHeight(chain)
           x == DecisionRecord(Content(file[path].snapshot),
                               Content(file[path].signature), key)
           w == [file[path] EXCEPT !.status = "Finalized", !.finalized = Some(n + 1)]
<1>1. /\ ~Busy(command[p]) /\ ~Held /\ file[path].status = "Signed"
      /\ chain' = Append(chain, x) /\ UNCHANGED <<file, undone>>
      /\ command' = [command EXCEPT ![p] = Working(path, TRUE, TRUE, w)]
  BY DEF Finalize, Work, Busy
<1>2. DOMAIN file[path] = Fields
  BY <1>1, StageOfFile DEF DecisionInv, StageOK
<1>3. w.status = "Finalized"
  BY <1>2 DEF Fields
<1> HIDE DEF w
<1>4. x.namespace = "decision"
  BY DEF DecisionRecord
<1> HIDE DEF x
<1>5. n \in Nat /\ Decisions' = Decisions \cup {n + 1} /\ n + 1 \notin Decisions
  BY <1>1, <1>4, DecisionsAfter DEF DecisionInv
<1> HIDE DEF n
<1>6. /\ command'[p] = Working(path, TRUE, TRUE, w)
      /\ \A q \in Process \ {p} : command'[q] = command[q]
  BY <1>1 DEF DecisionInv
<1>7. /\ command'[p].write = w /\ command'[p].opens = TRUE
      /\ command'[p].path = Some(path) /\ Content(command'[p].path) = path
  BY <1>6, ContentOfSome DEF Working
<1>8. Finalizing(command'[p])
  BY <1>3, <1>7 DEF Busy, Finalizing, Idle, Some, None
<1>9. \A q \in Process : ~Finalizing(command[q])
  BY <1>1 DEF Held, Busy, OnceInv, Attended, Finalizing
<1>10. path \notin OnRecord(file, command)
  BY <1>1, <1>9, WhatIsOnRecord DEF Pending
<1>11. ASSUME NEW g
       PROVE  g \in OnRecord(file', command') <=> g \in OnRecord(file, command) \cup {path}
  <2>1. ~Pending(command, g)
    BY <1>9 DEF Pending
  <2>2. Pending(command', g) <=> command'[p].path = Some(g)
    BY <1>6, <1>8, <1>9 DEF Pending
  <2>3. command'[p].path = Some(g) <=> g = path
    BY <1>7, ContentOfSome
  <2> QED
    BY <2>1, <2>2, <2>3, <1>1, WhatIsOnRecord
<1>12. OnRecord(file', command') = OnRecord(file, command) \cup {path}
  BY <1>11
<1>13. /\ IsFiniteSet(Decisions') /\ Cardinality(Decisions') = Cardinality(Decisions) + 1
       /\ IsFiniteSet(OnRecord(file', command'))
       /\ Cardinality(OnRecord(file', command')) = Cardinality(OnRecord(file, command)) + 1
  BY <1>5, <1>10, <1>12, FS_AddElement DEF OnceInv
<1>14. Cardinality(OnRecord(file, command)) \in Nat
  BY FS_CardinalityType DEF OnceInv
<1>15. RecordedOnce'
  BY <1>1, <1>13, <1>14 DEF OnceInv, RecordedOnce
<1>16. ASSUME NEW q \in Process, Busy(command'[q])
       PROVE  /\ Finalizing(command'[q]) => command'[q].opens
              /\ command'[q].fresh =>
                    Follows(file'[Content(command'[q].path)].status,
                            command'[q].write.status)
  <2>1. CASE q = p
    BY <2>1, <1>1, <1>3, <1>7 DEF Follows
  <2>2. CASE q # p
    BY <2>2, <1>1, <1>6, <1>16 DEF OnceInv, Attended
  <2> QED
    BY <2>1, <2>2
<1>17. Attended'
  BY <1>16 DEF Attended
<1> QED
  BY <1>1, <1>13, <1>15, <1>17 DEF OnceInv

(* A command that saved or died leaves every other one at work on what it  *)
(* was, and no longer fresh if its file changed.                           *)
LEMMA OthersWorkOn ==
    ASSUME DecisionInv, NEW p \in Process, Save(p) \/ Crash(p)
    PROVE  /\ Busy(command[p]) /\ ~Busy(command'[p])
           /\ \A q \in Process \ {p} :
                 /\ Busy(command'[q]) <=> Busy(command[q])
                 /\ command'[q].path = command[q].path
                 /\ Busy(command[q]) =>
                       /\ command'[q].write = command[q].write
                       /\ command'[q].opens = command[q].opens
                       /\ command'[q].fresh =>
                             /\ command[q].fresh
                             /\ file'[Content(command[q].path)] =
                                   file[Content(command[q].path)]
<1> DEFINE path == Content(command[p].path)
           stale(q) == [command[q] EXCEPT !.fresh = FALSE]
<1>1. /\ Busy(command[p])
      /\ \/ file' = file
         \/ \E f : file' = [file EXCEPT ![path] = f]
      /\ \E moved \in BOOLEAN :
            /\ file' # file => moved
            /\ command' = [q \in Process |->
                 IF q = p THEN Idle
                 ELSE IF command[q].path = Some(path) /\ moved
                      THEN [command[q] EXCEPT !.fresh = FALSE]
                      ELSE command[q]]
  <2>1. CASE Save(p)
    BY <2>1 DEF Save, Busy
  <2>2. CASE Crash(p)
    BY <2>2 DEF Crash, Busy
  <2> QED
    BY <2>1, <2>2
<1>2. path \in File
  BY <1>1, PathOf DEF DecisionInv, Busy
<1>3. PICK moved \in BOOLEAN :
            /\ file' # file => moved
            /\ command' = [q \in Process |->
                 IF q = p THEN Idle
                 ELSE IF command[q].path = Some(path) /\ moved
                      THEN stale(q) ELSE command[q]]
  BY <1>1
<1> HIDE DEF path
<1>4. ~Busy(command'[p])
  BY <1>3 DEF Busy
<1>5. ASSUME NEW q \in Process \ {p}
      PROVE  /\ Busy(command'[q]) <=> Busy(command[q])
             /\ command'[q].path = command[q].path
             /\ Busy(command[q]) =>
                   /\ command'[q].write = command[q].write
                   /\ command'[q].opens = command[q].opens
                   /\ command'[q].fresh =>
                         /\ command[q].fresh
                         /\ file'[Content(command[q].path)] =
                               file[Content(command[q].path)]
  <2>1. CASE command[q].path = Some(path) /\ moved
    <3>1. command'[q] = stale(q) /\ Busy(command[q])
      BY <2>1, <1>3 DEF Busy, Idle, Some, None
    <3>2. /\ stale(q).path = command[q].path /\ stale(q).write = command[q].write
          /\ stale(q).opens = command[q].opens
          /\ stale(q).fresh = FALSE /\ stale(q) # Idle
      BY <3>1, StaleCommand DEF Busy, DecisionInv
    <3> HIDE DEF stale
    <3> QED
      BY <3>1, <3>2 DEF Busy
  <2>2. CASE ~(command[q].path = Some(path) /\ moved)
    <3>1. command'[q] = command[q]
      BY <2>2, <1>3
    <3>2. ASSUME Busy(command[q])
          PROVE  file'[Content(command[q].path)] = file[Content(command[q].path)]
      <4>1. command[q].path = Some(Content(command[q].path))
        BY <3>2, PathOf DEF DecisionInv, Busy
      <4>2. CASE moved
        <5>1. Content(command[q].path) # path
          BY <2>2, <4>1, <4>2
        <5>2. /\ DOMAIN file = File /\ Content(command[q].path) \in File
          BY <3>2, PathOf DEF DecisionInv, Busy
        <5> QED
          BY <5>1, <5>2, <1>1, <1>2 DEF path
      <4>3. CASE ~moved
        BY <4>3, <1>3
      <4> QED
        BY <4>2, <4>3
    <3> QED
      BY <3>1, <3>2
  <2> QED
    BY <2>1, <2>2
<1> QED
  BY <1>1, <1>4, <1>5

(* So whoever was attended to stays so.                                    *)
LEMMA OthersStayAttended ==
    ASSUME DecisionInv, Attended, NEW p \in Process, Save(p) \/ Crash(p)
    PROVE  Attended'
<1> SUFFICES ASSUME NEW q \in Process, Busy(command'[q])
             PROVE  /\ Finalizing(command'[q]) => command'[q].opens
                    /\ command'[q].fresh =>
                          Follows(file'[Content(command'[q].path)].status,
                                  command'[q].write.status)
  BY DEF Attended
<1>1. q \in Process \ {p}
  BY OthersWorkOn
<1>2. /\ Busy(command[q]) /\ command'[q].path = command[q].path
      /\ command'[q].write = command[q].write /\ command'[q].opens = command[q].opens
      /\ command'[q].fresh =>
            /\ command[q].fresh
            /\ file'[Content(command[q].path)] = file[Content(command[q].path)]
  BY <1>1, OthersWorkOn
<1> QED
  BY <1>2 DEF Attended, Finalizing

(* Once a step takes nothing on record away but, perhaps, one path, and    *)
(* says in undone whether it did, the count is right.                      *)
LEMMA ForgettingIsCounted ==
    ASSUME OnceInv, NEW path, Decisions' = Decisions,
           OnRecord(file', command') \subseteq OnRecord(file, command),
           OnRecord(file, command) \ {path} \subseteq OnRecord(file', command'),
           undone' = IF Forgets(path) THEN undone + 1 ELSE undone, Attended'
    PROVE  OnceInv'
<1> DEFINE before == OnRecord(file, command)
           after == OnRecord(file', command')
<1>1. IsFiniteSet(before) /\ Cardinality(before) \in Nat /\ undone \in Nat
  BY FS_CardinalityType DEF OnceInv
<1>2. CASE Forgets(path)
  <2>1. after = before \ {path} /\ path \in before
    BY <1>2 DEF Forgets
  <2>2. IsFiniteSet(after) /\ Cardinality(after) = Cardinality(before) - 1
    BY <2>1, <1>1, FS_RemoveElement
  <2>3. undone' = undone + 1
    BY <1>2
  <2>4. Cardinality(Decisions) = undone + Cardinality(before)
    BY DEF OnceInv, RecordedOnce
  <2> HIDE DEF before, after
  <2>5. Cardinality(Decisions) = undone' + Cardinality(after) /\ undone' \in Nat
    BY <1>1, <2>2, <2>3, <2>4
  <2> QED
    BY <2>2, <2>5 DEF OnceInv, RecordedOnce, after
<1>3. CASE ~Forgets(path)
  <2>1. after = before /\ undone' = undone
    BY <1>3 DEF Forgets
  <2> QED
    BY <2>1 DEF OnceInv, RecordedOnce
<1> QED
  BY <1>2, <1>3

(* A save of what was read last moves the file one stage on and forgets    *)
(* nothing; any other may (save_state overwrites whatever the file holds). *)
LEMMA SaveKeepsOnce ==
    ASSUME DecisionInv, OnceInv, NEW p \in Process, Save(p)
    PROVE  OnceInv'
<1> DEFINE path == Content(command[p].path)
<1>1. /\ Decisions' = Decisions
      /\ file' = [file EXCEPT ![path] = command[p].write]
      /\ undone' = IF ~command[p].fresh /\ Forgets(path) THEN undone + 1 ELSE undone
  BY DEF Save, Decisions
<1>2. Busy(command[p]) /\ ~Finalizing(command'[p])
  BY OthersWorkOn DEF Finalizing
<1>3. /\ path \in File /\ command[p].path = Some(path)
      /\ command[p].fresh \in BOOLEAN
  BY <1>2, PathOf DEF DecisionInv, Busy
<1> HIDE DEF path
<1>4. \A q \in Process \ {p} : /\ command'[q].path = command[q].path
                               /\ Finalizing(command'[q]) <=> Finalizing(command[q])
  BY OthersWorkOn DEF Finalizing
<1>5. /\ file'[path] = command[p].write
      /\ \A g \in File \ {path} : file'[g] = file[g]
  BY <1>1, <1>3 DEF DecisionInv
<1>6. ASSUME NEW g \in OnRecord(file', command') PROVE g \in OnRecord(file, command)
  <2>1. ASSUME NEW q \in Process, command'[q].path = Some(g), Finalizing(command'[q])
        PROVE  Pending(command, g)
    <3>1. q \in Process \ {p}
      BY <2>1, <1>2
    <3>2. command[q].path = Some(g) /\ Finalizing(command[q])
      BY <3>1, <2>1, <1>4
    <3> QED
      BY <3>2 DEF Pending
  <2>2. g = path /\ file'[g].status = "Finalized" => Pending(command, g)
    BY <1>2, <1>3, <1>5 DEF Pending, Finalizing
  <2>3. g \in File /\ (file'[g].status = "Finalized" \/ Pending(command', g))
    BY <1>6, WhatIsOnRecord
  <2> QED
    BY <2>1, <2>2, <2>3, <1>5, WhatIsOnRecord DEF Pending
<1>7. ASSUME NEW g \in OnRecord(file, command), g # path
      PROVE  g \in OnRecord(file', command')
  <2>1. command[p].path # Some(g)
    BY <1>3, <1>7, ContentOfSome
  <2>2. Pending(command, g) => Pending(command', g)
    BY <2>1, <1>4 DEF Pending
  <2>3. g \in File /\ (file[g].status = "Finalized" \/ Pending(command, g))
    BY <1>7, WhatIsOnRecord
  <2> QED
    BY <2>2, <2>3, <1>5, <1>7, WhatIsOnRecord
<1>8. ASSUME command[p].fresh, path \in OnRecord(file, command)
      PROVE  path \in OnRecord(file', command')
  <2>1. Follows(file[path].status, command[p].write.status)
    BY <1>2, <1>8 DEF OnceInv, Attended, path
  <2>2. CASE command[p].write.status = "Finalized"
    BY <2>2, <1>3, <1>5, WhatIsOnRecord
  <2>3. CASE command[p].write.status # "Finalized"
    <3>1. file[path].status # "Finalized" /\ ~Finalizing(command[p])
      BY <2>1, <2>3 DEF Follows, Finalizing
    <3>2. Pending(command, path)
      BY <3>1, <1>8, WhatIsOnRecord
    <3>3. Pending(command', path)
      BY <3>1, <3>2, <1>4 DEF Pending
    <3> QED
      BY <3>3, <1>3, WhatIsOnRecord
  <2> QED
    BY <2>2, <2>3
<1>9. command[p].fresh => ~Forgets(path)
  BY <1>8 DEF Forgets
<1>10. undone' = IF Forgets(path) THEN undone + 1 ELSE undone
  BY <1>1, <1>3, <1>9
<1>11. Attended'
  BY OthersStayAttended DEF OnceInv
<1>12. /\ OnRecord(file', command') \subseteq OnRecord(file, command)
       /\ OnRecord(file, command) \ {path} \subseteq OnRecord(file', command')
  BY <1>6, <1>7
<1> QED
  BY <1>1, <1>10, <1>11, <1>12, ForgettingIsCounted

(* A crash may make its path forget its record: the file is torn, or never *)
(* learns of the record that was just appended.                            *)
LEMMA CrashKeepsOnce ==
    ASSUME DecisionInv, OnceInv, NEW p \in Process, Crash(p)
    PROVE  OnceInv'
<1> DEFINE path == Content(command[p].path)
<1>1. /\ Decisions' = Decisions
      /\ file' = file \/ file' = [file EXCEPT ![path] = Torn]
      /\ undone' = IF Forgets(path) THEN undone + 1 ELSE undone
  BY DEF Crash, Decisions
<1>2. Busy(command[p]) /\ ~Finalizing(command'[p])
  BY OthersWorkOn DEF Finalizing
<1>3. path \in File /\ command[p].path = Some(path)
  BY <1>2, PathOf DEF DecisionInv, Busy
<1> HIDE DEF path
<1>4. \A q \in Process \ {p} : /\ command'[q].path = command[q].path
                               /\ Finalizing(command'[q]) <=> Finalizing(command[q])
  BY OthersWorkOn DEF Finalizing
<1>5. \A g \in File : /\ g # path => file'[g] = file[g]
                      /\ file'[g].status = "Finalized" => file[g].status = "Finalized"
  BY <1>1, <1>3 DEF DecisionInv, Torn
<1>6. ASSUME NEW g \in OnRecord(file', command') PROVE g \in OnRecord(file, command)
  <2>1. ASSUME NEW q \in Process, command'[q].path = Some(g), Finalizing(command'[q])
        PROVE  Pending(command, g)
    <3>1. q \in Process \ {p}
      BY <2>1, <1>2
    <3>2. command[q].path = Some(g) /\ Finalizing(command[q])
      BY <3>1, <2>1, <1>4
    <3> QED
      BY <3>2 DEF Pending
  <2>2. g \in File /\ (file'[g].status = "Finalized" \/ Pending(command', g))
    BY <1>6, WhatIsOnRecord
  <2> QED
    BY <2>1, <2>2, <1>5, WhatIsOnRecord DEF Pending
<1>7. ASSUME NEW g \in OnRecord(file, command), g # path
      PROVE  g \in OnRecord(file', command')
  <2>1. command[p].path # Some(g)
    BY <1>3, <1>7, ContentOfSome
  <2>2. Pending(command, g) => Pending(command', g)
    BY <2>1, <1>4 DEF Pending
  <2>3. g \in File /\ (file[g].status = "Finalized" \/ Pending(command, g))
    BY <1>7, WhatIsOnRecord
  <2> QED
    BY <2>2, <2>3, <1>5, <1>7, WhatIsOnRecord
<1>8. Attended'
  BY OthersStayAttended DEF OnceInv
<1>9. /\ OnRecord(file', command') \subseteq OnRecord(file, command)
      /\ OnRecord(file, command) \ {path} \subseteq OnRecord(file', command')
  BY <1>6, <1>7
<1> QED
  BY <1>1, <1>8, <1>9, ForgettingIsCounted

(* Every step keeps one record for each path on record and for each time a *)
(* record was lost sight of.                                               *)
LEMMA StepKeepsOnce ==
    ASSUME DecisionInv, OnceInv, [Next]_vars
    PROVE  OnceInv'
<1>1. ASSUME UNCHANGED <<file, command, undone>>, Decisions' = Decisions PROVE OnceInv'
  BY <1>1 DEF OnceInv, RecordedOnce, Attended
<1>2. ASSUME NEW key \in Key, NEW a \in Amendment, Amend(key, a[1], a[2])
      PROVE  OnceInv'
  <2> DEFINE x == compose_record(chain, a[1], a[2],
                                 provider_of(chain, HeadHeight(chain), a[1]), key)
  <2>1. chain' = Append(chain, x) /\ UNCHANGED <<file, command, undone>>
    BY <1>2 DEF Amend
  <2>2. x.namespace # "decision"
    BY DEF compose_record, Record
  <2> HIDE DEF x
  <2>3. Decisions' = Decisions
    BY <2>1, <2>2, DecisionsAfter DEF DecisionInv
  <2> QED
    BY <1>1, <2>1, <2>3
<1>3. ASSUME NEW p \in Process, NEW path \in File, NEW proposal \in Proposal,
             StartDraft(p, path, proposal)
      PROVE  OnceInv'
  <2> DEFINE fresh == file[path] = Missing
  <2>1. /\ command' = [command EXCEPT ![p] = Working(path, FALSE, fresh, Draft(proposal))]
        /\ ~Busy(command[p]) /\ UNCHANGED <<file, undone>> /\ Decisions' = Decisions
    BY <1>3 DEF StartDraft, Busy, Decisions
  <2>2. /\ Draft(proposal).status = "Draft"
        /\ fresh => Follows(file[path].status, Draft(proposal).status)
    BY DEF Draft, Missing, Follows
  <2>3. fresh \in BOOLEAN
    OBVIOUS
  <2> HIDE DEF fresh
  <2> QED
    BY <2>1, <2>2, <2>3, StartKeepsOnce
<1>4. ASSUME NEW p \in Process, NEW path \in File, NEW id \in ChannelId,
             NEW at \in 0..HeadHeight(chain) + Ahead, Freeze(p, path, id, at)
      PROVE  OnceInv'
  <2> DEFINE w == [file[path] EXCEPT !.status = "Frozen",
                      !.snapshot = Some(Snapshot(chain, at, id, file[path].proposal))]
  <2>1. /\ command' = [command EXCEPT ![p] = Working(path, TRUE, TRUE, w)]
        /\ ~Busy(command[p]) /\ ~Held /\ file[path].status = "Draft"
        /\ UNCHANGED <<file, undone>> /\ Decisions' = Decisions
    BY <1>4 DEF Freeze, Work, Busy, Decisions
  <2>2. DOMAIN file[path] = Fields
    BY <2>1, StageOfFile DEF DecisionInv, StageOK
  <2>3. w.status = "Frozen"
    BY <2>2 DEF Fields
  <2> HIDE DEF w
  <2>4. Follows(file[path].status, w.status)
    BY <2>1, <2>3 DEF Follows
  <2> QED
    BY <2>1, <2>3, <2>4, StartKeepsOnce
<1>5. ASSUME NEW p \in Process, NEW path \in File, NEW key \in Key, Sign(p, path, key)
      PROVE  OnceInv'
  <2> DEFINE w == [file[path] EXCEPT !.status = "Signed",
                !.signature = Some(Signature(key, Content(file[path].snapshot)))]
  <2>1. /\ command' = [command EXCEPT ![p] = Working(path, FALSE, TRUE, w)]
        /\ ~Busy(command[p]) /\ file[path].status = "Frozen"
        /\ UNCHANGED <<file, undone>> /\ Decisions' = Decisions
    BY <1>5 DEF Sign, Work, Busy, Decisions
  <2>2. DOMAIN file[path] = Fields
    BY <2>1, StageOfFile DEF DecisionInv, StageOK
  <2>3. w.status = "Signed"
    BY <2>2 DEF Fields
  <2> HIDE DEF w
  <2>4. Follows(file[path].status, w.status)
    BY <2>1, <2>3 DEF Follows
  <2> QED
    BY <2>1, <2>3, <2>4, StartKeepsOnce
<1>6. CASE UNCHANGED vars
  BY <1>1, <1>6 DEF vars, Decisions
<1> QED
  BY <1>2, <1>3, <1>4, <1>5, <1>6, FinalizeKeepsOnce, SaveKeepsOnce, CrashKeepsOnce
  DEF Next

(* A decision is recorded once for each state file it is kept in: however  *)
(* many commands load, work and save at the same time (irena-cli,          *)
(* decision), on however many files, the chain holds one record for each   *)
(* file that says it is finalized or is about to, and one more for each    *)
(* time a file was made to forget one: by a crash after the append, by the *)
(* save of a command that had read the file before another save, or by a   *)
(* draft over a finished file.  No other step costs a second record.       *)
THEOREM DecisionsAreRecordedOnce == ASSUME Ahead = 0 PROVE Spec => []RecordedOnce
<1>1. Init => OnceInv
  <2> SUFFICES ASSUME Init PROVE OnceInv
    OBVIOUS
  <2>1. \A p \in Process : ~Busy(command[p]) /\ ~Finalizing(command[p])
    BY DEF Init, Busy, Finalizing
  <2>2. Decisions = {}
    <3>1. PICK company \in Company, parts \in Founding :
              chain = <<Record(company, parts, None, AnyKey)>>
      BY DEF Init
    <3>2. chain[1].namespace = "company" /\ HeadHeight(chain) = 0
      BY <3>1 DEF Record, HeadHeight
    <3> QED
      BY <3>2 DEF Decisions, RecordAt
  <2>3. OnRecord(file, command) = {}
    <3>1. \A g \in File : file[g].status # "Finalized"
      BY DEF Init, Missing
    <3>2. \A g : ~Pending(command, g)
      BY <2>1 DEF Pending
    <3>3. \A g : g \notin OnRecord(file, command)
      BY <3>1, <3>2, WhatIsOnRecord
    <3> QED
      BY <3>3
  <2>4. IsFiniteSet({}) /\ Cardinality({}) = 0
    BY FS_EmptySet
  <2>5. undone = 0 /\ Attended
    BY <2>1 DEF Init, Attended
  <2> QED
    BY <2>2, <2>3, <2>4, <2>5 DEF OnceInv, RecordedOnce
<1>2. DecisionInv /\ OnceInv /\ [Next]_vars => OnceInv'
  BY StepKeepsOnce
<1>3. OnceInv => RecordedOnce
  BY DEF OnceInv
<1> QED
  BY <1>1, <1>2, <1>3, DecisionsStayInOrder, PTL DEF Spec
====
