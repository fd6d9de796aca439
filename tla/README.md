# Irena, Prunella and Bornite in TLA+

A verification development for the workspace under `src/`: TLA+ modules
translated from the Rust source, TLC configurations that check them on small
instances, and proofs that TLAPS checks for every instance. `PROJECT.json` holds
the same information for tools: `map` ties every definition to the lines it
models, `runs` lists the configurations, `mutants` names for every property a
fault in the code that breaks it (the definitions under a `Fault:` comment).

    tlc -workers 2 -config MCChainStore.cfg MCChainStore
    tlapm Chain_proofs.tla

## 1. The system

Three layers, of which the two engines know nothing of the company.

| Layer | Crates | What it is |
|---|---|---|
| Prunella | `prunella-core`, `-canonical`, `-crypto`, `-store`, `-verify`, `-xml`, `-cli`, `-conformance` | an immutable ledger of blocks of opaque signed transactions |
| Bornite | `bornite-core`, `-rules`, `-eval`, `-xml`, `-cli` | a deterministic evaluation of weighted votes |
| Irena | `irena-core`, `-ledger`, `-decision`, `-vote`, `-meeting`, `-resolution`, `-cli` (and schemas, fixtures, GUI) | a company notarised on the ledger, and how it decides |

### Inventory

**`prunella-core` / `prunella-verify`: blocks and rules.** No state. Blocks with
a header (version, network, height, previous hash, root, timestamp) over
transactions with ids derived from their contents; `check_block` lists every
violation. Correct when: a block is accepted exactly if it extends its parent and
its commitments match its contents. `verify_chain` walks a range of a stored chain
that may be damaged, with its own parent, its own set of seen ids and a check of the
head; the transaction tree gives proofs that an id is in a block. Hard: what a
verified range, or a proof, leaves open. Correct when: a clean chain under the
recorded head is the chain that was committed, and a proof binds an id to an index.

**`prunella-store`: the chain file.** State: one redb file with tables `META`
(network, head, transaction count), `BLOCKS`, `HEIGHT_BY_HASH`, `TX_LOCATION`; an
open handle with a single writer; range readers. Operations: `init_genesis`,
`open`, `close`, `append_blocks` (a batch in one durable write transaction), the
getters, `head` + `iter_blocks`. Hard: threads sharing a handle, batches that fail
half way, blocks judged against a cached parent and pending ids, the process dying
before or after the commit, readers whose two snapshots straddle an append.
Correct when: tables and indexes agree, counts are exact, every committed block is
valid, what was acknowledged stays, history never changes.

**`prunella-xml`, `prunella-cli`: transfer.** `export`, `plan_import` + `import`,
`restore`, as the commands export, import, import --dry-run and import --create. State:
the stores' and a document file. Hard: an export that straddles an append, a file that
is reformatted or altered on its way, a plan made on one snapshot and applied to a
later one, a restore that dies between the genesis and the import. Correct when: a
plan that passed is what the import does, importing twice is importing once, a full
export restores to the exported chain, and an altered file never reaches a chain.

**`bornite-*`: voting arithmetic.** No state. Rules (weights, exclusions, quorum,
threshold, abstentions, ties), an electorate, a ballot set; `validate` and
`evaluate`, in u64 weights compared by u128 cross-multiplication. Hard: boundaries,
zero bases, overflow, contradictory rules. Correct when: evaluations add up, never
panic, and a ballot never works against its caster.

**`irena-core` / `irena-ledger`: the company.** State: the records on the chain. A
company has five parts (identity, share structure, decision channels, identities,
authorisation); the genesis carries all, each amendment replaces one and names the
version it `supersedes`. Records carry the parts as XML documents, which strict readers
judge. Operations: `found`, `publish` (judge against the company
now, read the head, build, append), `reconstruct` at any height. Hard: two
publishers amending one version, sequences of legal amendments that lock everybody
out. Correct when: every chain reconstructs, no version is replaced twice, the past
stays fixed, somebody can always amend.

**`irena-decision`, `irena-vote`, `irena-meeting`, `irena-resolution`: governance.**
State: a *state file* per flow and records on the chain. Each flow moves through
stages; freezing pins the records in force (channels, register, identities), and
finalising writes a record that repeats enough for a verifier to recompute it.

| Flow | Stages | Chain opened by |
|---|---|---|
| decision | Draft, Frozen, Signed, Finalized | freeze, finalize |
| vote | Draft, Frozen, Open, Closed, Evaluated, Finalized | freeze, evaluate, finalize |
| meeting | Draft, Convened, Open, Closed, Finalized | convene, open, close, finalize |
| resolution | Draft, Finalized, Executed | create, finalize, execute |

Hard: the company is amended between any two stages; keys rotate; one flow writes
several blocks (a meeting one per vote and a last one, an execution an amendment
and a record); the process dies between a block and the save. Correct when: what is
recorded verifies, now and at every later height; what was frozen and completed can
still be recorded; nothing is applied twice, or recorded twice unless its file was made to
forget it; a sole actor adds nothing to their own power but by shares.

**`irena-cli`: processes.** Each command loads a state file, performs one operation
and writes the whole file back with `std::fs::write`. Commands that need the chain
hold the redb lock of its file from before they load until after they save; the
others hold nothing. Hard: two commands on one state file, a torn write, a crash
between the commit and the save.

Everything else (canonical encoding, Ed25519, schemas, the Bornite command line,
conformance vectors, the GUI plan) keeps no state that the flows depend on.

### How they interact

    state file <-- load/save -- irena-cli -- flow operations (decision, vote, ...)
                                   |              |  evaluate
                                   |              +--------> bornite-eval
                                   | holds        | publish / append_blocks
                                   v              v
                              chain file <--- irena-ledger --- prunella-store
                                                                   | check_block
                                                              prunella-verify

## 2. Modules

| Module | Models | State and actions |
|---|---|---|
| `BlockRules` | blocks, ids, roots, `check_block` | operators only |
| `ChainStore` | `prunella-store` | `file`, `handle`, `db` (committed image), `writer`, `work`, `todo`, `parent`, `pending` (the write transaction and the locals of `append_blocks`), `call`, `iter` per thread; one action per branch of `append_blocks`, for init in two steps, open, close, crash, and range reads |
| `Ledger` | what a ledger promises | an append-only linked sequence of blocks; `ChainStore` implements it |
| `ChainVerify` | `verify_chain` over a range | operators |
| `Merkle` | the transaction tree, audit paths, their verification: the recursions over halves as recursive functions of the number of leaves, the loops as functions of the round | `leaves`, `proof`, `claimed`, `count`, `genuine`; a block grows, a proof is produced, its file is altered |
| `ChainDocument` | export, the document's writer, its strict reader, payload forms | operators on trees |
| `Transfer` | the export and import commands | two stores (`source`, `target`) as images, `exporter`, the document file `text`, `importer`, what is known of the file (`sent`), of the last command (`result`, `applied`) and of the undamaged source (`honest`); an action per step of a command, appends on both sides, damage to the source, alteration of the file, death of the importer |
| `RulesDocument` | the readers of elements and of voting rules | operators |
| `CompanyRecords` | parts, records, `reconstruct`, signers, lockout | operators on a chain of records |
| `CompanyDocument` | the documents of the five parts, `read_record`, `compose_record`, notarisations | operators |
| `CompanyLedger` | `found`, `publish` in its three steps | `chain`, and per publisher `phase`, `draft`, `base`; `holder` of the file |
| `CompanyRegister` | what a company is | parts with versions, amended one by one; `CompanyLedger` implements it |
| `GovernanceRecords` | channels, snapshots, signatures, `verify_decision` | operators |
| `Decision` | the decision commands | `chain`, `file` per path, `command` per process, `undone` |
| `Bornite` | `validate`, `evaluate`, `compare_share`, recorded quorum | operators |
| `Tally` | `evaluate` between neighbouring ballot sets | `poll`, `ballots`; `Cast`. `PollAssumption`: rules and electorates are what their constructors let through |
| `VoteRecords`, `Vote` | votes and their records; the vote commands | as `Decision` |
| `MeetingRecords`, `Meeting` | meetings; the meeting commands | `chain`, `file`, one `command` with the meeting in memory |
| `ResolutionRecords`, `Resolution` | resolutions of a sole actor and of a meeting's vote; their commands | `chain`, `file`, `command` |
| `Records_proofs` | lemmas on readings of a chain | extended by the proofs of the company and the four flows |
| `Chain_proofs`, `Bornite_proofs`, `CompanyLedger_proofs`, `Decision_proofs`, `Vote_proofs`, `Meeting_proofs`, `Resolution_proofs` | theorems (section 5) | |
| `MC*` | instances | |

Composition: the four governance modules share `CompanyRecords` and add to its
chain, so that the amendments of `CompanyLedger` (the action `Amend`, guarded by the
very `Acceptable` that `publish` applies) interleave with their own steps. `Vote`
and `Meeting` count with `Bornite`. `Resolution` rests on decision records and on the
records of meetings and votes, which it verifies with their own modules' verifiers,
and calls the amendment rules. `Transfer` applies the rules of `BlockRules` on both
sides of a document.

### Abstractions that run through all modules

* A hash, an id or a root is the value it commits to (ideal hashing; `Merkle` shows
  that a root commits to its ids), a signature is the key that made it, or in
  `BlockRules` whether it verifies.
* On Irena's chain one element of `chain` is one block with one record, and the
  record's position is its transaction id. `append_block` is atomic there, and in
  `Transfer`: `ChainStore` shows that it is.
* `CompanyLedger` publishes documents, trees of elements as they would be typed, and
  keeps on its chain what `read_record` makes of the payload. In the governance
  modules a part is its value: a document that reads as that value exists for each.
* A document is a tree: the reader's checks of names, attributes, order, counts and
  limits are modelled, characters and their escaping are not. The two conversions that
  change what is read are: XML's normalisation of a line break in an attribute, and
  the white space an XML formatter puts around a nested payload.
* A command on a state file is two steps, one that has loaded the file and done the
  work and one that saves, with other commands and crashes in between. A crash
  before the save loses the stage, one during it leaves the file `Torn`. What a
  command returns early on, before its first write, leaves everything unchanged and is
  not a step. Two commands can return early after a write. A meeting's final record is
  refused its notarisation (a blank name, say) when the votes are already on the chain:
  `RefuseFinalRecord`. An execution record is composed after the amendment, but with
  the notarisation that `publish` has just accepted for it; if its text did not read
  back as written, the state would be that of `Crash`.
* `undone`, in `Decision` and `Vote`, counts how often a file that was on record (it
  said so, or the command that recorded it was about to make it say so) was made to
  forget it: by a crash, by the save of a command that had read the file before another
  save (`fresh` is FALSE), or by a new draft over it. No guard reads it; `RecordedOnce`
  uses it to say exactly which records the chain may hold.
* Texts, times, documents and names are members of small sets; a digest of a
  document is never computed.

## 3. Runs

| Run | Configuration | Question and answer |
|---|---|---|
| `chain_store` | `MCChainStore.cfg` | Do tables, counts and indexes survive batches, refusals, interleaved threads and crashes? Yes; and the store implements `Ledger`. |
| `transfer` | `MCTransfer.cfg` | Does a backup restore, a dry run predict, an altered file stay out, damage show, and every command end, with both chains growing and the importer dying? Yes. |
| `merkle` | `MCMerkle.cfg` | Does every id of every block have a proof, and does a proof prove nothing else? Yes. |
| `company_ledger` | `MCCompanyLedger.cfg` | With the chain file held per command, do the documents of foundings and amendments always leave a readable company? Yes; and it implements `CompanyRegister`. |
| `decision` | `MCDecision.cfg` | Is every decision record verifiable at every later height, every signed decision recordable, and recorded once for each time its file forgot it? Yes. |
| `resolution` | `MCResolution.cfg` | Do resolutions approved by one person or by a meeting verify and apply once, and what does a sole actor's add to the actor's power, through crashes and retries? Yes, but for the signer of finding 2; and nothing but the seats of a first share (section 4). |
| `resolution_signed` | `MCResolutionSigned.cfg` | Is an execution record always signed by an authorised key? **No**. |
| `tally` | `MCTally.cfg` | Do evaluations add up, round nothing and respond to a ballot in its direction? Yes. |
| `vote` | `MCVote.cfg` | As `decision`, for votes with rules, rolls, ballots and counts. Yes. |
| `vote_ahead` | `MCVoteAhead.cfg` | Is a vote frozen beyond the head decided against what it pinned? **No**. |
| `meeting` | `MCMeeting.cfg` | Do meeting records and the vote records in them verify, and can the votes of a closed meeting always be recorded? Yes. |
| `meeting_resumed` | `MCMeetingResumed.cfg` | Is an interrupted finalisation resumed without repetition? **No**. |

### Properties, and what each would catch

* `ChainStore`: `TypeOK`, `LookupsAgree` (an index or the transaction count that
  disagrees with the block table, for one a replayed block counted twice),
  `ChainValid` (a duplicate or a broken link let in by the cached parent or the
  pending set), `Acknowledged` (something else on the chain than what `append_blocks`
  reported), `RangeIsChain` (a reader that misses or invents a block),
  `ImplementsLedger` (any change of history or a jump of the head).
* `Transfer`: `DryRunHonest` (a plan that the store refuses, or that ends elsewhere
  than announced), `BackupRestores` (a full export that import --create refuses, or
  that founds another chain; a death after the genesis that a plain import cannot
  mend), `AlteredNeverApplied` (a relabelled, shortened or edited file that changes a
  chain), `ReimportIsNoOp`, `HeadIsTheAnchor` (damage that verification under the
  recorded head does not see), `RangesMeanWhole` (what verifying in pieces misses),
  `CommandsEnd` (a command that waits for ever).
* `Merkle`: `EveryIndexProves`, `ProofBinds` (a file altered in one place that still
  proves the id at its index, or proves another), `OnlyLeavesProve` (an inner node
  taken for an id), `RootCommits` (two lists under one root).
* `CompanyLedger`: `Reconstructible` (`publish` accepts what `reconstruct` refuses:
  documents, notarisations and lockouts included), `NoClobber`, `PastIsFixed`,
  `ImplementsRegister`, whose register always has somebody who may amend it.
* `Decision`: `RecordsVerify`, `NeverStranded` (a signed decision that some amendment
  makes impossible to record), `RecordedOnce` (a record too many: the chain holds one
  for each file on record and one for each time a file forgot its record, so that a
  finalised file recorded again, or two overlapping `finalize`, break it; the crash, the
  old copy and the new draft that `undone` counts do not, for after them the program does
  record again).
* `Resolution`: `RecordsVerify`, `SpentOnce` (no approval amends twice, even after its
  base was put back), `OnlySharesAddSeats` (a sequence of resolutions of one person that
  adds a right, another's key or a change to a channel the person stays on; or a seat,
  by any way but a first share, which does add one: section 4), `VerdictsStand` (a
  verdict never changes as the chain grows).
* `Tally`: `NothingPanics` (the `expect`s of `evaluate.rs` are never reached),
  `AuditorsAddUp`, `RecordedQuorumDecides` (the rounded-up number in the record and
  the exact comparison agree), `BallotsPullTheirWay`.
* `Vote`: `VotesVerify`, `NeverStranded`, `KeylessCount` (a roll that leaves out, or
  weighs at nothing, an actor without a key, whose weight then is missing from the
  quorum), `RecordedOnce` (as for decisions), `FirstBallotStands` (a ballot replaced or
  dropped by any step but the save of an old copy; a vote drafted anew is another vote
  and has no ballots to keep).
* `Meeting`: `MeetingsVerify`, `NeverStranded` (of the votes; that the final record can
  be composed is not claimed, its notarisation may be refused), `OneItemPerBallot`.

### Bounds, and why they are enough

| Run | Instance |
|---|---|
| `chain_store` | 2 threads, batches of at most `BatchBound` = 2, one valid and one unsigned genesis, 8 blocks: two competing histories of three blocks, a forged, a foreign and an early block and a repeated transaction. Heights 0 to 2 reach every branch of `append_blocks`; a batch of two is the least that uses the cached parent and the pending ids; a third thread would only wait for the lock. |
| `transfer` | `MaxHeight` = 2 on both chains, `MaxExports` = 1, documents of at most `MAX_BLOCKS` = 2 blocks of `MAX_TRANSACTIONS_PER_BLOCK` = 2, so that a full export of the longest chain exceeds the reader's limit; whole, tail, head and filtered exports; payloads that are nothing, an element, an element after white space; a local block that forks from the source; one change to a file, in its layout or in one place of its contents; one block of the source damaged, the head with it or not. |
| `merkle` | blocks of 0 to 9 ids: every shape of split up to a full tree of 8 and the first that hangs one leaf beside it; every index, count and sibling altered. |
| `company_ledger` | 2 people, 2 keys, 1 channel, 2 publishers, lists of at most 2 rows, weights in a u64 of 0 to 4, `MaxHeight` = 4: a genesis and four amendments (or other records), enough for two editors of one version, a hand-over of both identities and rights, and a restored value. 5 founding documents, sound and not, 7 sound amendments, 18 that break each rule of their kind, notarised on and off 29 February and with texts that are blank, or broken over lines. |
| `decision` | 2 processes on 1 file, `MaxHeight` = 3: of three blocks after the genesis two may be amendments around one decision. The channel's actor is named in a roster or is the only shareholder; the amendments rotate that actor's key, turn the channel into a board, sell shares and hand over the right to record. `Ahead` = 0. |
| `resolution` | 1 process, `MaxDecisions` = 1 (a decision, or a meeting that votes on two amendments, or on one after a report), `MaxChanges` = 4: a resolution, its amendment and execution and one foreign amendment between any two, or a second resolution on the same approval and its amendment. Nine proposals that are, and are not, self-demotions; drafts mistaken in at most one of the channel, the item or vote, and the proposal (`Substitute`). All who can vote on an item vote alike, for or against: `vote` and `tally` tell counts apart. |
| `tally` | 3 voters, weights to `MaxWeight` = 14, quorums and thresholds on and off each boundary, contradictory rules and an overflowing register; 15 is not divisible by the products that occur, so wrapping arithmetic is visible. Every ballot set is reached. |
| `vote` | 2 processes on 1 file, a shareholder with a key (2 shares) and one without (1), choices yes and no, `MaxHeight` = 2: a vote record and one amendment, before or after the freeze, the count or the record. `Ahead` = 0. |
| `vote_ahead` | 1 process, `Ahead` = 1. |
| `meeting` | 1 command at a time, `MaxItems` = 2 (a vote item, twice, or beside a report), ballots of one choice (choices are told apart in `vote` and `tally`), `MaxHeight` = 4: convening, two vote records and a final one, or fewer with amendments between. |

`MaxWeight` is 255 where weights do not matter. `MaxHeight` bounds the chain in the
guards of the actions that append, `MaxChanges` the amendments, resolutions and
executions among its records. Deadlock is checked in `transfer`. Elsewhere the system may
stop: a chain at its bound, a refused poll and a finished flow, as a process that
ends does, and in `chain_store` the file a crashed `init` leaves, which nothing in
the store can use again.

### Fairness

Nothing in the code schedules itself: every step is a step of a command somebody
typed. The one fairness assumed is weak fairness of `ImporterStep` in `Transfer`: a
process that is running an import and does not die takes its next step, which is always
enabled. Nobody is bound to start one, append, or alter a file. Under it `CommandsEnd`
says that every import reports something, however the chain moves under it; a retry
loop around a refusal of the store would break it. Elsewhere what a user can always
still do is stated as safety (`NeverStranded`: the next step is possible in every
reachable state). The one thing a thread waits for is redb's write lock.

## 4. What the checks found

Three runs show a disagreement between the code and what the repository says of it; a
fourth is seen in a passing run.

1. `vote_ahead`: `freeze --at` takes a height beyond the head
   (`irena-vote/src/lifecycle.rs:184`), pins that height, and later blocks change
   what the vote is decided against. `irena-decision` has the same gap.
2. `resolution_signed`: `execute` checks the signer before the amendment, which may
   take that signer's right away, and then signs the execution record with it
   (`irena-resolution/src/lifecycle.rs:515`).
3. `meeting_resumed`: the votes a finalisation has recorded are remembered only in
   memory, so after a crash the retry records them again. So does the retry after a
   final record that was refused its notarisation, with no crash at all.
4. One person alone can gain a seat. `demotion.rs:19` says that two parts beside the
   channel set can hand one person the same power, and gives each a rule; `demotion.rs:12`
   that the ids the signer is an actor of must not grow; `README.md:257` that individual
   decisions never promote themselves. A third part does: a channel that takes its actors
   from the share register seats whoever holds shares, and for the share structure
   `execute` has no rule (`irena-resolution/src/lifecycle.rs:461`). In the run
   `resolution` bob, who decides alone, decides on a register with himself in it, has it
   resolved and executed, and sits on the board: with `SeatsAt(m) \subseteq
   SeatsAt(m - 1)` in the place of the first conjunct of `OnlySharesAddSeats`, TLC shows
   it in eight states. What the property does state is that this is the only way.

Met on the way, with no run of their own:

* `publish` judges an amendment against one head and builds its block on another
  (`irena-ledger/src/ledger.rs:109,133`). The command line holds the file and cannot be
  interleaved (`Exclusive` = TRUE, as the run has it). Threads of one process on one
  store, which `docs/storage.md:130` allows, can replace one version twice: with
  `Exclusive` = FALSE `NoClobber` fails, the clobbering `IRENA_V1.md:359` sets out to refuse.
* A crash between the amendment and the execution record leaves a resolution that
  `execute` refuses as `StaleBase` for ever, and no execution record can be written.
* A refused `import --create` leaves the path taken: a document whose genesis is sound
  and whose later blocks are not founds a chain of one block before it is refused,
  although `docs/cli.md:203` calls import atomic.
* Two `cast` commands on one state file lose a ballot that was reported as accepted
  (nothing locks the file): the step `FirstBallotStands` excepts as `SavesOldCopy`.
* `init` that is refused or dies leaves a file that is neither absent nor a chain.
* Two files drafted alike and frozen at one height share a vote id and both records
  verify.
* A chain longer than `MAX_BLOCKS` exports to a file no reader accepts.

## 5. What is proved

TLAPS checks these for every value of the constants: every set of documents,
proposals, keys, people, ballots and amendments, any number of threads, processes
and state files, chains of any length (the bounds in the guards are constants like
the others). Of the 40 properties of the passing runs all but one are theorems: the
liveness of `Transfer` (`CommandsEnd`) stays with TLC.

### The store (`Chain_proofs`)

From `BlockAssumption` (blocks have the fields used) and `BatchBoundAssumption` (a
batch holds at least one).

* `TypeCorrect`, `StoreInvariant`, `AlwaysOpenable`, `NothingAcknowledgedIsLost`,
  `HistoryNeverChanges`. `Acknowledged` is not inductive: a commit publishes `work`,
  of which it says nothing. `StoreInv` adds that the committed image and the one being
  written are whole (`ImageOK`: heights contiguous to the head), that `work` extends
  `db`, and that every block already taken off `todo` is in `work` (`Batched`). An
  action does not touch the images, or aborts and forgets `work`, or looks at one more
  block of the batch and finds or inserts it.
* `AlwaysSound`, from it `IndexesNeverDisagree` (`LookupsAgree`) and
  `CommittedBlocksAreValid` (`ChainValid`). `SoundImages` says of both images that they
  are indexed and judged up to their head, and that `pending` and `parent`, the locals of
  `append_blocks`, are true of `work`: without that the judgement of the next block would
  say nothing of the chain.
* `RangesReadTheChain` (`RangeIsChain`): committed images only grow, so the image a
  range was opened on is a beginning of every later one.
* `StoreImplementsLedger` (`ImplementsLedger`): every step of every thread maps to a step
  of `Ledger` or a stutter; commits of n blocks map to one append of n linked blocks.
* Of the verifier: `StoredChainsVerify` (`verify_chain` finds nothing on a chain the
  store committed, so `append_blocks` and the verifier agree on what is valid),
  `OneHeadOneChain` and `TheHeadIsTheAnchor` (a file that verifies clean under the head
  the store recorded holds what the store committed, block by block), and
  `PiecesMeanTheWhole` (two adjacent ranges verify exactly when the whole does, unless a
  transaction occurs in both). The walk down from a common head is an induction over
  heights, done as the least height at which two chains differ. The hash is ideal, as
  everywhere.

### The transfer of chains (`Chain_proofs`)

From `FoundingAssumption` (the genesis block is a block, and one the rules accept: what
`write_genesis` lets through), `SourceAssumption` (transactions, and blocks that turn up
in a damaged file, have the fields of their Rust types), `RequestAssumption` (the bounds
asked for are heights, or absent) and `BoundAssumption` (the bounds of the model are
numbers). Damaged blocks may be any blocks, requests any, and chains, documents and
lists of any length; alterations of a document are the one-place ones of `Altered`.

`TransferInvariant` is `TransferInv`, one part for each place something is kept:

* the source (`SourceOK`) differs from the chain that was committed in its blocks alone;
* the document file (`FileOK`) *carries* an export: it is the writer's text of it,
  reformatted, or changed in one place, and what it was exported from is known;
* the target (`TargetOK`) is a valid chain on the source's genesis block, if it is one;
* a running import (`ImporterOK`) has read its document from such a file, and a
  planned `--create` is still alone with the chain it founded;
* what was reported and what was applied (`ResultOK`, `AppliedOK`) is in the target,
  block by block, and of a backup only `AlreadyExists` was ever the refusal.

The properties are not inductive: a document applied says nothing of the chain it
will meet later, and a plan nothing of the file its document came from. The invariant's
parts say it, and these lemmas carry them:

* `AppendKeeps`: `append_blocks` leaves a valid chain that has only grown, and a batch
  it accepts is in it. From it `AppliedForGood` (`ReimportIsNoOp`).
* `PlansAreKept`: where `plan_import` finds nothing, each block it skipped is present,
  each it listed is next and judged against the very parent and ids that
  `append_blocks` will judge it against (`validate_run` and the cached parent agree), so
  that `append_blocks` accepts all and ends at the head the plan announced. Hence
  `PlansKeepTheirWord` (`DryRunHonest`).
* `AlteredTraces`, `ReadIsExported`: each block element of an altered file goes back to
  an exported one in its header, or its transactions, or its hash; a block that is read
  with its own declared hash and breaks no rule is the exported block, for the hash fixes
  the header, the header's root the ids, and each id its contents. A filtered export
  falls to its kind and, if that is relabelled, to its roots. Hence `OnlyWhatWasSent`
  (`AlteredNeverApplied`).
* `PayloadsReadBack`, `WrittenIsReadable`, `BackupReadsBack`, `BackupPlans`: every form a
  payload is written in reads back as the payload, from the text as written and as a
  formatter leaves it; an export within the reader's limits (blocks, and transactions in a
  block, which is why `IsBackup` names both) is readable, reads back as what was exported,
  and can be planned on the chain its genesis founds. With `OnlyFoundingIsRestored`
  (whatever was done to the file, the one chain it can found is the source's), hence
  `BackupsRestore` (`BackupRestores`).
* `PiecesOfASource` (`RangesMeanWhole`) and `NoDamageUnderTheHead` (`HeadIsTheAnchor`)
  are the theorems about the verifier, of a source that may be damaged.

### The transaction tree (`Chain_proofs`)

From `IdsAssumption` (a block's ids are a list). That the recursive functions of `Merkle`
exist is proved first (`RootsAre`, `PathsAre`, `SidesAtAre`): as far as any count, and
the same however far. All that is used of `split_point` is that both halves hold a leaf,
so that everything is an induction over the number of leaves.

* `PathsProve`: the audit path of every leaf of every list has the expected sides and
  climbs to the root. Hence `EveryTransactionProves` (`EveryIndexProves`).
* `ProofsAreUnique`: a path with the expected sides that climbs from some id to the root
  is the audit path, and the id the leaf. Hence `AcceptedProofsBind` (`ProofBinds`).
* `OnlyLeavesClimb`: whatever path leads from an id to the root, of any shape, the id is
  in the list; this needs the tags that set leaves apart. Hence `OnlyTheBlocksIdsProve`
  (`OnlyLeavesProve`).
* `RootsCommit`: lists with one root are one list, whatever their lengths, which is what
  `BlockRules` takes for granted of `compute_root`. Hence `TheRootCommits`
  (`RootCommits`).

The invariant (`MerkleInvariant`) only says that the file holds a proof in form, and as
long as it is as produced the right one: the theorems are about every proof a file may
hold, and the run about proofs changed in one place.

### Voting (`Bornite_proofs`)

From `MaxWeightAssumption` (the largest weight is a positive number) and, for the polls,
`PollAssumption`: fractions have a denominator, weights are at least one, a register is
finite, which `bornite-core` and `bornite-rules` ensure where they build them.

* Of the comparisons: `RecordedQuorumIsTheQuorum`, `YesNeverLowersTheShare`,
  `OnlyProportionsCompare`, `AcceptedIsBothMet`.
* Of the polls: `EvaluationsNeverPanic` (`NothingPanics`), `ResultsCanBeAudited`
  (`AuditorsAddUp`), `RecordedQuorumsDecide` (`RecordedQuorumDecides`),
  `BallotsAlwaysPullTheirWay` (`BallotsPullTheirWay`). Their one state invariant is that
  a poll is well formed; the work is in sums of weights over sets of voters. `Weigh` is
  a choice of a recursive function; that the function exists, is unique and adds up over
  disjoint groups is proved by looking at a least counterexample among the finite sets.
  Then each ballot moves each tally by its voter's weight or nothing, and the monotony
  of the comparisons does the rest.

### The company (`Records_proofs`, `CompanyLedger_proofs`)

`Records_proofs` holds what all flows need of a chain that is continued: heights, the
provider of a part, the record in force, the signers, a frozen channel or roll read the
same on every chain that continues this one (`Continues`); an acceptable amendment of a
`Healthy` chain (founded, readable at its head, with somebody who may amend) leaves it
healthy; and a record that *stands* (it says of its chain what its writer checked:
`DecisionStands`, `VoteStands`, `MeetingStands`) is one its verifier finds nothing wrong
with, still stands after any amendment.

* `ThePastIsFixed` (`PastIsFixed`), whether or not publishers exclude each other.
* Under `Exclusive = TRUE`, which is how `irena-cli` runs (redb's lock on the file is
  held from before the judgement until after the append; section 4 says what happens
  otherwise): `CompaniesCanBeRead` (`Reconstructible`), `EditorsNeverClobber`
  (`NoClobber`) and `LedgerImplementsRegister` (`ImplementsRegister`). `LedgerInv` adds
  that only the holder is at work and that its draft amends the head as it is now.

### The flows

Each has an inductive invariant of one form: the chain is healthy; what every state file
holds, and what every command between its load and its save is about to write, was
frozen on this very chain and, as far as its stage goes, signed, cast and counted
rightly; and every record stands. Appending anything keeps it, as what is frozen and
what stands stays so when the chain continues; freezing, counting and finalising
establish the next stage of it. That the company has moved on between any two stages is
in every step of the proof.

* `Decision_proofs`, under `Ahead = 0`: `DecisionsStayInOrder` (the invariant),
  `RecordedDecisionsVerify`, `SignedDecisionsAreRecordable` (`NeverStranded`) and
  `DecisionsAreRecordedOnce`, for any number of files and processes. For the last,
  `OnceInv` adds that a command about to say a file is on record holds the chain file,
  and that a command whose copy is fresh is about to write the stage after the file's:
  so a record is written for a file that is not on record, and a file stops being on
  record only in a step that `undone` counts.
* `Vote_proofs`: `TheFirstBallotStands` for all constants; under `Ahead = 0`
  `VotesStayInOrder`, `RecordedVotesVerify`, `EvaluatedVotesAreRecordable`,
  `TheKeylessCount`, `FrozenAtTheHeadIsFrozenForGood` and `VotesAreRecordedOnce`.
  `TheKeylessCount` needs that a roll's total weight is the sum over the actors,
  whatever order they are added in (`RollWeighsShares` in `Records_proofs`).
* `Meeting_proofs`: `MeetingsStayInOrder`, `RecordedMeetingsVerify`,
  `ClosedMeetingsAreRecordable`, `BallotsCountForOneItem`. Meetings are frozen at the
  head by construction. The invariant must name the votes a running finalisation has
  recorded, and that its key may sign, between any two of its blocks. Ballots are told
  apart by the item they were signed for, and `Meet` has checked each of them
  (`check_ballot`).
* `Resolution_proofs`, from assumptions that say what its constants are (a proposal is a
  part and a value; a founding carries every part; amendments of the outside world are
  not among the proposals, so that records tell who published them):
  `ResolutionsStayInOrder`, `RecordedResolutionsVerify`, `ResolutionVerdictsStand`,
  `SoleSignersGainSeatsOnlyByShares`, `ApprovalsAreSpentOnce`. The invariant says of a command
  that died or may die between the amendment and its record whose amendment it was, and
  that nothing else executed the resolution. `ApprovalsAreSpentOnce` counts: an
  amendment replaced the record its approval saw in force, which no other amendment
  replaced, so that amendments inject into approvals.

The hypotheses are those of the runs. `Ahead = 0` is a freeze that points at the chain
(no `--at`, or one at or below the head); for `Ahead > 0` the run `vote_ahead` refutes
what these theorems say. Two files drafted alike are two files, each with its record
(section 4). What a crash, an old copy or a new draft costs is in the statement of
`RecordedOnce` and `FirstBallotStands` themselves.

### Only model-checked

* `CommandsEnd` of `Transfer`: liveness under fairness is out of the prover's reach.
* That hashes are ideal is an assumption of the models, not of the proofs: a hash is what
  was hashed under its tag, and so injective.
* That the readers of `CompanyDocument` and `RulesDocument` refuse what they should: the
  theorems about `CompanyLedger` hold for whatever these readers accept, and the run
  `company_ledger` looks at the documents.
* The three runs that expect a violation.

## 6. Not modelled

* `prunella-canonical`, `prunella-crypto`: an injective encoding and unforgeable
  signatures are assumed.
* Characters: escaping, quoting, UTF-8, attribute order, and the limits on the length
  of a text or of a file. Schemas say no more than the readers.
* `bornite-xml`'s electorate and ballot documents and `bornite-cli`, which reads them,
  evaluates and prints: no state.
* `prunella-cli` beyond append, export, import and verify; `irena-cli`'s parsing and
  printing; conformance vectors; the GUI, of which there is only a plan.
* `prunella-store`'s in-memory twin (tests) and acceptance policies other than the
  default.
* Two commands at once on one state file in `Meeting` and `Resolution`: the state
  spaces allow one. `Decision` and `Vote` have two.

## 7. Plan

Modelled first was what everything else rests on (the store), then the company, the
flows, the documents and the transfer of chains; proved then was every safety property
of every passing run, of the store, the polls, the company, the flows, the transfer and
the transaction tree in this order. What is left:

1. Two commands at once on the state file of a meeting. (`Resolution` and its theorems
   have any number of processes; its run has one for its size.)
2. A run of its own for the fourth disagreement of section 4.
