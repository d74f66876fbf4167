# A TLA+ verification project for Liametahi

Liametahi tidies an IMAP account. `liametahi run --task T` scans the source
mailboxes of a task, evaluates its rules over each new message, and carries out
the action list of the winning rule: a verified `backup`, a `task:` route, a
`label`, a `trash` or `move_to`. It deletes mail, it is started from cron as
well as by hand, and several tasks may work on one account at a time. What can
go wrong is in the order of autocommitted database writes and IMAP calls when
processes die, replies get lost, the owner uses the mailbox meanwhile, or two
tasks meet at one message. Four models cover it: the execute phase with its
claims and its recovery, the backup store under it, the scan that feeds it, and
the evaluation that decides what it does.

Paths in this file are relative to `src/src/liametahi/` unless they say otherwise.

## 1. Inventory

| component | state it keeps | operations | correct when |
|---|---|---|---|
| Execute phase (`execute.py`) | local: cap counter, position in the action list, result so far | `execute_items`, `_execute_one`, `_reverify`, `_run_action_sequence` | an action is on record before it has an effect; a move comes after its backup; every item gets an answer; the cap is exact |
| Reconcile pass (`execute.py`) | the list of open rows it fetched | `reconcile_task` | it closes exactly the rows of dead runs, truthfully, and frees only their claims |
| Key claims (`state.py`) | `key_claims` | `claim_key`, `release_key` | one process per message; survives crashes; taken from nobody alive; freed in the end |
| Attempts, result items, candidates, routes (`state.py`) | `action_attempts`, `result_items`, `candidates`, `task_routes` | insert and update functions, one autocommitted statement each | terminal rows are final; a retired candidate is really gone |
| Run orchestration (`runner.py`) | run row, phase | `run_task`, `_run_locked`, `_run_phases` | phases in order, rows written also on abnormal ends |
| Task lock (`locks.py`) | a lock file per configuration path and task | `task_lock` | one live run per task; released by the death of its holder |
| Report (`report.py`) | none | `_effective_status`, totals, rendering | claims no more than the rows show |
| Routing (`runner.py`, `state.py`, `config.py`) | `task_routes` | `record_task_route`, `_merge_routed_candidates`, the load-time cycle check | a routed message reaches its task once, order kept, no cycles |
| Mailbox scan (`imap_adapter.py`) | `mailbox_state` (UIDVALIDITY), `candidates` | `scan` | nothing new is skipped; a renumbered mailbox is rescanned whole; `max_new_mails` is exact |
| IMAP adapter (`imap_adapter.py`) | connection, selected mailbox | select, fetch, move, add_keyword, append | an OK means that it happened |
| Backup and restore (`backup.py`) | files in the backup directory, `backups` | `write_verified_backup`, restore | a manifest row implies a verified file; no duplicates |
| Evaluation (`evaluate.py`) | decision and classification caches, batches | cache lookup, batch classification on threads | one answer per candidate; no decision from a stale cache |
| Conditions and protection (`rules.py`) | none | three-valued evaluation | unknown neither matches nor excludes |
| Policy (`policy.py`) | none | winner selection, `resolve_actions` | first match wins, one mutation at most, order of actions |
| Configuration (`config.py`) | none | load and validate | rejects action lists and routes the rest relies on not seeing |
| Classifier adapters (`classifier/`) | HTTP client | classify; System One retries | bounded retries; each answer goes to its message |
| Prompt and parsing (`prompt.py`) | none | build, parse | answers name known payload ids |
| Migrations (`state.py`, `migrations/`) | `schema_version` | apply in order | each is applied once |
| Progress display (`progress.py`) | last painted line, a lock | repaint thread | never blocks the run |
| Domain types, logging, command line | - | keys and fingerprints; redaction; signals, arguments | a signal becomes `KeyboardInterrupt` |

**How they interact.** The command line calls the runner. The runner takes the
task lock, opens the state database, reconciles through the execute module,
scans through the IMAP adapter, and hands the candidates that are live to
evaluation, which calls the rules, the caches and the classifier. The policy
turns a match into a list of actions. The runner answers matched messages whose
fingerprint an earlier run moved away (*restored*), and hands the rest to the
execute module, which talks to the state database, the IMAP adapter and the
backup module. The report reads the database afterwards. Runs of different
tasks, and of one task under different configuration files, share nothing but
the database, the backup directory and the IMAP account.

**What is hard.**

* The database is in autocommit mode: every claim, attempt row, outcome and
  release is a commit of its own, and a `SIGKILL` may come between any two.
* A signal is a `KeyboardInterrupt` in the main thread, so the `finally` clause
  that releases the claim does run, and nothing else of the item.
* A claim outlives its process; only the reconcile pass of the next run of the
  same task may free it, and it identifies claims by way of open attempt rows.
* The mailbox is shared: messages appear, vanish, get flagged, come back under
  a new UID, and a whole mailbox may be renumbered (UIDVALIDITY).
* A reply may be lost after the server has acted.
* Candidates are read once and evaluated for minutes while others act on them.
* A backup takes several steps in the file system and one in the database; a
  renamed file may be lost by a power cut, since its directory is never synced.
* A scan commits the new UIDVALIDITY first and the rows that depend on it later,
  and fetches between its transactions.
* Models answer on worker threads, late, in part, to questions nobody asked, or
  not at all; their answers outlive the run in a cache, and the configuration
  that gave them their meaning may be edited between two runs.

## 2. Modules

| module | what it is |
|---|---|
| `Execute.tla` | the life of a run: lock, reconcile, scan, decide, execute item by item; the faults; the other IMAP clients; its properties |
| `KeyLock.tla` | the abstract lock the claims promise: at most one user per key, survives its holder, is taken only from the dead |
| `Report.tla` | the status the report derives from the attempt rows, and that it is honest |
| `Backup.tla` | verified backups step by step (temporary file, checksum, rename, manifest row), the attempt that asks for one and the mutation it permits, restores; kills, power cuts, I/O errors, decaying files |
| `BackupStore.tla` | the abstract store that `Execute` relies on: a write-once manifest, one row per message and content |
| `Scan.tla` | scans of shared mailboxes by several tasks again and again, the pool of candidates, the fetch of bodies, one action per run |
| `Rules.tla` | condition trees over three-valued logic, what the configuration accepts of rules, the choice of the winner; operators only |
| `Routing.tla` | the depth-first search for cycles of routes; operators only, and recursive |
| `Evaluate.tla` | the evaluate phase: passes, cache, batches on threads, retries, parsing, recording, verdicts; several runs and an edit of the configuration |
| `MCExecute`, `MCBackup`, `MCScan`, `MCEvaluate` | small instances; one `.cfg` per run |
| `ExecuteProofs`, `HistoryProofs`, `MailboxProofs`, `CapProofs`, `OutcomeProofs`, `BackupProofs`, `ScanProofs`, `EvaluateProofs` | the theorems, checked by TLAPS |

`Report` extends `Execute` and `MCExecute` extends `Report`; `Evaluate` extends
`Rules`, and `MCEvaluate` extends `Routing` too; `HistoryProofs`, `MailboxProofs`
and `CapProofs` extend `ExecuteProofs`, and `OutcomeProofs` extends the first two
and `Report`; each other MC or proof module extends the module it is named after.
`Execute` instantiates `KeyLock` as `Claims` with a refinement mapping, `Backup`
instantiates `BackupStore` as `Store` with its variables of the same names. The
four models meet at what one leaves in a table for the next: `Scan` the
candidate rows that `Execute` loads, `Evaluate` the rules that match, `Backup`
the manifest row that `Execute` commits in one step. They are checked apart:
each takes the others' part as any outcome they may have.

### State and actions of `Execute`

| variable | in the program |
|---|---|
| `server` | per key `(account, mailbox, UIDVALIDITY, UID)`, what the IMAP server has there: not yet a message, a message, a message with a protected flag, moved by Liametahi, or gone |
| `ended` | the mailboxes that have another UIDVALIDITY by now; their keys are void |
| `cand` | the `candidates` row: `live`, `retired`, or `superseded` once a scan saw another UIDVALIDITY |
| `backups` | keys with a committed manifest row |
| `routed` | `task_routes` |
| `claim` | the run of the unreleased `key_claims` row |
| `attempt`, `linked` | `action_attempts.state`, and whether `backup_id` is set, per `(run, key, position)` |
| `item` | `result_items.status` |
| `pc`, `key`, `seq`, `final`, `plan`, `taken`, `todo` | where the process is, and the locals of `execute_items`, `_execute_one`, `_run_action_sequence` and `reconcile_task` |

`Holds` maps a key to its fingerprint; two keys with one fingerprint are a
message and the copy its owner put back. `BoxOf` maps it to its mailbox under one
UIDVALIDITY: two of them may be two mailboxes or one before and after it is
renumbered. `Age` is INTERNALDATE. `Source`,
`Actions`, `MaxActions` and `RouteTo` are the configuration, `TaskOf`, `LockOf`,
`DryRun` and `FailFast` say how each run is invoked, and `Faults` what may go wrong.

| actions | in the program |
|---|---|
| `Begin`, `Busy` | the lock is taken and the open rows are fetched; or exit code 5 |
| `CloseRow`, `Unclaim` | one iteration of `reconcile_task`: the row is closed, then the key released; a process may die in between |
| `Scan`, `Load`, `Decide` | scan; read the candidates; evaluate, answer the unmatched and the restored ones, retire the latter |
| `SkipCapped`, `Preview`, `DropUnsupported`, `Claim`, `ClaimRefused` | the head of the loop in `execute_items` and the first lines of `_execute_one`; the preview for a dry run |
| `VerifyOk`, `VerifyVanished`, `VerifyChanged`, `VerifyProtected`, `VerifyError` | the outcomes of `_reverify` |
| `Insert`, `Start`, `DoBackup`, `DoRoute`, `Exists`, `DoLabel`, `DoMove`, `MutationVanished`, `Refused`, `Unsupported`, `Record`, `Retire`, `SequenceDone` | `_run_action_sequence`: insert the row, mark it in flight, act, record the outcome, retire the candidate |
| `Release`, `Finish` | the `finally` clause of `_execute_one`; the end of the run |
| `Crash`, `Interrupt`, `Unwind`, `Abort` | `SIGKILL`; a signal, or an error that no handler catches, within an item, whose `finally` clause still runs; one outside of an item |
| `Arrive`, `Flag`, `Unflag`, `Remove`, `Renumber` | the other IMAP clients and the server; `Renumber` voids all keys of a mailbox at once, also those whose message has left |

### State and actions of `Backup`

| variable | in the program |
|---|---|
| `box` | the keys whose message is in its mailbox |
| `disk`, `unsynced`, `damaged` | the content-addressed files below `backup_dir`; which renames a power cut may undo; which files the environment has harmed |
| `staged`, `sum` | the file in `.tmp` and `sha256` of a call of `write_verified_backup` |
| `manifest`, `restored` | the `backups` rows, their `restored_to` |
| `answer` | what the call returned: a backup id, or `BackupError` |
| `attempt`, `linked` | the `action_attempts` row of the backup and its `backup_id` |
| `target`, `bytes`, `copies`, `changed` | a restore: its row, what it has read, what it has appended; whether its file was harmed after it was verified |

| actions | in the program |
|---|---|
| `Fetch`, `FetchFails`, `Stage`, `StageFails`, `Look`, `Rename`, `RenameFails`, `Clean`, `Find`, `Insert`, `InsertLost` | `write_verified_backup`: the bytes in hand, temporary file and checksum, is the path taken, `os.replace`, the `finally` clause, the lookup and the insert of the row with its uniqueness constraint |
| `Record`, `Mutate` | `execute.py`: the attempt is closed; the action behind the backup |
| `Reconcile` | `_reconcile_backup_row` for a dead call |
| `Check`, `CheckFails`, `Read`, `Append`, `AppendFails`, `Stamp` | `restore_backup`: row, file and checksum; the second read; APPEND; `record_restore` |
| `Kill`, `PowerCut`, `Rot` | the environment |

### State and actions of `Scan`

| variable | in the program |
|---|---|
| `validity`, `was`, `here`, `flagged` | the server: UIDVALIDITY of each mailbox, the message behind each key, which are still there, which have a protected flag |
| `stored` | `mailbox_state.uidvalidity` |
| `row`, `rowflag`, `retired`, `routed` | `candidates`: fingerprint, stored flags, `retired_at`; `task_routes` |
| `turn`, `seen`, `moved`, `fresh`, `known`, `lit`, `saved` | the locals of `scan`: the mailbox it is at, the UIDVALIDITY its connection reported, `uidvalidity_changed`, the UIDs to fetch and to refresh, those with the flag, `total_saved` |
| `subject`, `body` | the candidate a run goes on with and the message whose body it fetched |

| actions | in the program |
|---|---|
| `Start`, `Select`, `Note`, `Search`, `Fetch`, `Save`, `Peek`, `Mark`, `EndScan` | `imap_adapter.scan`, a step for each command to the server and each transaction |
| `Pool` | `_live_candidates`, `_merge_routed_candidates`, the filter on stored flags |
| `FetchBody` | `_fetch_body_texts` over a connection of its own |
| `Act`, `EndRun` | re-verification and outcome of one match; the end of a run |
| `Disconnected`, `Fail` | a connection that is behind a renumbering; kills and other failures |
| `Arrive`, `Remove`, `Flag`, `Renumber` | the other IMAP clients and the server, together with `Fail` `MaxEvents` times |

### State and actions of `Rules` and `Evaluate`

`Rules` has `Verdict` (`rules.evaluate`), `ProcessorNames`, `NestingAllowed`,
`RuleAllowed` and `ActionsAllowed` (the checks of `config.py`), `Winner`
(`policy.decide`); `Routing` has `RoutingAcyclic`. `config.py` accepts no tree
that nests `all`, `any`, `none` and `not` more than three deep, so `Verdict` and
`Leaves` go down three levels, one operator for each, where the code recurs.

| variable | in the program |
|---|---|
| `rules`, `edition` | the task's rule list; which edition of the vocabularies is configured |
| `cache`, `answered` | `processor_decision_cache`; the keys a valid answer has been recorded for |
| `phase`, `reevaluate`, `bodies` | how far the run is, `--reevaluate`, the bodies that were fetched |
| `values`, `usedCache`, `sawInvalid`, `sawMissing` | the fields of `_PendingItem` |
| `toAsk`, `models`, `net`, `noted` | pass 3: the processors to ask per candidate, the models left, per batch of the current model the network half of it and how much of it is recorded |
| `rows`, `result` | the `classifications` rows of this run, a set for each transaction; the `EvaluationResult`s |

`Cand` is the set of candidates and `Place` their order. A batch is a record of
its model, its processors and its set of candidates: `JobsOf` says which batches
there are, `Before` in what order they are submitted, and the position of a
candidate within its batch, `Rank`, is its payload identifier.

| actions | in the program |
|---|---|
| `Start`, `Consult` | bodies; passes 1 and 2: rules on facts alone, then with the cache |
| `NextModel` | `_group_by_model`, the chunks of `batch_size` |
| `Launch`, `Unserved`, `Served` | a worker thread: `_classify_network` with its one split, and the adapter's attempts: retries, the ladder of structured-output levels, parsing |
| `Record` | `_record_attempt`, `_resolve_item`, `_validate_answer` and the writes to the cache, on the thread that owns the database, in submission order |
| `Settle` | `_finalize` |
| `Leave` | the end of the run or its death; `Reconfigure` edits the vocabularies |

### Abstractions, and what they hide

* The existence check (`Exists`) and the MOVE or STORE (`DoMove`, `DoLabel`) are
  two steps. A message that vanishes in between is answered OK and recorded as
  completed, and nobody can tell that another client was first.
* In `Execute`, `write_verified_backup` is one step that commits the manifest
  row; `ImplementsStore` shows that the detailed protocol is such a store.
* In `Execute`, a scan is one step that adds any subset of the new messages,
  which covers any `max_new_mails`; refreshing stored flags is left out, since
  `VerifyProtected` uses fresh flags only. `Scan` has both.
* In `Execute`, `Decide` is one step: evaluation may match any subset, the query for earlier
  moves and the writes of the rows happen together, and protected candidates,
  which the code writes in an earlier transaction, are among the `no_match` ones.
* The rows of one previewed item, and the fetch and the insert of `VerifyOk`,
  are one step each. The rows belong to the run alone.
* The open rows are fetched at `Begin`, together with the lock. Under one lock
  per task no other run changes them in between.
* In `Execute`, a mailbox is renumbered as a whole, and not while a run has an item
  of it in hand. Which UIDs are in use again afterwards is not kept: reconcile,
  the only one to look up a bare UID, may find any of them used or free
  (`Verdicts`).
* A second signal during the `finally` clause is not modelled.
* In `Execute`, bodies and classification are left out. Headers, wording and
  exit codes are left out everywhere.
* In `Backup`, a content stands for its own SHA-256, and the attempt row is
  written and marked in flight in one step; the claims that keep two calls off one message are left out,
  so that the store alone must cope with them. A restore appends to any mailbox.
* In `Scan`, a run goes on with one candidate and does at most one thing to it,
  a route or a move, without claims. A cap is a number; without `max_new_mails`
  it is at least the number of keys. A restart of a run forgets all but the
  tables. Select and the server's answer to it are one step.
* In `Rules`, a deterministic atom is a name that holds of a candidate or not,
  and a probability is 0 or 1. In `Evaluate`, an edition stands for the
  `processor_hash` of each processor, a body text for its part in the input hash,
  and what models may answer is the set `Response`. A processor keeps its model, and
  the prompt its version: the two columns of the cache key that name them
  (`state.py:748`) are constant, so `AnswersAreDeclared` and `AskedOnce` are about
  edits of criteria, fields and vocabularies only. `AskedOnce` is about a candidate
  all of whose questions are on record, see section 5. Token counts, audit events
  and prompts are left out, as are the sender and age protections, which are
  applied before the phase begins: `Pool` is what passes them.

## 3. Model checking

TLC explores the instances of the passing runs completely. `CHECK_DEADLOCK` is
off where the system does stop: each run id of `Execute`, each call of `Backup`
and each of the `MaxRuns` evaluations is one invocation, and when all are over
and no client acts, nothing is left to happen. That nothing gets stuck on the
way is what `RunEnds` and `EvaluationEnds` state. In `Scan` the tasks run for
ever and deadlock is checked.

| run | instance | shows |
|---|---|---|
| `ExecuteCrash` | task A (`backup`, `move`) invoked twice, task B (`label`) at the same time; a message and its copy restored under another key; kills at any step; 2.2 million states | `TypeOK`, `ClaimExclusive`, `OpenRowsAreClaimed`, `CompletedMoveIsTrue`, `RestoredRespected`, `ImplementsKeyLock` |
| `ExecuteFaults` | A (`backup`, `move`) twice, once with `--fail-fast`, B (`move`); one message; every fault: kills, signals, errors, missing capabilities, lost replies, renumbering; 0.9 million states | `MovedHasTrail`, `RetiredIsJustified`, `ReconcileComplete`, `HistoryIsFinal` |
| `ExecuteLive` | A (`backup`, `move`) once for real and once dry, B (`task`, routing to A); `max_actions` 1; two keys; under fairness; 0.2 million states | `RunEnds`, `EveryItemAnswered`, `CapIsExact`, `ReportHonest` |
| `Backup` | two backups of one message and one of another with the same bytes, a restore; every fault but silent corruption; 3.2 million states | `TypeOK`, `ManifestBacked`, `NothingLost`, `RestoreFaithful`, `StampsAreTrue`, `NoLitter`, `ImplementsStore` |
| `Scan` | a task over two mailboxes that takes one message per run and routes mail to a second task, which scans the first mailbox without a cap and moves mail; two messages, two UIDs, two UIDVALIDITY values, two interferences; under fairness; 2.2 million states | `TypeOK`, `RowsAreTrue`, `FetchBounded`, `NoGaps`, `RetiredStays`, `ActsOnOwnBody`, `EveryMailSeen`, `FlagsConverge` |
| `Evaluate` | three candidates, two of them copies of a message with different bodies; a chat model with two threads, batches of two and two levels, and a System One model with one retry; three rule lists, two runs, an edit between them; under fairness; 0.3 million states | `TypeOK`, `AnswersAreDeclared`, `OnlyWhatWasAsked`, `MatchIsCertain`, `RowsInOrder`, `SplitKeepsAll`, `FailureIsTold`, `NoIdleCondition`, `CachedOnItsBody`, `AskedOnce`, `EvaluationEnds` |
| `StaleClaims`, `StolenClaim`, `LostReply`, `CutSequence`, `Renumbered` | one message and one or two faults each | disagreements 1 to 5 of section 5 |
| `Trash` | the instance of `Evaluate` with one other rule list | disagreement 6 |

**Why the bounds are enough to be interesting.** Two runs of one task are the
fewest with a reconcile pass after a death; a third run, of another task, gives
the races for a claim. Two keys of one fingerprint are the fewest for a
restored message, and, with a cap of one, the fewest for a capped item. Two
actions are the fewest for a sequence that can be cut or fail halfway. The
counters `seq` and `taken` are bounded by the action list and the number of
keys; a run id is used once, so no other bound is needed. No symmetry is used:
runs and keys differ in task, age and fingerprint.

Two backups of one message race for a manifest row, and one of another message
with the same bytes races with them for the path; what is in the backup
directory at first is arbitrary. In `Scan` two interferences are enough for a
renumbering after an arrival, for a flag that is set and cleared again or for a
failure after a renumbering, and a cap of one over two mailboxes lets it be
used up in the first. `Uid` and `Validity` bound arrivals and renumberings,
which are disabled once their values are used up. In `Evaluate` the responses
hold a valid item, one that cannot be parsed, a duplicate, an identifier out of
range, a processor that was not asked, a value of the other edition and a
candidate passed over; copies of one message share a fingerprint but not their
bodies. `MCEvaluate` also has TLC compare `RoutingAcyclic` with its definition
over all graphs of three tasks.

**What the instances leave out.** In `ExecuteCrash` only A moves. If two tasks
both move copies of a message, `RestoredRespected` fails: from the MOVE to the
commit of its outcome the second task finds no completed move and does not
know the copy is a restored one. That is the price of a record that follows
the effect; the hazard list says so. `ImplementsKeyLock`, `ClaimExclusive` and
`OpenRowsAreClaimed` do not hold with signals (finding 2), nor
`CompletedMoveIsTrue` with renumbering (finding 5), nor `RestoredRespected`
with lost replies (finding 3) or renumbering (finding 5), nor `ReportHonest` with kills (finding 4): each
pass run has the faults under which its properties hold, each violation run
the smallest fault that breaks one. `Backup` leaves out silent corruption
(section 5), under which a manifest row may be for bytes the message never had.
A file that a power cut took away or that decayed is `damaged`, and
`ManifestBacked` and `NothingLost` speak of the others; `RestoreFaithful` speaks of
restores whose file was not harmed between the check of its digest and the second
read. Those two windows are allowed for, not excluded. So is a second copy of a
message, when a restore is killed after its APPEND and repeated: the code does not
look whether a row is stamped, and `StampsAreTrue` says only that a stamp has a copy.

**Fairness.** `FairSpec` has weak fairness of `Working(r)`, the steps that a
*started* process takes by itself. Such a process is a sequential program that
waits for nobody: claims and the lock fail at once instead of blocking (the
polling wait for the lock precedes `Begin`), and its IMAP and HTTP calls have
timeouts. Nothing forces a process to be started, a client to act, or a call to
fail: failures are not part of `Step`, so liveness never leans on them.

`Scan!FairSpec` has weak fairness of `Running(t)` for each task: a scheduler
starts every task again and again, which is how the program is meant to be
used, and a started run goes on. Interference is not fair, and there is only
`MaxEvents` of it, so that "in the end" means: once the mailboxes are left
alone. `Disconnected` is part of `Running` because a command on a connection
that is behind must fail. `Evaluate!FairSpec` has weak fairness of the thread
that owns the database and of the worker threads as a whole: a request ends, if
need be by the timeout of its client. No run is forced to start.

## 4. Proofs

### `ExecuteProofs`

It holds for any number of runs, tasks, keys and fingerprints, any
sources, ages, caps and action lists with at most one mutation (what
`config.py` enforces), and any set of faults, apart from the assumptions a
theorem names. TLC evaluates `TasksAssumption`, `KeysAssumption` and
`RunsAssumption` in each run.

| theorem | states | assumes besides |
|---|---|---|
| `TypeCorrect` | `Spec => []TypeOK` | - |
| `ClaimsExclude` | `Spec => []ClaimExclusive` | `OneLockPerTask`, no interrupts |
| `OpenRowsStayClaimed` | `Spec => []OpenRowsAreClaimed` | `OneLockPerTask`, no interrupts |
| `ClaimsImplementKeyLock` | `Spec => ImplementsKeyLock` | `OneLockPerTask`, no interrupts |

An interrupt is whatever leaves an item as an exception once its first attempt
is written, so that the claim is released and the row stays open: a signal, but
also an error of the database, which no handler of the item catches. Kills,
server errors and failures of actions are not interrupts.

`OneLockPerTask` says that all runs of a task use one configuration file: the
lock file's name is derived from its path. Both assumptions are needed: finding
2 is the counterexample with signals, and under two lock files reconcile takes
the rows of a live run for those of a dead one.

**The argument.** `ClaimExclusive` is not inductive: to know that two runs are
not at one key one must know that a run within an item *has the claim* of its
key (`HeldIsClaimed`). The only step of another run that could take the claim
away is `Unclaim`, which does not look at the holder. It is safe
(`UnclaimIsSafe`) since the claim's run is dead and no open row is left on the
key, which is known because

* the row just closed was open, and an open row has its claim (`OpenRowsAreClaimed`);
* the rows reconcile works on are those of dead runs of its own task
  (`TodoIsDead`), which it owes to an open row having its run at the cursor or
  dead (`OpenRowsHaveCause`) and to the lock (`OneRunPerLock`);
* a run leaves at most one open row (`OneOpenRowPerRun`), so closing it settles
  the key.

`ClaimInv` is the conjunction of these with `TypeOK` and `Located` (a run that
works on a key has one, with its cursor within the action list). Three lemmas
carry the induction step: `HoldingStep` for the steps within an item,
`OutsideStep` for those outside, and `NextClaims`, with one step for each
action. `OldestIsIn`, that the next item is one of those left, is by
well-founded induction on `Age`. The refinement maps `holder` to `claim`,
`using` to the key of a run within its item and `dead` to the killed runs.
`Claim` is `Acquire`, `Release` and `Unwind` are `Leave`, `Crash` is `Die`,
`Unclaim` is `Reap`, everything else stutters.

### `HistoryProofs`

About `Execute` again, for any set of faults: signals, lost replies and
renumberings included.

| theorem | states | assumes besides |
|---|---|---|
| `HistoryStaysFinal` | `Spec => HistoryIsFinal` | `OneLockPerTask` |
| `ReconcileLeavesNothingOpen` | `Spec => []ReconcileComplete` | `OneLockPerTask` |
| `MovesLeaveATrail` | `Spec => []MovedHasTrail` | `OneLockPerTask` |

**The argument.** `ClaimInv` is no use here, since a signal breaks it. `HistInv`
says of each run instead what it owes to its own control flow and to the lock:
`Unwritten`, that there is no row of an item it has still to take and none
behind its cursor, so that `Insert` and `Preview` overwrite nothing; `AtCursor`,
the state of the row under the cursor; `InSequence`, that as long as no action
has failed everything ahead of the cursor is completed, a backup with its
manifest, which is the trail a move leaves; and `Reconciles`, that the rows
reconcile has before it are open, of runs that are over, and, until it is done,
all the open rows of its task. `RunStep` says once what a step of one run leaves
true of the others; `ItemStep`, `OutsideItemStep`, `EndStep` and `OutcomeStep`
specialise it to the kinds of steps, and each step that writes rows has a lemma
of its own. `CloseStep` is the one that writes rows of another run; the lock
makes sure that this run is over and that nobody else reconciles the task.

### `MailboxProofs`

What `Execute` believes of the mailbox, for any set of faults and whatever the
lock files.

| theorem | states | assumes besides |
|---|---|---|
| `RetiredMeansGone` | `Spec => []RetiredIsJustified` | - |
| `CompletedMovesAreTrue` | `Spec => []CompletedMoveIsTrue` | no renumbering |

**The argument.** An IMAP key that was used is not used again, so what has left
stays away. `MailInv` says that whatever has a candidate row was on the server
(`Seen`), that what a run holds, plans or has recorded has a candidate row
(`Known`), that a run on its way to retire a candidate, or to write what makes
it do so, has seen the message leave (`LeftIsGone`), that a candidate reported
restored is not taken up by that run (`RestoredApart`), and that a completed
move has left its key (`MovesAreReal`). Finding 5 shows why the second theorem
excludes renumbering.

### `CapProofs`

The action cap, for any cap, any number of tasks and messages, and every fault.

| theorem | states | assumes besides |
|---|---|---|
| `CapStaysExact` | `Spec => []CapIsExact` | - |

**The argument.** A run that dies with an item in hand has counted it and may
not have answered it, so the counter and the answers agree only when the item in
hand is counted too (`Counted`). `CapInv` says that of a run that goes on
(`Counts`), that what is left to do has no answer yet (`Answers`), and that
items are taken oldest first and capped only once the cap is used up
(`Ordered`). A step counts nothing new (`SameStep`), takes up the oldest item
left (`MoreStep`) or ends the process, which can only lower the count
(`LastStep`).

### `BackupProofs`

It holds for any number of calls, restores, messages and contents, any files at
the start and any set of faults, apart from the assumption named.

| theorem | states | assumes besides |
|---|---|---|
| `TypeCorrect` | `Spec => []TypeOK` | - |
| `RowsAreBacked` | `Spec => []ManifestBacked` | - |
| `GoneIsBackedUp` | `Spec => []NothingLost` | no silent corruption |
| `RestoresAreFaithful` | `Spec => []RestoreFaithful` | - |
| `StampsHaveCause` | `Spec => []StampsAreTrue` | - |
| `OnlyTheDeadLitter` | `Spec => []NoLitter` | - |
| `FilesImplementStore` | `Spec => ImplementsStore` | - |

**The argument.** That a manifest row is backed is not inductive: `Insert` does
not look at the file. `Protocol` carries what the earlier steps of the call have
established to it: from `Clean` on, a call that has not failed has put its bytes
at the path or found them there, and nothing but the environment, which marks
the path as damaged, takes them away, since every other call that renames to
this path brings the same bytes. `Manifested`, `Attempted` and `Restored` say
the same of the rows, of the answers on which a message is removed and of the
restores. `TrueBytes`, that a checksum is that of the message, is an invariant of
its own that needs the assumption, and only `GoneIsBackedUp` rests on it. For
the refinement, `SavingStores` shows that `Insert` is `Save`, that `Find` and
`InsertLost` are `Reuse`, that the error steps are `Fail`, and that everything
else stutters; an answer that is given is never changed.

### `ScanProofs`

It holds for any number of tasks, mailboxes, messages, UIDs, renumberings, any
caps, sources and routes, and any amount of interference.

| theorem | states |
|---|---|
| `TypeCorrect` | `Spec => []TypeOK` |
| `RowsStayTrue` | `Spec => []RowsAreTrue` |
| `FetchStaysBounded` | `Spec => []FetchBounded` |
| `CapLeavesNoGaps` | `Spec => []NoGaps` |
| `RetirementIsFinal` | `Spec => RetiredStays` |
| `BodiesAreOwn` | `Spec => ActsOnOwnBody` |

**The argument.** `IInv` adds to the type invariant, `RowsAreTrue` and `NoGaps`:
`Served`, that what is in a mailbox has a key of its present UIDVALIDITY and no
key is used ahead of it; `Reading(t)`, that the UIDs a scan has fetched are
within its cap and leave no gap below them; and `Judging(t)`, that the body in
hand is that of the candidate, or of the message that has its UID under a later
UIDVALIDITY. The last is why a wrong body does no harm: `Act` asks for the
UIDVALIDITY of the key, which excludes a later one. `LowestBounded` and `LowestFirst` are the facts about
the cut by UID, by cardinality of the sets of smaller UIDs; `RoomToRenumber`
says that a renumbered mailbox has UIDs enough; `StillGrown` and `JudgingStands`
carry a run's facts over the steps of the others.

### `OutcomeProofs`

What becomes of an item in the end, across runs. It rests on `HistoryProofs` and
`MailboxProofs`.

| theorem | states | assumes besides |
|---|---|---|
| `ReportStaysHonest` | `Spec => []ReportHonest` | no kills, no interrupts |
| `RestoredStaysPut` | `Spec => []RestoredRespected` | `OneLockPerTask`, `OneMover`, `Heard`, `NeverRenumbered` |

**The argument.** What the report reads are the rows that exist, so `ReportHonest`
needs that none is missing: `Written` says that an item whose result is pending
has a row for each action, or is the one in hand, with rows up to the cursor.
The run `CutSequence` shows why a kill is excluded; an interrupt cuts a sequence
the same way. Failures of actions and server errors are not excluded.

`RestoredRespected` relates a row, perhaps of a dead run, to what the mailbox
holds under another key. `RestInv` adds to `HistInv` and `MailInv` that a message
is not there twice (`NoTwin`), that a move that was made is on record as
completed or will be, by its run or by the next reconcile pass (`MovedOnRecord`),
and that nothing a run has yet to move was moved before (`NotMovedBefore`). The
last holds from `Decide` on, which has looked at the record, since whoever moves
is of the same task and hence not at work at the same time. Kills and signals may
occur anywhere. The assumptions are where it would break:

* `Heard`: no reply to a MOVE is lost (the run `LostReply`), and no server error
  meets the reconcile pass, which closes a row as failed when it cannot look
  (`execute.py:763-767`), whatever happened to the message;
* `OneMover`: the runs that move are of one task. A second task that moves too
  may decide between the MOVE of the first and the commit of its outcome;
* `NeverRenumbered`: a run is killed after the MOVE, the mailbox is renumbered and
  the UID is in use again, reconcile takes the move for failed, and the message,
  restored by its owner, is moved again (finding 5).

The instances of `ExecuteLive` and `ExecuteCrash` satisfy the assumptions of the
two theorems and have TLC check the same properties.

### `EvaluateProofs`

It holds for any candidates, processors, models, batch sizes, ladders, retries,
threads and rule lists, and whatever `Response` a model may give; the cache
outlives kills and edits of the configuration.

| theorem | states |
|---|---|
| `Typed` | `Spec => []TypeOK` |
| `SplittingKeepsAll` | `Spec => []SplitKeepsAll` |
| `OnlyDeclaredAnswers` | `Spec => []AnswersAreDeclared` |
| `NothingUnasked` | `Spec => []OnlyWhatWasAsked` |
| `CachingNeedsTheBody` | `Spec => CachedOnItsBody` |
| `NothingAskedTwice` | `Spec => AskedOnce` |
| `RowsComeInOrder` | `Spec => []RowsInOrder` |
| `FailuresAreTold` | `Spec => []FailureIsTold` |
| `MatchesAreCertain` | `Spec => []MatchIsCertain` |
| `NoConditionIsIdle` | `Spec => []NoIdleCondition` |

They need no assumption but those of the modules: that the candidates are
finitely many and in an order, that the sizes are positive, that a System One
model is asked about one candidate at a time, and that answers are typed.

**The argument** has three layers, each an invariant that uses those before it.

* `NetInv`, of the worker threads: a batch is one of those `JobsOf` has for its
  model, and `OnTrack`, that what came back and what is left of it are the batch
  as a whole or its two halves (`Split`). `AfterContinues`, `DegradeContinues` and
  `RetryContinues` say that whatever the end of a call it leaves a batch on
  track and does not touch what came back. `HalvesMakeUp` and
  `BatchHasSize` are the facts on halving and cutting by rank.
* `DataInv`, of the cache and the answers: each cached answer is valid *for the
  edition in its key*, which is what makes an edit between two runs harmless;
  whatever was answered is in the cache; what is known of or asked about a
  candidate is named by its undecided rules.
* `AuditInv`, of rows and failures. `RowsInOrder` is not inductive: one must know
  that what is recorded of the current model comes before all that is not
  (`NotedFirst`), and that a row is of a batch that has been recorded in part
  (`RowsAreNoted`). For `FailureIsTold`, `NobodyForgotten` says that a question
  is still to be put, or is in a batch of which nothing about its candidate is
  recorded, or was answered validly, or is known to have failed.

`VerdictRefines` carries `MatchesAreCertain`: with more answers a verdict stays
what it was or was unknown. It goes up the tree level by level, with
`CombinedRefines` for the four operators; that there are three levels is what
the configuration checks. It also gives `NeededShrinks`, that answers only ever
leave fewer processors to ask.

### Only model-checked

Liveness (`RunEnds`, `EveryItemAnswered`, `EveryMailSeen`, `FlagsConverge`,
`EvaluationEnds`), since fairness and ENABLED are out of the prover's reach, and
the search for cycles of routes, since `Routing` is RECURSIVE and what it computes
is a matter of induction over data. All other properties of the passing runs
are proved. `ClaimExclusive`, `OpenRowsAreClaimed`, `CompletedMoveIsTrue`,
`ReportHonest` and `RestoredRespected` are proved without the faults that
break them, which the violation runs show.

## 5. Where the code and its documentation disagree

1. **`StaleClaims`.** A kill after `claim_key` and before the first attempt
   row, or after the last outcome and before `release_key`, leaves a claim that
   no open row points to. Reconcile never frees it and every later run answers
   `claimed_by_other_run` (`execute.py:262`, `src/docs/internals.md:107-108`).
2. **`StolenClaim`.** A signal within an action releases the claim and leaves
   the row in flight. When another task has claimed the key by the next
   reconcile pass, that pass releases a live run's claim
   (`execute.py:687-689`, `execute.py:715`, `state.py:854-855`).
3. **`LostReply`.** A move whose reply is lost is recorded failed, and a
   message its owner restores is moved again (`execute.py:627`,
   `src/docs/internals.md:124`).
4. **`CutSequence`.** A kill between two actions leaves completed rows only,
   and the report shows the item as completed (`report.py:136-139`).
5. **`Renumbered`.** Reconcile compares the UID and not the UIDVALIDITY, and
   takes an old UID's absence for a completed move (`execute.py:754-765`). The
   opposite happens too: a UID in use again makes a move that was made a failed
   one, and the message, if its owner restores it, is moved once more. TLC finds
   it when the configuration is given two keys, each in a mailbox of its own,
   `Actions <- MoveOnly` and the property `RestoredRespected`.
6. **`Trash`.** A rule with `trash` must hold a deterministic atom somewhere in
   its tree, not one it depends on: with `any:` the answer of a model alone
   deletes (`config.py:569`, `src/docs/configuration.md:167-169`).

Three more are stated as invariants in the modules and belong to no run of
their own; TLC finds each violated when the configuration named is given it as
its only property:

* `Backup!FailedMeansNoRow`, `Backup.cfg` with `Faults = {"kill"}`: reconcile
  asks whether a backup has its manifest row by a column that is only written
  afterwards, so the branch that closes a backup as completed is never taken
  (`execute.py:734-739`). Nothing is lost: the next run reuses the row.
* `Backup!CorruptionCaught`, `Backup.cfg` with `Faults = {"silent_corruption"}`
  and a second content: only the number of bytes on disk is compared with what
  was fetched, the checksum with nothing (`backup.py:182-189`).
* `Scan!BodyIsItsOwn`, `Scan.cfg`: the body fetch compares the UIDVALIDITY with
  the table and not with the key of the candidate. When the scan of another
  task has recorded a renumbering since, a model is shown the body of another
  message (`runner.py:987-996`). The re-verification stops the mutation
  (`ActsOnOwnBody`, proved).

Smaller ones, seen while modelling: a power cut may undo a
rename whose directory was not synced, while the manifest row stays
(`backup.py:210`; the file counts as `damaged` in the model). Pass 3 asks a
processor that needs the body even when there is none, if another of the
candidate can be asked, and again asks those the cache has answered, as long as a
rule of theirs is undecided (the docstrings in `evaluate.py:266-270` and
`393-395` read otherwise). A result is `cached_no_match` as soon as one answer came
from the cache, not only when all did (`evaluate.py:186-187`). The check of
the cap in the saving loop can never bite (`imap_adapter.py:1003-1005`;
`FetchBounded` says why). Flags of later mailboxes are not refreshed in a run
whose cap is used up earlier. A comparand that is not a string is not checked
against the options of its processor (`config.py:916`), so that `choice.value == 1`
loads, though the docstring has it that a `.value` comparand must name a declared
option (`config.py:880-882`); `NoIdleCondition` is about names for that reason.

## 6. Not modelled, and the plan

* **Migrations, the progress display, logging and redaction** are not modelled:
  each migration is one script within BEGIN and COMMIT, left to SQLite; the
  display only paints; redaction has no state.
* **Text and wire formats**: building prompts and payloads, excerpts of bodies,
  parsing headers and IMAP responses, YAML. They are conversions without state;
  of the parsers, the model has which items are kept and which are told to be
  invalid.
* **Configuration**: the rules on condition trees, actions and routes are in
  `Rules` and `Routing`; defaults, paths, accounts and credentials are not.
* **The System One adapter's** waits between retries and the token counts of all
  adapters.

What is left, the most important first:

1. A run of `Execute` with two lock files for one task (`locks.py:42`), and the
   polling wait for the lock with its deadline (`locks.py:88`).
2. `RestoredRespected` with two tasks that move: what a record ahead of the MOVE
   would have to say for it to hold.
