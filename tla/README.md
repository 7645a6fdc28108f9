# Verification of the Docker Maintenance Center

TLA+ specifications of the Docker Maintenance Center, model-checked with TLC, whose
safety properties are proved with TLAPS. The source is the reference: every definition
is translated from the lines PROJECT.json ("map") gives for it.

The program updates Docker Compose projects on a host, by hand or on a schedule.
Its promise is one of restraint: at most one business operation at a time, none on
top of one whose result is not known, one automatic retry after a failure, and no
result recorded that the host cannot vouch for. That promise has to hold over
crashes of the controller, dead root workers, lost and late answers, and
administrators who change everything in between.

## 1. The system

| Part | Source | State it keeps | Operations |
|---|---|---|---|
| Core | `maintenance_center/core.py` | `state.sqlite3`: gate, schedule and its revision, pauses with their retry, operations, reports, audit; in memory: execution lock, approvals | configure, resume, prepare, approve, reject, run a round, reconcile, restart |
| ProjectManagement | `project_management.py` | `registry_changes`, `initial_checks` | enroll, configure and remove projects, reconcile a change, first checks |
| ManagedGateway, SSHTransport | `managed_gateway.py`, `gateway.py` | a copy of the host's registry (memory); the ssh child | list, plan, apply, operation status, health |
| scheduler, web | `scheduler.py`, `web.py` | none of their own | wake rounds and first checks; serve requests |
| Registry (host) | `host/project_registry.py` | `registry.json`, previews, plans, operation records, receipts, execution files, lock files | preview, enroll, configure, remove, plan, apply |
| host_gateway, active_dispatch | `host/host_gateway.py`, `host/active_dispatch.py` | none | start the root worker of a request and relay its answer |
| recover | `host/recover.py` | reads and settles operation records | review and resolve an unknown operation |
| Backup | `maintenance_center/backup.py` | slots `current` and `previous` | rotate a verified snapshot of the stopped service |
| Notices | `notices.py` | outbox, cursors over audit rows and reports, the last notice of each topic | collect events and reports, hand them to Telegram |
| Telegram store, control, runtime | `telegram_*.py` | bot token and binding with a revision; binding code, waiting buttons, polling session and offset in memory | bind, commands, buttons, delivery |
| Auth | `auth.py` | accounts, sessions, attempts | login, sessions, recovery codes |
| ShadowObserver, RuntimeConfig, migration, demo, metadata, diagnostics, views | remaining files | own files, or none | read-only observation, parsing, rendering, one-shot import |
| install, host_config, compose_inputs | `host/*.py` | none | first installation, path checks, parsing |

**How they interact.** Web requests, Telegram commands and the scheduler's thread
call Core in one process. Two locks order them: `_execution`, always taken without
waiting, makes rounds, approvals, reconciliations, registry changes and first checks
exclusive; `_db_lock` makes each database transaction atomic. Everything the holder
of `_execution` reads may change at its next transaction, because configure, resume,
reject and the first half of a manual check take only `_db_lock`. Core reaches the
host by ssh. A request that times out ends the local ssh, not the root worker behind
it. The worker takes the host's locks, also without waiting, and hands their
descriptors to the commands it starts.

The chat is a coroutine of the web process: a tick every two seconds connects to the
bot, polls, handles a batch of updates, collects what the controller's log has that is
new and delivers it. Its lock is held for the whole tick, and the web page takes it for
every change of token or binding; the controller itself goes on beside it, so the log
grows between any two statements of a collection.

**What is hard, and what makes each part correct.**

- *Core*: an open gate means nothing is unresolved; approvals are of this gate and
  revision; plans are executed once; a retry is spent once, also when the process
  dies in it; the report of a round tells what the round did; the lock is given back.
- *ProjectManagement*: a change is completed only if the host made it; the catalog
  that authorises writes is the host's registry; removed projects leave schedule,
  approvals and queue; a first check tells what became of its operation.
- *Host*: an update is on record before the business is touched, and stays on record
  as unknown while anything of it is alive; "failed" is said of an untouched business
  only; one unknown operation freezes the host until an administrator settles it.
- *Both together*: whatever is lost or late, what the controller records is true of
  the business, for good.
- *Backup*: trying to make a backup never costs the one there is.
- *Notices*: the last word on every failure reaches the chat; nothing is told twice or
  out of order; a round's summary comes before what happened in it.
- *Telegram*: a keyboard acts once and for the bound administrator only; an update of
  another session is never carried out; a binding code dies with its settings.

The list of hazards, each with its line and the properties that watch it, is in
PROJECT.json.

## 2. Modules

| Module | What it is |
|---|---|
| `Core` | the controller: 15 variables, one action per step between two transactions |
| `CoreProperties` | its invariants, action properties and liveness |
| `OperationLedger` | abstract: an append-only table of operations, one open at a time |
| `CoreProofs`, `RoundProofs` | TLAPS proofs about `Core`: gate, approvals, the ledger and plans; rounds, their reports and retries |
| `Management`, `ManagementProperties`, `ManagementProofs` | EXTENDS `Core`: registry changes, first checks, the host's registry and the wire; proofs |
| `HostLedger` | abstract: what the host promises about updates |
| `HostRegistry`, `HostProperties`, `HostProofs` | the root worker and the review tool, in detail; proved to implement `HostLedger` |
| `System`, `SystemProperties`, `SystemProofs` | `Core` in front of `HostLedger`, with lost, late and declined requests; proofs |
| `Backup`, `BackupProperties`, `BackupProofs` | slot rotation, and the proofs of its properties |
| `Notices`, `NoticesProperties`, `NoticesProofs` | the outbox between the controller's log and the chat, and proofs |
| `Telegram`, `TelegramProperties`, `TelegramProofs` | settings, buttons, polling and handling of updates, and proofs |
| `MCCore`, `MCManagement`, `MCHost`, `MCSystem`, `MCBackup`, `MCNotices`, `MCTelegram` | symmetry sets for TLC; one `.cfg` per run |

`System` is built on the abstract host and not on `HostRegistry`: the refinement,
checked by run `host` and proved in `HostProofs`, carries its results over to the
detailed host, and the composed state space stays small. Operators named `Bug_...` are not part of the
model: each is a faulty variant of the definition that follows it, with which some
property must fail.

### Core and the code

The holder of `_execution` is the record `worker`: `job` is the method that took the
lock, `pc` the place it has reached, the rest its local variables. A transaction or a
gateway call is one action. `Claim` is the dispatch transaction of `_apply` with all
that it reads again, `ApplyReturns` its second transaction (result, gate, pause,
report item) and what the caller does next; `LoopProject`, `PlanFound`, `PlanNone`,
`PlanBroken` with `ChecksStop` (two transactions) and the `Retry...` actions are an
iteration of `run_due`; `rec_start`
and `rec` are `_reconcile_locked`, whose return address is `worker.ret`, since a
round calls it before its start, between two projects and at its end. `Configure`,
`Resume`, `Reject`, `Prepare` and `Prepared` are transactions of other threads and
interleave with all of it. `Crash` forgets memory, `Restart` is the constructor, and
the boot job is the reconciliation that the web application waits for before it
serves anything.

Left out on purpose: audit rows other than `retry_exhausted`, captured logs, version
texts; time other than "the schedule is due" (a plan may have expired at every check);
the host answers anything its type allows. The adapter is always compose, so the
actions accept, rollback and restart, which the host does not offer, do not occur.

### Management

The registry of the host is a variable of its own (`registry`, `hostRev`), the
controller's copy is `catalog` and `seen`. One request is on the `wire`; the host may
carry it out after the controller has given it up (`HostApplies` needs no one to
wait for it). `CommitChange` is the whole of `_commit`: it moves change, schedule,
revision, first checks, pause and approvals in one transaction. The actions of `Core`
are reused, widened where the code does more: the restart refreshes the catalog and
fails checks that were claimed but not dispatched, a claim links the check to its
operation, a reconciliation settles pending changes first and open checks last.

### HostRegistry and HostLedger

`worker` is the lock holder; `child` is a compose command, which keeps the inherited
lock descriptors when its worker dies (`Locked`). An update goes through `ApplyStart`
(checks, consume the plan), `ApplyRecord` (unknown and receipt on disk), `ApplyPrepare`
(pull, compare, inspect again, freeze the execution), `ApplyRecreate` (the boundary
after which nothing is known to be untouched), `ComposeEnds` and `ApplyFinish`; it may
be refused, fail or die at every step. `Drift` and `Health` are the owner of the
deployment at work at any time; `stale` remembers, for `StaleUntouched`, which plans the
deployment has moved away from (`Outdated`), by an edit or by another update. `Review` and `Resolve` are recover.py, whose digest
binds the resolution to exactly what was reviewed. `HostLedger` keeps of all this the
record, who is busy, and which operations reached the business.

### System

`SysClaim` sends the apply request of a dispatch. From there the host may begin it at
once, much later, or decline it, with a code that rules an execution out (`declined`)
or with one that does not. `SysReturns` is the mapping of answers in `apply_plan`;
`SysReconcileMatched` counts an answer only for the operation it names. Requests that
cannot change an operation at the host stay as free as in `Core`.

### Backup

`dir` is the directory as programs see it, `disk` what survives a loss of power;
`Sync` makes them equal. Every step of `snapshot` may be the last one (`Fail`,
`PowerLoss`), removing a slot goes through a broken slot, and slots may decay
(`Damage`) at any time but between the verification of one slot and the removal of
the other, which no program could cover.

### Notices

The controller is reduced to what the outbox reads: `ops`, `pause`, `rounds` (the rows
of schedule_reports), `listed` (the projects enrolled), `gate` and the audit `log`. A
removal takes a project from the list and drops its pause in a step of its own (`Delists`,
`Forgets`), and it may be enrolled again (`Relists`). `CollectReads` is what `collect` reads
of it under the controller's lock, `CollectWrites` its transaction on the outbox, and the
controller may act between the two. `Taken` and `Rows` are the bounds on reports and rows
and the rule that the scan stops before a row of a round that is still open (`Held`).
`outbox` is a table: a notice under each id, where a new row gets the id after the largest
in use, so ids of deleted rows are used again. What the transaction does is a recursive
function over the reports (`Summarised`) and then the rows (`Collected`), each value the
store after one more of them: `TakeReport` adds a summary, `ConsumeRow` is `_enqueue`
with its signature, its replacement of a waiting notice of the same topic and its renewal
after a day. `Sends` and `Deletes` are one delivery; a crash between them sends again.
`days` lets notices grow old; `eve` remembers which rows were consumed before.

### Telegram

`job` is the tick: where it is (`at`), the batch it works off (a set: the server returns
it in the order of the numbers, so the smallest comes first), the update it is at
(`now`), for whom it acts (`by`) and the revision it has compared (`rev`). An await is
a boundary between two actions. The server is part of the model: it keeps an update
until a poll acknowledges it and gives `get_updates(-1)` its meaning, so a batch that
was cut short, a lost acknowledgement and a restart deliver again. `shown` is what the
chats show: any button there may be pressed at any time, however old. `Web` are the
four requests of the settings page; they need `job.at = "idle"` because both sides take
the runtime's lock. What a button does to the controller is not part of the module: it
is one call of Core, which has its own.

## 3. Runs

Deadlock is checked in every run but `notices` and `telegram`, whose histories are
bounded: when the bounds are used up, nothing is left to happen.

| Run | Instance | What it shows |
|---|---|---|
| `core_rounds` | 2 projects, auto, 2 schedule changes, 3 plans, no manual checks | types; `ReportHonest`; `OpenReportOwned`; `SpentStaysSpent`; `ScheduleObeyed`; Core implements `OperationLedger` |
| `core_retry_notice`, `core_retry_audit` | 1 project, auto, 2 changes, 2 plans | findings 1 and 2 |
| `management` | 2 projects, 1 request thread, all policies, 2 registry changes, 1 plan | `ReadyMeansResolved`, `PlansAreCurrent`, `TokenOnce`, `OneChangeOpen`, `CompletedIsReal`, `CatalogIsRegistry`, `ApprovalsServed`, `QueuedServed`, `CheckTellsOperation`, `CheckOnlyAdvances` |
| `mgmt_live` | 1 project, 2 policies, 1 schedule change, 2 registry changes, 1 plan, fairness | `TargetsServed`; `ExecutionReleased`, `PlanningGateLifted`, `ChecksServed` |
| `mgmt_list` | 1 project, 1 registry change | finding 3 |
| `host` | 2 projects, 2 tokens, 1 registry change, 2 drifts | types; `OnRecordWhileWorking`, `UnclearFreezes`, `StaleUntouched`; implements `HostLedger` |
| `system` | 2 projects, 2 plans, 1 schedule change | `SucceededIsReal`, `FailedIsUntouched`, `NoLateMutation`, `NoOverlap` |
| `system_review` | 1 project, 1 plan, 1 schedule change | finding 4 |
| `backup` | 2 databases, 3 writes each, 2 decays | `VerifiedIsCurrent`, `BackupNeverLost` |
| `notices` | 1 project, 2 operations, 1 round, 3 log rows, a day, a restart or removals, fairness | types; `SummaryFirst`, `FailureTold`, `ToldInOrder`; `AllTold` |
| `telegram` | 2 users, 2 bots, 2 changes, 3 updates, 2 keyboards, 1 restart | `ActsForAdmin`, `ActsOnce`, `HandledOnce`, `CodeCurrent` |

**Bounds.** Two projects are needed and enough for one project's trouble to meet
another one's turn; a third would repeat the second. A retry takes one plan to fail
and one for the retry, a third shows what comes after it. One schedule change turns
the schedule on, a second one disturbs a round. Two registry changes are enrolment and
removal, or removal and enrolment again of a project that was there at the start, the
case in which an older first check is still on record. In `management` the schedule
stays as it was, so the plan is a manual one or that of a first check: what rounds do
beside it is the matter of `core_rounds` and, beside registry changes, of `mgmt_live`.
At the host one preview and one plan, or two plans, fill two tokens; the second drift
is one that happens after an update. No bound limits crashes, restarts,
reconciliations, rounds, checks or failures of these runs. `core_rounds` has no manual
updates: that a manual update gives no failure a second retry is proved (`OneRetry`), not
checked. The types of `Management` are proved (`RegistrationTypes`) too and checked in
no run.

In `notices` a collection takes one report and two rows, not 20 and 500, so that a
collection is cut short in three rows. Two operations are a failure and what
supersedes it, or two failures, the second perhaps after the day has passed. `MaxTrouble`
makes it a day, a restart or removals, no two of them: the invariants are proved without that
bound, for `AllTold` it is the size that can be checked. One round is enough for an event that must wait for its summary, three
rows for one that is left to the next collection, one day for a topic to be renewed.
In `telegram` a third update is the one behind a batch that was cut short, the second
keyboard is the one that replaces a pressed one, and two changes of the web page are a code
and the change that makes it worthless, before or after which a chat is bound.

Projects, users, bots and databases are interchangeable and taken under symmetry,
except in `mgmt_live` and `notices`, which have one project and check liveness.

`management` and `mgmt_live` set `ListMayBeRefused` to FALSE: the host then never
answers a change and refuses the list right after it. The answer TRUE breaks
`CatalogIsRegistry` for the reason given in finding 3, which `mgmt_list` shows on its
own; the other properties are about what remains.

**Fairness.** In `mgmt_live`: the lock holder takes its next step, since every gateway
call ends (180 s, 25200 s for an apply). The process is started again after it died.
The clock moves. The scheduler wakes every 30 s and finds a due round. A first check
that is waiting again and again gets its turn (strong fairness of `InitialClaim`): one
job of the scheduler runs the queue and then the round, so the lock is free for the
queue at every wake-up at which no request holds it. Nothing is assumed of the
gateway's answers, of reconciliation by hand or of any administrator.
`PlanningGateLifted` says the gate does not stay closed with that reason; a
reconciliation that finds the host unreachable leaves "reconciling", which the next
due round tries to lift again.

In `notices`: the tick goes on (every two seconds another one begins), and a send
succeeds if it is tried again and again (strong fairness of `Sends`: Telegram comes
back and a chat is bound). `AllTold` also presumes that no round stays open for ever,
which the next reconciliation of the controller provides for. It looks at the last message
the chat got about a project's updates: while they go on failing, that message is about one
of the failures since the last success, not about an earlier one, and once a day has passed
a failure of the new day is told again.

## 4. Proofs

Everything here holds for any sets of projects, threads, policies, users, bots and
databases, and for any bounds.

| Module | Theorem | States |
|---|---|---|
| `CoreProofs` | `TypeCorrect` | `Spec => []TypeOK` |
| | `GateSafe` | `Spec => []ReadyMeansResolved` |
| | `ApprovalsCurrent` | `Spec => []PlansAreCurrent` |
| | `ImplementsLedger` | `Spec => LedgerSpec`, the refinement of `OperationLedger` |
| | `ExecutedOnce` | `Spec => []TokenOnce` |
| `RoundProofs` | `OneRetry` | `Spec => SpentStaysSpent` |
| | `ReportsTellTheTruth` | `Spec => []ReportHonest` |
| | `OpenReportsOwned` | `Spec => []OpenReportOwned` |
| | `RoundsObey` | `Spec => ScheduleObeyed` |
| `HostProofs` | `HostTypes` | `Spec => []HTypeOK` |
| | `UpdatesOnRecord` | `Spec => []OnRecordWhileWorking` |
| | `UnknownFreezesHost` | `Spec => UnclearFreezes` |
| | `StalePlansUntouched` | `Spec => []StaleUntouched` |
| | `HostImplementsLedger` | `Spec => HostLedgerSpec`, the refinement of `HostLedger` |
| `SystemProofs` | `SuccessIsReal` | `SysSpec => []SucceededIsReal` |
| | `FailureIsUntouched` | `SysSpec => FailedIsUntouched` |
| | `ResultsAreFinal` | `SysSpec => NoLateMutation` |
| | `OneUpdateAtATime` | `SysSpec => NoOverlap` |
| `ManagementProofs` | `RegistrationTypes` | `MSpec => []MTypeOK` |
| | `RegistrationKeepsGate`, `RegistrationKeepsApprovals` | `ReadyMeansResolved` and `PlansAreCurrent` beside registry changes |
| | `FirstChecksExecutedOnce` | `TokenOnce` with first checks, which dispatch on their own |
| | `OneChangeAtATime`, `CompletedChangesAreReal` | `OneChangeOpen`, `CompletedIsReal` |
| | `ChecksTellTheTruth`, `ChecksOnlyAdvance` | `CheckTellsOperation`, `CheckOnlyAdvances` |
| | `CopyIsTrue`, `TargetsAreRegistered`, `QueueIsRegistered`, `ApprovalsAreRegistered`, `FailedChangesAreUnmade` | `CatalogIsRegistry`, `TargetsServed`, `QueuedServed`, `ApprovalsServed`, `FailedIsUnmade`, if the list is never refused |
| `TelegramProofs` | `OnlyTheAdministrator` | `TSpec => []ActsForAdmin` |
| | `OneActionPerKeyboard` | `TSpec => ActsOnce` |
| | `CodesExpireWithSettings` | `TSpec => CodeCurrent` |
| | `UpdatesHandledOnce` | `TSpec => HandledOnce` |
| `BackupProofs` | `NeverLost` | `BSpec => BackupNeverLost` |
| | `SuccessIsCurrent` | `BSpec => []VerifiedIsCurrent` |
| `NoticesProofs` | `NoticesTyped` | `NSpec => []NTypeOK` |
| | `SummariesFirst` | `NSpec => []SummaryFirst` |
| | `FailuresTold` | `NSpec => []FailureTold` |
| | `NoticesInOrder` | `NSpec => []ToldInOrder` |

The assumptions are those of the modules on their constants: `NoProject` is no project
and `NoBot` no bot, policies are three names, bounds are natural numbers, and a collection takes at least
one report and one row. Five theorems
of `ManagementProofs` have one hypothesis more, `ListMayBeRefused = FALSE`: the host does
not answer a change and then refuse the list that is asked for right after it. It may
(finding 3), and then these five are false, as run `mgmt_list` shows; the theorems say
that nothing else breaks them. The other eight hold either way.

**The gate** (`GateInv`). `ReadyMeansResolved` is not inductive. A step from "gate open,
operation 3 running, worker not waiting for it" would break it, and nothing in the
formula excludes that state. The inductive invariant adds what does: `AppliesLast` and
`RunningIsApplied` (the running row is the last one, and its worker is waiting for it
or is dead), `OnlyLastOpen` (no row but the last is unresolved), `DownIsIdle` (a dead
process holds nothing) and `PlansAreCurrent`, of interest by itself. The proof of the
step rests on the lemma `Footprint`: each of the 34 actions either leaves gate,
operations and dispatch alone, in one of two ways, or is one of five that do not, so
the conjuncts are looked at seven times and not 34. `LedgerStep` maps those same
seven to `Dispatch`, `Becomes` or a stutter: restart turns running into unknown, a
result or a matched reconciliation ends the one open row.

**Retries** (`RetryInv`). Only a paused project has a spent retry (or a pause that is new
would inherit one), and a retry about to be claimed is that of a failure (or the claim
would spend the retry of a project that is not paused). All steps but five and the one
that turns a round to a project leave both alone (`QuietSteps`).

**Reports** (`ReportInv`). `ReportHonest` compares the items of a report with the
operations of its round, so what a step may write depends on where the round is.
`RoundPlaces` says where its jobs may stand and where a nested reconciliation returns to;
`RoundOpen`, that of the projects the round has not left nothing is told and nothing was
dispatched, but for the one whose answer it waits for; `ReportOwned`, that an open report
is that of the round in progress, or the process has died since; `ItemHonest`, that there
is one operation per project and round at most, and what an item may say of it. Steps are
sorted by what they touch: those of other threads (`BesideRound`), those that leave no
round open (`OutsideRound`), those of a round that tell nothing (`RoundMoves`) and those
that finish with a project (`RoundTells`). Opening, claim, answer and hand-back of a
reconciliation have lemmas of their own.

**What a round dispatches** (`OnceInv`). `ScheduleObeyed` compares a dispatch with the
schedule and the pause of that moment, which the claim reads again, with the report, where
`RoundOpen` says that nothing was told of the project yet, and with every earlier
operation: none may have retried the same failure. That needs to know where the number of
a claimed retry may be (`RetryPlaces`), that it is in no operation until it is dispatched
(`RetryFresh`), and that a failure which was retried has its retry spent as long as its
pause is in force (`RetryLedger`).

**Plans** (`TokenInv`). `TokenOnce` holds because a token moves: issued, waiting for
approval or held by the worker at its claim, and then in one operation. The three places
never share one, no two approvals do, and no number in use was never issued, so a fresh
one is new to all. All steps but five move no token (`TokenSteps`).

**Host** (`HostInv`). `OnRecordWhileWorking` says nothing of a worker that has consumed
its plan and recorded nothing yet, and such a worker is about to make a record. `Progress`
gives, for each place of the worker, what its receipt and its touch say, and that nothing
is unknown while it has only consumed; `LockHeld`, that its plan is consumed and that a
surviving command has touched the business; `SettledIsClear`, that what was settled by
hand is not unknown any more. With these every step is `Begin`, `Touch`, `End`, `Die` or
`Settle` of `HostLedger`, or a stutter. `StaleUntouched` needs `StaleInv`: versions of a
deployment only grow (`Dated`: a plan that is out of date was made of an older version), so
the comparison before the execution is frozen rejects it, and a plan at the last boundary
(`At("up")`) is not one.

**System** (`SysInv`). Every step is one of `Core` or stutters for it (`SysStepIsCore`), so
the invariants of gate and plans carry over. Beside them: a request in flight, on record
or declined is that of an operation and is one of the three only (`Traced`); the host's
records tell what was done to the business (`RecordsTrue`); and an operation with a final
result has neither a request in flight nor a worker (`FinalIsOver`), which is what makes
results final, and updates one at a time, whatever arrives late.

**Registration** (`MInv`, `RegistryInv`). `MInv` adds to gate and plans where jobs and
request are while a change is pending (`ChangesInv`; `RequestTracked`: a request that may
still be carried out is that of the pending change, and has not been), and who answers for
each first check that is open (`ChecksInPlace`): its job, a dead process, or a gate that
stays shut until the check is settled. `RegistryInv`, under the hypothesis above, says how
far copy and registry may be apart (`CopyTrue`): by the pending change only, which the
host has made. That schedule, queue and approvals hold no removed project (`Served`) can
be said only while no change is in doubt; `DoubtBounded` is what brings it back when the
doubt ends.

**Chat.** `ActsForAdmin` is inductive but for the shape of the record `job`: the steps that
enter "act" and "notices" compare what it states, and nothing else may change settings or
binding until the tick is over. `ActsOnce` needs that only the claim of a button that waits begins an
action (`ActBegins`), and `ButtonInv`: keyboards are numbered in
the order they are made, no button that waits belongs to a keyboard that was acted on,
and after the acknowledgement of a press no other button of its keyboard waits.
`CodeCurrent` needs that a code, if there is one, is that of the present revision.
`HandledOnce` needs `PollInv`: what a poll of the present session would return
(`Outstanding`: sent to this bot, not forgotten by the server, not before the offset) is
newer than the session and was never taken up, and the batch is part of it. A new session
leaves nothing outstanding (`SkipsAll`); taking the first update of a batch leaves the
rest of it outstanding and nothing before it (`TakesFirst`).

**Backup** (`BackupInv`). It has what a snapshot relies on at each of its places
(`Progress`: which slot is there, which is not, what has been copied), and `Ordered`, for
the directory and for the disk: of two whole slots `current` is the newer one. Without
it, reducing two slots to one could cost the newer backup. The steps fall into four
kinds: those that leave the slots, renames over nothing, removals beside a newer whole
slot, and synchronisations; each kind has its lemma for what is kept.

**Outbox** (`NoticesInv`). The three properties compare what was told with the
controller's log; the outbox knows of the log only what one collection has read of it, and
of what it told only the signature of each topic. `LedgerInv` is about the controller: what
a row says of an operation is true of it unless a later row supersedes it, and a pause in
force is that of a failed operation. `ViewInv` says what a reading that is out of date is
still good for: rows, projects and origins do not change; the latest result it has of an
operation is the status it has of it; and a pause in force whose spent retry it has read
is the pause it has read. `Ordered` holds of every two messages, in the chat, in the table
or one in each: about one topic they follow the log, and a summary never follows what it
announces, but for the first row of the table, which may be the last message of the chat.
`NewsInv` ties the signature of a topic to both sides: it is the status of the latest
consumed row in force (`Known`), and if it is a failure, the last message about the topic
says so (`Backed`); that is why deduplication, which looks at the signature only, loses
nothing. A pause whose spent retry was consumed has been asked about (`Asked`).
`TickInv`: nothing that is up for delivery has expired, and between send and delete the
first row is the last message. TLC has checked this invariant on small instances.

The controller's steps need one lemma (`ControllerStep`): they let log, operations and
rounds grow (`Grows`). A collection is the hard step. Its recursive functions get their
equations from an induction that builds them value by value (`SummarisedIs`,
`CollectedIs`), and `ChainInv`, the invariant of the store that has taken q reports and c
rows, is carried along them by two more (`ReportsTaken`, `RowsTaken`) from `ClearedStep`,
`ReportStep` and `RowStep`. These inductions are over sets of numbers (`SetInduction`,
from the well-foundedness of `<`), for which no operator has to be a parameter.

**Only model-checked**: liveness (`ExecutionReleased`, `PlanningGateLifted`,
`ChecksServed`, `AllTold`), which is out of the prover's reach. Every invariant and every
action property of the passing runs is the subject of a theorem.

## 5. Findings

1. *"retry_failed" with a retry left* (`core.py:704`, run `core_retry_notice`). If the
   schedule is changed between the round's reading and its durable retry claim, the
   claim is refused and nothing is rechecked, but the project is reported as
   `retry_failed`, which the notice words as "recheck failed, manual recovery needed".
   The next round retries it automatically.
2. *A retry spent in silence* (`core.py:786`, run `core_retry_audit`). A retry that
   finds the project healthy and nothing to update keeps the pause when gate or
   revision moved meanwhile; no `retry_exhausted` row is written, on this path only.
   The next reconciliation, if there is one, makes up for it.
3. *A made change recorded as failed* (`project_management.py:113`, run `mgmt_list`).
   The request and the list after it share one handler, so a structured refusal of
   the list is taken for a refusal of the change.
4. *Unknown operations nobody can settle* (`managed_gateway.py:131`, run
   `system_review`). A request lost or declined before the host put it on record
   leaves the operation unknown; `recover.py` refuses a project without an unknown
   record and reconciliation never matches, so the documented procedure has no end.

Two more observations, in no run: a registry change whose request never reached the
host stays pending for ever, and every reconciliation then answers
`registry_change_unknown`; a removal may leave a schedule enabled with no target.

Three more from the chat, in no run either:

- A scheduled update that is cut short by the end of the process and settled as
  succeeded at the next start is announced nowhere. Its report item stays
  `not_checked`, which the summary leaves out (`notices.py:65`), and its result row lies
  within the report's interval, so it makes no notice of its own (`notices.py:86`).
- The comment at `telegram_runtime.py:267-269` has old intents never execute after an
  offline period. That holds for a new session. A session that survives an outage of
  the network keeps its offset and carries out the commands sent meanwhile; buttons are
  limited by their 300 s. `HandledOnce` states what does hold.
- A text that Telegram refuses for good (a summary of more than 4096 characters, say)
  stays at the head of the outbox and holds back all that follows
  (`telegram_runtime.py:287`): `AllTold` presumes that a send succeeds in the end.

## 6. Plan

Done, in this order: Core with its properties and proofs, Management, HostLedger and
HostRegistry, System, Backup, Notices, Telegram; then the proofs, Core, chat and backup
first, then the host with its refinement, the composition, reports of rounds,
registration, the order of updates, and the outbox.

Next: a composition of Management with the detailed host, if its state space allows.

## 7. Not modelled

Parsing, path checks, rendering, redaction and metadata are stateless. Installation and
import are scripts that run once. The demo gateway stands in for a host, and the shadow
observer only reads, into files of its own. `Auth` keeps one lock through each
operation, every operation is complete when it returns, and no other part reads its
tables: nothing interleaves, and what remains (a code or a session that expires, five
attempts) is arithmetic over a clock. Of `TelegramControl` the texts and the choice of
the operation behind a button are left out, of `web` the routes, which call one
operation each and render its answer.
