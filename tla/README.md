# A verification project for TradingCopilot

TradingCopilot is a Go modular monolith: it collects messages, lets language
models filter them, opens research meetings of AI roles about them, and trades a
simulated A-share account on the meetings' conclusions. The directory holds TLA+
models of the parts of it where order, failure and concurrency decide whether
the program is right, the TLC configurations that check them on small instances,
and TLAPS proofs of what holds for every size of the instance.

Paths below are relative to `src/internal/`; `gorm/` abbreviates
`infra/persistence/gorm/`. `PROJECT.json` maps each definition to the lines it
models.

## 1. The system

Four processes come out of one binary: `serve` (HTTP API; in local mode also the
background loops and the message workers), `worker` (asynq jobs from Redis,
concurrency 2 by default), `scheduler` (enqueues periodic jobs) and
`message-subscription-listener`. They share one database, SQLite or PostgreSQL
(READ COMMITTED). There is no optimistic locking: a use case reads rows, computes,
and saves whole rows (`gorm.Save`: UPDATE of every column, INSERT when no row
matched).

| component | state | operations | meets others through |
|---|---|---|---|
| Paper trading (`app/paper`, `gorm/paper`) | orders, fills, positions, cash, risk config | create, approve, reject, cancel, delete, fill by hand, maintenance batch every 10 s, dividends, share issues, edits | recap actions and wake plans create orders; reads stored quotes |
| Meeting runs (`app/meeting`, `gorm/meeting`) | meeting row with status, `run_id`, heartbeat, requeue count; in-process registry of cancel functions; Redis job | start, cancel, restart, edit, delete, run, recover every minute | started by the API, by messages, by wake plans; ends in paper orders, watchlist and wake plans |
| Token budget (`gorm/meeting/meeting_budget.go`) | `token_budget` of each meeting | reserve before a model call, settle after it | every run; whole-row saves put it back |
| Meeting content | events, snapshots | role turns, tools, recap | inside a run |
| Local message queue (`infra/queue/message_tasks.go`) | channel of 256 tasks, set of keys | enqueue, run, forget | workers run the handlers below |
| Message collection and filtering (`app/messaging`) | message rows with filter status, references to meetings | collect, live message, refilter, filter, open a meeting | enqueues tasks from inside tasks |
| Source trust (`app/messaging`) | feedback labels, policy | label, set the policy, downrank a decision | changes what the filter decides |
| Listener lease (`gorm/repo/settings.go`) | one row of `app_settings`: owner and time | claim, renew, give up | elects the process that listens or polls |
| Telegram bot (`gorm/telegram`) | stored offset | poll, handle, store the offset | opens meetings; under a lease |
| Redis queues, scheduler (`infra/queue`, `gorm/queue`) | asynq tasks under task ids | enqueue with de-duplication, periodic tick, retry | triggers maintenance, recovery, wake, sync |
| Wake plans (`app/wake`) | plans with status and next check | create, update, fire, pause, process due | create meetings |
| Backup (`app/ops/backup.go`) | zip archives in a local directory, a record of the last drill | create, prune, drill | reads the database file |
| Research teams (`app/research`) | teams with roles, bound paper accounts, assignments | create, edit, delete, default roles, seeding | messages and meetings are assigned to teams |
| Authentication (`app/auth`) | administrators, a row of `auth_sessions` for each token, audit events | bootstrap, login, authenticate, logout, revoke, edit users | guards the API |
| Market data, prediction markets | cached quotes, bars, catalogue | refresh, sync | quotes for paper trading, evidence for meetings |
| AI providers, settings | configuration rows, external clients | edits, calls | answer meetings and filters |
| HTTP transport, frontend, logging, migrations | none of their own | routing, rendering | a request's context reaches the work it starts |

`components` in `PROJECT.json` lists each part with its files, its status and
the reason where it is not modelled or only in part.

### What is hard

* *Interleaving and stale rows.* Whole rows are read without a lock and saved
  later, by API requests, runs, recovery passes and maintenance batches.
* *Two dispatchers.* In `auto` mode an enqueue that answers after 800 ms leaves a
  local run and a Redis job for the same meeting.
* *Failure.* Processes die with goroutines, registry and local queue; asynq hands
  a dead worker's job out again; a run's context ends with the HTTP request that
  started it; the enqueue after a committed transaction fails.
* *Leases.* A claim is a read, a decision and a conditional write; a poll takes
  longer than the lease it holds.
* *Cyclic waiting.* Message tasks enqueue message tasks from the workers that
  drain the queue.
* *Lists that are read before they are worked off.* Due orders, due wake plans,
  queued meetings, archives to prune: each can have changed by the time its turn
  comes, and the first rows of a limited list can keep the others waiting.
* *Limits and arithmetic.* Partial fills, T+1, a volume budget shared by a batch,
  minimum commissions, a due list of 50 rows, a channel of 256, a daily token
  budget that is compared and added to in two statements.

### What makes each part correct

* **Paper ledger**: no order executes before its approval; fills never exceed
  the quantity; nothing bought today is sold today; positions equal fills plus
  issues; a batch stays within its share of the volume; closed orders stay
  closed; cash is overdrawn only by the fees of a sell or by an operator's edit; a
  due executable order is not passed over for ever.
* **Concurrent transactions**: what commits is a history of an order book whose
  operations are atomic; an approval commits before anything executes.
* **Meeting runs**: a meeting ends; it is requeued a bounded number of times;
  whoever saves the row, recovery can find the meeting; a superseded run stops
  soon and never concludes; the registry holds only runs that live.
* **Message tasks**: a stored message has a filter task on its way; it opens at
  most one meeting; a key is held by exactly one task; accepted tasks run.
* **Wake plans and jobs**: a plan opens one meeting each time it is made active,
  and only while it is active and due (SQLite keeps this without exception,
  PostgreSQL unless a save writes an older copy of the plan over a newer one); a
  due plan is treated; the meeting of a fired plan runs; every periodic job runs
  again and again.
* **Lease and bot**: a listener with a live grant owns the row; a dead one is
  replaced; no command is lost, and a command is repeated only for a reason.
* **Token budget**: the day's overrun has a bound.
* **Backups**: pruning keeps enough and a good archive among them; "drilled"
  speaks of the latest archive, and of one that was closed, reads back and has a
  database entry. What the copied database holds is not known to the program.
* **Source trust**: a worse label never makes a decision milder.
* **Teams**: each trading team has an account of its own, no reference dangles, a
  prediction-market team has none of the stock market's tools.

## 2. The modules

```
PaperTrading ── MCPaperTrading            serial ledger, in full detail
PaperOrderBook ◁── PaperTransactions ── MCPaperTransactions   overlapping transactions
MeetingRuns ── MCMeetingRuns              one meeting, its runs, requests, recovery
LocalTaskQueue ── MessageTasks ── MCMessageTasks              queue and its handlers
PeriodicJobs, WakePlans ── BackgroundWork ── MCBackgroundWork scheduler, worker, plans
ListenerLease ── BotPolling ──┐
TokenBudget, BackupArchives ──┼─ SupportingServices ── MCSupportingServices
SourceTrust, ResearchTeams ───┘
```

`◁──` is a refinement (`INSTANCE`), `──` an `EXTENDS`. The `MC` modules hold only
values of constants that a `.cfg` cannot write. The theorems about a module `M` are
in `MProofs`, which extends `M`; those about `ListenerLease` are with the bot's in
`BotPollingProofs`, those about `TokenBudget`, `BackupArchives`, `SourceTrust` and
`ResearchTeams` in `SupportingServicesProofs`, with the composition. `CollectionFacts`
has the lemmas about sums and sequences they share.

### PaperTrading

One account and the transactions on it, one after the other. Actions and code:

| action | code |
|---|---|
| `CreateOrder`, `SubmitOrder`, `NewRow` | `CreateOrderFromSpec`, `SubmitOrder` (`gorm/paper/paper_ops.go`) with substitution, sizing failure, approval requirement, risk and funds checks |
| `ApproveOrder`, `RejectOrder`, `CancelOrder`, `DeleteOrder` | the use cases of `app/paper/usecase.go` |
| `FillOrder` = `RejectFill` or `BookFill` | `FillOrderWithInput`: risk, T+1 and halt, funds, then the four rows |
| `StartBatch`, `ExpireDue`, `SkipDue`, `FillDue`, `EndBatch` | `ExecuteDueOrders`, one step per loaded order, with the shared volume budget of `autoExecutionQuantity` |
| `CashDividend`, `ShareIssue` | `applyCorporateActionInput` |
| `UpdateAccount`, `SetAccountActive`, `SetRisk` | account and risk config edits |
| `QuoteArrives`, `Tick` | the stored realtime quote; the clock, in three phases a day |

State: `orders` and `pos` are rows; `filled`, `filledToday`, `netFilled`,
`boughtToday` are the sums over the fill rows that the code's queries compute;
`approved` and `unsettled` are ghosts (who was approved; shares bought today even
if the fill row is gone), so that the properties do not trust the sums they are
about. While a batch runs (`run.on`) no other action is enabled: it is one
transaction on SQLite. Quantities are lots, money whole units. The size a buy
gets from equity and percentage limits is a choice (`sized`, `overLimit`).

A recap's order spec is copied key by key from the model's answer, so it may carry
`requires_approval: false`, which the code honours, and any order's spec may ask for
an approval; `approval` is what the spec says (`"waived"`, `"required"`,
`"default"`). `ApprovalGate` speaks of the orders that ask for one and of meeting
orders that did not waive it. `UpdateAccount` is given any integer as cash, as the
code checks nothing: `OnlySellsAndEditsOverdraw` says which steps can lower the
balance below zero.

### PaperOrderBook and PaperTransactions

`PaperOrderBook` is the promise: orders move along their life cycle, fills stay
within the quantity, cash and position move by exactly what was filled.
`PaperTransactions` has the same operations as database transactions: `Begin`
reads, `Decide` plans from what was read, `SaveNote`, `WriteAccount` and
`WriteOrder` take row locks in the order the code writes, `Commit` publishes,
`Abort` may come at any point. `Isolation` is `"sqlite"` (one writer; a
transaction overtaken by a commit fails) or `"postgres"` (a write waits for the
lock and then overwrites). The position row has its id and the unique
constraint, so concurrent inserts conflict. Fees, corporate actions and account
edits are left to `PaperTrading`.

### MeetingRuns

One meeting. `row` is the committed row; each run keeps the copy it loaded
(`seen`) and goes through `Read`, `SaveStart`, `EnsureActive`, `Talk`, `Recap`,
`Apply`, `Complete`, `Conclude`, which are the statements of
`RunMeetingOnceWithContext` that touch shared state; conditional UPDATEs test
`Owns`, full-row saves do not. `DispatchSubmitted` is `DispatchRun` in its three
modes, `RequestReturns` the end of the HTTP request and its context, `entry` the
map `localMeetingRuns`, `job` the Redis task under the meeting's task id.
Requests and recovery (`clerk`) load the row, may stop the local run, and save
what they loaded. `Crash` kills a process with everything in its memory; a job of
a dead worker is handed out again. `late` and `lost` are ghosts: writes since a
run last owned the meeting, and runs that lost it.

### LocalTaskQueue and MessageTasks

`LocalTaskQueue` has the queue alone: keys under the mutex (`Accept`), the
blocking send (`Send`, `Withdraw`), the worker's `Receive` and `Forget`, and the
loss of the queue with its process. `MessageTasks` adds the threads: a worker
fetches and stores messages and enqueues their filter tasks from within the
collect handler, or reads, marks, asks and commits in the filter handler; callers
are requests and the listener (`QueueCollect`, `Live`, `Refilter`), whose context
may end while they wait (`GiveUp`). On SQLite the filter transaction excludes
other writers from its first write to its commit.

### PeriodicJobs, WakePlans and BackgroundWork

`PeriodicJobs` is the scheduler and the queue: `EnqueueDuePeriodicJobs` walks over
the jobs in their order, an id that is still known counts as enqueued, any other
error ends the walk (`queue.go:135`); `task` is what Redis knows under each id,
`Take`, `Failed`, `RetryElapses`, `WorkerDies` are asynq as the code configures
it. `WakePlans` is `app/wake`: the requests (`Create`, `Update`, `SetStatus`,
`Delete`, `Fire`), `firePlan` with the meeting it queues, and the outcomes of the
transaction about one listed plan (`SkipDue` and `CheckDue`, then `FireDue`,
`RescheduleDue`, `cancelInvalidPlan`, `FailsToEvaluate`, `OvertakenDue`). `queue` and
`due` are the plans in the order of the due query, `next_check_at` then `id`.

A transaction that changes a plan is two steps: `Begin` reads the row and checks its
status, and a later step saves the whole row and commits (`Save`). `tx` is what each
has read; `Overtake` marks the open transactions that a commit has passed, and
`isolation`, chosen at the start, says what becomes of them. On PostgreSQL their save
writes the columns they did not set as they read them (`KeepRow`) and brings a
deleted row back; `overwritten` counts such saves of each plan. On SQLite they cannot
write (`Busy`). Only Create and Delete write without having read.

`BackgroundWork` composes the two modules: the worker's handlers of
`evaluate_wake_plans` (list once; for each row `FindListed`, then `TreatListed`; dispatch
each fired meeting after its commit), `recover_queued_meetings` (fails at the first
meeting whose task id is still known, `Recoverable`) and `run_meeting`. `Request` and
`Proceed` are the two steps of the API's transactions, `Answer` the dispatch after a
fire, and `Crash` takes the worker with what it had listed and read. A meeting is
one step here; `MeetingRuns` has its inside.

### ListenerLease and BotPolling

`ListenerLease` has the three statements of a claim as three steps (`ReadRow`,
`InsertRow`, `UpdateRow`) with `lag`, the age of the time the claim began with,
between them, so that a slow claim writes an old time. Renewal is the same claim;
`ClaimFails` leaves a listener listening, as the code does; `ProcessStarts` gives a
new process the name of a dead one. `BotPolling` extends it: a poll is a claim,
`LoadOffset`, `GetUpdates`, one `HandleUpdate` or `HandlingFails` per command, and
`StoreOffset`, under a lease nobody renews. A load that fails starts from the
beginning (`LoadOffsetFails`), a request that fails ends the poll, whether Telegram
has taken the offset or not (`GetUpdatesFails`). `overruns` counts the polls that
outlast the lease.

### TokenBudget, BackupArchives, SourceTrust, ResearchTeams

* `TokenBudget`: `CheckReservation` and `Reserve` are the comparison and the
  addition of `reserveMeetingTokens`, `CallReturns` and `Settle` those of the
  settlement; `ReadsMeeting` and `SavesMeeting` the whole-row saves that restore an
  older `token_budget`, counted in `putBack`.
* `BackupArchives`: archives named after the second they were begun in, written,
  listed and pruned by requests that do not lock the directory; drills inspect one
  and write the single record; `DrillStatus` is the report's. An archive is `whole`
  when the one request that wrote it closed it, and has a `database` entry or not,
  since `addFile` only notes what it cannot copy.
* `SourceTrust`: `TrustScore`, `NegativeRate`, `Severity` and `Downranked` translate
  `finalizeSourceTrustItem`, `sourceTrustAutoAction` and
  `sourceTrustDownrankDecision` over integers; the state is the labels and the
  stored policy, normalised as the code does.
* `ResearchTeams`: each request is one transaction on `team` (rows with class,
  account, kinds of roles), `accounts` and `assigned`; `HasRow` has the two unique
  indexes of the table.

### SupportingServices

These six share no state. `SupportingServices` lets a behaviour choose one
(`service`) while the others rest, so that one run explores the sum of their state
spaces, each with all its actions.


## 3. The runs

| run | expects | properties | what it shows |
|---|---|---|---|
| `paper_ledger` | pass | `TypeOK FillProgress ApprovalGate TPlusOne HoldingsReconcile ClosedStaysClosed OnlySellsAndEditsOverdraw` | two orders in a share and in the fund that replaces it, over a day change: buys, sells, meeting orders (with and without waiver), an order that asks for approval, partial manual and batch fills, cancel, delete, a bonus issue, a dividend, edits of the account (one to a negative balance) and its risk config, and fees above a sell's proceeds |
| `paper_batch` | pass | `VolumeShare DueOrdersExecuted` | two buys compete for the volume of one code, with expiry, missing price, halt; with a batch limit as large as the book, maintenance deals with every executable order |
| `paper_starvation` | violation | `DueOrdersExecuted` | finding 1 |
| `transactions_sqlite` | pass | `TypeOK ApprovalCommitted LedgerPromise` | two transactions race on a buy and a sell: `PaperTransactions` implements `PaperOrderBook`, and nothing executes before an approval committed |
| `transactions_cancel_race` | violation | `CancelledStaysUnfilled` | finding 2 |
| `meeting_local` | pass | `TypeOK EntryAlive RecoveriesBounded MeetingEnds` | local dispatch with a cancel or delete, a recovery pass and a crash overlapping two runs; the meeting ends |
| `meeting_auto` | pass | `RowCoherent OneLateWrite SupersededNeverConcludes` | a late enqueue, job timeouts, redelivery, crashes and every kind of request, also edits that save an old row |
| `meeting_request_context` | violation | `RunningHasRunner` | finding 3 |
| `messages_local` | pass | `TypeOK KeysHeldOnce UnfilteredIsPending OneMeeting AcceptedTasksRun` | two workers, a caller, a restart: no message loses its filter task but in the four ways the model names |
| `messages_full_queue` | violation | `AcceptedTasksRun` | finding 4 |
| `background` | pass | `TypeOK FiredOncePerActivation OnlyDuePlansFire DuePlansAreTreated FiredMeetingsRun JobsKeepRunning` | scheduler, queue, worker and wake plans on either database with one slot; requests save rows they read earlier, a trigger is invalid, Redis or the database fails, the worker dies: one meeting for each activation, of a plan that is active and due, but for overwriting saves on PostgreSQL; plans, meetings and jobs are always served again |
| `supporting_services` | pass | `TypeOK LeaseHonoured CommandsKept RepeatsBounded OverrunBounded DrilledReadsBack NegativeNeverSoftens TeamsSound RetentionKeepsNewest ListenerIsTakenOver` | the six services of `SupportingServices`, each with its failures and overlapping requests |

Every property of a passing run has a mutant (`mutants` in `PROJECT.json`): a
variant of one definition, such as `Sellable` that ignores today's purchases or
`Touch` that ignores the run id, under which TLC finds the property violated. The
variants stand in the modules beside what they vary.

### Bounds

Each bound is a named constant of the module that counts with it.

* `NumOrders` 2, quantities 1–2: partial fill, completion, competition and a
  closed order under a live one all happen. `MaxTime` 4 covers pre-open, open,
  closed, midnight and the next day's opening; `paper_batch` needs only the first
  session. `MaxPos` and `MaxCash` stop dividends and issues from growing for ever.
  `StampDiv` 1 makes the fees of a sell exceed its proceeds.
* `BatchLimit` is 50 in the code. Two orders with limit 2 stand for a book within
  the limit, two orders with limit 1 for one beyond it.
* `Txs` 2: every race is between a transaction and one that overtakes it;
  `MaxFilled` stops double fills from repeating.
* `Runs` 2, `RequeueLimit` 1, `MaxCrashes` 1: a run and its successor, and one
  recovery more than allowed; identities are reused when nothing mentions them.
  `Clerks` 1 or 2: a request beside a recovery pass. `MaxEdits` 1. `MaxLate` 2 is
  one more than `OneLateWrite` allows.
* `Workers` 2 as in the code, `Buffer` 1 or 2 for 256, two subscriptions, two or
  three messages, `MaxEvents` 2 or 3 requests and restarts, `MaxMeetings` 2, one
  more than allowed. In `messages_local` the requests are too few to fill the
  channel from both workers at once, so that a task that waits for ever would
  have another cause; `messages_full_queue` has one message more.
* `background`: three plans, one by time and edited by requests, one that watches a
  condition, one that cannot be evaluated; `DueLimit` 2 for 100 keeps a due plan
  off the list while the list is full; `MaxActivations` 2 lets a plan fire, be
  made active again and fire again, or fire twice for one activation;
  `MaxMeetings` 2 has room for the two meetings a plan then opens and never keeps a
  plan from firing; `Concurrency` 1 makes the jobs and meetings wait for each other
  (the code's default is 2); `MaxIncidents` 2 is a fault or a request in the middle of
  what another left behind, such as one between the read and the save of the pass
  or of the one client. The trigger of one plan may be invalid from the start.
* `supporting_services`: `TTL` 2 and `SlowestClaim` 2 let a claim take as long as the
  lease; `MaxOverruns` 1, `MaxUpdates` 2, `MaxFaults` 2: a poll overtaken by another,
  and both failing. `DailyBudget` 3 with `MaxCharge` 2 is exceeded by two runs;
  `MaxSaves` 2 lets a save restore what an earlier save took away.
  `Copies` 1, `Days` 1, `LastDay` 2, `MaxBegun` 3: an archive that is old enough to
  go, and one more than is kept. `MaxLabels` 12 is four times the three labels
  below which the default policy does nothing, so all thresholds are crossed. Two teams and two accounts.

### Fairness

* `PaperTrading`: `WF(Maintenance)`, because `RunMaintenanceLoop` fires every ten
  seconds as long as a worker or the local runtime is up, and `WF(Tick)`, the
  clock. Users, operators and the market are not fair.
* `MeetingRuns`: weak fairness of each run's steps, of requests in progress, of
  recovery (every minute), of the worker and of time; crashes, cancels and
  timeouts are not fair. `SF(EndsDiscussion)` stands for `MEETING_MAX_ROUNDS`: a
  discussion has boundedly many rounds. The guard of `HeartbeatAges` is the one
  assumption about durations: half an hour outlasts a handler and a query with
  the save that follows it, though not a model call.
* `MessageTasks`: weak fairness of each worker, as the Go scheduler gives, and
  `SF(Deliver)` for workers, since a Go channel serves blocked senders in order.
* `BackgroundWork`: weak fairness of the scheduler's loop, of what the worker has
  taken and of retries coming up. Taking a task is strongly fair: a slot becomes
  free again and again but is not kept free, and asynq hands tasks out in order of
  arrival. Requests, incidents and crashes are not fair, and neither is `Elapses`: a
  whole walk leaves every job ripe, and no plan need come due.
* `ListenerLease`: weak fairness of the clock, of asking (every process asks again
  after a pause) and of the claim's statements.

`CHECK_DEADLOCK FALSE` stands where the modelled part really comes to rest: all
transactions done, the meeting ended, no task left and no request coming.

## 4. Proofs

TLAPS checks these for every value of the constants the named assumptions allow.
`SupportingServices` and the runs instantiate the same modules with small values.

| module | theorem | says | rests on |
|---|---|---|---|
| `PaperTradingProofs` | `TypeCorrect` | `[]TypeOK` | a lemma per operator that computes, and `TypeStep`, a case per action |
| | `OrdersCorrect` | `[]OrdersInv` | `TypeOK` |
| | `FillsMatchQuantity`, `MeetingsNeedApproval` | `[]FillProgress`, `[]ApprovalGate` | `OrdersInv` |
| | `NoSameDaySale`, `PositionsReconcile` | `~CascadeFills => []TPlusOne`, `[]HoldingsReconcile` | `LedgerInv` |
| | `BatchesShareVolume` | `[]VolumeShare` | `BudgetInv` |
| | `ClosedOrdersStayClosed`, `OnlySellsOverdraw` | the two action properties | `OrdersInv`, `StepKinds` |
| `PaperTransactionsProofs` | `TransactionsTypes`, `TransactionsApproved` | `[]TypeOK`, `[]ApprovalCommitted`, both databases | `IInv` |
| | `SqliteKeepsPromise` | `LedgerPromise` on SQLite: `PaperTransactions` implements `PaperOrderBook` | `IInv`, `SInv` |
| | `SqliteCancelIsFinal` | `CancelledStaysUnfilled` on SQLite, which finding 2 refutes on PostgreSQL | the refinement of `SqliteKeepsPromise` |
| `MeetingRunsProofs` | `RunTypes`, `RunRowCoherent`, `RunEntryAlive`, `RunOneLateWrite` | `[]TypeOK`, `[]RowCoherent`, `[]EntryAlive`, `[]OneLateWrite` | `RunInv` |
| | `RunSupersededNeverConcludes` | the action property | `RunInv`, `OwnerInv` |
| | `RunRecoveriesBounded` | `[]RecoveriesBounded` in local mode without edits of the row | `RunInv`, `RecoveryInv` |
| | `RunHeldUntilReturn` | `RunningHasRunner` in local mode without edits, until the starting request returns: its return alone causes finding 3 | `RunInv`, `Attended` |
| `MessageTasksProofs` | `TasksTypes`, `TaskKeysHeldOnce`, `TasksStayPending`, `OneMeetingEach` | `[]TypeOK`, `[]KeysHeldOnce`, `[]UnfilteredIsPending`, and `[]OneMeeting` on SQLite | `TasksInv` |
| | `TaskKeysCounted`, `StandstillTakesTasks` | as many keys as tasks in hand; how many tasks the standstill of finding 4 takes | `TasksInv` |
| `BackgroundWorkProofs` | `BackgroundTypes` | `[]TypeOK` | `FireInv`, `OrderPart`, `SlotsPart` |
| | `PlansFireOnce`, `DuePlansFire` | `[]FiredOncePerActivation`, `OnlyDuePlansFire`, both databases | `FireInv`, above all its `TxPart` |
| `BotPollingProofs` | `LeaseTypes`, `LeaseHolds` | `[]LeaseTypeOK`, `[]LeaseHonoured` | `LeaseInv` |
| | `BotKeepsCommands` | `[]CommandsKept` | `BotInv` |
| | `BotRepeatsBounded` | `[]RepeatsBounded` | `LeaseInv`, `BotInv`, `RepeatInv` |
| | `BotTypes` | `[]BotTypeOK` | `RepeatInv`, `NumbersOK` |
| `SupportingServicesProofs` | `BudgetTypes`, `OverrunHasBound` | `[]BudgetTypeOK`, `[]OverrunBounded` | `BudgetInv` of that module |
| | `TeamsTypes`, `TeamsStaySound` | `[]TeamsTypeOK`, `[]TeamsSound` | `TeamsInv` |
| | `BackupTypes`, `DrilledIsWhole`, `RetentionHolds` | `[]BackupTypeOK`, `[]DrilledReadsBack`, `RetentionKeepsNewest` | `BackupInv` |
| | `TrustTypes`, `NegativeHardens` | `[]TrustTypeOK`, `[]NegativeNeverSoftens` | `TrustInv`, the arithmetic of the score |
| | `ServicesFollow` | the composition implements the specification of each component | each step is one service's and a stutter of the others |
| | `ServicesTypes`, `ServicesKeepPromises` | `[]TypeOK` and every safety property of the `supporting_services` run, of the composition | `ServicesFollow`, the theorems above |
| `CollectionFacts` | (lemmas) | sums of a function over a finite set; removing from and inserting into a sequence | the least counterexample among sizes |

Why the strengthenings are needed:

* `OrdersInv`. `FillProgress` and `ApprovalGate` are not inductive: a batch step may
  book a fill under an order only because it was pending when the batch loaded it
  and nothing else ran since. `OrdersInv` adds that every order the batch has still
  to handle is pending.
* `LedgerInv`. `TPlusOne` needs that the sum the T+1 query computes is right:
  `boughtToday = unsettled`, the position covers it and equals the fills plus the
  issues. `BookedLedger` then shows that a fill that is not `Blocked` keeps it.
* `BudgetInv` (of `PaperTradingProofs`). What a batch took and what its budget still allows stay within the
  share of the volume, and nothing was taken of a code with no budget allocated.
* `StepKinds` sorts the steps by what they may do to rows, fills and cash: nothing,
  close one row, execute one pending order, or change the account only. Both
  action properties follow for each kind.
* `IInv`. Under READ COMMITTED a transaction saves what it decided from an old
  copy. `RowSound` says of every open transaction that what it has planned or
  written would keep the gate if it committed now; approvals are never taken back,
  so other commits cannot spoil it.
* `SInv`. On SQLite at most one transaction has written (`OneWriter`), and one that
  is not overtaken has read what is still true (`RowSerial`): each row it has
  written is a step its order may take (`Fits`), and the account it has written is
  the committed one moved by the shares of those steps, and of the plan at hand
  when the account is written and the order's row is not yet (`Ahead`). A commit is
  then a step of the order book (`CommitIsStep`) and every other step a stutter.
  The book sums over the orders with `MapThenSumSet`; `CollectionFacts` gets what is
  needed of that recursive function from the least counterexample among the sizes
  of sets, as induction itself cannot be cited.
* `RunInv`. Rows are saved from copies, so every loaded copy (`seen`, a clerk's) is
  coherent as the committed row is, and what the request and the registry hold is
  tied to the run that lives.
* `OwnerInv`. The run the row names has not lost it, and a run that is about to
  take the row is named nowhere: not by the row, a copy, or `lost`.
* `RecoveryInv`. The count on the row bounds the requeues only if no older copy of
  the row comes back. While the row is stale, or a pass is about to requeue it, no
  run stands between its read and its save, so the copy a pass writes has counted
  every recovery before it. Edits that save an old row and redelivered jobs of Redis
  break exactly this, and `OneProcess` excludes them.
* `TasksInv`. `KeyPart` says that a key has exactly one holder among places of the
  channel, senders and workers; `ThreadPart` where each thread can be with what;
  `RowPart` that filter tasks are about stored messages; `MeetingPart` that at
  most one filter transaction is open on SQLite and that what it read about the
  message's meetings is still true. `KeyPart` makes three one-to-one maps into the
  keys, hence `TaskKeysCounted`; a standstill then takes `Buffer` tasks and two for
  each worker, the collect task it runs and the one it sends: with the code's 256
  places and two workers, 258 filter tasks. `messages_full_queue` has just enough
  messages for its `Buffer`.
* `Attended`. While the starting request has not returned no context has ended, so a
  run that owns the row leaves it only by closing it. Two hypotheses are needed: a
  cancel ends a context too, and a job of Redis may time out.
* `FireInv`. The number of a plan's meetings is bounded by its activations only if
  a meeting never appears but by firing: a task, a waiting dispatch and the list
  of recovery are about meetings that were opened. And a save is only as good as
  the check before it: `TxPart` says of each open transaction that no commit has
  overtaken that what it found still holds (`ReadHolds`): the plan it is about is
  active when it was checked for that, and due when the pass checked it. Each commit
  overtakes the transactions it could mislead, so `TxPart` is kept by every action;
  time passing only makes plans due. SQLite lets no other transaction write; on
  PostgreSQL each one that writes is counted in `overwritten`.
* `OrderPart`. `due` is the first part of `queue` only if the queue lists each plan
  once and the plans that left `due` stand behind it: `Order` says so with the
  number of due plans, and `OrderWithout` and `PlansScheduled` that taking a plan out
  and putting it back at its place keep it. `SlotsPart` needs only that `Take` is the
  one step that fills a slot.
* `LeaseInv`. `GrantsCovered`: the row is no older than the grant of the one who
  listens. `ClaimsJustified`: a claim that may rely on the row being unchanged
  found it expired or its own.
* `BotInv`. Everything behind the offset a poll started from, and behind the
  command it is at, was handled; a poll that lost its lease may therefore store
  its offset, which then may go back.
* `RepeatInv`. A command's meetings, the polls that outlived their lease and have it
  still before them, and the one chance of a poll within its lease are together
  covered by the one meeting it should open, the failures and the overruns. A poll within its lease is alone
  (`LeaseInv`), which makes that one chance one.
* `NumbersOK`. What a poll holds, wherever it is, is within the updates that were sent
  (`Fits`), so that what it stores is an offset the bot can have.
* `BudgetInv` (of `SupportingServicesProofs`). The counters of the runs with what each
  has compared and not yet added stay under the bound, if nothing can be returned
  that a counter no longer holds. A save of an old row takes such tokens away, so
  `Lacking` bounds what the rows are short of: one charge at most for each row that
  was read to be saved. That is the `saves * MaxCharge` of `OverrunBounded`, without
  which it is false for more runs than the instances have.
* `TeamsInv` is `TeamsSound` with the types, and `RowFits` says what a row must
  satisfy for a request to be allowed to write it.
* `BackupInv`. The directory is a stack of writes, newest first (`Stack`); a request
  may delete only what was too old and far enough down when it began (`Doomed`), and
  newer archives only push that further down. Once a request has finished an archive
  a whole one of its time or later stays (`WholeStays`), as no listing that could
  doom it is old enough, unless two archives clashed in a name. `DrillsOK` keeps what
  a drill found true of the name until it is recorded: a name that did not clash has
  one writer (`WritersAlone`), so an archive that was closed is not emptied again.
* `TrustInv` is the range of the labels. `NegativeHardens` is arithmetic: the rounded
  score falls and the negative rate grows with each worse label (`ScoreFalls`,
  `RateGrows`, from facts about quotients), and the number of labels never shrinks,
  so no condition of `Severity` is lost. It holds for every policy of a flag and five
  integers (`PoliciesAssumption`), in whatever order their thresholds are.
* `ServicesFollow` needs no invariant: it shows that each action of the composition
  is an action of one component and leaves the others' variables alone. Every
  theorem about a component holds of the composition by it. While the listeners are
  exercised, the bot rests and its properties hold of its initial state.

`CascadeFills` is the condition of the T+1 and reconciliation theorems, in the runs
too. With deletes that cascade to fills (PostgreSQL enforces
`paper_fills.order_id ... ON DELETE CASCADE`, SQLite as opened here does not) a
partially filled buy can be cancelled and deleted, its fills leave the T+1 query,
and both properties fail: the code as it is keeps T+1 only where fills outlive
their orders.

Only model-checked:

* liveness (`DueOrdersExecuted`, `MeetingEnds`, `AcceptedTasksRun`,
  `DuePlansAreTreated`, `FiredMeetingsRun`, `JobsKeepRunning`,
  `ListenerIsTakenOver`): the provers have no rule for fairness and ENABLED.

Every invariant and every action property that a passing run checks is stated by a
theorem. No module has a recursive operator.

## 5. Findings

1. **Starvation of the maintenance batch** (`paper_starvation`). `DuePendingOrders`
   loads the first 50 due rows; orders that cannot execute stay pending at the head.
   Fifty orders without a price keep every later order from being loaded, while
   `doc/api-contract.md:230` promises execution by session and price.
2. **Cancel overtaken by a fill** (`transactions_cancel_race`). On PostgreSQL a fill
   that read the order as pending saves it after a cancel has committed;
   `gorm/paper/paper_test.go:118` expects no fills after a cancel.
3. **Local run tied to the request** (`meeting_request_context`). A run that the API
   starts locally derives its context from the request's and ends when the response
   is sent; the row stays running until recovery finds it stale, half an hour later.
4. **Workers waiting for each other** (`messages_full_queue`). With the channel full
   both workers can be collect tasks waiting to send filter tasks that only they
   could take.

## 6. Not modelled, and the limits of what is

### Limits of the models

* In `meeting_local` and `meeting_auto` the properties differ on purpose:
  `RecoveriesBounded` does not hold with Redis, where a second delivery can save
  a row it read before the recovery and restore the old counter, nor beside an edit
  of the meeting, which saves the row it read in the same way. No liveness is
  claimed with Redis, since a conflicting or archived task id makes recovery return.
* `OneMeeting` is checked and proved on SQLite. On PostgreSQL a forced and an
  ordinary task of one message can both pass the check.
* On SQLite `WakePlans` lets commits about wake plans overtake a transaction; a
  commit to another table does so too and is one of the incidents. Only one
  evaluation runs at a time, as the task id admits one task, and its lease in asynq
  is taken to be renewed while the worker lives.
* asynq archives a task after 25 retries, weeks later; `PeriodicJobs` leaves that out.
  Among the periodic jobs, wake evaluation and meeting recovery are composed; paper
  maintenance is `PaperTrading`, the drill `BackupArchives`.
* The lease and the polls assume that all processes read the same clock.
* `BackupArchives` assumes that an archive is written within the days after which it
  may be pruned. The database and its `-wal` are copied while they are written, and a
  drill reads the entries without opening the database: no property says that an
  archive can be restored from. Restoring is done by hand.
* `SourceTrust` computes with integers where the code uses floats: both agree up to
  49 labels, and differences never cross the default thresholds.
* One account, one meeting and one subscription's life at a time: several share no
  state but the token budget. Whole accounts (create, delete), snapshots, metrics
  and the sizing formula are left out of `PaperTrading`.

### Parts that are not modelled

Prompts, tools, parsing, providers and rendering (text and external calls);
settings, logging and the dashboard (reads, or rows that the last writer sets);
prediction markets (a mirrored catalogue); authentication (each token has a row of
`auth_sessions`, which every request looks up and a logout or a revocation marks;
nothing clears the mark, and no operation spans two transactions); the frontend. Of
some 76,000 lines of implementation the map covers about 5,500. Some 23,000 are the
generated `openapi.gen.go`; most of the rest is the above, HTTP handlers that decode
and encode, persistence models and SQL for reports, none of which keeps state that a
step of another part could find changed.

### Further hazards seen in the code

Beside the list in `PROJECT.json`:

* `collectSubscription` (`app/messaging/usecase.go:2604`) and
  `updateSubscriptionCollectStatus` (3207) save whole subscription rows after a fetch,
  `FeedbackMessage` and `UpdateMessage` whole message rows, and the training
  snapshots and source-trust governance (1705) read, change and write back.
* `MatchNews` makes a new match row each time and writes through another connection
  inside the filter transaction (`app/messaging/usecase.go:2372`, 2869), which holds
  SQLite's write lock while the model answers.
* A reconcile request is swallowed by an ordinary collect's key
  (`infra/queue/message_tasks.go:171`); `SaveMessage` inserts a deleted message again
  (`gorm/repo/messaging.go:487`).
* On PostgreSQL the maintenance batch and a manual fill lock orders and accounts in
  different orders (`gorm/paper/paper_ops.go:629`): one is aborted as a deadlock.
* Two archives begun in one second share a file name; the database and its `-wal`
  are copied one after the other while they are written
  (`app/ops/backup.go:292`).
* A bot command that can never be handled blocks those behind it, since the offset
  is stored only after the batch.
* `UpdateTeam` with only `paperAccountId` gives a prediction-market team an account.
* `Bootstrap` counts the administrators and then creates one (`app/auth/usecase.go:128`);
  `Login`, `UpdateUser` and `ResetPassword` save rows read earlier (162, 277, 309).
* `Fire` and `ProcessDue` check a plan's status in the row they found and save the
  whole row later, without a lock or a condition. On PostgreSQL, which
  `docker-compose.yml` sets up with Redis, a plan can therefore be fired by both, or
  after it was paused, cancelled or deleted, although `app/wake/usecase.go:252` says
  that only active plans can be fired. `overwritten` counts exactly these saves, and
  the behaviours are among those the `background` run explores.
* Wake plans on news look into `telegram_messages` (`gorm/repo/wake.go:196`), which
  nothing reachable writes any more.
* `RecoverQueuedMeetings` returns at its first dispatch error, so one meeting whose
  task id is still known keeps the ones behind it waiting for the next pass.

## 7. What is left

1. Edits of subscriptions with their whole-row saves beside a running collect, and
   the administrators of `app/auth`.
2. A run of `PaperTrading` with `CascadeFills`.
