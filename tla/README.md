# PulseWatch in TLA+

This directory holds TLA+ models of the core of PulseWatch, the TLC
configurations that check them, and machine-checked proofs. Paths of the form
`app/...` and `agent/...` are relative to `src/`.

## The system

PulseWatch watches servers. An agent on each server posts metrics and streams
its journal; a FastAPI application stores them, evaluates alert rules and serves
dashboards; Celery workers, driven by beat, run the periodic work; a Telegram bot
gives the owner commands. The parts share a PostgreSQL database (READ COMMITTED)
and Redis (broker, Pub/Sub, keys with a TTL). Nothing else connects them: almost
every hard behaviour is two of them reading and writing the same rows in
statements of different transactions.

| Component | State | Operations | Correct when |
|---|---|---|---|
| Server liveness: `heartbeat_tasks.py`, `deps.py`, `metrics.py`, bot `/pause /resume /delete` | `servers.is_active, paused, last_seen_at` | metric request, heartbeat check, commands | only silent servers go down, every silent one does, returning ones come back, the owner is told |
| Alerts: `threshold.py`, `metrics.py`, `docker_metrics.py`, `alerts.py` | `alert_rules`, `alert_events`, samples | evaluation of a sample, rule commands, deletion of the server | cooldown respected, an event recorded once and announced only on the channels of its rule, none without a rule |
| Auto-resolve: `alert_resolver.py`, `resolve_tasks.py` | `alert_events.resolved_at` | two passes every 60 s | a closed event stays closed, closed by a sample not older than its own, and closed eventually if the breach is over |
| Log ingest: `websocket.py`, `connection_manager.py`, `log_retention.py` | buffer and batch of a connection, registry of dashboards, `logs` | receive, flush by size, flush by age, disconnect, subscribe, prune | table in order without duplicates, loss only by a failure, dashboards without gaps |
| Notifications: `notification_tasks.py`, `telegram.py`, `email_alert.py` | Celery queue, `mute:*` keys | send with retries | nothing forgotten, no more copies than attempts, mute heard on every attempt, notices in order |
| Aggregation: `aggregation.py`, `aggregation_tasks.py` | `metric_aggregates`, `docker_aggregates` | one window per run | a row counts its own window, complete or not at all, and never less than before |
| Sessions: `auth.py`, `redis_client.py`, `static/app.js` | `refresh:*`, `refresh_used:*`, `pwd_reset:*`, the browser's pair | login, refresh, logout, reset | one successor per token, a spent token recognised, none resurrected, a reset ends the old sessions, an honest browser keeps its own |
| Bot: `telegram_bot.py` | update offset, `pending_delete:*`, `rule_draft:*` | commands, `/createrule` dialogue | a command takes effect once, a deletion only after its own confirmation |
| Agent: `agent/` | connection, backoff, stop event | post, stream, stop | keeps posting, stops |
| Live metrics, Prometheus, Alertmanager, audit, UI | none of their own | relay, read, insert | not modelled, see below |

**Hard behaviours.** Requests overlap: the agent gives up after 5 s and posts
again while the first request still runs. Executions of a periodic task overlap
when one takes longer than its period. A request authenticates, stores,
evaluates and announces in separate statements. Notifications are enqueued
after the commit, so a crash in between loses them. asyncio coroutines are
cancelled in the middle of a commit. A task sends a message and does not learn
whether it arrived. Refresh tokens live in keys that several commands of several
requests write. The bot forgets its offset when it restarts. `PROJECT.json` lists every hazard at the
line where it bites, with the properties that would notice.

## Modules

| Module | What it is |
|---|---|
| `Heartbeat` | server liveness: requests, overlapping heartbeat executions, commands |
| `HeartbeatProofs` | theorems about `Heartbeat` and their proofs |
| `Incidents` | abstract specification: what the alerting half promises about events |
| `Alerts` | rules, evaluation, auto-resolve; implements `Incidents` |
| `AlertsProofs` | theorems about `Alerts`, the refinement among them |
| `LogIngest` | the log WebSocket, its two coroutines and the dashboards |
| `LogIngestProofs` | theorems about `LogIngest` and their proofs |
| `Delivery` | abstract specification: what the notification tasks promise about a message |
| `Notify` | the queue, the worker processes and the owner's switches; implements `Delivery` |
| `NotifyProofs` | theorems about `Notify`, the refinement among them |
| `Windows` | the window computations of the aggregation tasks, as functions of the clock |
| `Aggregation` | passes over the servers, with their transactions; extends `Windows` |
| `AggregationProofs` | theorems about `Windows` and `Aggregation` and their proofs |
| `Sessions` | refresh tokens, login, rotation, logout, password reset, browsers |
| `SessionsProofs` | theorems about `Sessions` and their proofs |
| `BrowserProofs` | theorems about `Sessions` that need to know who holds which token |
| `Bot` | updates and their redelivery, commands, the `/createrule` dialogue |
| `BotProofs` | theorems about `Bot` and their proofs |
| `MC...` | the instances that TLC checks |

Operators named as variants in the modules (comment `Variant:`) are plausible
bugs of the code. They are not used by the specifications; each shows, put in
the place of the operator it varies, that a property can be violated.

### Heartbeat

State: the columns `active`, `paused`, `seen` of each server and whether its row
exists (`phase`); one record per metric request and per execution of the task.

* A metric request is two actions: `Authenticate` (`verify_api_key` and the
  paused check on the row it read; the transaction starts here, and with it the
  `func.now()` written later) and `CommitMetric`.
* An execution of `_run_heartbeat_check` is `StartCheck` (threshold),
  `MarkInactive`, `MarkActive` (the two `UPDATE ... RETURNING`), `CommitCheck`,
  then one `Enqueue` per notice. Rows that an uncommitted execution has written
  are locked (`Locks`): other writers wait, readers see the committed version. A
  statement is atomic. When an UPDATE has to wait, PostgreSQL re-evaluates its
  WHERE on the row it waited for; the model waits first and evaluates then.
* `Register`, `SetPaused`, `Delete` are the commands; `CrashRequest`, `CrashRun`
  the crashes, which undo an open transaction.
* `told`, `mark` and `overlapped` are history: the last notice enqueued, the last
  deactivation, whether two executions ever overlapped.

Key rotation and wrong keys are left out: a refused key changes nothing.

### Incidents and Alerts

`Incidents` is the promise: an event is raised once and only for a rule that exists,
is never reopened once closed, disappears exactly when its rule does, and is
announced only after it was recorded and on the channels it was recorded for.
`Alerts!KeepsPromise` states that `Alerts` implements it under the mapping open /
closed / announced = ids of the rows with `resolved_at` NULL / set / notices
enqueued. `Purge` is a deletion: it may take several rules at once, and it takes all
their events and no others.

`Alerts` models one server and the commands on its rules. A metric request (`Begin`,
`StoreSamples`, then per sample `EvaluateRules`, `CommitEvents`, one `EnqueueEvent`
per event, and `Finish`) covers both `submit_metric` (one sample of the host) and
`submit_docker_metrics` (one sample per container). Rules are read afresh for
every sample. If a rule that fired was deleted before the commit, the commit
fails and the handler's `except Exception: pass` drops the rest of the
evaluation. `Enqueue` is `_enqueue_notifications`: one task per channel the rule had
when it was read (`Via`), none for an empty list, and a broker that fails costs the
channels not yet reached, or leaves open whether the last one was (`reached`), after
which the loop goes on.

auto-resolve is `ReadOpen`, one `Examine` per row (with the latest
sample cached per series, as in the code), `CommitResolved`; the docker pass
follows the system pass and is skipped when that fails. Beat does not wait for one
execution to end before it starts the next, so there are several (`Executions`). The
UPDATE names an event by its primary key alone: a second execution that read the event
open closes it again and overwrites `resolved_at` (`ClosedBy`). For `Incidents` that
is no step at all, since the event was closed and stays so; which sample closed it last
is what `ClosedOnFresherSample` looks at. An event deleted before the commit makes a
single UPDATE match no row, and SQLAlchemy raises; several events are updated in one
batch, for which asyncpg reports no row counts, and nobody notices.

`DeleteServer` is the bot's confirmed `/delete`: one commit in which the cascades take
the samples, the rules and their events, while requests and auto-resolve are under
way. A request that has not stored its samples then fails on the foreign key, one that
has finds no rules any more, or fails at its commit or its refresh.

A commit writes all its rows in one step. Two commits that wait for each other's rows
(two requests writing `last_triggered_at`, two executions writing the same events in
different orders, a deletion) end in PostgreSQL aborting one of them, which is a
failure the handler or the task does not survive: the outcomes are those of one commit
coming first and the other failing, which `CrashHandler` and `CrashResolver` allow.

An event is identified
by its rule, its series and the instant its request began, because every request
begins at an instant of its own (a microsecond timestamp; `Begin` advances the
clock). A payload names a container once (`OncePerSource`), because the collector
lists each once (`agent/collectors/docker_collector.py:84`). A value is a number, a metric field is one the sample has or one it does
not have. `closed` holds the sample that closed an event, a history the code
does not keep; `raised`, `owed` and `refused` are history as well.

### LogIngest

One agent connection on one asyncio loop. Actions end at the awaits of the code:
`Receive` (buffer the line and snapshot the dashboards), one `Send` per dashboard,
`EndBroadcast`, `BeginFlush` (take `flush_lock`, copy and clear the buffer),
`FinishFlush` (commit, or rollback and drop the batch). A coroutine holds the lock
exactly while its batch is not empty, so the lock has no variable. `Disconnect`
ends the receive loop and cancels the periodic flush: if that is in its commit,
the batch is in the table or lost, depending on how far the database was. After
a rollback the session's `Server` object is expired, and reading `server.id` for
the next line raises outside a greenlet: `ReceiveExpired`. A cancelled commit
leaves the session in a state in which the last flush may fail without the
database's doing. Deleting the server empties its part of the table and makes
later batches fail on the foreign key. The rollback itself succeeds: one that raises
(`app/api/websocket.py:84`, the connection to the database is gone) would end the
coroutine that flushes, and is not modelled. `Prune` is the daily `task_prune_old_logs`:
ids follow the times of creation, so it removes a prefix of the table.

### Delivery and Notify

`Delivery` promises that a message is accepted by its provider only between its
announcement and its end, and at most `Limit` times. `Notify!KeepsPromise` states
that `Notify` implements it, with the limit of an alert at one per attempt and that
of a heartbeat notice at one; `open` is what is queued, waiting for a retry or being
run, `over` what will not run again.

A Celery worker process takes a job (`Take`; `acks_early`, so nobody else will),
reads its rows (`Read`), looks at the switch as read and at the mute key as it is now
(`Consider`), and sends: `NotConfigured`, `Accepted`, or `SendFails`, after which the
message may have arrived all the same. An alert job is retried by `RetryDue` up to
`MaxRetries` times; a heartbeat job goes on with its e-mail whatever became of the
Telegram message (`Proceed`) and is not retried. `Mute`, `MuteExpires`, `Switch` and
`DeleteRows` are the owner, `Abort` a process that dies or an exception outside
`autoretry_for`. A job on the queue stands for its ids; wording is left out.

### Windows and Aggregation

`Windows` translates the arithmetic of the three tasks on seconds since the epoch.
`Aggregation` takes one width. A pass is `Start` (window and list of servers), then
per server `NextServer` (reads the samples of the host), `WriteSystem` (upsert and
commit), `ListContainers`, `ReadDocker` and `WriteDocker` per container,
`CommitDocker`, and `End`. A row written and not committed is locked; `WaitsFor` says
who waits for whom and `BreakDeadlock` is the database's way out. A statement that
fails leaves the session aborted (`Fail`): every server that follows fails too,
because `aggregate_all_servers` catches the exception and does not roll back.
`Post` and `CommitPost` are the metric requests, whose `collected_at` is earlier than
their commit; one stores a sample of the host or one of each container that runs, which
may be any of them. An average is modelled by the set of requests it was computed from, so
a property can say which samples a row counts.

### Sessions

One account. Every Redis command and every committed statement of `login`,
`refresh`, `logout`, `forgot_password` and `reset_password` is an action; a pipeline
is one MULTI/EXEC, hence one action. `Rotate` deletes the old key and writes the new
one; what the deletion returned decides between `MarkUsed` and `Undo`, commands of
their own. A revocation is a SCAN: `RevokeOne` may delete any key,
`RevokeEnd` needs those gone that were there at its beginning. A device is the
`localStorage` of one browser, which `apiFetch` reads without a lock. A token is its
number in the order of issue; tokens live equally long and expire in that order. A
TOTP check and a password check are the guard that lets `LoginVerify` happen, and the
rate limit and an expired JWT are why `CheckUsed` may refuse anything.
`opened`, `successors`, `delivered`, `revoked`, `late` and `overlapped` are history.

### Bot

One chat. `inbox` is what Telegram has not seen confirmed, `got` and `index` the
position of the loop in the last batch: the offset, which lives in memory. `Poll`
confirms and fetches, `Handle` runs `_handle_message` to its end, `HandleFails` ends
it between two of its effects (the loop logs and goes on, or the process dies),
`Crash` restarts the process between two updates. The link code, the pending deletion
and the draft are keys that `Expire` may remove. The dialogue is `Answer` and
`Confirm`; an answer is a member of a small set of texts, of which a step accepts
some; what makes a text acceptable (a number, a known operator, a name of the right
length, `telegram_bot.py:498`-`640`) is not modelled. `Full` has one disjunct per command, `Partial` what a failing one leaves. A
scenario is a set of messages that may be sent in a behaviour, so that dialogues,
deletions and relinking are checked together where they meet and apart where not.

## Runs

| Run | Shows | Bounds |
|---|---|---|
| `heartbeat` | the safety, action and liveness properties of `Heartbeat` | 1 server, 1 request, 2 executions, timeout 1 tick, clock to 3, 1 crash |
| `heartbeat_return` | violated: README.md:256, a server whose metrics resume is back | as above, 1 execution, no crash |
| `alerts_host` | `Alerts` implements `Incidents` with overlapping requests, overlapping auto-resolve and cascades; no orphan event; no event closed on an older sample | 2 rules, 2 requests at once, 2 executions, clock to 2, cooldown 2 |
| `alerts_containers` | the cooldown over a payload, the account of the notices, closing | 1 rule, 2 settings, 2 containers, 1 request at once, 1 execution, clock to 2, 1 crash, 1 failing enqueue |
| `alerts_cooldown` | violated: tests/test_threshold.py:89, no event within the cooldown | 1 rule, 2 requests at once |
| `alerts_every_container` | violated: tests/test_threshold.py:212, a rule without container applies to all | 1 rule, 2 containers |
| `log_ingest` | order, accounting with retention, dashboards, progress | batches of 2, 3 lines, 2 dashboards, 1 database failure |
| `log_ingest_cancel` | violated: README.md:180, the lines are saved | batches of 2, 3 lines, no database failure |
| `sessions` | the token properties, reset, and what an honest browser may rely on | 2 devices, 2 requests at once, 3 tokens, 1 reset, 1 expiry, 1 lost answer |
| `notify` | `Notify` implements `Delivery`; nothing forgotten, mute, order, termination | 2 processes, 1 alert event, 2 notices, 2 of them in all, 1 retry, 1 change, 1 crash, with and without e-mail |
| `aggregation` | what rows count, what a pass leaves, termination; the windows for two days | 2 servers, 2 containers, 2 passes, clock 0..1 with windows of 1, 2 requests, 2 starts |
| `bot` | dialogue, deletion, toggling, ownership, progress | 2 users, 3 servers, 2 unconfirmed updates, 1 fault, three scenarios |

Why the bounds are enough. Servers do not interact in `Heartbeat` except that an
execution handles all of them, so one server shows every interleaving of its
row; two executions are what it takes for locks, reordered notices and stale
thresholds; three ticks with a timeout of one let a server report, fall silent,
go down and come back. In `Alerts` two overlapping requests are what a stale
cooldown or an out-of-order commit needs, two rules what a commit that fails for
another rule's sake and a cascade over several rules need, two executions what a second
closing needs, and two containers what a shared cooldown needs. The
two runs divide these among them: in `alerts_host` the rules do not change (they
are created and deleted) and nothing fails, in `alerts_containers` one rule changes
between a setting for every container, announced on both channels, and one that is
switched off, names a container and has no channel, one enqueue and one process fail,
and requests come one by one. All of it at once is what the proofs cover. In
`LogIngest` three lines with batches of two give a full batch, a partial one and
a line received during a commit. In `Sessions` two requests are what a
race of rotations, or of a rotation with a revocation, needs, and three tokens let a
token, its successor and another login live together; the proofs cover the rest. In
`Notify` one retry shows the loop, two notices their order, one change a mute, a
switch or a deletion at any point. In `Aggregation` two passes over two servers with
two containers are what a deadlock needs and what shows a failure's effect on the
server that follows; the clock reaches the end of the first window, and requests begun in
it commit before, during and after the passes. There are samples inside that window and on
its end. A second window in the same instance takes TLC from 750 thousand to 3 million
states and was checked once without a violation; the proofs are for every clock. In `Bot` a backlog of two makes the
batch, its middle and its redelivery distinct.

Everything that could grow is bounded by a constant in a guard, named `Max...`.
Symmetry is used in `alerts_host`, `sessions` and `aggregation`, which check no
liveness property. Deadlock is not checked in `log_ingest` (a connection ends) nor in
`sessions`, `notify` and `aggregation`, where tokens, work and executions run out.

### Fairness

* `Heartbeat!FairSpec`: time passes; beat starts the task every 60 s and its
  statements end (`WF` of each execution's steps); a request in flight ends. No
  command is fair. `AgentFairSpec` adds that the agent keeps posting
  (`agent/agent.py:14`): strong fairness, as a request slot may be busy again and
  again.
* `Alerts!FairSpec`: auto-resolve is started every 60 s and proceeds, handlers
  proceed, time passes. Neither requests nor commands are fair.
* `LogIngest!FairSpec`: the sleep of the periodic flush ends and a flush ends. A
  send to a dashboard is not fair: a dashboard that does not read blocks it.
* `Notify!FairSpec`: workers take jobs, every request of a provider times out, a
  countdown ends. Neither the owner nor the checks are fair.
* `Bot!FairSpec`: the loop runs, and a process that died is restarted
  (`WF` of `Poll \/ Handle`; a handler that fails is a fault and bounded).
* `Sessions` and `Aggregation` state no fairness. That a pass ends is the action
  property `EveryStepNearsTheEnd`: a measure that every step of a pass lowers.

### Where code and documentation differ

Four runs expect a violation; `findings` in `PROJECT.json` quotes the lines.

1. A deactivated server is refused by `verify_api_key`, so it can never report
   again. `LockedOutForGood`, checked and proved, says the same positively.
2. Two overlapping requests raise two events of a rule within its cooldown.
3. A rule for every container has one cooldown for all of them.
4. A disconnect during the periodic flush's commit loses the batch.

Met while modelling, and stated as the exceptions of properties:

* README.md:353 says that `apiFetch` refreshes atomically on a 401. Two calls that
  meet a 401 together both present the token; the second one is taken for reuse and
  every session of the account is revoked (`HonestBrowserKeepsSession` excludes it by
  `overlapped`). The same happens when the answer of a refresh is lost.
* A pending `/delete` survives until its confirmation; delivered again after a
  restart, a confirmation may precede its question (`DeletedAsAsked`).
* A chat that is linked to another user in the middle of `/createrule` makes a rule of
  one user on a server of another (`RulesHaveOwners`).
* A login that verified the old password before a reset, or one stored while the
  revocation runs, survives the reset (`ResetEndsOldSessions`, `late`).
* `create_alert_rule` (`app/api/alerts.py:40`) drops `notification_channels`, so a rule made
  by POST starts with both channels, whatever README.md:258 says of the opt-out.
* The later of two overlapping executions of auto-resolve overwrites `resolved_at`.
* A metric that commits after its window was aggregated is never counted: no property
  claims it.

Some properties are stated for less than the code meets, deliberately:
`RecoveryNeedsMetric` and `NoticesMatchStatus` for executions of the task that do
not overlap, `NoticesMatchStatus` without a crash, `NoticesAccounted` without a crash or a deletion
and not for an event on which the broker itself failed,
`CooldownHolds` for one request at a time, `SettledEventsClose` for a rule whose
`metric_type` was not changed after the event, `NobodyForgotten` without crashes and
changes, `NoticesInOrder` for tasks that do not overlap, `ServedIsCounted` and
`RowsOnlyGrow` for passes that do not share a window, `DeletedAsAsked` without faults,
`ToggledAsAsked` without faults, for a chat that stays linked and a rule of its user.
The hazards list says what happens
otherwise.

## Proofs

Eight modules, all from the named assumptions on the constants alone. In the
larger ones lemmas first say what every action does, variable by variable; the
invariants are proved from these lemmas and do not open the actions again.

### HeartbeatProofs

Six theorems for every number of servers, requests and
executions and every timeout:

* `TypeCorrect`: `Spec => []TypeOK`.
* `MarksHold`: `Spec => []PendingMarksHold`. What an execution decided by its two
  UPDATEs is still true of the rows until its commit.
* `OnlySilentServersGoDown`: `Spec => NoFalseDown`.
* `LockedOutStays`: `Spec => LockedOutForGood`.
* `RecoveryFollowsMetric`: `Spec => RecoveryNeedsMetric`.
* `NoticesAgree`: `Spec => []NoticesMatchStatus`.

The inductive invariant `IInv` is `TypeOK`, `PendingMarksHold` and two facts it
needs. `MarkedSoFar`: an execution has marked nothing before the UPDATE that
marks it; without it the step `MarkInactive` would say nothing about `up`.
`ThresholdsInPast`: a threshold is at least `Timeout` old, which turns "silent
before the threshold" into "silent for the timeout now" at the commit. The
argument for `PendingMarksHold`: a marked row is locked, every other writer waits
for the lock (`LockedRowsKept`), and an execution marks only rows nobody holds
(`OneRunChanges`). `OnlyCommitsFlip` then reduces `NoFalseDown` to the commit.
`LockedOut` is preserved because a fresh execution's threshold is newer than the
server's last metric and no request can pass the key check.

The last two theorems are about executions that do not overlap and rest on `HInv`.
`Alone`: without an overlap one execution is under way. `DownWasSilent` and
`NewestThreshold`: a server that is down had its last metric before the threshold it
was taken down at, and no later execution has an older threshold; `RecoveryNeedsMetric`
is these two and `UpHolds` at the commit. `Announced`: `is_active` agrees with the last
notice of every server no notice is to come about, and the notices to come agree with
it; the commit keeps it because the two sets of an execution are disjoint
(`CommitSplits`).

### AlertsProofs

Six theorems for every number of rules, metric requests, executions of auto-resolve and
containers, every cooldown, every number of crashes and broker failures and every set of
payloads:

* `TypeCorrect`: `Spec => []TypeOK`.
* `RulesOutliveEvents`: `Spec => []EventsHaveRules`.
* `NeverClosedOnOlderSample`: `Spec => []ClosedOnFresherSample`.
* `CooldownOfOneRequest`: `CooldownHolds` for one handler, so that requests do not
  overlap. With two it is false, as the run `alerts_cooldown` shows.
* `NoNoticeLost`: `Spec => []NoticesAccounted`. What a request was still to enqueue and
  has not is lost only with a crash, a deletion or a broker that failed on the same event.
* `AlertsKeepThePromise`: `Spec => KeepsPromise`, the refinement of `Incidents`, with
  overlapping executions, failing enqueues and deletions of rules and of the server.

The inductive invariant `IInv` says what a request and a pass of auto-resolve carry
between their statements. `Shaped` is the shapes. `AtsApart`:
requests begin at instants of their own. `Fresh`: no event of a sample still to be
evaluated is recorded, so that a commit adds new ids only; this is where a payload that
named a container twice would break the proof. `Recorded`: an event was raised and no
two share an id. `MadeOwed`: what a request is about to enqueue was recorded with the
channels it carries. `SamplesAreStored`, `ReadingsFresh`: an event's sample is stored before the
event, stored series only get fresher until the server is deleted, and what a pass compares an
event with is not older than the event's own sample. The last two turn a late commit of auto-resolve into
a statement about samples. For the cooldown `Stamps` relates `last_triggered_at` to the
rule's youngest event. For the notices `OwedAsRaised` says that an event is owed on the
channels its request carries and on no other, and `MadeStands` that `db.refresh` finds the
event unless its rule was deleted; without it the request could end early. The refinement has three kinds of steps that write events
(`Recording`, `Closing`, `Deleting`); all others stutter or announce.

### LogIngestProofs

Four theorems for every batch size, set of dashboards and number of lines and failures:

* `TypeCorrect`: `Spec => []TypeOK`.
* `TableKeepsTheOrder`: `Spec => []RowsInOrder`.
* `EveryLineIsSomewhere`: `Spec => []EveryLineAccounted`.
* `NoGapsForADashboard`: `Spec => []ShownWithoutGaps`.

`Stages` says what may be under way at each stage of the loop, and that at most one
coroutine has a batch. `LineOrder` lines up table, batch and buffer: each is increasing
and lies wholly before the next. With it `Accounted` (the places are disjoint and cover
what was received), `Blame` (a loss has a cause) and `OldestFirst` (retention reaches a
line after all older ones) are inductive. For the dashboards `Listening` says which line
a dashboard got last: the newest, or the one before while the newest is being sent.

### NotifyProofs

Five theorems for every number of processes, events, notices, retries, changes and
crashes and every choice of configured channels:

* `TypeCorrect`: `Spec => []TypeOK`, of which "no message is begun more often than
  `max_retries` allows" is the part that matters.
* `MutesAreHeard`: `Spec => MuteIsHeard`.
* `NobodyIsForgotten`: `Spec => []NobodyForgotten`.
* `NoticesStayInOrder`: `Spec => NoticesInOrder`.
* `NotifyKeepsThePromise`: `Spec => KeepsPromise`, the refinement of `Delivery`.

Both messages of a heartbeat travel as one job, so the invariants speak of jobs. Every
step is one of six moves of a job (`EveryStepMoves`): it keeps its place, is raised,
queued again, taken, ended or left waiting. `Numbered`: what is anywhere was raised.
`Apart`: a job is at one place only, in the queue, waiting, or at one process, and at
none once it has ended. `Budget`: whatever may still be sent has an attempt left. It
needs `Apart`, since otherwise a send of one process would use up what another counts
on. `IInv` is these and `TypeOK`. On top of it, `Heard` is what a process about to send
knows of the mutes; `Served` says, while nothing was changed and nothing died, that what
ended or was passed over was done; `InLine` puts what arrived before what runs before
what is queued. For the refinement `WhatIsOpen` describes `open` by jobs, and every move
but a raise is an `End`, most of them of no message.

### SessionsProofs

Five theorems for every number of browsers, concurrent requests, tokens, resets and
crashes:

* `TypeCorrect`: `Spec => []TypeOK`, of which "no token is both live and marked" is the
  part that matters.
* `NeverLiveAgain`: `Spec => RevokedForGood`.
* `SingleUse`: `Spec => []ExchangedOnce`.
* `ReuseIsRecognised`: `Spec => []SpentIsMarked`.
* `NoOrphanKeys`: `Spec => []EveryKeyHasOwner`.

The inductive invariant `IInv` is `TypeOK` in parts, the shapes of the requests and
histories, and two facts. `Carried`: what a request holds at each of its steps, so that
a marker is written for a real token and only a request that is about to answer or to
undo holds a new one. `SpentIsDead`: a token that was exchanged, or whose exchange is
about to be marked, is not live; without it the marker could meet a live token and a
second rotation a second successor. One lemma per action gives its effect variable by
variable; the invariant and the theorems cite these and never open an action again.

### BrowserProofs

Two theorems, again for every number of browsers, requests and tokens:

* `ResetIsThorough`: `Spec => []ResetEndsOldSessions`.
* `HonestBrowsersStay`: `Spec => []HonestBrowserKeepsSession`.

Both rest on `IInv` and on `Private`: a browser stores and presents only tokens that were
delivered to it, and a new token is known to its request alone until it is delivered.
The first theorem strengthens its property to `AllSpared`: while no request has died,
every live token was opened with the present password, is late, is about to be taken
back by the rotation that issued it, or is still on the list of a revocation under way.
A rotation passes the session of a listed token on to a key that SCAN need not return;
such a key was stored while the revocation ran, hence is late, and `RotationSpared` shows
that a rotation makes no other exception. The second strengthens its property to `Behaved`, five facts that
hold until a token is presented twice or an answer is lost: nobody is revoking for
reuse, no two requests present one token, a request whose token is marked has marked it
itself, a browser whose token is marked has a request about to answer it, and what a
browser stores is good or about to be replaced.

### BotProofs

Four theorems for every number of users, servers, unconfirmed updates and faults and
every set of messages a scenario allows:

* `TypeCorrect`: `Spec => []TypeOK`. It holds that a draft has the fields its step needs,
  so that no step of `/createrule` meets one with a field missing.
* `RulesAreTheOwners`: `Spec => []RulesHaveOwners`.
* `OnlyConfirmedDeletions`: `Spec => []DeletedAsAsked`.
* `EveryToggleCounts`: `Spec => []ToggledAsAsked`.

`Owned` carries ownership from the dialogue's first step to its last. `InOrder` needs
`Foretold` beside what is pending: a confirmation still in the backlog has its question
handled already or before it in the backlog. For the toggles a count of the remaining
messages would need induction; instead `Foreseen` says that there is a function (a
`Course`) from the position in the backlog to the value of the switch there, which ends
in what was asked for. Handling an update moves along it, sending one extends it, and
when nothing is left its two ends are one.

### AggregationProofs

About `Windows`: for every instant the three tasks compute the last complete window of
their width (`FiveminIsLastComplete`, `HourlyIsLastComplete`, `DailyIsLastComplete`), and
that window is over while only its successor has begun (`WindowIsOver`).

About `Aggregation`, five theorems for every finite number of servers and containers and
every number of passes, requests and starts, every width and every clock:

* `TypeCorrect`: `Spec => []TypeOK`.
* `RowsRight`: `Spec => []RowsCountTheirWindow`.
* `ServedRight`: `Spec => []ServedIsCounted`.
* `RowsOnlyGrowing`: `Spec => RowsOnlyGrow`.
* `ExecutionsNearTheEnd`: `Spec => EveryStepNearsTheEnd`.

What a pass has in hand (`InHand`) is what it read and will write, and what it wrote and
did not commit. Between its reading and its commit samples are committed, the server may
be deleted, and other passes write. `ReadsStored` says that what is in hand is still stored
while the server exists, and for a written row the server must, because the deletion waits
for its lock (`Shape`); at the write this becomes `RowsStored`, and with the numbering of
requests and the arithmetic of windows `RowsCountTheirWindow`. `NothingForgotten`: the row
to be replaced has nothing that is not in hand; stored samples only grow, and without an
overlap nobody else writes the rows of the window (`Alone`). For `ServedIsCounted`,
`DueStays` says that what was due is still stored unless its server is gone, `Gathered`
that what is due of the present server is in hand, in its row, or of a container still on
the list, and `ServedCounted` is the property itself without the shape of the state. It
holds when the server is left, by the commit of the containers' rows or because there are
none (`ServedKeeps`). Whoever is not a pass moves the stored samples only (`WorldMoves`), a
pass everything else (`StepMoves`), so that each action is shown to be one or the other and
the two are dealt with once. `ExecutionsNearTheEnd` counts the statements a pass has
left; it is why the assumption asks for finitely many servers and containers.

### Only model-checked

* Liveness (`SilentGoesDown`, `SettledEventsClose`,
  `BufferedLinesLeave`, `WorkEnds`, `UpdatesAreHandled`), because it needs fairness and
  ENABLED, which the prover does not handle.
* Deadlock freedom, where a run checks it: it is a statement about ENABLED.

Every invariant and every action property that a run checks is the statement of a theorem,
and so are both refinements.

The type invariants of `Notify` and `Aggregation` are in no run: they are proved, and
`KeepsPromise` and `RowsCountTheirWindow`, which are checked, have the parts that could
fail.

## Plan

Done: all modules above. Left, in this order:

1. A second agent connection of one server in `LogIngest`, and the agent's own
   shutdown and backoff.

## Not modelled

Live metrics (`ws_metrics.py`) relay Redis messages and keep no state; Prometheus
gauges are recomputed from the database; the Alertmanager webhook forwards text;
audit entries are one insert after the operation. CSV export and the read API change
nothing, and the dashboard's cache of ten seconds serves them. Key rotation replaces a
key: every request with the old one is refused, which changes nothing. Registration of
accounts, TOTP setup and profile edits are single statements; what of them the tasks and
the bot read (`Switch`, `SetChat`) is modelled there. Collectors read the machine;
`static/` and `sdk/` are clients, of which only the handling of the token pair matters.
Passwords, keys, TOTP codes and JWTs appear only as the condition they put on a handler.

Celery tasks create their event loop per execution while the engine is created
per process (`app/database.py:8`); an execution that fails because of it is a
crash in the models. The models assume that the worker knows its tasks
(`app/tasks/celery_app.py:47` looks for them in a module that does not exist). The agent
looks at its stop event only when the next journal line arrives
(`agent/logs_streamer.py:31`).
