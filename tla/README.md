# TLA+ models of the teachLink backend

The teachLink backend is a NestJS application: TypeScript on Node, one event
loop per process, several processes behind a load balancer, PostgreSQL through
TypeORM, Redis through ioredis, Bull queues in Redis.  Inside one process code
runs undisturbed from one `await` to the next; between two awaits, and between
processes, everything interleaves.  The models here therefore have **one action
per stretch between two awaits** (usually: one Redis command, one SQL statement,
one call of a provider), and keep all of the control around it: guards, early
returns, error paths, `finally` blocks, swallowed errors.  Data is kept only as far as a
property can tell it apart: a response is the request whose handler produced it,
a plan is its amount, a session record is its version.

All paths below are relative to the repository's `src/` directory unless they
start with `docs/`.

## 1. Inventory

### Components that carry state shared between processes

| component | state | operations | what is hard | what makes it correct |
|---|---|---|---|---|
| Distributed lock (`orchestration/locks`) | a Redis key with expiry per resource | `acquireLock`, `releaseLock`, `withLock` | fn outliving the TTL, re-sent commands, dead holders | exclusive within the TTL; only the holder's release removes it; keys come free |
| Idempotent requests (`common/interceptors/idempotency.interceptor.ts`, `common/services/idempotency.service.ts`, `request-timeout.interceptor.ts` around them) | a record and a lock in Redis per scope key | `intercept`: look up, lock, handle, save, release, wait | look before lock, swallowed errors, timeouts that leave handlers running | a client gets its own payload's response, made by a handler that finished; nobody waits for ever |
| Cache with herd guard and invalidation (`caching`) | values in Redis per tenant scope, a lock per key | `getOrSet`, `invalidateKey` | a factory racing a write, waiting for a holder that fails | proper use of the lock; waiting ends; stale values die out |
| Sessions (`session`) | a record per session, a sorted set per user | create, touch, migrate, remove, delete all, trim, hourly cleanup | two data structures without a transaction, ranks that move, read-modify-write | the index stays bounded and is reconciled; removed sessions stay removed |
| Subscriptions (`payments/subscriptions`) | a row in `subscriptions`; the provider's ledger | pause, resume, cancel, upgrade, downgrade, renew, resume job | stale entity saves, a provider call in the middle, retries with backoff | no plan without its payment; legal changes of status only |
| Webhook delivery (`webhooks`, `workers/base`, `workers/processors/webhooks.worker.ts`, `workers/bridge`, `queues/dead-letter`) | a Bull job, the dead letter queue | deliver, retry, give up, heartbeat, forward failures | stalled jobs with two slots at work, bookkeeping that fails after the fact, events that come late | bounded number of POSTs, no job lost in silence, every job ends |
| Auth tokens (`auth`) | a refresh token's hash on the user's row; a blacklist in the cache | login, `refreshTokens`, logout, the guard of access tokens | refresh against refresh, refresh against logout, rounded TTLs, retries after a failure | a revocation holds; entries outlive their tokens; only a token used twice looks reused |
| Enrolments (`courses/enrollments.service.ts`) | enrolment rows | enrol, bulk enrol, progress, unenrol | check then insert without a unique index, copies saved late | one row per user and course, prerequisites completed before, progress never falls |
| Sharding (`sharding/migration`, `sharding/rebalance`, `shard-config.service.ts`) | rows on several databases; statuses and migrations in one process's memory | migrate, rebalance, roll back, reload | copy by OFFSET and delete by LIMIT under writes, failures between statements | no row lost, no shard left draining, plans end |
| Rate limiting (`rate-limiting`, the quota services) | a row per client and period | check and increment, status, resets | counts compared in memory, rows replaced when their window ends | bounded overshoot; no wrong window blocked or deleted |
| Moderation (`moderation/manual`, `moderation/assignment`, content reports) | report rows, review items | report, queue, assign, review, escalate (cron) | three services saving one row, lists read long before use | item and report agree; decisions stay; overdue reports are attended |
| Points (`gamification/points`) | total and ledger | award, spend | two writes per operation | not modelled: the operation cannot succeed, see "Further disagreements" |
| Notifications (`notifications`) | rows, queue, DLQ | send, retry | duplicate check and insert apart | not modelled: no caller in the application |
| Collaboration (`collaboration`) | operation history per session | operation, join, leave | revision drawn before concurrent operations are looked up | not modelled: nothing is ever transformed, see "Further disagreements" |
| Synchronisation (`sync`) | versions per region | replicate, resolve | version-guarded upserts with retries | not modelled: nothing calls the receiving half |
| Payment webhooks, circuit breakers (`payments/webhooks`, `payments/services`) | in-memory set of event ids; breaker state | verify, replay check; fire | marked before handled, per process | not modelled: no route uses the guard, and the breaker's states are a library's |

The remaining directories (configuration, migrations, routing, GraphQL, health,
logging, search, media, localisation, content CRUD, ...) keep no state that two
actors change in an order that matters, or are I/O and formatting; each is
listed in `PROJECT.json` with its reason.

### How they interact

* `getOrSet` calls the lock service around its factory.  `CacheGetOrSet` has the
  service's commands in its own actions and is shown to implement
  `DistributedLock` (`UsesLockProperly`), so what is proved of the lock holds
  around a factory.
* The request timeout interceptor is registered outside the idempotency
  interceptor (`app.module.ts:117-122`) and unsubscribes from its stream; it is
  an action of `Idempotency`.
* Upgrade and downgrade are `@Idempotent()` routes: a repeated click meets the
  interceptor first.  Pause, resume, cancel and renewal are not, and meet each
  other on the row.
* The bridge binds a worker to its queue; the worker calls the delivery service;
  Bull decides what an exception means; the bridge's `failed` listener forwards.
  The four are one module because no property belongs to one of them alone.
* Writers emit cache events that `CacheInvalidationListener` handles later.
* `QuotaGuard` runs before a request reaches any of the others and shares nothing with them
  but the client's identity.
* `AuthTokens` has the guard of access tokens in it, since logout passes it; all other
  authenticated routes only read what it reads.
* A rebalance plan is several migrations and the polling loop that waits for them; they are
  one module, because a migration's failure is what the plan must survive.
* A report is saved by the reporting service, linked by the queue, assigned by the assignment
  service, decided by a reviewer's request and escalated by the cron job.  `Moderation`
  composes the five, because the property worth having is the agreement of report and item.

## 2. Modules

`RedisStore` is a library: string keys with an expiry (`Missing`, `Put`,
`SetNX`, `Aged`).  Time is counted down in the entry; `Tick` is the only action
that lets it pass, everywhere at once.

### `DistributedLock`
`store[k]` is the lock key; `pc[c]` the await a call of `withLock` is suspended at
(`acquiring` line 33, `granted`/`refused` its reply, `in_fn` 58, `releasing` 60);
`lease[c]` is what is left of the granted TTL, a history variable.  `RunSet` is
the SET NX at the server, `RunRelease` the Lua script; `ResendSet` and the second
branch of `RunRelease` are ioredis sending an unanswered command again after a
reconnect; `Abandon` is a rejected command or a dead process anywhere.

### `Idempotency`
`record` and `lock` are the two Redis entries, `pc[r]` the await of request `r`,
`release` the DELs that `finalize` has sent, and `effects`, `result`, `body` record
which handlers did their work and whose response a client got.  Every service method has a
successful action and, where it catches errors, one that answers what the
`catch` answers.  `IsValidRecordShape` is the check applied to *both* payloads.
`RequestTimeout` answers the client at any await and leaves the rest running;
without a subscriber, a lock acquired later starts no handler and is left to its
TTL.

### `CacheGetOrSet`
`cache[s]` is the entry under the key of tenant scope `s` (`Raw`: no tenant);
`ReadScope` is the scope that `get` and `set` use, `PollScope` the one the polling
loop uses.  `WriteSource` is some service writing the data and emitting its
event, `Invalidate` the listener.  `holder` are the callers inside the `try` whose
`finally` releases.

### `Session`
One user.  `rec` is the version of each record (0: no record), `index` the sorted set ordered by
`born`, `op[w]` where a worker is in its chain of commands.  `ScanKey` has
SCAN's guarantee: a key that stays is returned, a key set meanwhile may be.
`Die` ends an operation at any of its commands, a rejected one or the death of the
process; `untrimmed` counts the trims that ended so.
`touchSession` is `Touch` (the GET) and `WriteTouched` (the MULTI).

### `Subscription`
One row.  `op[w].entity` is the copy an operation read and changed; `Save` writes
that copy whole and increments the version, which is what TypeORM's `save` does
to columns that differ from the row.  `payments` is the provider's ledger.
Columns that no guard reads (dates, reasons, provider ids) are left out, and so
are the statuses only others set.

### `WebhookDelivery`
One job.  `slot[s]` is a unit of concurrency of `process[s]` that may hold the job although it
was taken away from it (a zombie).  `job.lock` is the token in the job's lock: that of a
process' Queue object, so that a zombie passes the check (`HoldsLock`) once another slot of
its process has the job.  `Complete` and `Fail` ask Bull to end the attempt.  Without the lock
`Complete` throws; `Fail` writes the slot's own count of attempts into the job all the same,
because Bull's `moveToFailed` puts that HMSET into its MULTI beside the script that checks the
lock, and a zombie that fails late so lowers the count.  `LoseLock` is a lock not renewed in time,
`Stall` Bull's check of stalled jobs, `Die` the death of a process with all its slots.
`failures` counts the `failed` events not handled yet, by kind: of an attempt that is repeated,
or of the job's end; `dlq` are the kinds that have an entry, `lost` those whose
entry was not written.
`RedisThrows` covers every `job.progress` and the heartbeat inside the `try` of
`runHandle`.  `valid` is whether the job's data passes `validateTarget`.

### `AuthTokens`
A pair of access and refresh token is a number; `pairs` says whose it is, of which login it
descends and when it was signed.  `stored[u]` is the pair whose hash is on the user's row,
`until` the blacklist with the instants its entries expire at, `op[w]` the await a request is
suspended at (`checking` auth.service.ts:152, `blacklisting` 173, `storing` 177, `revoking`
165 or the logout's, `guarding` the JWT strategy's look at the blacklist).  `Fail` is a
rejected command, before or after it took effect; only logout carries on after one.  `raced`
and `loggedOut` are history: they name the tokens two requests used at once, and the logins
that were revoked.

### `Enrollment`
`rows` are the committed rows, `op[w].inserted` those of a transaction still open: nobody
else sees them before `Commit`.  A bulk list is worked off item by item, each item by
`FindExisting`, `ValidatePrerequisites`, `SaveNew`.  `save` is two actions here,
`LoadForSave` (TypeORM's own SELECT) and `SaveFound` or `SaveGone` (the UPDATE of the columns
that differ from that SELECT, or the INSERT when the row is gone): the columns of two saves
can mix.  `completed` are the COURSE_COMPLETED events, `raced` is history.

### `ShardMigration`
`data[s][i]` is the version of row `i` at shard `s`, `latest[i]` what the application last
wrote.  A migration selects a batch by OFFSET (`SelectBatch`), copies it with ON CONFLICT DO
NOTHING (`InsertBatch`), and at the end marks its source (`Drain`), deletes as many rows as it
selected in all (`DeleteRows`), and marks it active again (`Complete`).  `Fail` is any failing
statement, `Restart` the death of the process, with which statuses and migrations vanish and
the configuration is read anew: `Configured` gives a shard in `SetDraining` the status its
`SHARD_n_STATUS` names.  `DrainingHasACause` says nothing of such a shard, and takes a failed
migration for a cause; that the mark then stays is listed below.  `waiting` are the migrations a plan polls.  The
application keeps writing to its shard throughout; `disturbed` remembers that a write came to
a shard being copied from, or a copy met an older one.

### `Quota`
`rows` is `user_quota_usage`.  A request reads the periods' rows in order (`FindUsage`),
replaces an expired one (`DeleteExpired`, `SaveUsage`, or `SaveRefused` by the unique index), and, all
copies in hand, either increments each row or marks the full ones (`Increment`,
`MarkOverage`, one UPDATE each, in any order: `Promise.all`).  `limits` are those `adjustLimit` scaled by
the CPU's load, one reading per period.  `ResetUser` and `ResetExpiredWindows` are the
administrator's and the scheduler's.  No statement fails other than by the unique index and no
process dies.  A request whose increment failed would be answered with an error while the other
periods' rows may have counted it, which only fills their windows sooner.

### `Moderation`
`rows[r]` is a report, `items[r]` its review item, `op[p]` where a submission, a reviewer's
request or a run of the cron job is, with the copies it read (`todo`).  `Save` writes the copy
back whole.  Its SELECT and UPDATE are one action here, unlike in `Enrollment`: the copies are
changed in columns that the properties follow one by one, and what overtakes a
reading overtakes the first one, which is minutes older, already.  `Age` makes a report
overdue, once its submission is over: the SLA is counted in hours.  `setbacks` bounds failing statements and lookups that
find nobody; `disturbed` is history.

The `MC*` modules only give constants their values.  `*Proofs` modules hold
the theorems about the module they extend.  Three are about two components that have a theme in
common: `RankProofs` (`ShardMigration` and `Session`: both count on ranks), `LeaseProofs`
(`DistributedLock` and `WebhookDelivery`: whoever holds something for a time) and
`RequestProofs` (`Idempotency` and `Quota`: what a request meets before its handler).  So that these
can be extended together, `Session`, `WebhookDelivery` and `Idempotency` carry their name in those of
their definitions that others have too (`SessionInit`, `WebhookSpec`, `IdempotencyTypeOK`, ...).

## 3. What the runs check

Each modelled component has one passing run, which checks its properties on one instance:
under `FairSpec` where liveness is among them, under `Spec` in `AuthTokens`, `Enrollment` and
`Quota`, whose requests are straight lines or a walk down a list.  Type invariants are
theorems of every module (section 4); the runs of `CacheGetOrSet`, `Session` and `ShardMigration`
check them as well.

| run | instance | states | shows |
|---|---|---|---|
| `lock` | 3 callers, 1 key, TTL 2, 2 calls each | 51,000 | `LeaseIsBacked`: within a granted TTL the key holds the grantee's token with that very time; `MutualExclusionWithinLease`: two in `fn` means one has outlived its TTL; `ReleasedOnlyByItsHolder`: a live lock vanishes only by its holder's release; `KeyComesFree`: every key keeps coming free |
| `idempotency` | 3 requests, 2 payloads, TTLs 1 and 2 | 371,000 | `AnswersAreBacked`: a client gets the response of a handler that finished, for its own payload; `RecordIsBacked`: so does everything stored; `OnlyHandlersBlock`: only its own unfinished handler keeps a client waiting |
| `cache` | 3 callers, two of a tenant and one of none, 1 write, TTLs 1 | 164,000 | `UsesLockProperly`: refinement of `DistributedLock`; `NobodyPollsForEver`; `StaleValuesDieOut` |
| `session` | 2 workers, 2 session ids, limit 1, 1 death | 225,000 | `IndexBounded`: the index exceeds the limit by no more than the trims that are under way or were interrupted; `StaleEntriesCleaned` |
| `subscription` | 2 workers, 3 plans, 2 attempts, 4 versions | 421,000 | `PlanIsBacked`: no plan in the row without its charge or credit; `FreshSavesAreLegal`: an illegal change of status is always due to a stale copy; `RenewalEnds` |
| `webhook` | 3 slots, two of them in one process, 3 attempts, 1 tolerated stall | 363,000 | `SendsBounded`: at most the attempts times the tolerated stalls plus one, 6 here, which are reached; `CompletedIsKnown`; `JobSettles`; `FailedGetsForwarded`: a job that failed for good gets its own entry in the dead letter queue, unless the error of doing so was swallowed or the process died with it |
| `enrollment` | 2 workers, 1 user, 2 courses, one the prerequisite of the other, lists of 2, 2 insertions | 244,000 | `OneRowPerCourse`: no two rows for a course but by a race for it or a row put back; `EnrolledAfterPrerequisite`: nothing gets around the check; `OnlyStaleSavesDamage`: progress falls, or parts from the status, only by a save that was overtaken |
| `shard` | 2 shards, 2 rows, batches of 1, 2 versions, 2 migrations, one shard configured as draining | 295,000 | `OnlyDisturbedRowsAreLost`: failures and restarts alone lose nothing; `DrainingHasACause`; `MigrationEnds`: the paging ends whatever is written; `RebalanceEnds` |
| `quota` | 2 workers, 1 client, windows of 2 and 4 instants, limits 1 and 2, 3 requests | 305,000 | `OvershootIsBounded`: at most one request less than the workers beyond the limit; `BlockedRowsWereFull`; `RefusedOnlyWhenRaced`; `OnlyEndedWindowsVanish`: nobody deletes the row that replaced the expired one he read |
| `tokens` | 2 workers, 1 user, seconds of 2 instants, tokens of 1 second, 3 pairs, 1 failure | 755,000 | `RevocationHolds`; `BlacklistedUntilExpired`; `ReuseHasACause`: only a token used twice, or whose rotation failed, is taken for reused |
| `moderation` | 2 reports, 1 reviewer, 1 run of the job, pools with and without anybody in them, 1 setback | 483,000 | `ItemFollowsReport`: at rest, the item is reviewed exactly if the report is decided; `OnlyOvertakenSavesUndo`; `OverdueGetsAttention`; `SweepEnds` |

One run finds a violation, of a sentence of the repository's own docs (quoted in
`PROJECT.json` under `findings`): in `idempotency_exclusive` the lock's payload fails the
record's shape check, so the first contender deletes it and the next request runs the handler
beside the holder.  It switches failures off (`MayFail` `FALSE`): what it shows happens with
every component working.

**Further disagreements.**  The modules also state what follows, each the words of a
comment, doc or test quoted above its definition.  No run is kept for them; naming one
as the only INVARIANT or PROPERTY of the component's `.cfg`, under `Spec`, makes TLC
show how the code breaks it.

| property | what happens |
|---|---|
| `DistributedLock!MutualExclusion` | without the proviso about the TTL: `fn` outlives it and a second caller enters |
| `Idempotency!BusyOnlyBehindAnother` | an error of the lock's SET is taken for contention: the request is refused, not continued |
| `Idempotency!NoReprocessing` | no second look for a record after the lock was acquired |
| `CacheGetOrSet!FallsBackOnlyIfUnpublished` | with a tenant, values are published under the scoped key and polled under the raw one |
| `CacheGetOrSet!OneFactoryRun` | no second look at the cache after the lock was acquired |
| `CacheGetOrSet!InvalidationClearsStale` | an old value is published after its invalidation |
| `Session!SessionLimitHolds` | interleaved trims leave more live sessions than the limit |
| `Session!RevokedStaysRevoked` | a touch that read a session before it was removed writes it back |
| `Subscription!PausedNotRenewed` | a renewal that read the row before a pause overwrites it |
| `Subscription!DowngradeAppliesAtRenewal` | no renewal ever applies a pending downgrade |
| `Subscription!PaymentsRecorded` | the save after a charge fails and nothing records the charge |
| `WebhookDelivery!SendsWithinRetries` | a slot that lost the job to another fails late and writes its older count of attempts back: with 3 attempts and one stall up to 6 POSTs, where "maximum number of delivery attempts" (`webhooks/webhook-retry.config.ts:8`) and the stall allow 4 |
| `WebhookDelivery!NoSendAfterDeadLetter` | bookkeeping fails after the webhook was dead-lettered, and it is sent again |
| `WebhookDelivery!OnlyPermanentlyFailedForwarded` | every failed attempt is forwarded, not only the last |
| `ShardMigration!RowsSurvive` | a row updated or inserted at the source after its page was read is deleted there, or kept in its old version |
| `Quota!CountedWithinQuota` | requests in flight together all see room for one |
| `Moderation!EscalatedOnce` | `escalatedAt: undefined` is no condition, so every run escalates a report again |

What follows was met on the way and needs no model to be seen:

* *Gamification.*  `addPoints` (`gamification/points/points.service.ts:79-88`) inserts into
  `user_progress` without `version`, which is NOT NULL and has no default
  (`migrations/1599999999999-BaselineSchema.ts:1667-1669`).
* *Collaboration.*  The history up to `revision - 1` is searched for entries of `revision`
  (`collaboration/collaboration.gateway.ts:94-96`): the list of concurrent operations is always empty.
* *Webhooks.*  The bridge binds the queue with `process(concurrency, fn)` (`workers/bridge/workers-bridge.service.ts:130`),
  which is Bull's handler for jobs without a name; `webhooks/README.md:68` adds the job under the
  name `deliver`, for which Bull looks up that name or `*` and finds neither.  Such a job fails each
  attempt without a POST, as one with invalid data does.  The model has the job of a caller whose
  job reaches the handler.
* *Cache.*  `update` emits its event inside the transaction (`courses/courses.service.ts:246`), so that the
  cache may be cleared before the new data can be read.  `WriteSource` has the other writers' order: data, then event.
* *Tokens.*  `test/auth-rotation.e2e-spec.ts:96` expects "Token has been revoked" for a rotated token;
  the comparison with the stored hash (`auth/auth.service.ts:115`) answers "Access Denied" first.
  A refresh that failed after the blacklisting, or whose answer was lost, makes the client's retry look
  like reuse and ends its session.
* *Enrolments.*  `COURSE_ENROLLED` is emitted before the transaction commits (84-89).  TypeORM's
  `remove` clears the entity's id, so that the event after it carries `undefined` (320-324).  A save
  that comes after an unenrolment inserts the row again.
* *Sharding.*  `rollbackMigration` only sets a status, as `docs/SHARDING_STRATEGY.md:257` says.  After a failed DELETE
  the source stays marked draining, and the next ring built leaves it out; a
  shard an operator marked for decommissioning is marked active by a migration from it.  Copies
  left at the target by a failed migration keep their old version when the next one meets
  them.  An invalid move in a plan leaves the moves before it running, with nobody waiting.
  `AsyncReadWriteLock` (`sharding/router/shard-router.service.ts:19-70`) lets a
  writer that comes between the end of another and the wake-up of the next run beside it; both write the
  same ring.
* *Quota.*  In the last millisecond of a window its row is current and expired at once, and every
  request makes it anew.  A mark set while the CPU was busy outlives the load.  One request takes
  three readings of the CPU, one per period.  `retryAfter` is the earliest end among the exhausted windows.
* *Moderation.*  An admin's own escalated report counts in the load that decides whether he
  gets it again.  `strategy in AdminSelectionStrategy`
  (`report-assignment.service.ts:57`) tests the enum's keys, so that the value `round_robin` is
  never accepted; the model has `LEAST_LOADED`.
* *Shutdown.*  Phases run in the order of their timeouts (`common/services/graceful-shutdown.service.ts:96`), which
  is not the order of `docs/architecture/graceful-shutdown.md:7-10`.

### Bounds, and why they are enough

* *Actors.*  Each violation found needs two or three actors.  Two workers give
  every pairwise interleaving of operations; the lock, the interceptor and the
  cache have three, because there a holder, a contender that interferes and a third that
  profits are different roles.
* *Time.*  A TTL of 2 units distinguishes "just set", "partly used" and "gone" (the lock);
  1 suffices where only live and gone matter.  Nothing relates the speed of a handler to the
  clock, so all relative speeds occur.
* `MaxCalls` 2: a caller's second call meets the remains of its first (a late
  release, a re-sent command).
* `MaxSessions` 1 with 2 session ids: each login is one too many for the other, so
  two trims count, range and remove at once.
* `MaxDeaths` 1: an interrupted trim leaves its excess behind for every later one to
  meet; a second death only adds the same again, which `untrimmed` counts.
* `MaxRecVersion` (sessions: versions of a record), `MaxVersion` (subscriptions: version at which no new operation
  starts) and `MaxPayments` end behaviours that only repeat.  With four versions two
  overlapping operations can follow two others.
* `MaxWrites` 1: one write suffices for an old and a new value.
* *Enrolments.*  One user: no statement relates two.  Two courses and a prerequisite between them make a
  bulk list that enrols in both; progress 0, 50 and 100 tells a fall from a completion; two
  insertions are two races for one course or one for each.
* *Sharding.*  Batches of 1 with two rows make OFFSET count on while rows come and go; two versions tell an old copy
  from a new one; two migrations run against, beside or after each other.
* *Quota.*  Windows of 2 and 4 instants let the shorter end while the other goes on; with limits 1 and
  2 one worker's request fills what the other has read as free.  `Loads` has a scaled limit for one
  period.  Three requests are two in flight and one that meets what they left.
* *Tokens.*  Two instants to a second are enough for every rounding of a TTL to be seen; a pair
  lives one second and the clock goes as far.  Three pairs are a login, a rotation, and another of either.  One
  failure suffices for a retry.
* *Moderation.*  Two reports: a sweep that goes on or breaks off between them.  Pools with nobody
  and with one moderator, with nobody and with two admins.
* *Webhooks.*  `buildJobOptions` makes `Attempts` and `MaxRetries` the same number; 3 instead of the
  default 5 (`webhooks/webhook-retry.config.ts:23`) leaves a first, a middle and a last attempt.  `MaxStalled` 1 is Bull's
  default.  Of three slots one loses the job, and two raise the count that it then sets back;
  two of them share a process, so that a zombie's token fits the lock again.

Deadlock checking is off where the system really stops: when what a bound allows is used up and no
request is under way (`Session`, `Subscription`, `AuthTokens`, `Enrollment`, `Quota`,
`ShardMigration`), when every report is decided (`Moderation`), and when the job is settled (`WebhookDelivery`).

### Fairness

* `WF(Tick)`: clocks and Redis expiry do not stop.
* `WF` of a component's own next step (`Serve`, `Step`, `Continue`): Redis, the database
  and the provider answer or fail; ioredis and axios have timeouts.
* `Moderation`: every run of the job starts again and again (`WF(Sweep)`: every five minutes, and a
  started run ends).  `ShardMigration`: every migration, and the timer of the waiting plan
  (`WF(FinishRebalance)`).
* Never assumed: that a handler, a factory or an `fn` ends.
* `SF(Cleanup)` in `Session`: the cron starts the job every hour, but an instance may be busy with
  another operation at some of these moments.
* `WebhookDelivery`: slots take jobs, requests time out (so `TransientFailure` is fair, success
  is not), Bull's timers fire.  `LoseLock` is fair only once no slot of the token's process is at
  work, since a live slot renews its lock, and `Stall` once the lock is gone.  Nothing is assumed of the dead letter queue:
  `registerDeadLetterHandlers` tries once and swallows the error, and `FailedGetsForwarded`
  lets an entry be lost that way, but in no other.

## 4. What is proved

All theorems hold for every value of the constants that satisfies the named
`ASSUME`s (TTLs and bounds are naturals, `NoValue` is no token, plans are
positive naturals, ...), with any number of actors.  Where an argument counts over them,
sessions, workers (`Session`, `Quota`), rows (`ShardMigration`) and reports are assumed finite.

**`LeaseProofs`, the lock service**: `LockTypeCorrect`, `LeaseSafe`, `MutualExclusionTheorem`,
`ReleaseTheorem`.  `LeaseIsBacked` carries the others: it says not only that the key
holds the grantee's token but with exactly the time the lease has left, so that
`Tick` cannot expire one before the other.  It is inductive together with the types and the fact
that a token names its caller and call; a late release cannot hit another's lock because
tokens differ, a competing SET cannot because the entry is live.  Two callers with a lease would put two tokens
in one key.

**`CacheGetOrSetProofs`**: `TypeCorrect`, `LockRefinement`.  The refinement is proved step by
step: initial states map to initial states, and every step of a caller, of the clock or of a
writer maps to a step of the lock service or to a stutter (`LockStep`), with `LockPhase` giving
each caller's phase in the service's terms.  What the mapping needs of `CInv` is that a
caller asks once, so that the one token it can have is its own (`AsksOnce`), and that `holder` is the
set of callers between grant and release, those who fell back without the lock excepted
(`HoldsAroundFactory`).  The hard steps are the end of a factory, which maps to `EndFn` for a holder and
to nothing for a caller that fell back, and `Abandon`, which the service sees only in a call
to it.  Through this theorem `LeaseSafe` and the others hold of
getOrSet's lock.

**`RequestProofs`, the interceptor**: `IdempotencyTypeCorrect`, `RecordTheorem`, `AnswersTheorem`.  The invariant adds that only a
finished handler is about to save (`SavingAfterEffect`) and that a request that
is not over was served nothing (`OwnBodyUntilDone`, which the timeout makes
necessary: a client may be answered 504 while its chain goes on).  None of it
mentions the lock: the guarantee survives each of the lock's failures that section 3 lists.

**`RankProofs`, sharding**: `TypeCorrect`, `MarksHaveACause`, `BatchesLoseNothing`.  That rows survive
(`RowsSurvive`) is not inductive: the shard that has the row may be the one about to be
emptied.  `MInv` says instead that each row not deleted is up to date at some shard where *no* copy has
gone past it (`SafeSomewhere`), and what an offset into a changing table still means as
long as nothing disturbs (`CopyInStep`): the rows a copy has passed are the first `offset` in the
order of ids and as many as it counts, a batch in hand is still its source's page, and whoever is
about to delete has passed everything there is.  The last of these is where a paging bug would sit:
an empty page must mean that no row is left after the offset.  It does, because ranks in a
finite set are contiguous (`RanksContiguous`), which is proved from counting.  Another copy of the same
source may empty it meanwhile; then nothing is present and each clause holds of an empty set.
`MarksHaveACause` needs only that `at` and `status` of a migration agree (`WellPhased`).

**`RankProofs`, sessions**: `SessionTypeCorrect`, `SessionIndexBounded`.  `IndexBounded` alone is not kept
by a trim, which removes as many members as an earlier ZCARD found too many.  `TrimsEnough` says of a trim not
sent yet that what it will leave is below the limit plus the creations under way plus
those that died.  Two trims that overlap remove the same lowest members, so the proof never adds their
effects: each alone is enough.  `LowestTaken` counts what ZREMRANGEBYRANK takes away when scores tie.

**`SubscriptionProofs`**: `TypeCorrect`, `PlanTheorem`, `FreshSavesTheorem`.  The invariant says
of every copy under way that its plan is backed and that its status follows
legally from a row of its own version; a fresh save then is legal, and a stale
save still cannot invent a plan.

**`LeaseProofs`, the webhook job**: `WebhookTypeCorrect`, `SendsTheorem`, `KnownTheorem`.  The count of attempts in
the job cannot carry the bound, since a zombie's late failure lowers it.  `SendsCounted` is a
potential argument instead: POSTs sent, POSTs the slots are about to send (`Taken`) and POSTs still owed stay
together within `Attempts * (MaxStalled + 1)`.  A slot at work owes one for every count above its
own (`Retries`, pairs of a slot and a count), because its failure may put the job there; a waiting
or delayed job owes those from its count on (`HandOuts`).  Handing the job out, failing with the
lock or without, and dying only pass this debt on or drop it, and each tolerated stall, which lets the job wait once more, is paid for with
`Attempts` set aside at the start (`Spare`).  What makes it work is that a failing slot gives its own
debt away: the job it writes to owes no more than that.

**`AuthTokensProofs`**: `TypeTheorem`, `RevocationTheorem`, `BlacklistTheorem`, `ReuseTheorem`.  The
invariant adds where each number of a pair may be (`NumbersDiffer`, `PairsOK`: a pair being
signed is nobody else's), that a TTL on its way to the cache reaches beyond the token's expiry however late it
arrives (`SentTTLIsEnough`, from the arithmetic of rounding up: `RoundedUp`), that only tokens a
client was given are blacklisted (`EntriesOfGiven`), and for `ReuseHasACause` that a token in two hands is
in `raced` (`SharedIsRaced`), that a rotated one is not stored (`RotatedIsNotStored`) and that one not yet looked up is not
blacklisted unless raced (`UncheckedIsNotBlacklisted`).

**`EnrollmentProofs`**: `TypeTheorem`, `OneRowTheorem`, `PrerequisiteTheorem`, `StaleSaveTheorem`.  `WorkersOK`
says of each copy under way what it may hold, `IdsOK` that the ids held by rows and by workers are
disjoint, `CompletionOK` that a completed row was announced and whoever is about to be enrolled meets the
prerequisite (also by a row of his own open transaction, which is the hard case), `SinglesOK` that a row and an
open insertion of one course, or two of them, are raced.

**`RequestProofs`, the quota**: `TypeTheorem`, `OvershootTheorem`, `BlockedTheorem`, `RefusedTheorem`,
`VanishTheorem`.  `RequestsOK` says of every copy that its row, if it is still
there, has counted at least as much and belongs to that window; `RoomIsKept` that the count of a row and the requests still to
increment it are together below the limit plus the workers.  The sum is kept with a
cardinality over the requests engaged in that row.

**`ModerationProofs`**: `TypeTheorem`, `ItemTheorem`, `UndoTheorem`.  `LedgerOK` says, for every report not `disturbed`, how row, item and the
operations on it fit together at each step, not only at rest; `UnsubmittedOK` that nothing is known of a report
not yet made; `OpsOK` that a changed copy differs from what was read only by what its
operation changes, so that a save nothing overtook undoes nothing.  `TargetIsAdmin` shows that
the choice of the least loaded admin exists, by the least element of a set of naturals.

With these, every invariant that a passing run checks is a theorem, and so is every action property.  Only
model-checked are the leads-to and termination properties, which hold under fairness:
liveness needs ENABLED and induction over fair steps, which the prover does not handle.

## 5. Not modelled

* Legacy session migration, `SessionService.withLock` (the lock protocol with
  retries), tag and pattern invalidation of the cache, cache statistics.
* Proration arithmetic: only which plan a payment is for.  Signing, metrics, events
  for analytics, wording of errors.
* Redis failover and replication: one Redis whose commands are atomic.
* Two subscriptions, two sessions' users or two webhook jobs at once: they share no state.
* Tokens: account status, registration, password reset, OAuth, roles.  Enrolments: course
  authoring, reviews, prices (CRUD over single tables).  Sharding: the hash ring, health
  checks, how an automatic plan picks its moves.  Quota: how limits are chosen per tier, the older
  in-memory limiters.  Moderation: scoring by an external provider, word lists, `ROUND_ROBIN` (never
  accepted from the configuration).
* Points, notifications, collaboration, synchronisation, payment webhooks: in each the code that
  would matter is never called or cannot succeed; the inventory and the disagreements say where.
* The rest of the repository, most of its lines: controllers, DTOs, generated clients, schema migrations,
  statistics, CRUD over single tables, caches' warming and adaptive TTLs, routing, GraphQL, observability.  Nothing in it
  is changed by two actors in an order that a property could be about.

## 6. Plan

Done, in this order: `RedisStore`, `DistributedLock`, `Idempotency`, `CacheGetOrSet` (composes
with the lock), `Session`, `Subscription`, `WebhookDelivery`, `Quota`, `AuthTokens`, `Enrollment`,
`ShardMigration`, `Moderation`; then the proofs of each, `CacheGetOrSet`'s refinement, `Session`
and `ShardMigration` last.

What could follow: `Session`'s history variable `untrimmed` against the sessions a user
actually sees; the transfer of `LeaseIsBacked` to getOrSet's variables as a theorem of its
own; tag invalidation in `CacheGetOrSet`; the transformation of concurrent operations once the
gateway finds any.

## 7. Running

Each run is a pair of an `MC` module and a `.cfg` file; `PROJECT.json` lists them with the properties
and what each shows:

    tlc -workers 2 -config MCIdempotency_exclusive.cfg MCIdempotency
    tlapm LeaseProofs.tla

In the modules, operators whose comment begins with "A mutant" are deliberately wrong variants of
the definition below them; no specification uses them.  `PROJECT.json` pairs each with the
property that must fail when it replaces the original.
