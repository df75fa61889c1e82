# Verification of zeep-vane

zeep-vane is a multi-tenant status-page server: a Go binary (`vane serve`), one
PostgreSQL database and a React front end. Several replicas may share a
database. One of them, elected through a PostgreSQL advisory lock, polls Datadog
and runs the manual (HTTP/TCP/…) checks; every replica serves the admin API, the
public status pages and TLS for custom domains, and takes part in the weekly
digest and the nightly domain check. This directory models the parts of the
server whose correctness depends on the order in which goroutines,
transactions, replicas, requests and outside answers happen, and the pure
algorithms that decide what visitors see.

Source paths below are relative to `src/internal/`.

## 1. Inventory

| Component | State it keeps | Operations | What is hard |
|---|---|---|---|
| Leader election and poller lifecycle (`cli/poller_manager.go`, `pglock/`, `cli/serve.go`) | advisory lock session, `leading`, two cancel/done pairs under `mu` | RunLeaderLoop, heartbeat, Restart, Stop, manual scheduler start/stop | three goroutines on one mutex, lost sessions, crashes, shutdown |
| Status intervals (`db/status_interval_repository.go`, `retention/pruner.go`) | `status_intervals` rows, one open row per service by a partial unique index | OpenOrExtend, SetIntervalAnalysis, ListOverlapping, DeleteClosedBefore, hourly prune | concurrent writers under READ COMMITTED, stale clocks, retention boundary |
| Poll cycle (`poller/poller.go`, `retry.go`) | per-tenant transaction, snapshot of services | pollCycle, pollOnce, pollService, fetch with retry | interval commits that outlive the tenant transaction, rollback, partial failure |
| Burn-rate classification (`poller/burn_rate.go`) | none | burnRate, classifyBurn, classifyWindows | thresholds, zero traffic, grace boundary |
| SLO analyzer (`poller/analyzer.go`) | cooldown map, semaphore, enrichment goroutines | HandleTransition and three enrichments | late LLM answers written over newer state |
| Incidents (`db/incident_repository.go`, `api/incidents_handler.go`) | incidents, updates, links, pending closing comment | Create, Transition, SetDescription, SetPendingCloseComment, ConfirmPendingClose, DiscardCloseProposal | admin and poller acting on one incident |
| Connection pool (`db/pool.go`) | at most 4 connections, tenant transactions bound to one of them | Begin, BeginTenantTx, Query/Exec routing | actors that hold one connection and need a second |
| Manual scheduler (`poller/manual_scheduler.go`) | tracked services, one goroutine each, failure streak | reconcile, runServiceLoop, runCheck | deleted or edited services, cancellation, streak carried across failed writes |
| Rate limiter (`ratelimit/`) | token buckets in Postgres and in memory, breaker | Allow, pickStore, onPrimarySuccess/Error, cleanup | clock read before a row lock, late answers closing the breaker |
| Weekly digest (`cli/digest_scheduler.go`, `notify/`) | `last_digest_sent_at`, advisory lock | hourly pass, due?, mark, send | crash between marking and sending, zone changes, two replicas |
| Domain-health check (`cli/domain_health_scheduler.go`, `rdap/`) | stored expiration, thresholds, nameservers | nightly cycle, alerts | a threshold crossed while a lookup fails, two replicas in one night |
| E-mail and notifications (`email/`, `notify/`, `api/email_providers_handler.go`) | provider rows with an active flag, preferences | connect, activate, disconnect, send | the provider is read under the tenant setting of the caller's transaction |
| Sessions, login, 2FA, password reset (`auth/`, `api/auth_handler.go`, `db/session_repository.go`, `db/two_factor_repository.go`, …) | password, sessions, challenges, codes, reset tokens | login, verify, rotate, switch, revoke, reset | single-use tokens, revocation against requests in flight, a clock of whole seconds |
| Tenants, memberships, invites, signup, e-mail verification (`api/admins.go`, `db/tenant_membership_repository.go`, …) | users, tenants, roles, invites, tokens | invite, accept, change role, remove, bootstrap, close | last-owner rule, two uses of one invite, empty-database check |
| Status pages, domains, TLS (`api/status_pages_handler.go`, `api/domains_handler.go`, `db/status_page_repository.go`, `db/domain_repository.go`, `tls/`) | pages, placements, groups, domains, certificates, sealed keys | create, set services, group, attach, verify, issue, renew, backfill, delete | snapshots of concurrent transactions, issuance by several replicas, crash between storing and publishing |
| LLM providers (`llm/`, `db/llm_provider_repository.go`, `api/llm_providers_handler.go`, `connectors/openai/`) | key, model and status per tenant, which one is active | connect, set model, activate, disconnect, generate | late answers; the record of a failed call shares the caller's transaction |
| History and uptime (`history/`) | none | bucketing of intervals | boundaries of buckets and of retention |
| Other vendor connectors, RDAP, low-level checks, crypto, config (`connectors/`, `rdap/`, `checks/`, `crypto/`, `config/`) | none | outside I/O and encodings | modelled only by their answers |
| Front end (`web/`) | UI state | rendering and API calls | not modelled |

How they meet: the elected replica's poller (one goroutine) and manual scheduler
(one goroutine per service) write services and intervals; transitions call the
analyzer, which creates incidents inside the poll transaction and starts
enrichment goroutines with transactions of their own; admins act on the same
rows through the API on any replica; the pruner deletes old intervals; and all
of them share one small connection pool per process. The public page reads the
intervals and turns them into bars and a percentage. The two schedulers run on
every replica under advisory locks of their own and mail through the tenant's
provider. Requests pass the rate limiter before the credential routes.

## 2. Modules

| Module | Models | Checked by | Proved in |
|---|---|---|---|
| `PollerManager` | who may poll at all | `leader` | `PollerManagerProofs` |
| `StatusTimeline`, `StatusIntervals` | what the interval table promises; its writers and the pruner, refining it | `intervals_race` | `StatusIntervalsProofs` |
| `History` | the public page's buckets and uptime, over the rows of `StatusIntervals` | `intervals_race` | `StatusIntervalsProofs` |
| `TenantBoard`, `PollCycle` | what whoever looks at a tenant sees; poll cycle, analyzer, incidents and operators, refining it | `cycle_outage`, `cycle_tenant` | `PollCycleProofs` |
| `BurnRate` | request counts to status, cycle after cycle | `cycle_outage` | `PollCycleProofs` |
| `ManualScheduler` | manual checks and the connection pool | `manual_checks`, `manual_pool_limit` | `ManualSchedulerProofs` |
| `Accounts` | one user's credentials | `credential_routes` | `CredentialRoutesProofs` |
| `Memberships` | accounts, tenants, roles, invites | `memberships` | `MembershipsProofs` |
| `Pages` | pages, placements, domains, certificates | `pages` | `PagesProofs` |
| `Mail`, extended by `Digest` and `DomainHealth`, composed in `Schedulers` | mail settings, the two schedulers over them | `schedulers`, `digest_delivery` | `SchedulersProofs` |
| `RateLimiter` | shared and local buckets, breaker, in front of those routes | `credential_routes` | `CredentialRoutesProofs` |
| `LLMProvider` | the tenant's LLM key, its status, the calls made with it | `revoked_key` | `PollCycleProofs` |

Every safety property that a passing run checks is stated by a theorem, but for the
half of `NoLockCycle` that speaks of `ENABLED`.

## 3. Modules and code

**PollerManager** — one replica is `pc` (where `RunLeaderLoop` is), `leading`,
the mutex `mu`, two goroutine families (`poller`, `manual`: how many run, how
many are cancelled and returning, whether the manager tracks one) and `serve`
(the shutdown path); the database side is the advisory lock's owner and whether
a replica's session is alive. In the initial state any of the replicas are up.
Every critical section of the code that does not
wait is one action; a section that waits for a goroutine under the mutex is two,
with the mutex held in between. Crash, loss of a session and PostgreSQL noticing
it are separate actions.

**StatusTimeline / StatusIntervals** — the first is what the table promises: a
sequence of observations applied atomically. The second is `OpenOrExtend` at
statement level under READ COMMITTED: `SELECT … FOR UPDATE` (which finds a row,
waits for its lock and re-evaluates), `UPDATE`, `INSERT` against the partial
unique index (which waits for a concurrent uncommitted insert), commit,
rollback; `SetIntervalAnalysis`; the pruner. A writer's timestamp is the one its
caller took before the measurement. Refinement maps committed rows to the
timeline.

**History** — `BuildBuckets` and `UptimePercent` as operators, with Go's
truncating division. `HistoryExact` compares them with a reading of the same
intervals instant by instant: for the rows that `StatusIntervals` reaches (with
overlaps, and rows that run backwards after a stale write), and in the initial
state for every one or two intervals with starts and ends around the first and
the last bucket, open or closed, in any order, and every `asOf`.
`HistoryCovered` of `StatusIntervals` says that the rows the page reads have no
hole; with `HistoryExact` no bucket between the first observation and `asOf` is
shown as `no_data`.

**PollCycle** — one tenant. `svc`, `interval`, `inc`, `integ` are the committed
rows; `wrote`, `created`, `snap`, `todo`, `outcome` are a cycle's open
transaction and its locals; `enr` are the enrichment goroutines, `cooling` the
cooldown map; `shown`, `mails` are what an operator sees and receives.
`pollService` is one action per measured service: `OpenOrExtend` (committed at
once), `UpdateStatus` (in the transaction, holding the row's lock) and
`HandleTransition`. The three kinds of enrichments have one `Generate` step and
one write each, with the guards of the repository's SQL. With `Overlap` two
poller instances run at once (which happens between the loss of a lock session
and the next heartbeat); since the interval's commit and the row's lock are then
one step, statements about intervals are only made without overlap.

**TenantBoard** — what a cycle promises to those outside: a board with the published
status of every service and the public incidents. A poll cycle changes it in one
step (`Publish`: the services found in outage get an incident each, unless one of
theirs still stands, and no published outage lacks one); operators change one
incident at a time, and no incident disappears. The refinement maps the committed
rows; an incident whose insert is not committed is `hidden`, and the transaction, the
failures in it, overlapping instances and enrichments are stutters. What happened to
the texts, and the close proposals, are not on the board.

**BurnRate** — the classification that `PollCycle` takes as an input: burn rates
as exact fractions, the thresholds, and the row (`reading`) a cycle leaves for
the next one, over any sequence of cycles and pauses. `evidence` is a history
variable: the last cycle that saw requests, what it decided and how long ago.
`MCClassifiedCycle` checks both modules in one run; since `PollCycle` takes every
status as a possible measurement, a behaviour is one of the cycles or one of the
classification.

**ManualScheduler** — `run`, `tracked` and `rec` are `Run` and a `reconcile`
pass in progress (one tenant per step, so deletions happen in between); `loop[s]`
is a service's goroutine: where `runCheck` is, the failure streak, the carried
status, the result. Connections are counted from where goroutines are: one from
the tenant transaction on, a second inside `OpenOrExtend`. `fails` is a history
variable: what the network really answered.

**Accounts** — one user. A request is a record of where its handler is and what
it has read. Public routes commit statement by statement; routes behind
`TenantContext` are one transaction whose `now()` is its beginning. A tick is a
second, the precision of a token's `iat`; `sessions_revoked_at` has a fraction,
so a token of the same second counts as older. Recovery codes, challenges and
reset tokens are consumed by the guarded `UPDATE`s of the repositories.

**Memberships** — accounts, two tenants, roles, invites and verification tokens.
Owner routes hold the row locks their SQL takes until the step that commits;
accepting an invite, signup and bootstrap commit statement by statement, so they
can be cut off in the middle.

**Pages** — placements of services on pages with groups and parents, domains and
their verification, attaching, and certificates: issuance and renewal by two
replicas under certmagic's storage lock, the stored key, the event that publishes
the page, crashes in between, and the backfill that seals keys stored before
encryption. `DELETE` works on the rows of its own snapshot; a request that waits for
rows another one deletes finds them gone when that one commits, and still there when
the page's deletion fails and rolls back.

**Mail, Digest, DomainHealth, Schedulers** — `Mail` is what decides whether a
mail leaves: members, preferences, providers, the deployment mode, and the tenant
setting of the transaction in the context. `Digest` adds hourly passes of the
replicas: try the lock, list tenants, decide whether it is due in the tenant's
zone, commit the marker, send. `DomainHealth` adds the nightly cycle: RDAP and
DNS lookups that may fail, persisting, thresholds, drift, alerts. `Schedulers`
chooses one of the two per behaviour, since they share nothing but the mail
settings.

**RateLimiter** — one client address. The PostgreSQL bucket at statement level
(seed, lock with timeout, refill with the time read before the lock, update), the
bucket in memory, the sweeps of both, and the breaker with its half-open probe
and calls that end late. Instants are kept as ages, so behaviours do not end.
`MCCredentialRoutes` checks it together with `Accounts`, whose requests it admits;
since `Accounts` takes every order of requests as its input, a behaviour is one of
the two.

**LLMProvider** — one tenant's provider row and settings, admin requests that read
the row before they write it, and analyses: transaction, active provider, row, the
vendor's answer, the status written on the same transaction, then commit or
rollback. `accepted` is the vendor's side: keys it still takes. What the answers do
to services and incidents is in `PollCycle`.

Left out of all of them: wording of prompts and mails, audit log, logging,
pagination, row-level security (every statement is taken to run in its tenant's
scope), and wrong input, which ends a request without effect.

## 4. Runs

A *violation* run checks one sentence that the repository states and the code
does not keep; its finding in `PROJECT.json` quotes the sentence.

| Run | Shows |
|---|---|
| `leader` | one goroutine per job, two replicas poll only if one lost its session, lock released after the drain; a leader without session stops, and polling resumes once disruptions cease |
| `intervals_race` | one open interval, no holes in the page's window, no cycle of lock waits, refinement of the timeline; buckets and uptime agree with the intervals |
| `cycle_outage` | an outage that is published has an incident, open unless an operator closed it; with overlapping pollers and faults, and with an operator, cycles are atomic to an observer (refinement of `TenantBoard`, in which no service gets a second incident while one stands); more errors never look better, and silence holds a bad status for just the grace |
| `cycle_tenant` | partial failures and aborts of a two-service transaction: published statuses are recorded ones and catch up with the record; operators against late LLM answers: resolved incidents keep their text, only reviewed texts are published |
| `manual_checks` | outage only after the threshold, one goroutine per service across runs; checks of services that compete for connections finish, deleted services stop, live ones are checked until history and status agree |
| `manual_pool_limit` (violation) | four checks that finish together exhaust the pool of four and wait for each other |
| `credential_routes` | a login challenge and a recovery code are good for one session each; a session ended by logout, password change or reset stays out, whatever was in flight (the exceptions are listed below); never more requests than the reference bucket admits, through waits, timeouts, sweeps and changes of store; the probe is alone, and while the breaker is probing there is one |
| `memberships` | role changes and removals never take the last owner in their own count, an invite ends once, bootstrap only in an empty database |
| `pages` | placements stay well nested, services are deleted only when detached, a page is attached once, a published page has a certificate, no key is lost or unsealed by the backfill |
| `schedulers` | digests at least the minimum interval apart and none skipped silently; each expiry threshold is alerted once and a crossing is not lost to a failed lookup |
| `digest_delivery` (violation) | self-hosted, the digest is marked as sent but its provider lookup runs outside the tenant's transaction: nothing leaves |
| `revoked_key` (violation) | a revoked LLM key goes on being shown as connected: the call that is refused marks the provider in the transaction its own failure rolls back. With the mark committed the property holds on the same instance |

Differences between comments and code met while modelling; the models contain the
behaviour (unless marked), no run is kept for it:

*Polling and history*

* "At most one replica ever runs a poller": not between the loss of a lock
  session and the next heartbeat.
* A delayed second writer closes an interval before it started, because its
  timestamp is older than the row; intervals then overlap or run backwards, and
  uptime counts an overlapped outage twice.
* The incident a poll finds open may be resolved by an operator before the poll
  commits: the outage is published without an open incident.
* Resolving by hand leaves the pending closing comment
  (`db/incident_repository.go:554`); confirming it mails the resolution again.
* `status_analysis` is said to be set only while a service is degraded; a late
  answer writes it after the recovery (`db/service_repository.go:643`).
* Enrichments and mails are said to follow the persisted status; they leave
  before the tenant's transaction commits (`poller/poller.go:473`).
* The limit on concurrent enrichments is per analyzer, and `Restart` builds a new
  one while the old one's goroutines run on (`poller/analyzer.go:110`).
* An LLM description that arrives before its incident is committed is dropped.
* A manual and a detected incident may both be active for a service
  (`db/incident_repository.go:669` says at most one).
* `Restart` may follow `Stop` during shutdown (`cli/poller_manager.go:349`); its
  context is cancelled by then.
* A manual check whose interval commits and whose transaction then fails leaves
  the history at operational while the goroutine carries outage: the next single
  failure writes outage into the history (`poller/manual_scheduler.go:291`).
  `OutageNeedsStreak` is about the published status; `LiveIsRecorded` says that the two
  come together again.

*Accounts and tenants*

* A login or a tenant switch that checked the old password or session before a
  change, and inserts its session after it, survives the change; `EndedStayOut`
  speaks of sessions that existed.
* `sessions_revoked_at` is overwritten, not raised (`db/user_repository.go:156`): of
  two password changes the one that began first may commit last, and dates the
  revocation back to its own beginning. Tokens issued between the two are accepted
  again; `Reopened` takes their sessions out of what `EndedStayOut` speaks of.
* Two concurrent confirmations of a reset both succeed; disabling two-factor that
  is not enabled, racing an enrolment, deletes the new recovery codes; a
  confirmation may enable a secret that a concurrent enrolment replaced.
* A tenant may lose its last owner: deleting an account cascades to its other
  memberships, and a role read before a concurrent change is used after it.
  `LastOwnerKept` is about the count inside the guarded operations.
* Two concurrent invites or resends for one address leave two live invites; a
  failure after an invite was consumed burns it; an owner who has invited someone
  cannot be removed (`tenant_invites.invited_by_id` has no cascade); two
  concurrent closings pass the rule that one tenant stays.
* Handlers answer before `TenantContext` commits: a failed commit is not seen by
  the client.

*Pages, domains, certificates*

* A page created together with a domain stays a draft: only attaching publishes.
* A service deleted softly may be attached to a page by a request already under
  way (`db/service_repository.go:548` says it cannot occur); two concurrent
  settings of a page's services merge when they are disjoint.
* A failed renewal unpublishes a page whose certificate is still valid; a crash
  between storing a certificate and the event leaves the page pending.

*Schedulers and limiter*

* An expiry alert is lost when the expiration lies between the cycle's clock and
  the database's, and when the process dies between persisting and mailing; a
  second replica repeats the night's cycle, and its drift alert.
* A replica that loses the lock's connection unawares sends the digest twice;
  `DigestsApart` excepts it. A crash after the marker loses the mails (accepted by
  the code's comments).
* A call that waited for the bucket's row moves `last_refill` back, so time is
  refilled twice; `WithinLimit` credits the reference with it. A sweep between
  seeding and locking the row, or a client that hangs up, opens the breaker. A
  call that began before the breaker opened and ends late may clear the probe:
  "the single half-open probe" then is two; `ProbeAlone` excepts such stragglers.

### Bounds, and why they are enough

* `leader`: a handover needs one disruption, a handover during a handover two
  (`MaxDisruptions` 2); two replicas are enough for a double leader.
* `intervals_race`: two writers, three rows and two time steps give every pair of
  `OpenOrExtend` phases and a row closed while another waits for it, and let the
  pruner delete a row while a writer runs. The two statuses are degraded (episodes)
  and outage (uptime). `Retention = Window = 1` is the
  tightest legal pair. `History`: two intervals are the fewest that compete for a
  bucket or overlap; times from before the first bucket to the end of the last,
  buckets of one and of two units, so that ends fall on and between boundaries.
* `cycle_*`: two incidents are the fewest for a duplicate, two pollers for an
  overlap or a restart; `Observable`, `MaxOps` and `MaxFaults` are chosen per run
  so that the steps its properties need all occur (a behaviour of `cycle_outage` has
  two pollers and a fault, or one poller and an operator; in `cycle_tenant` one service is
  degraded from its first measurement on, the other is up or in outage);
  `MaxConcurrent` 1 makes the
  semaphore refuse. `mails` saturates at 2. `BurnRate`: windows below, at and
  above each threshold, skewed ones, three targets of which one has no budget;
  ages count up to the grace, beyond which nothing depends on them.
* `manual_*`: `Threshold` is 2 as in the code; `MaxRuns` 2 gives a change of
  leadership while goroutines return; `MaxConns` is the code's 4 in
  `manual_pool_limit`. A behaviour of `manual_checks` has one service and every failure
  (two runs, two failures of the database, failing checks), or two services, of which
  one may be deleted, that succeed in one run and compete for three connections: while
  both hold the one of their tenant transaction one is left, so that one check waits
  for its second connection, and while one has both the other waits for its first.
  That is the tightest pool for two services: `CheckFinishes` is stated for fewer services
  than connections, `EnoughConnections` proves its safety half for every such
  number, and with as many services as connections `manual_pool_limit` refutes it.
* `credential_routes`, accounts: two requests at a time are the fewest that race;
  one change of password and one tick give a session before, in and after the second of the
  change; two challenges and sessions, one code and one reset token, so that each
  can be presented twice. Resets are left to the account that starts enrolled; the one that
  enrols on the way changes its password instead.
  The limiter: a burst of two, one replica, two overlapping calls, one failure,
  calls and waits of at most one unit; time has no end.
* `revoked_key`: one analysis at a time, one key, one admin request in flight and two
  models; a counterexample needs no more.
* `memberships`: two requests at a time and five in all are enough to sign up two
  accounts, share a tenant and race the last step; two invites for the resend.
* `pages`: a behaviour has the requests of one of three workloads (placements,
  domains, certificates), three requests, two issuances and one crash.
* `schedulers`: three and a half weeks of two ticks a day, one zone change, one
  fault and one lost lock; five days of two units, one renewal or move and one
  mishap, with thresholds that several dates cross.
* Symmetry is only used in runs without liveness properties.

Deadlock is checked for `PollerManager`. The other modules stop when their
bounds are used up or may idle, which is not a deadlock of the code, so there the
runs say `CHECK_DEADLOCK FALSE` and waiting for each other is a property
(`NoLockCycle`, `NoPoolDeadlock`, `CheckFinishes`).

### Fairness

* Goroutines that are ready run (weak fairness of their steps).
* A Go mutex and pgxpool serve waiters in turn, so a
  waiter for whom the resource is free again and again gets it (strong fairness
  of the acquiring steps).
* Building a poller succeeds eventually if it is retried forever
  (`leader` only).
* An analysis runs on (its waits have deadlines). If calls are made without end,
  not every one of them meets a transient error, and not every answer about the key
  is abandoned (`revoked_key`: strong fairness of those steps). Without it the
  property would fail for a vendor that is never reachable.
* In `manual_checks` no failure is forced to let a waiting check go: fairness is of the
  steps that succeed, or that return because their context is cancelled. Failures are
  finitely many (`MaxFaults`), so its liveness properties speak of what follows when
  they have ceased.
* Apart from that nothing is assumed of administrators, operators, clients, the
  network check, the LLM or faults. `PublishedCatchesUp` has "the service is measured again and
  again" as its premise.

## 5. Proofs

Constants are arbitrary: any finite or infinite sets of replicas, writers, rows,
services, pollers, incidents, requests, pages or users (finite only where counted,
`ServicesAssumption`, and `Thresholds`, a literal list in the code), any bounds. The
assumptions are the named `ASSUME`s, which TLC evaluates in the runs: sentinels
outside the sets they extend (`Null` is no id and no instant, `"pg"` names no
replica, `"none"` and `"gone"` no page), natural bounds, a retention not shorter
than the page's window, a bucket that is full again by the time it may be swept
(`LimiterAssumption`), a digest interval and catch-up window that fit into a week,
and that a window without requests has no errors (`BurnSamplesAssumption`: the
connector answers zero for both, `connectors/datadog/client.go`).

Each module has one inductive invariant, a conjunction of named parts; each was
checked by TLC on an instance before it was proved.

* `PollerManagerProofs` — one inductive invariant with a part per concern:
  who holds the mutex where, what a term of leadership has started, and for each
  goroutine family that at most one exists and that an untracked one is gone.
  The last is what makes `OneGoroutine` inductive: `Restart` may spawn because
  the manager only forgets a goroutine once it has returned.
* `StatusIntervalsProofs` — `LockInv` (what a transaction in flight knows of the
  row it locked and of the unique index), `CoverInv` (coverage of the whole
  retention period; the property only speaks of the window, which the clock moves)
  and `AnalysisInv`. `Refinement` then maps every step to a step of the timeline
  or a stutter. `WaitsEnd` follows the chain of waits: a transaction that waits for a
  row waits for one that extends or inserts, one that waits for an insert waits for one
  that only has to commit, and that is the end of the chain.
  `PageIsExact` is about `History` alone: for every finite set of proper intervals and
  every `asOf`, `BuildBuckets` and `UptimePercent` say what a reading instant by
  instant says. That an interval counts for the buckets from `firstIndex` to
  `lastIndex`, computed with truncating divisions of possibly negative numbers, is
  `FirstBucket`, `LastBucket` and `TouchingIsHolding`; the percentage is the floor of
  one of clipped lengths, 100% just when there was no outage, whose sum is the number of
  instants of outage, or at least that where intervals overlap (`SumOfSizes`,
  `Percentage`, `UptimeIsExact`). Facts about
  sums, and about the extremes of a finite set, need induction over finite sets; they
  are proved by looking at a smallest set for which they fail (`SmallestSubset`, from
  the well-foundedness of the subset relation), since the library's induction theorems
  take an operator. `WhatTheVisitorSees` applies `PageIsExact` to the rows of every
  reachable state, of which finitely many are in use (`FiniteInv`).
* `PollCycleProofs` — `NoDuplicateIncident` rests on `RowLock` and
  `UncommittedOwned`: the check for an open incident cannot see another
  instance's uncommitted insert, but `UpdateStatus` comes before the check and
  its row lock is held until the insert is decided. `RecordedFirst` needs
  `WroteRecorded` and is proved for pollers that do not overlap. `ReviewedProposal`
  and `ResolvedIncidentKept` follow step by step from the guards of the SQL.
  `OutageIncidentOpen` rests on `OutageInv`: what a cycle read as an outage, or is about
  to publish as one, has had its incident, or the cycle holds the insert itself; and
  only an operator resolves one. For `BurnRate`, `BurnInv` ties the stored
  row to the last cycle that saw traffic: `MoreErrorsNoBetter` is then monotonicity of
  the exact fractions under the thresholds, and `SilenceBounded` needs that the age
  the grace is counted from is the age of that cycle, whichever column it comes from.
  `BoardRefinement` rests on the same facts (`BoardInv`): only a commit shows what a cycle
  wrote, and what it then shows is one `Publish`, because `CreatedForOutage` ties each
  insert to a service the cycle is about to publish as an outage, the row locks keep
  other instances from giving that service an incident meanwhile, and `OutageInv`
  accounts for outages published without an insert. For `LLMProvider`: what a call
  has marked it can only roll back, and nobody else writes the row meanwhile
  (`MarkInv`), so that `NeverShownInvalid` extends what `revoked_key` shows on a small
  instance to any number of calls, administrators, keys and models: the invalid status is never seen. `ActiveProviderStored`
  is the foreign key's doing: whatever the interleaving of activations
  and disconnections, the setting goes with the row.
* `ManualSchedulerProofs` — connections in use are the cardinalities of two
  sets of goroutines; `EnoughConnections` shows that with fewer services than
  connections a check waiting for its second connection always has a free one or
  a holder that will give one back. `manual_pool_limit` shows the bound is exact.
  `SpawnedOnce` and `CancelledOnlyGone` rest on `TrackingInv`: a goroutine that has
  left the map but not returned belongs to a service that no pass can list again,
  and a tracked service that a pass did not find, in a tenant it could read, is
  deleted. `OutageAfterStreak` rests on `StreakInv`: a goroutine carries exactly
  the published status and never counts more failures than happened.
* `CredentialRoutesProofs` — the limiter: `BucketInv` says that the reference bucket
  of each store has at least what the stored bucket can still let through, counting
  the time since it was last written; it is inductive because only the holder of the
  row's lock writes it, and because a waiter that moves `last_refill` back is credited
  in the reference. `ProbeInv` is a breaker and its probes; `upset` marks the
  stragglers that `ProbeAlone` excepts. The accounts: `AccountInv` follows a challenge and a
  recovery code from the guarded `UPDATE` that consumes it to the session it signs
  (`ChalInv`, `CodeInv`, `SignsAlone`: in between no other request can hold it), and
  says of an ended session that its row is revoked, or its token too old with no
  tenant switch about to sign a new one (`EndedInv`).
* `MembershipsProofs` — `MembershipInv`: the owner rows a demotion or removal has
  locked contain another owner whoever is taken away (`RemovalInv`), and row sets
  locked by two requests are disjoint (`LocksApart`), so the two together cannot take
  the last owner; invites about to be replaced are unused and locked by one request
  (`ReplacesInv`); who holds the lock on the users table has counted it right
  (`BootstrapInv`).
* `PagesProofs` — `PagesInv`. For `PlacementsStaySound`: what a request deletes is its
  page's and nothing that stays hangs from it (`OldInv`), what it has inserted and not
  committed collides with nobody's and refers to rows that stay (`NewInv`, `LinksApart`,
  `GroupsHeld`). `ServicesHeld` and `PagesHeld` are the row locks of `SoftDelete` and
  `AttachDomain`; `TLSInv` says that an issuance past its ACME order has its
  certificate stored, and that a row the backfill rewrote is still as it read it.
* `SchedulersProofs` — `DigestInv`: while nobody lost the lock, who works holds it, no
  user's last digest is newer than the marker, and a pass that is to send has its own
  clock in the marker and is spaced from every mail it is about to send. `HealthInv`:
  a check works on the row as it is; an alert on its way is the first for its date
  and threshold (`NotifyInv`); once alerted, the stored band of the date is that
  threshold or narrower (`ToldInv`), which bands only ever become with time
  (`BandNarrows`, from truncating division and the least threshold); and the band
  of the last stored check is the one the next check compares with, unless the two
  clocks disagreed (`CrossingInv`). `DigestComes` has two hypotheses, and needs them: at
  least one replica, and fewer faults than the catch-up window has ticks (each tick has
  a pass unless something fails). Its invariant, `CatchInv`, says that there always is a
  fire instant after the marker, to come or just past, whose digest is still to be
  caught (`Target`): if it is past, a pass that will mark it is under way, or a replica has yet
  to wake in this tick and finds the lock free, or every tick since it has cost a fault
  of its own (`Chased`). A pass that lasts over ticks costs them too (`PassAges`). A zone
  change makes it look for another instant, within two weeks of the marker.

The type invariants, and `WorkersOnlyWhileLeading`, `ManualSurvivesRestart`, `OneDetectedIncident`,
`AnalysisOnDegradedOnly`, `EnrichmentSlots`, `ProposalOnlyForDetected` and
`CancelsOnlyGone`, are proved for all constants and not repeated in a run.

Only model-checked: everything under fairness (`LostSessionStopsPolling`,
`PollingResumes`, `PublishedCatchesUp`, `CheckFinishes`, `DeletedStops`,
`LiveIsRecorded`), and of `NoLockCycle` that a transaction that waits for nothing has a
step, which is about `ENABLED`; the prover treats neither. `WaitsEnd` is the other half
of `NoLockCycle`, and the part the locks decide. The properties of the violation runs
are false.

## 6. Not modelled

* The front end; vendor connectors (but for the classes of OpenAI's answers), RDAP
  parsing and the network checks (their answers are inputs); crypto, configuration and encodings; the audit log.
* Severity, free-form updates and timelines of incidents; metadata, validation and
  listings of services; key storage of integrations; positions, names and the
  environment banner of pages; contents of digests and mails; company settings
  other than the time zone.
* Row-level security: which rows a statement sees without the tenant setting
  depends on the database role of the installation. Only the digest's provider
  lookup, where the code's own comment relies on the setting, is modelled.
* HTTP handlers, the poll cycle and the rate limiter as further users of the
  connection pool: a handler that holds a request's transaction and begins
  another waits for the pool as a manual check does.
* Daylight-saving changes, in buckets and in the digest.

`PROJECT.json` lists every component with the reason.
