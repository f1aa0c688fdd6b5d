# A TLA+ verification of NetworkOps Manager

NetworkOps Manager is a platform for network operators: it backs up router and switch
configurations into Git, administers TACACS+ servers (tac_plus-ng), collects their accounting
records and runs change requests, compliance checks and alerts around them. Its parts are a
FastAPI service with Celery workers over PostgreSQL and Redis (`src/backend/app`), an agent on every
TACACS host (`src/tacacs-agent`), a Next.js frontend, SDKs and tools.

This directory models the parts whose correctness depends on the order of events between
processes - agents, workers, API handlers, browser tabs: what is lost, repeated, left half done or
shown too late when they crash, race or answer late.
`PROJECT.json` holds the machine-readable side: the components, the runs, which source lines each
definition stands for, the hazards of the code, the findings and the theorems.

To check a run: `tlc -workers 2 -config log_shipping.cfg LogShippingMC.tla`.
To check the proofs: `tlapm LogShippingProofs.tla`, and likewise the other `...Proofs` modules.

## 1. Inventory

| Component | State | Operations | Hard behaviours | What makes it correct |
|---|---|---|---|---|
| Log shipping: agent `tailer.py`, `shipper.py`, `backoff.py`; platform `services/tacacs/ingest.py` | the log files, the tailer's handle and position, a batch in flight, `offsets.json`, what is ingested | read, look for a rotation, post, halve, drop, commit, stop, restart | rotation against reading, lost answers, crash before the commit, refused batches | no line lost; order within a file; only unacceptable lines dropped; catches up |
| Configuration deployment: agent `deployer.py`, `supervisor.py`; `api/v1/tacacs.py`, `services/tacacs/builder.py` | policy, deployed sha, live/candidate/previous files, running sha, what tac_plus-ng loaded, reported status | edit, deploy, poll, validate, swap, reload, roll back, heartbeat | death of either process at any step, failing reload, validator timeout, edit during deploy | only validated and deployed files go live; agreement; rollback; every deploy is answered |
| Backups: `services/backup/engine.py`, `git_store.py`, `workers/tasks.py` | device configurations, working tree, index, commits, rows, open transactions | collect, compare, replace, stage, commit, adopt, record, retry | shared repository, transaction without the commits, stale collections, retries | a row's commit holds its configuration; each change recorded once; convergence |
| Change requests and restore: `services/changes.py`, `api/v1/activity.py`, `configs.py`, `services/restore.py` | request state, approver, snapshot ids, restore records | transition, edit, snapshot, restore | concurrent transitions, approval stale at the push, push outside the transaction | one legal path per request, four eyes, no push without an approval |
| Audit chain: `services/audit.py` | events with chained hashes | record, verify | concurrent records, first event, retention | a linear chain that verifies |
| Sessions: `frontend/lib/api.ts`, `hooks/use-auth.tsx`, the layouts and the login pages; `services/auth/login.py` | token pair and tenant in localStorage, Web Lock, query cache of each tab, refresh token families | sign in, request, refresh, switch tenant, sign out, expire | tabs refreshing at once, lost answers, closed tabs, another user signing in | a rotated token is never presented, the lock is free again, a tab shows the data of whoever is signed in |
| Portal authentication: `services/auth/login.py`, `oidc.py`, `ldap.py` | failure counter, lock, last one-time step | login | concurrent requests with one code | lockout, one use per code |
| Web console: `frontend/app`, `components`, `hooks`, `lib/nav.ts`, `components/providers.tsx` | one query cache entry per key, mutations in flight, what is on screen | open, leave, poll, fetch, save, invalidate | saves crossing fetches, failed polls, several requests in one save, permission checks apart from the handlers' | own changes shown, nothing goes backwards, polled data arrives, nothing forbidden is asked |
| Alerting: `services/alerting.py` | alerts, delivery tasks | emit, deliver | throttle read before insert, delivery queued before commit | each event delivered once, never silently lost |
| RANCID history: `services/rancid_history.py`, `api/v1/rancid.py` | status in the tenant's settings, archive, history repository | upload, import, replace | crash between removal and rename, concurrent uploads | an old or a new repository, always |
| Session recordings: agent `recordings.py` | spool directory | upload, refuse, unlink | crash between upload and unlink, an active file | each recording uploaded at least once, none before it is settled |
| Redis helpers: `core/redis.py`, `core/ratelimit.py` | one-time values, counters, breaker | put, pop, hit | Redis down on one replica | at most one use of a value |
| Integrations, compliance, inventory, reports, parsers | rows and pure functions | CRUD, mirrors, evaluation | one transaction each | example tests fit them better |
| Access control: `services/rbac.py`, `api/deps.py` | roles, bindings | require a permission | the console's own checks | the console and the handlers agree |
| SDKs, tools, deployment | - | - | - | not modelled |

**How they interact.** Agents call the platform over HTTP (ingest, configuration, heartbeat,
recordings); the agent controls tac_plus-ng through files and SIGHUP; the API queues Celery tasks
through Redis; tasks and requests share PostgreSQL rows (READ COMMITTED, nearly no row locks) and the
tenants' Git repositories on a shared volume; Celery Beat starts hourly backups and daily jobs. The
console is a single-page application: its tabs share localStorage and one Web Lock, each has a query
cache of its own, and everything it shows or changes goes through the API with the stored token.

## 2. Plan

Modelled, in this order: **LogShipping**, **ConfigDeploy**, **Backup**, **ChangeWorkflow** and
**Changes** (the abstract workflow and the handlers that implement it), **Session**, **ConsoleApi**,
**ConsoleViews** and **Console** (what the platform requires, what the components ask for, and the
cache between them); then the abstract specifications **Delivery** (an at-least-once channel,
implemented by LogShipping), **ConfigHistory** (the versions of the configurations and what the
database says of them, implemented by Backup), **Rollout** (trial and rollback of a configuration,
implemented by ConfigDeploy) and **SignOn** (one register of who is signed in, implemented by Session).

What would come next, most important first:

1. `AuditChain`: `record` as read, hash, insert, commit under READ COMMITTED with FOR UPDATE on the
   last event; `verify_chain` after any interleaving.
2. `BatchTransactions`: what two batches do to the same rows - row locks on devices taken in the
   order of the flushes, a deadlock's victim and whether it is retried, the search index replaced by
   delete and insert under READ COMMITTED.
3. `Login`: lockout counter and one-time steps under concurrent requests, and the platform's half of a
   refresh split into its read and its commit.
4. `Alerting`, `RancidImport`, the one-time store, and the recordings uploader as a second
   implementation of `Delivery`.

Module conventions: a module per component with constants, assumptions, actions, properties; a
module `...MC` with the values small instances need; a module `...Proofs` that EXTENDS the component
and TLAPS. No module declares a RECURSIVE operator. Bounds are constants (`Max...`) guarded in the
actions that count them. Definitions commented as *Mutant* are deliberately wrong variants
of the definition that follows them; nothing uses them, they show which mistake each property
would catch.

## 3. The modules

### LogShipping

A line is its serial number, a file its inode in creation order, an offset a number of lines, an
unterminated last line counting as one. tac_plus-ng writes (`BeginLine`, `EndLine`), logrotate
renames and creates files or truncates them (`Rename`, `Create`, `Reopen`, `Truncate`, `Vanish`);
nothing restrains them. The tailer's `read_lines` is three steps because the file system may change
between them: reading (`ReadLines`), then looking whether the path still names its file
(`CheckNothingNew`, `CheckTruncated`, `CheckRotated`), up to `MaxRounds` times. Posting is the
recursion of `_post` and `_split` as a set of cut points in the batch: `PostAccepted`, `PostSplit`,
`PostDropped`, with an answer lost after the platform stored the lines (`PostAnswerLost`) and a 200
whose body is not JSON (`PostGarbled`); then `Commit`. `Stop` kills the agent anywhere.

What the code cannot survive is not forbidden but recorded in `breaches`: a line written to the
rotated file after its successor appeared (*late*), a rotation before the previous file is committed
(*lag*) or between the tailer's last read and its look (*race*), a needed file removed (*vanished*),
truncation that destroys unread lines or regrows to a remembered offset (*truncated*), a garbled
answer (*garbled*). `NeverLost` is claimed for no breach; the in-file properties hold through
all rotations.

Left out: `start_at=end` (it skips lines on purpose), several files per shipper (independent but for
the thread they share), inode reuse, write errors of `offsets.json`, lines longer than one read. The
read-ahead buffer is abstracted: below its end a file changes only by truncation. A transport error
is a stutter: the shipper sleeps and repeats.

### Delivery

At-least-once delivery out of a store that forgets what was acknowledged: items are written and owed,
taken in hand, delivered any number of times or refused, acknowledged once all in hand is settled; the
carrier may die. `Promise` is what the channel is for. LogShipping's `Channel` is the instance with
*written* the lines written so far, *owed* those a tailer would find from the stored offset, *in hand*
the batch, *delivered* and *refused* what the platform accepted and what the shipper dropped;
*broken* is any breach. `ImplementsDelivery` says every step of shipper, tailer and log files is a step
of the channel or a stutter, so that a commit (`_commit` after `_post`) is an acknowledgement and nothing
else makes a line be owed no more.

### ConfigDeploy

A configuration is one value that stands for its text and its sha256. The platform renders
(`DeployBegin`) and commits (`DeployCommit`) around which policy edits and other events happen; the
agent endpoint compares the current render with the deployed sha (`Fetch`). Every file operation of
`ConfigDeployer._deploy` that a crash can separate is a step: `Validate`, `Backup`, `Swap`, `Signal`,
`Settle`, `Restore`. `AfterReload` is what follows a reload that worked or failed, for the deploy and
for the rollback. tac_plus-ng reloads when it handles the signal, dies and is restarted by the
supervisor at any time; the agent dies at any step and starts from the live file.

`mishaps` records two events after which the agent can no longer know what runs: *killed* (the
agent died with a reload outstanding) and *unsure* (a reload reported as failed that may have taken
effect). `LiveFileFit` and `ErrorKeepsConfig` hold through both.

Assumed: SIGHUP is handled within the second the reloader waits, the pid file names tac_plus-ng or
nothing. Left out: `config_version` and revisions, several servers, reload mode `none`, alerts.

### Rollout

What a deployment amounts to once the sync, its candidate file, the copy for a rollback and the signal
are hidden: configurations are released, a valid one goes live on trial, the trial is given up for what
was live before or concluded - and concluded only when the service runs what is live, or is down.
Only what is live outside a trial is reported. `Disturb` stands for what the reload protocol does not
survive: agreement is then no longer promised, but still nothing goes live that was not released
and valid, and nothing is loaded that was not live. ConfigDeploy's `Service` is the instance with the
deployed configurations, the live file, the file from before the sync while a trial lasts
(`Trying`: from `os.replace` until `_deploy` knows how the reload ended), what tac_plus-ng has loaded and
the platform's `running_sha256`; *broken* is any mishap. `ImplementsRollout` is what relates the four
processes: the supervisor may restart tac_plus-ng at any moment of a trial.

### Backup

A commit is the tree it holds, so `LastCommit(d)` - `git log -1 -- <file>` - is the newest commit
whose tree differs from its predecessor's in that file, and an empty commit is possible. `Begin`
collects a batch, `Pick` reads the device's last row, `Same`/`Replace`/`Add`/`Commit` are
`GitConfigStore.write` under its lock, `Adopt` looks at HEAD after the lock is released, `InsertRow`
stamps and flushes the row, `CommitRows` ends the transaction. `Fail` ends a batch anywhere: rows roll
back, the repository stays. Rows are ordered by `collected_at`, that is by `InsertRow`, and not by
when they become visible; `fresh` keeps, per device, which open rows are later than the latest
visible one, so no timestamps are needed.

`mishaps` records *torn* (a batch failed between the replacement of a file and its commit),
*crossed* (a commit of the device between another batch's comparison and its look at HEAD) and
*shared* (two batches held a device at a time); each property names those it excludes, and the
runs `backup_torn` and `backup_adopt` show what happens then.

Left out: what `process_result` derives from the configuration and writes in the same transaction
(author, diff statistics, neighbours, search index, golden drift, alerts), two backups of one device in
one transaction (a restore does that), `delete`, which nothing calls. The
row locks PostgreSQL holds on devices until a batch commits are not modelled either, so the model
interleaves batches of one device more freely than the database does. A device that cannot be
collected is a batch without it.

### ConfigHistory

What a reader of the history relies on (`Promise`): a version changes the file of one device, the
latest row of a device names a version that holds what the row says, and what is noted as a change of
a device is a version that changed it. A version is stored (`Store`), the database catches up later or
never (`Record`, any number of devices at once: a batch is one transaction), and a mishap ends all
promises (`Break`). Backup's `History` is the instance with the commits, the latest visible rows and the
commits recorded as changes; *broken* is a mishap *torn* or *crossed*. The abstract history knows neither
lock, working tree nor index: `ImplementsHistory` says that two workers that share them, fail between
their steps and adopt each other's commits still store and record no other history.

### Changes and ChangeWorkflow

`ChangeWorkflow` is the promise about one change request in two strengths: `Next` (a stage is entered
only from a stage the change has reached, a second person approves, nothing is pushed without an
approval, nothing recorded without a push) and `StrictNext` (every step starts from the state the
change is in, as the documentation has it). `Changes` is the code: a handler reads the row without
a lock (`ReadTransition`, `ReadEdit`, `CheckRestore`), may queue the snapshot task before it commits
(`QueueSnapshot`), and writes the columns it decided on at its commit (`CommitTransition`,
`CommitEdit`); a restore pushes between its check and its record (`PushRestore`, `RefuseRestore`,
`RecordRestore`); any call may fail and roll back what is in the database, and nothing else
(`FailCall`). The snapshot task reads the change's list after the backups and writes the list with its
own ids back (`TakeSnapshot`, `RecordSnapshot`), and is retried (`RetrySnapshot`). `Workflow` is the
instance of `ChangeWorkflow` on the same variables (its `Promise` is what an auditor may conclude);
`reached` and `listed` are history variables, the
comments and audit events in the database.

`Implements` says that the handlers implement the weak promise, whatever overlaps. The strong one
does not hold (`changes_race`): no lock or version column protects the row. `SnapshotsKept` names in
`clashed` the tasks whose ids another task of the same phase overwrites.

Assumed: the tenant requires a change for a restore (the default). Left out: dry runs (they change
nothing), creation and its numbering, comments without a transition, masked backups and other
refusals before the push. A snapshot is named by its task.

### Session

One browser. A token pair is its number in the order of issue; the access token's age is seen
differently by the client (`due`) and the platform (`skewed`), or equally (`dead`). A tab has one request
at a time; it walks `accessToken` (`Request`), the answer (`Serve`), the single retry after a 401
(`Reject`) and the refresh: `waiting` for the Web Lock, `DoRefresh` when it is granted, `Rotate` on the
platform, then `Rotated` or `Denied`. Concurrent requests of a tab share its refresh, so one at a time
loses nothing. `Logout` clears the storage first and tells the platform later (`Revoke`). `Lose` is a
network failure at any point, `Close` a closed or reloaded tab. `SwitchTenant` and the tenant left
behind (`acting`) are modelled, since the header is sent with every request.

`broken` records the families whose refresh answer was lost or that signed out; `missed` the tabs that
kept a query cache while another tab, or a refresh that answered late, changed whose session is stored.
For both the code has no protection: the layout unmounts the application without clearing the query
cache, which lives above it, so `ShownIsTheSignedIn` excepts them.

`ImplementsSignOn` says that together the tabs are the one register of `SignOn`, below.
`SignedOutForGood` is what is left of a sign-out being final: `SignedOutStays` fails, because the answer
to a refresh in flight stores its pair again, but a sign-in that is neither stored nor being refreshed
stays away - a tab that asked for the lock before a sign-out looks at the storage again when it gets it.

Assumed: the Web Locks API is there (browsers offer it in secure contexts only; without it
`withCrossTabLock` runs at once and nothing serialises tabs). Left out: the read and the commit of the
platform's `refresh` as two steps, wrong passwords, one-time codes, token scopes.

### SignOn

What a browser promises about who is signed in, without tabs, tokens, locks, ages and caches: a register
`session`, the sessions begun there with their users, the session a renewal is on its way for, the ones
the platform renews no more and the ones excused because they were signed out or lost a renewal.
`SignIn` is the only step that brings a new session in, `SignOut` and `Expire` empty the register, and a
renewal, one at a time, is begun (`Begin`) for the session in it and ends (`Answer`, `Lost`) with that
session, with nobody or without effect. The platform ends (`End`) excused sessions only. In Session a
session is a sign-in: the `family` a pair belongs to. The register is the family of the stored pair,
the renewal the one of the pair carried by the tab that holds the lock, ended are the families all of
whose pairs are revoked, excused is `broken`. Opening the application, requests, the ageing of tokens, a
rotation on the platform and a tenant switch show nowhere in it. `Promise` is what follows: a session is
one person's, only sessions begun here are acted for and renewed, and what is signed in can be renewed
unless it is excused.

### ConsoleApi, ConsoleViews, Console

`ConsoleApi` is the platform as the console sees it: for each operation the permissions its handler
requires and the data it reads or writes (tables, or external sources), the catalogue of permissions and
the built-in roles. Two handlers ask for more than `require(...)`: `apply_transition` wants the permission
of the transition (`Transitions`; one operation per transition), and a role is only bound, created or put
into a token by who has its permissions.
`ConsoleViews` is a definition per component: each `useQuery` with key, operation, the permission that
enables it and when it is polled, each `useMutation` with operation, the permission that shows its
control, the keys it invalidates and writes, and the screen it opens; and a screen per tab of each
page, with the permissions that lead there. `TransitionMeta` is the table by which the page of a change
offers its transitions, written apart from `Transitions`.

`Console` is TanStack Query over them. Cache entries of different keys do not influence one another, so
a behaviour follows one query with one mutation of a screen, `at`, and the initial states range over all
of them: every screen, query, and mutation that changes the query's data. The data has versions: the
platform's (`db`), the one held (`entry.data`), the one an answer carries (`fetch.saw`) and the one the
user's own change made (`own`). `Open`, `Leave`, `Poll`, `Read`, `Land`, `Retry`, `GiveUp` and `Age` are
the life of a query; `Submit`, `Apply`, `ApplyPart`, `Succeed`, `Fail`, `Lose` that of a mutation;
`Change` is everybody else. The semantics of TanStack Query (a mount fetches what is stale,
invalidation cancels and restarts a fetch unless it is the first one, polling joins it) are external.

What `OwnChangeShown` excepts, each a behaviour of the code: a first load, or a fetch of a query not on
screen, is not cancelled by the invalidation and may land the older answer as fresh (`crossed`);
queued work (backups, synchronisations) is done after the answer; a query with a constant interval that
is not invalidated shows the change at the next poll; the user's own permissions (`auth/me`) are not read again
after a change of roles, groups or bindings. `NeverBackwards` excepts queries a mutation writes
into the cache while a fetch may be in flight (device form, user page, backup settings, RANCID upload).

One query, the status of the RANCID history import, has an interval only while the status it holds is
queued or running (`rancid/page.tsx:513`). `busy` is the set of versions that say so, any set of them, and
`Ticking` is whether the timer runs. What `PollsCatchUp` claims of such a query is less: while it shows an
import under way it gets to the platform's version or shows that the import has ended. An import another
user starts, or removes, while this screen shows none does not reach it until the page is opened again
(`refetchOnWindowFocus` is off, `providers.tsx:32`), and no property says it does.

`NothingForbidden` is about users who hold built-in roles without a scope. A role a superuser made with
`tenants:admin` is offered to an administrator in the binding dialog and refused; custom roles are left out.

Left out: `removeQueries` on a tenant switch, the fetch of stale queries when the network comes back,
the palette's 30 seconds of cached search results, filters and pages in the keys (a key is its prefix
up to them), presentation.

## 4. The runs

| Run | Instance | Shows |
|---|---|---|
| `log_shipping` | 3 lines, 3 files, 1 restart, 1 breach, batches of 2, one unacceptable line | types, `NeverLost`, `CommittedPrefix`, `DeliveredInOrder`, `OnlyRejectedDropped`, `NothingCommittedIsPosted`, `PositionAdvances`; refinement `ImplementsDelivery`; liveness `CatchesUp` |
| `log_outage` | 3 files, no restart | counterexample to `OutageLosesNothing`: two rotations while the platform is down |
| `log_wedge` | 1 file, one line the database cannot store | counterexample to `BadLineNeverWedges` |
| `config_deploy` | 2 edits or deletions, a valid and an invalid configuration, each process dies once | types, `LiveFileFit`, `Consistent`, `ErrorKeepsConfig`; refinement `ImplementsRollout`; liveness `DeployIsAnswered` |
| `deploy_crash` | the agent dies once | counterexample to `HeartbeatTellsWhatRuns` |
| `backup` | 2 devices, a scheduled and a manual batch, 1 change, 1 failure | types, `RowMatchesCommit`, `FileIsCommitted`, `RecordedOnce`; refinement `ImplementsHistory` |
| `backup_converges` | 1 device, 2 workers, 1 change, 1 failure | liveness `Converges` |
| `backup_torn` | 2 devices, one batch at a time, 1 failure | counterexample to `RecordedIsCommitted` |
| `changes` | 2 calls, 2 snapshot tasks, 1 device, requester and approver, 1 failure | types, `SnapshotsFollow`, `SnapshotsKept`; refinement `Implements` |
| `changes_race` | the same | counterexample to `FollowsWorkflow` |
| `session` | 2 tabs, 2 users who may act elsewhere, 2 token pairs, both ageing, 1 fault | types, `NeverPresentedTwice`, `StoredIsLive`, `LockHeldToRefresh`, `ShownIsTheSignedIn`; `SignedOutForGood`; refinement `ImplementsSignOn` |
| `console` | all screens, queries and mutations; 3 versions, 1 fault | types, `OwnChangeShown`, `NothingForbidden`, `NeverBackwards`; liveness `PollsCatchUp` |

Beside these, seven configurations can be run the same way:

| Configuration | Shows |
|---|---|
| `log_race.cfg` | counterexample to `RotationLosesNothing`: a rotation between reading and looking |
| `backup_adopt.cfg` | counterexample to `AdoptedMatches`: HEAD belongs to another batch by the time it is read |
| `session_settles.cfg` | `Settles` holds: under the fairness below every request of a tab ends (1 user, 1 ageing token) |
| `session_third.cfg` | all of `session` holds with a third token pair (1 ageing token, no fault): the answer to a refresh comes after its session was signed out and somebody else signed in |
| `session_signout.cfg` | counterexample to `SignedOutStays`: a refresh in flight at the sign-out stores its pair afterwards (`lib/api.ts:217` says "the session is gone locally either way") |
| `session_tenant.cfg` | counterexample to `TenantIsTheUsers`: the tenant of a superuser whose session expired is sent for the next user, who is answered 403 everywhere |
| `console_history.cfg` | counterexample to `RevisionAppears`: "The new revision will appear in History once collected" (`devices/[id]/page.tsx:86`), but the history is neither polled nor invalidated |

The runs that end in a counterexample state what the documentation or a comment says, for an
environment that does nothing else unusual; `findings` in `PROJECT.json` quotes each sentence and
says what the code does instead. `CHECK_DEADLOCK FALSE` stands only where the system may stop: when
every line is written and shipped, or in runs that look for one counterexample.

**Bounds.** Three files are the least with one between the oldest and the live one; batches and
requests of two lines are the least that can be halved; three lines fill more than one batch, in one
file or spread over three. One restart or failure suffices to meet every step once, since what survives a crash
(offsets, files, commits, rows) is the same after each; the second chance to fail shows nothing new,
and the proofs, which have no bounds, confirm it for the theorems below. Two edits let a third
configuration follow a rollback. Two workers are the least that race; in `backup` the second one takes
only one of the two devices, which gives the batches a common and a private device and keeps the run
small; Git content and device values are exchangeable, hence the symmetry on them (never in a run
with liveness). Two tabs and two API calls are the least that race; two token pairs are a rotation, two
sign-ins or a presented stale token (`session_third.cfg` has a rotation after another's sign-in), and the
theorems of section 5 lift the bound. Three versions
of the data are an old, a newer and a still newer one: what is held, what a fetch carries and what a save
made can all differ.

**Fairness.** LogShipping: the shipper thread runs, the supervisor restarts the agent, the platform
answers in the end (an outage ends), the writer finishes a line and reopens its log after a rotation
(logrotate's postrotate signal). Opening the new file after a rotation may fail but not for ever
(strong fairness). No fairness for rotations, writes, crashes. ConfigDeploy: the poll loop runs, the
supervisor restarts what died, signals are handled, a deploy request ends, heartbeats are not lost
for ever (strong fairness of `Heartbeat`). Backup: Celery Beat starts a backup of all devices every
hour and a batch that began runs on (its time limit bounds it); failures and device changes are bounded
in number and not fair. The lock needs no strong fairness: batches of unchanged devices do not hold
it across steps. Session: answers come and are processed, and a tab that waits for the Web Lock gets it in
turn, since requests for a lock are queued in order (strong fairness of `Refreshing`, as the lock
is taken and freed by others meanwhile). Console: poll timers fire, requests are answered, answers
and callbacks are processed (a timer runs only under the condition of its query); users, others and faults promise nothing. `PollsCatchUp` supposes
that the user does not save for ever, since each save cancels the fetch in flight. Changes has no
liveness property: nobody is obliged to approve.

## 5. What is proved

TLAPS checks the following for every value of the constants, from the named assumptions of the
modules only (`BoundsAssumption`: bounds and sizes are naturals, sizes positive; `ConstantsAssumption`
in Session and Changes: the same, and markers are no users or devices; `BackupAssumption`: `Absent` and
`None` are no values of their kind, batches are non-empty; `ConfigAssumption`:
valid configurations are configurations, the bootstrap file and `None` are not).

**LogShippingProofs.** `NeverLost` is not inductive: it speaks of what a tailer started now would
read, while lines also travel through the running tailer's memory. `IInv` adds
- `Structure`: which files exist, how handle, identity, phase and batch hang together;
- `GoneAreDone`: a file that vanished lies before the stored position;
- `DiskKeeps`: each line is delivered or reachable from the stored position;
- `MemoryKeeps`: each line is delivered, in the unsettled part of the batch, or reachable from the
  tailer's own position - so that storing that position keeps `DiskKeeps`;
- `DrainedKeeps`: when the tailer is about to leave a rotated file, all it holds of it is the
  unterminated last line, which it takes along.

The proof goes through the steps of the environment (`EnvironmentKeeps`: a step that breaches nothing
only makes more reachable) and of the agent (`ReadLinesKeeps`: lines move from reach into the batch;
settling moves them to delivered; `Commit` copies memory to disk). Theorems: `Invariance`,
`TypeCorrect`, `OnlyRejectedLinesDropped`, `AtLeastOnce`.

**LogPositionProofs.** What the stored position means, whatever is rotated, lags or vanishes. Three
more invariants, each resting on the one before:
- `PlaceInv`: the stored position is inside its file unless that file is the newest (`StoredFits`),
  the tailer's is not behind it unless the file has shrunk (`NotBehind`), nor beyond the end of its
  file unless all of it was acknowledged before it was truncated (`BeyondEnd`), and a line held back
  is the next one of the file (`TailIsNext`). A commit is the only step that moves the stored
  position, so `PositionAdvances` follows.
- `PrefixInv`: the lines before the stored position are delivered, those before the tailer's are
  delivered or in the unsettled part of the batch. `CommittedPrefix` follows.
- `LinesInv` (no line stands twice), `BatchInv` (no line of the batch stands before the stored
  position) and `OrderInv` (of the lines of a file the earlier are in the batch first and are
  delivered first; what is settled of a batch is delivered). `NothingCommittedIsPosted` and
  `DeliveredInOrder` follow.

Every step of the agent does one of four things to the batch (`ProcessBatch`): it adds the next lines
of the file, settles a piece, empties it or leaves it alone. Theorems: `PositionOnlyAdvances`,
`PrefixCommitted`, `NothingRepeated`, `OrderKept`.

**DeliveryProofs.** LogShipping implements Delivery, line by line: `Ahead` lists the lines behind the
stored position of its file and of the newest one. `OwedInv`: without breaches what a restarted tailer
would read is `Ahead`. `HandsInv`: no file between the two still has lines, and every line of the batch
is ahead - the tailer's own position is not before the stored one (`TailerAhead`, from `NotBehind`
and `BeyondEnd` above), so that what it reads on from there is ahead as well. A commit moves the
stored position to the tailer's when the batch is settled (`CommitAhead`): what is owed no more is
delivered or dropped, by `PrefixInv`. A new file or line only adds to what is ahead. Theorems:
`LogShippingImplements` and `PromiseKept`, the promise of the channel, which is proved about `Delivery`
alone and carried over by the refinement.

**ConfigDeployProofs.** `IInv` is `TypeOK` with `FitInv` (the rollback copy is fit as well; from
validation to the swap the candidate is; what is deployed was deployed by an operator), `AgreeInv`
(agreement of file, agent and tac_plus-ng at each step of a sync that was not cut short) and
`RollbackInv` (until the rollback is over, the copy or the live file is the old one). Theorems:
`Invariance`, `TypeCorrect`, `OnlyFitFilesLive`, `AgreementBetweenSyncs`, `FailedSyncRollsBack`.

The refinement uses all three. Before a mishap (`TrustedStep`) a swap is a trial because the candidate is
fit and the file is the one from before, a restore gives up because the copy is that file, and the end
of a sync concludes because file and tac_plus-ng agree once the signal is handled; every other step
is hidden, a load or a report. From a mishap on every step is at most a disturbance (`DisturbedStep`),
for which the file, the copy and what is loaded need `FitInv` and `RollbackInv` only. Theorems:
`DeployImplements`, `RolloutKept`.

**BackupProofs.** `FileIsCommitted` says nothing of the file being written, so it is not inductive.
`IInv` is `RepoType` (types of what the argument touches), `LockInv` (a worker holds the lock exactly
between replacement and commit, and knows its device from the comparison on) and `RepoInv` (the file
being written is in the index what it is in HEAD until it is staged, and what it is in the working
tree afterwards: the commit of the whole index then restores agreement everywhere). Steps outside
`write()` share one frame predicate, `Quiet`.

The rows need more:
- `TypeInv` is `TypeOK` with `WorkInv` (what is still to be done was collected and has no row yet) and
  `LastInv` (each file that was ever touched has a last commit, and it holds what HEAD holds - by
  the way the log grows, commit by commit): a row names a commit by its number.
- `RowInv`: every row agrees with its commit (`RowsOK`), because of what a worker knows of HEAD while
  it writes, adopts or is about to insert (`WorkerOK`).
- `AloneInv`: as long as no two batches hold a device, it has one open row and the row a worker read
  last is still the last. `NewestInv`: what is recorded of a device does not go past its latest
  row, nor that past its last commit, and an open row names the last commit. Together they give
  `RecordedOnce`.

`RowAssumption` (no row is `None`) is the only further assumption. Theorems: `Invariance`,
`WorkingTreeIsCommitted`, `Typed`, `RowsMatch`, `Once`.

The history adds two invariants. `FreshInv`: a worker stands at most once among the open rows of a device,
and has such a row - so that when its transaction ends the latest visible row is its own or stays.
`NotedInv`: the commit a row notes as a change, while the row is open or about to be inserted,
touched that device's file. By `RepoInv` the whole index differs from HEAD in the one file
being written when it is committed (`CommitChanges`), so a commit is a version (`CommitStores`); a
transaction that ends records its rows (`RowsRecord`); all else is hidden. Theorems:
`BackupImplements` and `HistoryTold`, the promise of the history.

**ChangesProofs.** `IInv` is `TypeOK` with `FlowInv`: the state was reached, the devices were listed,
and a call works from something the change has been (`CallOK`: the transition it is about to commit
starts from a state that was reached, by somebody who may; a restore past its check had an approved
change that covered its device). That is what the abstract workflow needs to know of a handler that
commits later than it looked. Theorems: `Typed`, `ChangesImplements` (every step of the handlers maps
to a step of `ChangeWorkflow` or to a stutter), `WorkflowKept` (what an auditor may conclude),
`ListsKept`, `ListsFollow`. Who may approve and
which devices exist are parameters (`ConstantsAssumption`).

**SessionProofs.** `LockHeldToRefresh` and `StoredIsLive` are inductive together with `FamilyInv` (a
pair that was issued descends from one that was), `CarriedInv` (what a refresh carries, on its way
or answered, is live unless its family met one of the exceptions) and `LeavingInv` (the family a
sign-out revokes is one of these). `ShownIsTheSignedIn` needs two more: `OwnerInv` (every pair
belongs to a user) and `CacheInv` (a tab in the application has a cache; one with somebody else's
data, or one on the login page that still has a cache, missed a change or is signing out). Theorems:
`Typed`, `LockHeld`, `StoredLive`, `PresentedOnce`, `Shown`.

The register needs `SignInv`: a family is named by a pair that was issued, so that the next number names
a new one (`Descent`), its pairs belong to one user, a refused refresh carries an issued pair, and the
exceptions are families. The two steps that issue pairs share `IssueStep`; `EndedByIssuing` and
`EndedByRevoking` say what a new pair and a revoked family do to the ended sessions: a rotation ends
none, because the replaced token was live and its successor is (`RotateEnds`), and a family is revoked
only when it is an exception (`CarriedInv`, `LeavingInv`). A step that touches neither storage nor lock
nor platform is `Quiet`. Theorems: `SessionImplements`; `GoneForGood`, read off the register's steps;
`SignOnKept`, the promise, proved about `SignOn` alone and carried over by the refinement.

**ConsoleProofs.** The tables of queries and mutations are never opened: the proofs hold of any
tables that satisfy `CoverageAssumption` (a mutation shown at once invalidates the query, on an
error as well when it has several requests, or writes the answer of its one request), which TLC
evaluates on the real ones in every run. `IInv` is `TypeOK` with `PartInv` (a mutation of which a
part failed has several requests) and `ShownInv` (what the user changed is held, or the entry is
stale and, on screen, a fetch that will see the change is under way or has failed); `AnswerInv` (an
answer on its way is not older than what is held) gives `NeverBackwards`. Theorems: `Typed`,
`Forwards`, `OwnShown`.

TLC checked these invariants on the instances above before they were proved.

**Only model-checked:** the liveness properties (TLAPS does no ENABLED and so no fairness) and
Console's `NothingForbidden`. The latter follows from `at \in Cases` and a statement about the constant
tables of screens, queries, mutations, transitions, requests and roles alone, which have no parameters: TLC evaluates
it for every case and role there is, and a proof would either take the statement as an assumption or
expand two hundred records one by one. Every other property of a run that passes is proved, the five
refinements among them.

## 6. What is not modelled

- **Text.** Parsers of configurations, accounting records, RCS files and TACACS syntax, rendering,
  diffs, sanitising, risk scores: pure functions, one opaque value here. The same goes for what the
  console draws: charts, tables, formatting, forms' fields and their validation, filters and pages
  kept in the URL. A screen is its queries, mutations and the permissions that guard them.
- **One transaction each.** Mirrors of external systems, CRUD endpoints, reports, compliance and drift
  evaluation, inventory, DCIM, IPAM: nothing interleaves that the database does not order.
- **Not modelled yet** (section 2 has the order): the audit chain, login lockout and one-time steps,
  alerting, RANCID import, recordings, the Redis helpers.
- **Outside the code:** tac_plus-ng, Git's own crash safety, PostgreSQL, the browser's Web Lock and
  storage are taken to do what their documentation says.

Hazards seen while reading that neither a property nor `PROJECT.json` covers: a log file whose inode
is reused or that is truncated and grows past the stored offset between two looks
(`tailer.py:101,208`); two deploys of a server that both count `config_version` up from the same value
(`api/v1/tacacs.py:519`); the search index of a device replaced by two batches at once
(`backup/engine.py:401`); tenant settings and the lockout counter written back from a stale read; a
recording uploaded twice; a one-time value consumed on another replica while Redis is down; a
history repository removed before its replacement is in place.
