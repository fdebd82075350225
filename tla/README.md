# A verification of Sparky in TLA+

Sparky runs language-model engines on a set of GPU nodes. One central app
(`cmd/sparky-server`, PostgreSQL, a web client) and one agent per node
(`cmd/sparky-agent`) talk over a WebSocket that the agent dials. This directory
holds TLA+ models of that conversation and of the services around it (alerts and
email, schedules, cleanup, inventory, engines, sign-in, administration),
configurations that check them with TLC, and proofs that TLAPS checks.

## 1. The system

### 1.1 Components

| Component | Code | State it keeps | Operations |
|---|---|---|---|
| Agent-Communication Layer | `internal/agentconn` | registry of live connections, one liveness tracker per connection, `nodes.agent_status` and SSH identity | accept, handshake, register, read, flag silence, recover, clean up |
| Model Lifecycle Orchestrator | `internal/lifecycle` | `running_instances` (status, health), the dead-instance alert | load, unload, reconcile after a connect, take results and health reports |
| Agent instance handling | `agent/connection` | one goroutine per command, `activeInstances` | run, verify, wait until ready, stop, check, probe health, redial |
| Container runtime | `agent/runtime` | containers (or processes) of the node | create, start, halt, remove, capture, inspect |
| Container log archive | `agent/connection/logarchive.go`, `internal/containerlogs` | `archiving`, `archiveWaiters`; uploads in memory; `container_log_archives` | capture, upload in chunks, store, confirm, remove; live fetch; retention |
| Model transfers | `internal/transfers`, `agent/transfer`, `agent/peertransfer`, `agent/connection/{cancel,peer}.go` | `model_transfers`, `node_model_inventory`, running transfers, grants on the source | initiate, authorize, start, progress, cancel, retry, revoke, expire |
| Model inventory | `internal/inventory`, `agent/modelscan` | inventory rows, pending deletes, scans in memory | delete, scan, import |
| Engine provisioning | `internal/engineprovision`, `agent/provision`, `agent/enginetransfer` | `engine_transfers`, engine inventory | provision, progress |
| Stale container cleanup | `internal/stalecontainers`, `agent/connection/stalecontainers.go` | pending list and remove requests, settings | scan, classify, remove, scheduled run, alerts |
| Schedules | `internal/schedule` | last run of each job | check, begin, run |
| Alerts | `internal/alerts` | alerts, their audience, per-user read and dismissed state | raise, resolve, read, dismiss, expire |
| Email | `internal/email`, `internal/mailer` | queue with leases and attempts, preferences, confirmations | enqueue, claim, deliver, retry, give up, digest |
| Authentication, authorization, groups | `internal/{auth,session,rbac,groups}` | users, overrides, groups, the cache of AD memberships, the setup gate, login buckets; a session is only its signed cookie | log in, recheck, log out, elevate, map groups, change passwords |
| Node, profile and settings registries | `internal/{nodes,profiles,settings,audit}` | rows edited one at a time | create, edit, list |
| HTTP API, web client, live events | `internal/httpapi`, `web`, `internal/events` | rate-limit buckets, subscribers | serve, push |
| Metrics | `internal/metrics`, `agent/telemetry` | samples | insert, list |

### 1.2 How they interact

- The agent dials, says hello and redials for ever. The server pushes commands
  with `Registry.Send`, on the newest connection of the node or not at all.
  There is no queue: a command is lost with the connection it was written to.
- Each command is served by a goroutine of the agent. It writes its results to
  the connection *that brought the command*, so a result outlives neither that
  connection nor the agent. Nothing is sent again, with two exceptions: the
  sweep after each connect asks about rows that are `running`, and a report on
  a cancelled transfer gets the cancel again.
- On the server a connection's messages are handled one at a time. Two
  connections of one node overlap whenever the agent redials before the server
  has noticed the loss of the old one, so messages of different connections are
  handled concurrently and in any order.
- HTTP requests, message handlers and sweeps share the database only. Most of
  their decisions are "read a row, decide, write it" in separate statements, and
  most changes are audited last and put back when the record cannot be written.
- The archive of logs is used by unloads, failed launches, replacement on
  launch and the stale container cleanup. Alerts are raised by the lifecycle and
  the cleanup; email is enqueued by alerts.

### 1.3 What is hard

Overlapping connections; results that are lost, late or from an old connection;
decisions on a row that has changed since it was read; commands that overtake
each other; a crash of either process between two steps; timeouts that race the
answer they wait for; cleanup after half of a launch; an undo that races another
change; mail delivered and not recorded; clocks that change. `PROJECT.json` lists
each place ("hazards") with the property that covers it.

## 2. The modules

| Module | What it models | Used by |
|---|---|---|
| `AgentConn` | Agent-Communication Layer | `MCAgentConn`, `AgentConnProofs` |
| `Lifecycle` | Orchestrator and the agent's side of it, containers backend, one node | `MCLifecycle`, `LifecycleProofs` |
| `LogArchive` | Log archive, both sides, from the first step of an attempt to the removal | `MCLogArchive`, `LogArchiveProofs` |
| `ArchivedRemoval` | What the archive promises (abstract) | `LogArchive`, by `INSTANCE ... WITH` |
| `Transfers` | Transfers onto one node, with the source of a peer transfer | `MCTransfers`, `TransfersProofs` |
| `Alerts` | The inbox: producers, people, expiry | `Email` |
| `Email` | Mail about alerts: recipients, queue, worker, digests; extends `Alerts` | `MCNotify`, `NotifyProofs` |
| `Addresses` | Addresses of accounts and their confirmation links | `MCNotify`, `NotifyProofs` |
| `Schedule` | Schedules, time zones, the runner, edits of the settings | `MCServices`, `ServicesProofs` |
| `StaleContainers` | Cleanup of one node's containers, both sides, and the instances' lives | `MCNode`, `ServicesProofs` |
| `Inventory` | Deletes, scans and imports of one model directory, both sides | `MCNode`, `ServicesProofs` |
| `Engines` | Engine provisioning on one node, both sides | `MCServices`, `ServicesProofs` |
| `Sessions` | Login limiter, setup gate, logins, cookies, recheck | `MCServices`, `AccessProofs` |
| `Administration` | Users, groups, settings, profiles, nodes and their audit records | `MCServices`, `AccessProofs` |
| `SequenceFacts` | Lemmas about queues | `LifecycleProofs`, `TransfersProofs`, `ServicesProofs` |

`LogArchive` is a detail of `Lifecycle`, where an attempt is the single step
`ArchiveAndRemove`: it removes the container or leaves it, which is what the
detailed module shows an attempt to do. `StaleContainers` likewise takes an
attempt as one step with four outcomes. `Lifecycle` keeps the one alert it raises
as a flag; `Alerts` has the inbox behind it.

`MCNotify`, `MCServices` and `MCNode` each hold several components that share no
variable (or, for `Alerts` and `Email`, few). A constant of the behaviour, `subject`, says
which of them moves: the state spaces add up instead of multiplying, and nothing
is lost, since components that share no state cannot affect each other. The cleanup
has two subjects: two callers, and one run of the schedule beside the instances'
lives. `turns` bounds the calls that may
still begin; the steps of a call that has begun are not bounded.

Conventions. A step of a model is what one goroutine does between two points at
which another could interfere: a database statement, a section under a mutex, a
call into the runtime, a message written. A variable `pc` (or `init`, `cancel`,
`hand`, `auth`) says where a goroutine is. Variables marked *history* are read
by properties only. Definitions whose comment starts with "Mutant:" are not part
of a specification: each is a plausible bug in the definition after it, and the
property it is paired with in `PROJECT.json` fails when it takes that place.

### 2.1 AgentConn

`pc[c]` follows `ServeHTTP` through handshake, `recordSSHIdentity`, `Register`,
the online write, the ack, the read loop and the deferred cleanup (cancel, join
the watcher, `Unregister`, the offline write); `watch[c]` follows
`watchLiveness`. `quiet` stands for "nothing read for `unreachableTimeout`" and
`unreachable` for the tracker's flag. The watcher's write and the recovery's
write are outside the tracker's mutex, as in the code, and `select` may pick a
tick although the context is done. A hello carries each key as absent, malformed
or well formed. Any of the status writes named in `DBErrors` may fail. A restart
loses connections and the registry and keeps the table.

### 2.2 Lifecycle

A *task* is a command from the request that creates it to the end of the
goroutine that serves it: one load per instance, some unloads, one check per
instance and connection. `via` is the connection that brought it. `inbox[k]` is
what the server has not read from connection `k`; it may still be read, or be
lost, after that connection dropped. `healthy` and `unhealthy` are one value,
since the server treats them alike. The read loop of a connection handles one
report at a time, and `handling[k]` is where it is: `HandleInstanceHealth` reads
the row, writes its health and raises or resolves the alert in a transaction each,
and `HandleInstanceResult` writes the status and resolves the alert in two. Another
connection's handler, an error or a crash fits in between. `overtaken` (history)
marks a handler about to raise an alert over which another one has written a
recovery, `unclosed` (history) the instances whose alert is open because the step
that closes it was lost or came before the raise. `probing` is the time between
asking the runtime and reporting a probe's answer.

### 2.3 LogArchive

An attempt has a fresh upload id, so the attempt stands for it. Chunks of one
attempt travel in order on one connection: what is in flight is the interval
between `handled` and `sent`. An ack goes to the connection the node has when
the ack is sent. `idle` marks uploads that `sweepLocked` will drop at the next
chunk of any upload. `finish` runs in a goroutine of its own; an INSERT that
fails at its deadline may or may not have been committed. A container may also
be removed by hand, about which nothing can be promised.

### 2.4 Transfers

`InitiateTransfer`, `CancelTransfer` and both message handlers are split at each
read and write of the two tables. The agent's read loop registers and cancels
runs in order; a run's failure is reported as a cancellation if it was cancelled.
A download that fails reports how much it has, or zero if it failed before its
first byte came; a pull always reports zero bytes, as in the code. `disk` is what the node has of each model; two runs that write the
same files at once may damage them (`shared`). A grant is served once, and
expires. `RetryTransfer` creates another transfer of the same model.

### 2.5 Alerts, Email and Addresses

`raising[p]` follows `Raise` through its lookup of an open alert with the key,
the insert (refused by the unique index when another producer was first, which
makes it look again) and the update of a repeat or an escalation. `acting[u]`
follows a person's request: the change, the audit record, and the undo when that
fails, one alert at a time, several chosen or all; the undo of "mark all read" is
one write per alert. A person sees alerts on a page and acts on them later: `seen`
(history) is the severity the page showed, and `crossed` (history) the read marks
that were written over one the person had not been shown, by a request that crossed
an escalation, by an undo of unread, or by "mark all read", which also reaches
alerts no page had shown. An alert that expired under a request ends it with the
foreign key's error. A person has one request under way at a time.
`ResolveCondition`, `ResolveConditionsExcept` and expiry are one step each.

In `Email`, `telling` is the list of recipients a raise has still to serve, with
the severity `Raise` returned. `worker` claims a batch under a lease, delivers and
records one message after another; a crash, or a record that cannot be written, of
the last attempt too, leaves the lease to run out. The relay accepts, fails for now
or refuses for good, or it accepts while its reply is lost, which the worker takes
for a failure (`mailer.go:290-292`) and tries again. `digester` follows the hourly and
the daily digest job, which run side by side: old items deleted, the users of the
mode, one user's items, the message queued, the items deleted. A change of
preferences is written, drops the waiting items and is undone in a step each. Time is two events per message: its next attempt is due (a lease
has run out, or a retry has waited), and it has reached its last day.

`Addresses` splits a request for an address, its confirmation, an Admin's change
and its undo at each statement; a link is known only to the one it was mailed to.

### 2.6 Schedule and StaleContainers

Instants are numbers, a zone is an offset before and one after its clock change,
and `wallClock` turns a wall time into an instant as the code does, through Go's
`time.Date` and the search for the end of a gap. `runner` follows `check`: read,
compute the newest occurrence, mark it as run, run. `edit` holds the settings
requests, which overlap, and follows each through `UpdateSettings` or
`UpdateTimezone`: read, write, audit, restore.

In `StaleContainers`, `call` holds the scheduled run and the page's request. Each
sends a list request, collects the parts of the answer or times out, judges what
it got against the records, and has one container after another removed under
`removeMu`. The agent's goroutine lists or re-checks, archives and removes.
Meanwhile instances live: `tasks` has the launches, unloads, sweeps and checks
under way (what they do to a record, a container or `active`; `Lifecycle` has the
rest), and `results` the answers on their way. `SetStatus` writes whatever status an
answer carries, so a record that is over may be running again. An agent that
restarts forgets what it tracked and its goroutines, and a connection's sweep checks
what is recorded as running. No code deletes a row of `running_instances`: a
container without one is there from the start. A launch under way is one of the
initial states; no further one begins, since it would be of a new instance.

### 2.7 Inventory and Engines

A file has a format, the copy it belongs to (a set of shards, or the whole
repository of safetensors files), the label the scan reads from its name and every
label its name contains, because a delete matches by substring and a scan by
pattern. `Delete` reads the entry, looks at the deletes in memory, asks for the
profiles that use it and sends the command, in a step each, and only then notes the
delete in memory; the agent removes files and answers; the answer updates the entry.
A scan's list names one file per copy, the first shard of a set, in the order of its
walk, and may be cut short; an import asks `importBlock` about what the list names,
then inserts. Transfers place copies and write their entries; that
`recordIncomplete` looks before it writes is in `Transfers`.

In `Engines` a run downloads, verifies, unpacks, replaces the version's directory
(two steps: the old one is removed, the new one renamed into place), swaps
`latest` and reports. The agent may die, or the connection drop, between any two.

### 2.8 Sessions and Administration

`visit` holds logins and requests under way with the cookie they were sent with;
a cookie the server signs, or deletes, travels with the response, which may arrive
after a later one's. The recheck asks the directory about the DN its lookup read,
which may fail, and stamps a new cookie. `allow` sweeps the buckets, at most once a
window, and counts under the limiter's mutex, hence in one step; that it reads the
clock just before it takes the mutex is left out, since a wait there only makes an
attempt count in the window it finds.

In `Administration` a row is a key with a value, and `form` follows a request
from the resolution of who asks through the service's check, the write and the
audit record to the undo, if the service has one. The default theme and the two
retention settings are services of their own. `CreateLocal` writes a user's name,
password and display name in the statement that writes the tier, so the tier stands
for them until one is changed. `FirstLogin` makes the row of a person of the
directory, read-only and with no record, which `said` takes as said. `said`
and `ever` are what the audit log says. `cached` is the cache of AD memberships: `RefreshUser` reads the
mappings, asks the directory and rewrites a user's rows at sign-in, in a step
each; mapping a group fills it with the members whose DN a row has cached, and
unmapping prunes it.

## 3. What is checked

| Run | Instance | Shows |
|---|---|---|
| `AgentConn` | 2 connections, 1 node, all 9 hellos, failing online and unreachable writes, 1 restart | `RegistryTracksNewest`, `OfflineHasTheLastWord`, `ClientKeyKept`, `ClosedIsCleanedUp`, `SilenceIsNoticed` |
| `LifecycleFaults` | 1 instance, 1 unload, 2 connections, 1 restart of each process, 2 health checks, failing stops and queries | `RunningWasReady`, `StoppedIsDown`, `AlertedIsDead`, `DeadIsDown`, `StartingResolves` |
| `LifecycleLive` | 2 instances of one profile, 1 unload each, 1 connection that stays up | `LoadIsAnswered`, `UnloadIsAnswered`, `FailedIsCleanedUp` |
| `LogArchive` | 2 attempts on one container (logs of 2 chunks), limit of 1 upload, 3 connections, 1 restart of each process | `NoRemovalWithoutLog`, `StoredIsWhole`, `OneUploadPerInstance`, `UploadsBounded`, `ImplementsPromise`, `AttemptEnds` |
| `TransfersFaults` | 1 transfer of either kind, 2 connections, 1 drop of the source, 1 restart of each process | `PullIsAuthorized`, `CompletedWasFetched`, `TransferEnds`, `CancelStopsRun` |
| `TransfersTwo` | 2 transfers of one model, of any kinds, connections up | `PresentIsWhole` |
| `Notify` | 2 users, 2 producers, 1 dedupe key, 2 alerts, 2 severities; 2 messages, 2 attempts, 1 delivery unheard of, 1 crash; 3 accounts, 2 addresses, 2 requests at once, 2 links | `OneOpenPerCondition`, `ReadWasSeen`, `MailSentOnce`, `MailSettles`, `DigestNewsKept`, `AddressWasConfirmed` |
| `Services` | 3 time zones, 5 schedules, 2 settings requests; 2 engine runs of 2 versions; 3 people, 2 requests at once; 2 users, 2 groups, 2 forms at once | `LatestIsLatest`, `NeverTwice`, `EngineWasVerified`, `AttemptsLimited`, `AdmittedIsCurrent`, `AccessWasGranted` |
| `Node` | 2 instances, the first in any state of record and container, 2 callers, 3 requests; 6 files of 5 copies, 1 scan, 4 requests and events | `RemovedWasOver`, `ListIsWhole`, `ImportSparesNeighbours` |

`TypeOK` of `AgentConn` is checked too; the type invariants of all modules are
proved (section 4). The largest state spaces are those of `Node` (4.2
million states), `TransfersTwo` (2.6), `Services` (1.4) and `Notify` (0.8).
Each property is stated, with the code it is about, above its definition. Where a
property names an exception, the exception is behaviour of the code that section 5
describes; the property says that nothing else goes wrong.

### 3.1 Bounds

- Two connections are the smallest number that overlap, and in `AgentConn` a
  third adds no new pair; `AgentConnProofs` covers any number.
- In `Lifecycle` two instances of one profile interfere through the profile
  check and the replacement on launch, so they are checked together on one
  connection; faults are checked with one instance, whose goroutines already
  interleave with the sweep, the health check and one unload. Two health checks
  are a death and what follows it.
- In `LogArchive` a log of two chunks has a first and a last. The second attempt,
  started when the first has failed and left its upload behind, makes the limit
  of one upload bite. Three connections allow one drop per process and one more.
  `LogArchiveProofs` covers any sizes.
- In `Transfers` a second transfer of the same model is where the inventory can
  go wrong; different models share nothing but the connections.
- `MCNotify`: two producers racing on one key with five calls reach every order of
  raise, raise and resolve, and a repeat after each; three calls on the inbox
  are a raise, a change and something that races its undo. One raise makes mail for
  two users, which is a batch; one crash, and one delivery of each message that the
  queue does not learn of, fall anywhere in it. Three calls
  around a digest job are an alert, an escalation and a change of preferences.
  Three calls on addresses are a request, its replacement and an Admin's change.
- `MCServices`: a day of eight ticks and a week of two days hold a clock change of
  one tick either way and, with `Horizon` three days, what lies before and
  after it; `LatestIsLatest` starts from every schedule, zone, save, last run and
  moment. Two settings requests are the fewest that overlap. Two engine runs suffice to replace a version in use and to race
  on `latest`. Six logins exceed two windows of two. A session lasts three
  ticks and is rechecked every two, so it outlives a recheck. Two forms about one
  row, with any of its values, and three calls around one AD mapping are the
  smallest numbers that race.
- `MCNode`: three requests of two callers, with three events of instances and the
  connection between them; or the two requests of one run, beside the launches,
  unloads, sweeps and late answers that three such events set off (two beside a
  launch that replaces the left-over container). A part has one container, so a list
  of two comes in two. Four requests and events on the models are a scan, an import, a delete and a
  change of the disk. The six files are a safetensors model whose name contains a
  label, two quantizations one of whose names contains the other's, a copy of which
  only its first shard is there, and two shards of another, one of which has the
  first one's count in its name.
- The models with bounded requests end, so those configurations do not check for
  deadlock. `AgentConn` does: it stops only when every connection is done.

### 3.2 Fairness

Weak fairness of what a goroutine does by itself: the Go scheduler runs what can
run, the calls it waits for return (a handshake and a wait for an ack by their
timeouts), and the agent's `Run` redials with a bounded backoff. `MailSettles`
assumes `Delivers`: the worker ticks for as long as the server runs, a send is
bounded by its timeout, and leases, retries and the last day come with time. No fairness is
assumed of users, of the network, of an engine, of a source's grant, or of a
download: a run is only sure to end once its context is cancelled. The liveness
properties of `Lifecycle` and `Transfers` hold while connections stay up, which
is all the code offers (section 5).

## 4. What is proved

Each theorem holds for every value of the constants that satisfies the named
assumptions of its module (natural-number bounds, non-empty sets, `NoConn` not a
connection, and the like), of the module's own specification (`Spec`, or
`AddressesSpec`, `EmailSpec`, `EnginesSpec`, `StaleSpec`, `InventorySpec`,
`ScheduleSpec`, `SessionsSpec`, `AdministrationSpec`). Those of `MCNotify`,
`MCServices` and `MCNode` only take steps of these. Each rests on an inductive invariant: it holds at first, one lemma
per action or per conjunct shows that a step keeps it, and it implies the property.
TLC checked each invariant on the instance of its run before it was proved. Every
type invariant is proved too. `SequenceFacts` has what the proofs need of queues:
what a queue holds after a message was added or taken.

**AgentConn** (`AgentConnProofs`). `IInv` is the typing, `NodeKnown` (a connection
past its handshake has a node), `NewestIsOwn` (the last connection registered for a
node is that node's, and got at least as far as `Register`) and the three
properties. `RegistryTracksNewest` needs `NewestIsOwn` because `Unregister` compares
the entry with the connection that cleans up: it may delete it only if that one is
the newest. `OfflineHasTheLastWord` needs `WatcherJoined`: a watcher's unreachable
write is harmless only because its connection still owes the offline write, which
is what the join on `watchDone` guarantees.
Theorems: `Invariance`, `TypeCorrect`, `RegistryCorrect`, `OfflineFinal`,
`WatcherStopped`, `ClientKeyNeverCleared` (an action property).

**Lifecycle** (`LifecycleProofs`). The rows follow reports that may be old, so the
invariant says what stays true of a report while it waits: `ReportsTrue`, a
`running`, `stopped` or `dead` in an inbox is about an instance that was ready, the
last two about an engine that is down, and `stopped` about a row that has left
`starting`. That stays true because `Down` is for good: `LaunchedOnce` says that a
container is created and started by its own load only, once. `OnlyReadyServed` and
`UnloadsTrue` say who may send such reports: only what was ready is tracked,
checked or unloaded, and an unload reports once it has stopped the engine.
`HandlersTrue` says the same of a report a handler has taken from the inbox and not
written yet. `AlertedIsDead` needs `RaisesTrue`: a handler about to raise an alert has
written dead, and that is still what the row says unless another one has overtaken
it.
Theorems: `Invariance`, `TypeCorrect`, `RunningRowsWereReady`,
`StoppedRowsAreDown`, `DeadInstancesAreDown`, `AlertsAreAboutTheDead`,
`StartingRowsResolve` (an action property).

**LogArchive** (`LogArchiveProofs`). `NoRemovalWithoutLog` is not inductive: a
removal is decided by the agent from an outcome, the outcome from an ack, the ack
from a row. `ConfirmationsTrue` follows a confirmation through `owed`, `acks` and
`box`; `OutcomesTrue` says what an outcome is worth (with "nothing to capture" the
container is not there any more, for whatever reason). `StoredIsWhole` needs
`ChunksCounted`: chunks are sent in order up to the size, the buffer is as long
as `next` says, and a finished upload has no successor. `OneUploadPerInstance`
follows from `ArchivingExclusive`. `UploadsBounded` needs that the uploads are a
finite set (`UploadsCounted`), so that one more is one more. `Refinement` shows
that the initial states map to those of `ArchivedRemoval` and every step to a step
or a stutter, with the stored rows mapped to the instances whose log is stored. The
size limit enters only here: the TLC instance has no log above it.
Theorems: `Invariance`, `TypeCorrect`, `RemovalIsSafe`, `AcksAreTruthful`,
`StoredLogsWhole`, `UploadsExclusive`, `UploadsLimited`, `Refinement`.

**Transfers** (`TransfersProofs`). `AuthorizationsTrue` follows an authorization
from the source's answer through the handler that holds it to the start command,
`ReportsTrue` a completion from the run to the handler that has read it.
`PresentIsWhole` is not inductive: that the files are whole now says nothing of the
next run over them. `FetchedIsWhole` does, since a run over files that are whole
leaves them so and only two runs at once damage them, and `PresentWasFetched` ties
the inventory to it.
Theorems: `Invariance`, `TypeCorrect`, `PullsAreAuthorized`,
`CompletedRowsWereFetched`, `PresentModelsAreWhole`.

**Addresses, Alerts, Email** (`NotifyProofs`). An address is proved by a link, so
`TokensNameOneChange` says that a link in use names one pending change of one
account, and `WritesProven` that a request that will write, or undo to, a
self-confirmed address holds one that was proved. `AlertInv` has `OpenOnce` (the
unique index), `CalmIsQuiet` (a condition that cleared has no open alert but those
an undo reopened) and `RaisesAreCurrent` (a condition about to be inserted does not
count as cleared). `ReadWasSeen` needs `UnraisedUnread`, that nobody has read an alert
before it is raised, and otherwise follows each mark: it is written at a severity
the person was shown or counted as crossed, and an escalation takes it away.
`MailSentOnce` needs `BatchHeld`, that the worker's batch names a message once and
each is still pending, and `DeliveriesCounted`: every delivery but one is unheard of
by the queue, and that one is of a message that left the queue or is about to. `DigestNewsKept` compares a step's two states, so its proof says of each action which news it may
add, tell or drop: only the clearing of a digest drops some, and it clears exactly
the items it read.
Theorems: `AddressesInvariance`, `AddressesTypeCorrect`, `AddressesWereConfirmed`;
`EmailInvariance`, `EmailTypeCorrect`, `ConditionsHaveOneOpenAlert`,
`ReadAlertsWereSeen`, `MailIsSentOnce`, `DigestsKeepNews` (an action property).

**Engines, StaleContainers, Inventory, Schedule** (`ServicesProofs`).
*Engines*: what is installed, named by `latest` or listed is `KeptWhole`, that is
whole or being replaced by a run that will put it back; `EngineRunsOrdered` says
that a run installs only after it verified, and `EngineRowsTrue`,
`EngineReportsTrue` and `EngineReaderTrue` carry this to the server.
*StaleContainers*: records change under a verdict, so `RemovedWasOver` speaks of what
it was given on, and the rest is about what does not change. `LaunchesHold` says that
nothing writes the record of an instance while it is launched, hence that an
instance judged over is not being launched, and it never is again; `CallsGood` and
`JobsGood` carry that from the verdict to the agent's removal, which asks the runtime
itself whether the container runs. `ListIsWhole` needs what each part on the wire (`WireGood`) and in
the caller's hands is of the list the agent read: parts come in order and are never
skipped, however many they are.
*Inventory*: `ImportsApart` keeps, for each import, what `importBlock` answered
about the copies its scan named when the entry was made, which `removeModel` then
has to match, and `ImportOfScan` that an import under way has its scan.
The proof found the property too strong as it first stood, and it was restated:
see section 5.
*Schedule*: settings requests overlap, so each save has a number of its own, and
`SavesOrdered` says that nothing is of a save that is not written yet (`Fresh`).
`RowLast` says that no run of a save is later than its last run, `RunnerLast` the same of what a check has read, and `RunnerDue` that the occurrence
it is about to begin is later than that and not in the future. That `Max` and `Min`
of the occurrences exist is shown with the least element of a set of naturals
(`LeastOf`, `GreatestOf`), and `LatestIsDue` that the occurrence chosen is one of
the schedule and due.
`NeverTwice` holds for any zones.
`LatestIsLatest` compares the bounded searches of `Latest` and `Next` with all
occurrences of the schedule. Its invariant is `MomentsOrdered`: the row, and the row
a settings request would put back, were saved no later than now. The rest is about
the operators. What `wallClock` makes of a wall time has one of three shapes
(`WallClockShape`: read with the offset before the change, with the one after it, or
in the gap and so the end of the gap), and it grows with the wall time
(`WallClockGrows`). So an occurrence in the past is of a local day that is not after
today, and one to come of a day that is not before it (`PastWalls`, `ComingWalls`);
every weekday comes within a week of any day (`WeekdayComes`), which is why the days
searched are enough; and `Estimate`, which counts days of even length, is off by at
most one (`EstimateIs`), which is why the few counts tried around it are enough.
This needs `ZonesAssumption`: offsets and clock changes of less than a day, a gap no
longer than the stretch `wallClock` probes (real gaps are of an hour or two, the
probes reach from three hours back to six ahead), and a clock that is not put back
from after midnight to the day before. The last is true of a change at midnight
itself and at any later hour that stays on its day, but was not of St. John's until
2011 (00:01 to 23:01). TLC shows on small days that the assumption is needed: in such
a zone a weekly schedule's late occurrence lies on a local day after the one that
`Latest` starts from, and it is found only when midnight comes again.
Theorems: `EnginesInvariance`, `EnginesTypeCorrect`, `EnginesWereVerified`;
`StaleInvariance`, `StaleTypeCorrect`, `RemovedContainersWereOver`,
`ScannedListsAreWhole`; `InventoryInvariance`, `InventoryTypeCorrect`,
`ImportedEntriesSpareNeighbours`; `ScheduleInvariance`, `ScheduleTypeCorrect`,
`OccurrencesRunOnce`, `LatestIsAlwaysLatest`.

**Sessions** (`AccessProofs`). `JarGood` and `VisitsGood` say of every cookie, kept
by a browser or travelling with a request, that its person was in the group when
the directory was last asked for it (`SinceIn`), and that it expires within a
lifetime of its login however often it was signed again; `AnswersKeeps` and
`ArrivesKeeps` take it with a response to the browser.
`AttemptsLimited` is about any stretch of time, not only the limiter's own windows:
`LimiterGood` assigns each attempt to the window it was counted in, of which there
are at most `MaxTries` attempts; a sweep drops only buckets whose window is over
(`SweptGood`). A stretch meets at most two windows, and the
attempt that opened the earlier one lies outside it, which is why fewer than twice
`MaxTries` fit in.
Theorems: `SessionsInvariance`, `SessionsTypeCorrect`,
`AdmittedRequestsAreCurrent`, `LoginAttemptsAreLimited`.

**Administration** (`AccessProofs`). `AccessWasGranted` speaks of a moment without
requests, so the invariant says what is true while they run, and it has two halves.
For a subject no two requests raced on (`Apart`: one of them at most is past its
check), `LogExact`: a row is what the log says of it, or the one request past its
write will record it, and that request's undo would restore what the log says.
For subjects that were raced on, `LogKnown`: as long as no record was lost, each
value is in the log or some request under way is about to record it (`Vouched`), and
so is what each request would put back, by the log or by a request *other* than
itself. After one loss a single request undoes, and what it restores has such a
voucher; a second loss may make a voucher undo, which is where the property stops.
A deleted group takes its rows along and its id is not used again, which
`MadeKnown` needs for the undo of a creation. `TiersMade` says that a tier is changed
only of a row that was there, since a first login makes rows beside the requests.
`CacheKnown` says that cached
memberships, and answers of the directory on their way into the cache, are of
people who have been in the AD group. The steps fall into seven kinds by what they
do to rows and log (`Quiet`, `Checked`, `Wrote`, `Record`, `Lapses`, `Abandons`,
`PutsBack`), with one lemma each.
The proof assumes of the tables at the start only their types and foreign keys
(`RowsFit`).
Theorems: `AdministrationInvariance`, `AdministrationTypeCorrect`,
`AccessWasAlwaysGranted`.

**Only model-checked.**

- All liveness: `ClosedIsCleanedUp`, `SilenceIsNoticed`, `LoadIsAnswered`,
  `UnloadIsAnswered`, `FailedIsCleanedUp`, `AttemptEnds`, `TransferEnds`,
  `CancelStopsRun`, `MailSettles`. TLAPS does not reason about fairness or `ENABLED`
  here.

Every invariant and every action property that the passing runs check is a
theorem.

## 5. Where the code and its own words disagree

Three runs check a statement of the source that the code does not keep, and find
it violated:

- `AgentConnOpenIsNotOffline`. `agentconn.go:253` says offline is when "the
  connection actually closed". The cleanup of an old connection writes offline
  (line 239) even when a newer one has registered: the node is shown offline,
  with an open connection, until the next silence and recovery.
- `LifecycleOneActivePerProfile`. `migrations/000010_create_running_instances.up.sql:15`
  leaves it to the service to refuse a second concurrent load. The check (line 128
  of `lifecycle/service.go`) and the insert (line 178) are separate.
- `TransfersFinishedIsFinal`. `transfers/service.go:421` says a finished
  transfer's row "is never touched again"; the write at line 442 follows a read at
  line 411, and a cancel fits in between.

The modules also state the following, each under "CLAIMS OF THE SOURCE". No run
is kept for them; adding one as an `INVARIANT` or `PROPERTY` to a configuration
of its module shows the counterexample.

| Definition | Statement | How it fails |
|---|---|---|
| `AgentConn!RecoveryIsReported` | `agentconn.go:351`, "report the recovery back to online" | the watcher's unreachable write is delayed past the recovery's online write |
| `AgentConn!NoConnectionIsOffline` | `SCHEMA.md:87`, status is derived from the connection state | the server dies and the agent does not come back |
| `AgentConn!HostKeyKept` | `agentconn.go:387`, omission is never "clear it" | a hello with a client key and no host key sets the host key to NULL |
| `Lifecycle!NoAlertForTerminal` | `lifecycle/service.go:491`, a stopped or failed instance is no longer "dead but expected to run" | a dead report is handled after the result |
| `Lifecycle!RunningDeadIsAlerted` | `lifecycle/service.go:370`, an alert is raised when an instance becomes dead | the unload's result closes the alert, the late answer to a sweep then brings the row back to running, and health is still dead |
| `Lifecycle!RecoveryClosesAlert` | `PLANNING.md:2499`, the alert of a dead instance "is closed by any later non-dead health report" | health and alert are written in two transactions (`lifecycle/service.go:373-448`): the server dies between them, or an older connection's handler raises its alert after a newer one's has written the recovery; the alert stays open about a live instance until the next report (`AlertedIsDead`: nothing else does this) |
| `LogArchive!StoredOnce` | `agent/connection/logarchive.go:355`, a retry never stores twice | the ack of a stored log is lost; the next attempt has a new id |
| `Transfers!UsableIsKept` | `transfers/service.go:359`, a usable entry is never downgraded | a completion falls between the lookup and the write |
| `Transfers!QueuedIsPickedUp` | `transfers/service.go:126`, no queued transfer nothing will pick up | the connection drops between the check and the dispatch |
| `Transfers!PartialIsFiled` | `transfers/service.go:355`, partial data is filed as incomplete | a failed pull reports zero bytes |
| `Transfers!CancelledIsRevoked` | `transfers/service.go:207`, the source drops its authorization | the cancel's revoke overtakes the authorize request |
| `Transfers!NothingElseWrites` | `agent/transfer/transfer.go:258`, nothing else writes to the directory | two transfers of the same model run at once |
| `Alerts!EscalatedIsUnread` | `SCHEMA.md:338`, a repeat at a higher severity "also makes the alert unread again for everyone" | `MarkRead` (`db/alerts.go:496`) does not ask what the person was shown: a request that crosses the escalation marks the worse alert read (`ReadWasSeen`: any other mark is of what was shown) |
| `StaleContainers!LiveIsUntouched` | `ARCHITECTURE.md:244`, no container is touched "whose instance is starting, running or stopping" | the record is read when the list is judged and not again, and `SetStatus` is unconditional (`lifecycle/service.go:486`): a late answer to a check brings a stopped record back to running before its container, of any age if the minimum is 0, is removed |
| `Inventory!ImportSparesShards` | `ARCHITECTURE.md:446`, Import "refuses an entry whose later delete would remove neighbouring models in the same directory" | `importBlock` asks about the names in the list (`inventory/scan.go:427`), which has the first shard of a set only, and `removeModel` matches every shard: `a-00001-of-00003` imported as `00003` beside `b-00001-of-00004` is let through, and its delete takes `b-00003-of-00004`; a list cut at 500 candidates hides neighbours likewise |
| `Inventory!DeleteLeavesSiblings` | `agent/connection/deletemodel.go:28`, "sibling quantizations of the same repo are left alone" | a file is matched by whether its name contains the quantization (line 65): deleting `Q4_K` also removes the files of `Q4_K_M` |

The newer modules show more of the same kind in their actions. The properties
name them as exceptions or leave them out of what they promise:

- *Alerts and email.* The undo of an unaudited resolution may reopen an alert whose
  condition cleared meanwhile. The undo of an unaudited "mark unread" marks the alert
  read again, whatever it escalated to meanwhile, and "mark all read" marks alerts that
  no page has shown (`crossed`). A message whose delivery the queue does not learn of
  is mailed again: the relay's reply was lost, the record failed or the server died
  (`unsure`). Mail goes to the audience of an alert although the
  comment on `RecipientsForAlert` speaks of the alerts a person "would see", and a
  dismissed one is not seen. A digest deletes the items it read, with an
  escalation that came in after the read. The undo of a change of preferences
  does not bring back the items it dropped. Crashes can take a message past its
  attempts. A confirmation racing an Admin's change overwrites it, and its
  deletion takes a newer request with it.
- *Schedule.* The undo of an unaudited settings change puts back the last run it
  read, and an occurrence runs again, where `schedule/runner.go` ranks "never
  twice" above "never missed". Of a repeated wall time, `wallClock` promises the
  earlier; Go's `time.Date` gives the later one east of UTC.
- *Engines.* An agent that dies between removing a version's directory and
  renaming the new one leaves the version missing, and `latest` dangling, until
  it is provisioned again. A request that cannot be dispatched leaves its row
  queued.
- *Sessions.* The cookie is stamped after the directory's answer, so a membership
  lasts that much longer than one interval. The response of a recheck under way
  brings back the cookie a logout deleted. Two first logins of one person race on
  the unique SID.
- *Administration.* The rule that an Admin may not touch a higher tier is checked
  against a tier read earlier, so an Admin's change may overwrite a promotion. An
  undo puts back what it read, over another request's audited change; two failed
  records can leave a value the log does not know. New local accounts, passwords,
  display names, profiles, nodes and the deletion of a group are not undone. A
  membership cached while its mapping is removed stays in the cache. A first AD
  login makes a read-only row that no audit record mentions.
- *Inventory.* `importBlock` counts safetensors files beside a gguf file for whole
  directories only, and a delete matches any file by its name: deleting an imported
  quantization takes a safetensors file whose name contains the label, and every
  safetensors file once no gguf file is left. The answer to a delete marks an entry removed although a transfer
  has written it again meanwhile, and a delete is noted in memory after it was
  sent, so its answer may be there first.

A run that outlives its connection reports to nobody, so the repeated cancel
never reaches it; `agent/connection/connection.go:765` documents this as an accepted gap, and
`CancelStopsRun` is stated for connections that stay up.

## 6. What is not modelled

- The bare-metal backend (its processes end with the agent), image pulls, GPU
  mechanisms, the text of commands and messages, JSON.
- Failures of writes to the transfer and alert tables; `Lifecycle` and
  `AgentConn` do model failing writes to theirs.
- Files of a model that change at their origin between two downloads.
- Live log fetches and the retention of archived logs.
- Reports of a node's interfaces, the choice of a transfer's source address and
  `CheckConnectivity`; the agent's first-time provisioning (`agent/provision`).
- The file lists of a Hugging Face repository and rsync arguments.
- The directory's searches, the form of names and addresses, hashes, signatures
  and CSRF tokens: each is reduced to its answer.
- Pages, rendering, live events (a broadcast that may skip a slow browser, which
  then refetches), metrics (rows inserted and listed) and the command line.
- Components `PROJECT.json` lists as not modelled, with the reason.

## 7. Plan

Done, in this order: `AgentConn` and its proofs; `Lifecycle`; `LogArchive`,
`ArchivedRemoval` and their proofs; `Transfers`; `Alerts`, `Email` and
`Addresses`; `Schedule` and `StaleContainers`; `Inventory` and `Engines`;
`Sessions` and `Administration`; the proofs of `Transfers`, `Lifecycle`, `Email`
and its companions, the services, `Sessions` and `Administration`. Next:

1. Models of the bare-metal backend and of live log fetches.
