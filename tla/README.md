# ProxyPanel: specification and proofs

ProxyPanel is a panel, the *Hub* (`crates/pp-hub`), that manages proxy *nodes*. Each node runs an *Agent*
(`crates/pp-agent`), which installs and supervises the proxy cores sing-box and mihomo (`crates/pp-core`). The Hub's
truth is a database (`crates/pp-db`); it talks to an Agent over one bidirectional gRPC stream at a time
(`crates/pp-proto`, `proto/hub_agent.proto`). An operator's tool (`crates/pp-cli`) installs, upgrades and rolls back the
programs.

This directory holds TLA+ modules of the parts of that system whose behaviour is hard to test, TLC configurations that
check them on small instances, and TLAPS proofs for every value of their constants. Paths below are relative to the
repository's `crates/`.

## How to run it

`tlc -config <cfg> <module>` for every run of `PROJECT.json`, `tlapm <module>` for the `*Proofs` modules. The modules
use the standard modules, the community module `SequencesExt`, and TLAPS only.

## 1. The system

### Parts, their state and their operations

| part | state | operations | who it talks to |
|---|---|---|---|
| Hub agent session (`pp-hub/src/grpc/agent_service.rs`, `register.rs`, `state.rs`) | `AppState.agents` (node -> sender, recorded versions), `nodes.status`, `client_online_sessions`; per stream the task's `registered_id` | `stream`, `handle_register`, `handle_heartbeat`, `handle_online_users`, the clean-up | Agents (messages), database |
| Configuration push (`service/protocol/push.rs`, `routes/{nodes,protocol,bindings,core_version}.rs`) | `node_pending_updates`, recorded versions; on the Agent `last_config.<core>.json` and the running core | edits and their mark, `push_node_config` for administrators, `push_config_for_core` and `reconcile_orphan_cores` for the scheduler; `handle_config_push`, `handle_core_command`, `restore_last_config` | session (entry, stream), core processes |
| Client access and accounting (`service/scheduler.rs`, `agent_service.rs`, `routes/client.rs`) | the clients row (status, counters, dates), `node_user_usage_records` | `handle_traffic`, `handle_online_users` (activation), the five-minute pass, the administrator's edits | configuration push |
| Core binaries (`routes/nodes.rs`, `pp-agent/src/core_binaries.rs`) | `binary_waiters`, the node's `bin_dir` | `request_core_binaries`, the Agent's answer | session |
| Certificates (`routes/certificates.rs`, `pp-agent/src/acme.rs`) | the certificates row, three files on the node | request, dispatch at registration, issuance, daily renewal, status report | session |
| Core installation (`pp-core/src/installer.rs`, `supervisor.rs`, `pp-agent/src/client.rs`) | binary, backup, build marker | `ensure_manager`, `ensure_core_build`, deletion | configuration push |
| Core processes (`pp-core/src/{lifecycle,manager}`) | child handle, pid file | start, stop, restart, is_running, reaping | operating system |
| Traffic reporter (`pp-agent/src/reporter.rs`, `core_api.rs`) | baselines per user | collect, delta, report | cores' statistics, session |
| Logs (`pp-hub/src/logging.rs`, `pp-agent/src/logger.rs`) | bounded queues | enqueue, drop, flush, shut down | database, session |
| Catalogue and rules (`routes/{core_version,relay_rule,protocol,bindings,node_group,inbound_host}.rs`) | rows | create, update, delete, activate; they mark pending updates | configuration push |
| Configuration builders (`pp-config`, `service/protocol/{config_gen,relay}.rs`) | none | rows -> configuration of a core | database |
| Subscriptions (`routes/subscription`, `pp-subscription`) | subscription rows | access check, generation | database |
| Access control (`middleware`, `rate_limiter.rs`, `routes/{login,api_key}.rs`) | key cache, token buckets, keys | verify, cache, invalidate, throttle | every route |
| Hub self-update and CLI (`routes/system_update`, `pp-cli`) | status file, lock, binaries, backups, an in-memory flag | start an update, upgrade with recovery, rollback, install | systemd, file system |
| Database (`pp-db`) | schema, `system_meta.app_version` | migrations, versioned upgrades | the Hub's start |
| Read-only views, webhooks, the browser's panel (`routes/{usage,traffic,metrics,onlines,...}.rs`, `apps/panel`) | none of their own | queries; fire-and-forget calls | database |

### What is hard about it, and what makes each part correct

* **Overlapping streams.** An Agent leaves a broken stream at once and dials again; the Hub notices later. Registration
  writes status then table entry, the clean-up removes entry then status, both by node id, from tasks of different
  streams. *Correct*: an online node is backed by an entry or by a task about to settle it; sessions have an owner; a
  departed node ends up offline.
* **Reads before awaits.** `push_node_config` generates, sends, records and unmarks in four separate steps;
  `handle_traffic` and the scheduler read rows and write them later, without transactions. *Correct*: what is recorded
  was sent; counters agree with the records; a closed client stays closed; every exception to these has a name.
* **Failures in the middle.** A send into a dying stream, a core that refuses a configuration, a pass that ends by `?`,
  a download that leaves half a file, an Agent that ends between two writes. *Correct*: a core only runs what it was
  offered, restores only what has worked, and always has a binary.
* **Answers without ids.** `CoreBinaryList` names no request; the table of waiters has one slot per node. *Correct*:
  own answers until one is lost; every request ends.
* **Things that must eventually happen.** The orphaned core stops, the client at its limit is limited and leaves the
  cores, the pending certificate is issued or fails, what was carried is reported, whoever needs the table gets it.
* **One set of rows, read twice.** A node's configuration and a client's subscription are made of the same settings by
  different code, in two builders and three formats; an edit must mark every node whose configuration it changes.
  *Correct*: an offered link is accepted by the server it names; every exception has a name.
* **Caches, buckets and queues at their limits.** Verified keys outlive an edit by one search; tokens come back in
  whole numbers; log records are accepted while the writer drains. *Correct*: an answered edit is seen; a minute lets
  through no more than a full bucket and what comes back; what was accepted is saved.

`PROJECT.json` lists these hazards one by one, each at its line and with the properties that watch it.

## 2. Modules

| module | models | composes |
|---|---|---|
| `AgentSession` | the streams of one Agent, the Hub task of each, the table entry, status, sessions | |
| `ConfigDelivery` | abstract: a core runs only what it accepted, and accepts only what was offered | |
| `ConfigPush` | edits, marks, pushes, recorded versions, the Agent's handling, snapshots, restarts | EXTENDS `AgentSession`; implements `ConfigDelivery` |
| `ClientAccess` | one client's row and all its writers, the configurations that carry it | |
| `TrafficReporter` | counters of the cores, the reporter's samples and reports | |
| `AgentTable` | the table of Agents as a fair lock in front of bounded channels | |
| `BinaryRequests` | overlapping list/delete requests for core binaries | |
| `Certificates` | one managed certificate, from request to renewal | |
| `CoreInstall` | one core's binary through pushes, failures, deletions, Agent ends | |
| `Upgrade` | the Hub replaced by another release: the panel's request, the status file, the command line program, the service | |
| `DbUpgrade` | the versioned data upgrades of the database, with several openers | |
| `CoreProcess` | one core as an operating system process, its Agent, the pid file | |
| `PanelTables` | the panel's tables and the readings of settings that the builders and formats share | |
| `CoreConfig` | the configuration of one core of one node, as operators on the tables | EXTENDS `PanelTables` |
| `Subscriptions` | the proxies a client is offered and the link of each format, as operators on the tables | EXTENDS `PanelTables` |
| `Panel` | one action per route that edits the tables, with what it marks | EXTENDS `CoreConfig`, `Subscriptions` |
| `CoreVersions` | the catalogue of a core's versions under concurrent requests | |
| `Templates` | subscription templates under concurrent edits, and which one a request gets | |
| `ApiKeys` | one API key, the cache in front of it, concurrent requests and edits | |
| `RateLimiter` | the token buckets, time in ticks | |
| `HubLogs` | the channel and the writer of the Hub's own log | |
| `MC*` | instances for TLC; `MCHubAndNode`, `MCTraffic`, `MCHostPrograms` and `MCHub` run several modules as alternative behaviours | |
| `ConfigPushProofs` | theorems about `AgentSession`, `ConfigPush` | |
| `ClientAccessProofs` | theorems about `ClientAccess` and `TrafficReporter` | |
| `NodeRequestsProofs` | theorems about `CoreInstall`, `BinaryRequests`, `Certificates` | |
| `HubTablesProofs` | theorems about `ApiKeys`, `CoreVersions`, `Templates`, `HubLogs`, `RateLimiter` | |
| `HostProgramsProofs` | theorems about `DbUpgrade`, `CoreProcess` | |
| `PanelProofs` | theorems about `Panel` and the operators of `CoreConfig` and `Subscriptions` | |
| `UpgradeSteps`, `UpgradeProofs` | lemmas and theorems about `Upgrade` | |

A union module starts in one of its parts, chosen at the beginning, and only that part moves: the modules in it share no
state, so nothing would be found by interleaving them. The fairness of a union is that of each module under the
condition that its part was chosen.

### Correspondence with the code

A Hub handler is split where it awaits between two accesses to shared state, and nowhere else: what lies between two
awaits on the database, the table or the channel is one action. A failing await is a disjunct or an action of its own
that does what the error path does. Definitions whose comment begins with `Variant:` are deliberately wrong copies of
the definition after them; no specification uses them. They are what the properties have been tried against, so that
each property is known to fail for a plausible mistake.

**AgentSession.** `task[k]` is the program counter of the tokio task spawned by `stream()` for stream `k`. `HubAccept`,
`HubInsert`, `HubAnswer` are `handle_register` (agent_service/register.rs) cut at its database write, at
`register_agent` and at the queued response; `HubStreamEnd`, `HubOffline`, `HubClear` are the clean-up after the read
loop (agent_service.rs:114-137). `entry` is `AppState.agents`. `missedOffline` and `missedClear` are history: a write
of the clean-up was lost to a database error or to a Hub stop. Not modelled here: the scheduler's own deletion of
session rows not seen for ten minutes (scheduler.rs:65-107), which only removes what `SessionsHaveOwner` is about.

**ConfigPush.** `desired[c]` is what `generate_node_config` would produce now; an edit changes it and leaves `unmarked`
until `mark_pending` ran. `push[p].pc` walks through `built` (read), `sent` (send_to_agent), `recorded`
(set_agent_config_version) and back to `idle` (clear_pending). `chan[k]` is the FIFO of Hub messages on a stream;
`AgentHandle` is `handle_config_push` or `handle_core_command` to its end, since the Agent's message loop is serial.
A version is a hash prefix in the code and identifies its configuration in the model. `doubt` is history: it holds why
the recorded version may differ from the snapshot (pushes that crossed, a refusal, an unsaved snapshot).

**ClientAccess.** Every writer is a pair of actions, the read and the write, because every writer in the code reads a
row, awaits and updates the columns it set. `readUsed`, `readStatus`, `readAll` are what an actor holds from its read;
`stale`, `overReset`, `outdated` are history: whose read has been overtaken by a write of the counters, by a reset, by a
closing of the client. `pc` walks through `run_periodic_checks`; `Abort` is any of its `?`. `served[n]` says whether the
core of node `n` carries the client. Bytes are small numbers after the node's rate.

**TrafficReporter.** `stage` walks through `collect_traffic_report` (reporter.rs:39): `ReadStatus` is the first gRPC call,
`Snapshot` the second with the assignment of both baselines, `SampleMihomo` the HTTP sample, `SendReport` the channel of the
stream. `total` and `flow[c].bytes` are what sing-box counts, which is external; up and down are one number. `StreamFails`
aborts the reporter where it is (client.rs:253-257); baselines are statics and stay. `silent` is a sing-box that has stopped
answering without an end of its connection (`FallsSilent`, `AnswersAgain`): its calls have no timeout (reporter.rs:129-179),
the one to mihomo has five seconds, so that the reporter waits at `ReadStatus` or `Snapshot`. `carried`, `spoiled` and
`outlived` are history: what was carried, for whom some of it can never be counted, and whether a core outlived the Agent that
had sampled it.

**AgentTable.** A job is the sequence of locks that one task of the Hub takes (`Programs`): a push sends and then records,
a registration inserts and then dispatches, a clean-up removes, anyone reads. `line` is tokio's fair queue: a reader
waits behind a writer that waits. A send holds the read lock until there is room in the channel (state.rs:188-204).

**BinaryRequests.** `oneshot[r]` is the receiver of the handler's channel; `waiter` the single slot per node;
`asks`/`answers` the stream. An answer remembers the request it belongs to, which the message in the code does not: the
handlers never look at it.

**Certificates.** The row is `[id, status]`; the files are the serial number of the issuance they come from, so a torn
pair is two different numbers. A task is `order` -> `crt` -> `key` -> `issued` -> report; the renewal task dies with the
stream (`abort`), spawned issuances do not. ACME is external: it succeeds or fails.

**CoreInstall.** `binary`, `backup`, `marker` are the three files; a file is a build, `Partial` or `Missing`. `agent` is
the place in `handle_config_push` -> `ensure_manager` -> `ensure_core_build` -> apply; `aside` is `has_binary`. Both renames
can fail: the one aside ends the upgrade before the download (client.rs:478), and the error of the one back is ignored
(client.rs:493). `before`, `failed` (the upgrade of this push did not succeed), `owned`, `unmarked`, `damaged` (an upgrade did
not put back what it had moved aside) are history.

**Upgrade.** `req[r]` is a `POST /api/v1/system/update` between the awaits of `start_update` and `execute_update`, up to
the task that awaits `sudo`; `flag` is `MaintenanceState`, `record` the status in the file, `unit` the transient unit
until its program has the lock. `job` is the command that holds `maintenance.lock`: `todo` are the steps it still has to
take, in the order of `perform_upgrade`, `install_hub`, `rollback` and `recover`. One action is one such step.
`StepFails` is its error and continues where the code does (`Failed`); `Kill` stops the command in the middle of a step,
and a copy or a removal of a directory that is stopped leaves `Torn`. `binCopies` and `webCopies` are the backup directory
in the order of modification times, by which the code chooses; a copy of the console into a directory that is already
there keeps its place in that order. `marks` and `lost` are history: why files, copies or the record may be out of step.
`Drop` is a handler that goes with its client's connection, at any await of `start_update` and `execute_update` after the first
check; the task that awaits `sudo` is spawned and stays. `StopUnseen` is a `systemctl` that fails: `systemd_is_active` then
answers false (systemd.rs:70), and a Hub that runs is neither stopped nor started again; or it is the stop that fails.
A stale record is one nobody will end: the 30 minutes are not modelled, and a stale record refuses requests as a running
one does.

**DbUpgrade.** `opening[o]` holds the locals of `run_versioned_upgrades` in process `o`: the release it is (`app`) and the
version it has come to (`at`). `set_system_version` is two statements, `LookUp` and `Record`. `causes` is history.

**CoreProcess.** `proc` is the machine's process table as far as the Agent can tell; `process` the manager's child handle,
`starting` the child before `start` has kept it. `restart` is `StopCore` and then `StartCore`. `bound` says whether the
system ends the core with its Agent; on macOS, and on Windows where the job could not be joined, it does not.

**PanelTables, CoreConfig, Subscriptions.** A row is a record or `None`; settings are functions from keys to a shape (text,
list, number) and items, because what the code does depends on whether a value is an array or a string and on which
of several names a key has. An inbound, a hop and a link are records of what decides whether a connection is accepted:
credential, flow, REALITY key, name and id, certificate, obfuscation, transport, port. A whole sing-box profile is checked
against sing-box's schema (formats/singbox.rs:8): `SchemaTransport`, `SchemaReality` and `SchemaObfs` say which stored settings it
refuses, an unknown transport, fingerprint or obfuscation, or any `spider_x`. An inbound host replaces address, port and
those of `sni`, `host` and `path` that it has. Display names, log levels, rates, device limits, several inbound hosts of one
binding (the pair has one) and an explicit `skip_cert_verify` are left out.

**Panel.** An action is a whole handler with all its writes, of which those that can fail half-way and leave something behind
(`UpdateRule` with a name that is refused, relay_rule.rs:510) have an action for that. `edit` is the last handler: whether it
came to its end, what it marked (`marks`) and what it went to mark and the database refused (`lost`), which the handlers log
and then answer success. A deletion of a configuration ignores failing deletions of its bindings (`Fate`). Rows are not
interleaved with pushes here; that is `ConfigPush`. The default database, SQLite, is opened without foreign keys, so a
deletion takes along only what its handler deletes; ids are never used twice.

**CoreVersions, Templates.** The handlers are cut at their statements, each of which may fail; none of them uses a
transaction. In `Templates`, `editor[e].row` is what the handler makes of the row it read, from which the second part takes
the format and the flag it enforces; the write itself is of the posted columns alone. `crossed`, `lapsed`, `skewed` are
history. A push is one step in `CoreVersions`.

**ApiKeys.** A row is its edition. `RequestMiss` reads the rows and `RequestVerified` stores what it read; the Argon2
search lies between. The last step of an edit, and its answer, is the invalidation. `late` marks what was read before an
invalidation and stored after it; `expected` is the edition whose answer a request could have seen when it began. The
TTL of an hour is an entry that ages at any time.

**RateLimiter.** A check is two steps, since it reads the clock (`ReadClock`, rate_limiter.rs:33) before it locks the map
(`Check`, :36): checks may come to a bucket in another order than that of their clocks, up to `MaxLate` ticks late, and then
move `last_update` back. A tick is the unit of the window; `within` (what was allowed in this tick and the `d` before it, for
every `d` up to a minute), `late` (by how much the checks of the same ticks were late, added up) and `shutOut` are history.

**HubLogs.** `Take` and `SeeStop` are the branches of `select!`, both possible when both are ready. `Abort` is the five
seconds of `shutdown`.

## 3. Runs

| run | question | bounds, and why they suffice |
|---|---|---|
| `hub_and_node` | do overlapping streams keep status, sessions and table in step; binaries, certificates, installation | two streams, two messages in flight: all four writes of a registration and a clean-up interleave, and a third stream meets the same two kinds of neighbour; two requests, two stream ends; three requests of the administrator, two issuances, an age, an error; two builds |
| `agent_session_stale` (violated) | does a reconnected node stay reachable? | two streams |
| `config_push` | is what is recorded what was sent? | two streams, one core, two configurations, an administrator and the scheduler, two pushes, one edit of a configuration, Hub stops: two pushes crossing each other and a reconnect |
| `config_push_cores` | does the protocol implement `ConfigDelivery`, and does an orphaned core stop? | both cores, every kind of edit, refusals, lost marks and snapshots, one stream, two pushers that can undo each other's effect |
| `config_push_race` (violated) | does an edit stay marked until it was pushed? | one edit, one push |
| `client_accounting` | when can bytes be lost or billed twice, or a closed client reopen? | two nodes with reports of two entries, one pass, one edit, one error or restart of the Hub |
| `client_on_hold` (violated) | is a client on hold ever activated? | one node, an administrator who keeps pushing, a user who keeps trying |
| `traffic_to_access` | are counters reported exactly, limits enforced, revocations pushed; is the table served? | one node, one period, one error: an abort in each place of the pass; one place for connections, used again and again, with and without a user, two bytes, one failure of any kind anywhere; one Agent, three jobs, a channel of one: a sender that waits, a writer behind it, a reader behind that |
| `host_programs` | upgrades of the Hub, of its database, core processes | three releases, two requests, two commands in a shell, one fault anywhere: an upgrade of the unit with an installation and a rollback around it; two openers and four openings over three releases; three process numbers, two troubles: an orphan, its successor and a stranger |
| `hub_alone` | panel, catalogue, templates, keys, limits, log | any two edits of the panel from a state with one row of each kind on two nodes, over nine stored configurations and four presets; two activations, two savings, four requests; three edits of three templates by two editors; two edits of a key; limit 2 in a window of 3 ticks, so that a token takes more than one, two requests that are a tick late at most; five records through a channel of two |
| `panel_ports` (violated) | can two cores be given one port? | any two edits |
| `rate_limit` (violated) | is `limit` what a key gets per minute? | limit 3, 4 ticks, two keys, no check late |

The capped counters (`MaxEdits`, `MaxPushes`, `MaxBytes`, `MaxEntries`, `MaxErrors`, `MaxPeriods`, `MaxQueue`, `MaxInbox`,
`MaxBreaks`, `MaxIssues`, `MaxStreams`, `MaxAges`, `MaxShell`, `MaxFaults`, `MaxOpens`, `MaxTroubles`, `MaxCarried`,
`MaxReports`, `MaxFailures`, `MaxRoom`, `MaxRequests`, `MaxRows`, `MaxBuild`, `MaxTemplateEdits`, `MaxEditions`, `MaxRecords`,
`MaxLate`) occur in guards only and are constants; the proofs hold for every value of them. `MaxAge` and `MaxBuckets` are
constants of the code. Deadlock is not checked where the bounds let a behaviour run out of steps; liveness properties would
show a system that stops too early. Symmetry is used for sets of interchangeable model values, in runs that check safety only.
Type invariants (`SessionTypeOK`, `CertTypeOK` and so on) document the shape of a module's state; those of modules with proofs
are theorems.

### What the passing runs show

* **Session**: `OnlineIsBacked`, `SessionsHaveOwner` (invariants), `DepartedGoesOffline` and `FreshReconnectIsReachable`
  (liveness). Together: whatever overlaps, the three pieces of state are either in step or a task is about to put them in
  step, with one named leak (a lost database write).
* **Node requests**: `OwnAnswers`, `EveryRequestEnds`; `RowIsTrue` (what a certificate's row says is so on the node, and a
  pending row is on its way somewhere while the node is connected, with every exception named), `PendingIsSettled`,
  `PairMatches`; `KeepsBinary`, `BuildAsAsked`, which name the upgrade that did not put back what it had moved aside.
* **Push**: `RecordExact`, `SnapshotWasAccepted`, `ImplementsDelivery`, `OrphanCoreStops`.
* **Clients**: `AccountingExact` says precisely which interleavings lose or double bytes: only a write from a row written
  since it was read. `ClosedStaysClosed` says the same for reopening a disabled, expired or deleted client.
  `LimitIsEnforced` and `RevocationIsPushed` are the scheduler's promises, with `missed` naming the nodes it could not reach.
* **Reports**: `ReportsAreExact`, no byte is reported twice unless a core outlived its Agent, and none is forgotten but in
  four named ways; `EverythingIsReported`, except while sing-box is silent, when mihomo is not reported either.
  `TableIsServed`: one Agent that does not read delays everybody who needs the table, but only until it reads or its
  connection breaks.
* **Host programs**: `InstallationIsWhole`, `OutcomeIsTrue`: after any command the binary and the console are of one release,
  the copies a rollback would choose are a pair, the Hub that runs is the one installed, and the outcome in the status file is
  true, with every exception named (a killed command, a restore that failed, a copy that failed between the two, an
  installation, which copies the binary alone, a service that systemd was about to restart when the command looked, a
  `systemctl` that could not say whether it runs). `OneSubmission` and `RunningHasOwner` are the Hub's side: at most one
  accepted update is under way, and a record that says running has someone to end it unless its writer was lost, be it with a
  Hub, a command or the client of the request. `EachStepOnce`: no data upgrade is missed, and one is repeated only after an
  interruption, with two openers at once, or after an older release lowered the version. `OrphanIsNamed`, `StrangersSafe`: a
  core that outlived its Agent is the one the pid file names (exceptions named), and nothing but a core is ever killed.
* **Panel**: `LinkIsAccepted` and `HopIsAccepted` compare what a client or an entry node is told with what the inbound
  demands, `SameAccess` the two ways of finding who may use a binding, `FormatsAgree` the formats with each other, and
  `EditsAreMarked` what a handler goes to mark with the configurations before and after an edit. Their exceptions are the list
  of what the builders and formats read differently: a setting stored under both of its names (`Twice`), anything but a string
  to mihomo's builder (`ShapeLost`), no server name, a flow that is not the user's (`FlowLost`), transports other than tcp and
  ws, an obfuscation without a type or a password (`ObfsUnset`), a public key that is not of the private one (`KeysDiffer`),
  TLS settings with a name other than the certificate's (`Renamed`; a hop reads the binding's alone, `HopRenamed`), equal
  names in a mihomo listener (`NameTaken`); between the formats a name an inbound host gives, an obfuscation without the key
  of a password, a VLESS transport other than tcp and ws, and what the schema refuses to sing-box alone (`SchemaKnows`); and
  of what is not marked: the core that a moved configuration leaves, entry nodes that dial an edited configuration, nodes that
  share a group with a rule's exit.
* **Catalogue and templates**: `NoGap` says by what a format may lose its last enabled template: a deletion, an edit that
  posts the flag or another format, or a race for a stale row; an edit that enables a template never does, for it writes its
  row before it disables the others, and writes only what was posted. `CatalogueInForce` and `EnabledOnce` hold except where
  two requests overlapped, one failed half-way, or (catalogue) a row in force was deleted or refreshed, which marks nothing; a
  lone activation heals the catalogue.
* **Keys, limits, log**: `EditsAreSeen` has one exception, a search that an invalidation overtook, whose entry then lives for
  up to an hour; `BurstIsBounded` (less than twice the limit as long as checks take the lock in the order of their clocks; a
  check that comes late gives the time it was late by once more); `AcceptedIsSaved`.

### What the violated runs show

1. `ReconnectedStaysReachable`: the clean-up of an old stream, which works by node id, removes the entry of the new one
   and marks the node offline (agent_service.rs:114-117). docs/architecture.md:39 promises automatic synchronisation
   after a reconnect.
2. `EditIsPending`: `clear_pending` (push.rs:67) deletes a mark that was set after the push had read the database.
3. `OnHoldIsActivated`: a client on hold is in no configuration (config_gen.rs:185), so the connection that would
   activate it (agent_service.rs:569) cannot happen.
4. `PortsAreDisjoint`: `validate_node_port_conflicts` (push.rs:228-229) keeps a set of cores for each port and refuses only
   the same core twice; two cores on one port pass.
5. `NotShutOut`: the tokens that come back are truncated while `last_update` moves on (rate_limiter.rs:51), so that whoever
   keeps asking more often than a token comes back is never let through again, against rate_limiter.rs:26-27.

Seen while modelling and visible in the models, without a run of their own: the Agent skips a push by comparing with the
snapshot on disk (client.rs:376), which outlives the process, so that a core that crashed or was stopped is left down by a
push of the same version (`AgentHandle`); scheduler pushes never reach mihomo, because
`push_config_for_core` requires `inbounds` and mihomo configurations have `listeners` (guard of `SchedulerBuild`);
editing, deleting or resetting a client pushes and marks nothing (`EditStatus`, `DeleteClient`, `ResetTraffic`); a reset
by hand leaves a limited client limited; binding edits mark nothing (`EditBinding`); a config moved to the other core
marks only the new one (`MoveConfig`); an answer to a deletion lists the deleted file (`AgentAnswers`);
pp-db/src/upgrade.rs:5-6 says that each step runs exactly once, which `EachStepOnce` needs three exceptions for; the first
half of a restart removes the pid file by which the second would have found a former Agent's core (`StopCore`, the
exception `dropped` of `OrphanIsNamed`), which matters where the system does not bind the core and no snapshot has
started it again before; a service that systemd is about to restart after a crash counts as inactive and is not
restarted by an upgrade (`Stop`, the mark `asleep`).

### Fairness

* Hub tasks (`HubTask`, `Record`, `ClearPending`, `HandlerStep`, the Hub's part of `WorkFairness`): weak. They are tokio tasks
  or request handlers that are polled again as long as they can go on.
* `Send`: strong, because the channel is bounded and repeatedly full; tokio serves waiting senders in order.
* `ReconcileBuild`: strong. The pass runs every 300 s for ever and visits both cores, but its guard can be false at some
  passes.
* `PassStep`: weak; a pass that was aborted is followed by another.
* The Agent's message loop and its tasks: weak. `Register`, `Reconnect`: weak, the Agent dials until it succeeds.
* The reporter (`Collect`): weak, its interval ticks for ever. Only its call to mihomo has a timeout; a call to sing-box ends
  when sing-box answers or the connection breaks, so nothing is assumed to end while sing-box is silent, and
  `EverythingIsReported` excepts that. `ReceiveReports`: weak, the
  Hub's task reads its stream.
* `AgentTakes \/ LinkEnds`: weak. An Agent reads its stream again some time, or its connection breaks: without that, the
  table would not be served.
* Nothing is assumed of the network, of crashes, of the administrator or of users, except in `client_on_hold`, where
  the administrator and the user are assumed to try for ever: that makes the counterexample stronger.

## 4. Proofs

All theorems are for arbitrary constants, under named assumptions about them (`SessionAssumption`, `PushAssumption`,
`ClientAssumption`, `ReporterAssumption`, `BinaryAssumption`, `CertAssumption`, `BuildAssumption`, `ReleaseAssumption`,
`VersionAssumption`, `CoreProcessAssumption`, `CoreVersionsAssumption`, `TemplatesAssumption`, `KeyAssumption`,
`RateAssumption`, `PanelAssumption`), which say that bounds are numbers, sets are finite where the code keeps them in memory,
and special values are distinct. TLC evaluates them in the runs. A safety property is proved by an inductive strengthening,
which TLC agreed to on a small instance first; below is what it says and why the property alone does not suffice.

**ConfigPushProofs.** Of the sessions alone: `SessionTypeCorrect`, `OnlineAlwaysBacked`, `SessionsAlwaysOwned`,
`EntryAlwaysHasReader`. Needed beside the properties: a stream is unused exactly when it has no task (`UnusedHasNoTask`), and
`Register` is the first message and is sent once (`RegisterOnce`), so that a task registers once and its entry cannot be there
already when it starts. Of `ConfigPush`: `PushImplementsSession`: every step is a step of `AgentSession` or a stutter, so the
theorems above hold while configurations are pushed. `PushTypeCorrect`, `RecordedAlwaysOffered`, `SnapshotAlwaysAccepted`,
`PushImplementsDelivery`, `PushRunsWhatWasOffered` rest on `Origin`: messages in flight and pushes past their send carry
offered configurations, running cores run accepted ones, and nothing runs while the Agent is down (without which `Recover`
would not be a step of the abstract specification). `RecordAlwaysExact` needs `RecordInv`: there is one stream whose reports
still count (`OneStream`); the last report on it, if any is on the way, and else the recorded version, is of the snapshot
(`ReportIsCurrent`); a push past its send has sent on the stream of the entry or that stream is over (`SentOnAnEntry`), and
what it sent last is what the Agent has or will have (`SentIsCurrent`). It also needs the session's theorems: a report comes
from the task that owns the entry.

**ClientAccessProofs.** `ClientTypeCorrect`, `AccountingIsExact`, `ClientsAreNeverOvercharged`: overtaken actors still hold
their read (`OvertakenHold`), an actor nobody overtook sees the counters as they are (`FreshReads`), one no reset overtook
read no more than is left to bill (`BoundedReads`). `ClosedClientsStayClosed`, an action property: a writer about to open the
client read a client that was open, or is one of the named (`OpenAsRead`). `ReportsAlwaysExact` is about `TrafficReporter`.
`ReporterInv` follows a byte from the core's counter to the Hub: of every core, user and connection it says that what was
received, what is in the channel, what is in the report being collected and what the next sample will add is together no more
than was carried, and is all of it unless a named cause spoiled it. The proof is by stages of the sample (between the two
calls of sing-box's API the total is newer than the baseline that will replace it: `StatusInv`), and by connections, whose
counters the baseline must not exceed unless a core has restarted (`FlowsInv`). A sum over connections is stated as the number
of its units, pairs of a connection and one of its bytes, so that what a step does to a sum follows from what it does to one
connection, without induction.

**NodeRequestsProofs.** `FallbackIsKept`, `BinaryIsKept`, `PushGetsItsBuild` from `InstallInv`: where the push is, what became
of the binary it found and whether it is aside, where the whole copy is, what the marker says of it. `OwnAnswersAlways` from
`BinaryInv`: until something is lost there is one request at a time past its send (`OneAtATime`), and its question or its
answer is in exactly one of the two channels (`ChannelsInv`). `RowAlwaysTrue` and `PairAlwaysMatches` from `CertInv`: ids that
travel are of issuances that exist and the row's is the newest (`IdsInv`); whoever is about to report success has written the
three files (`FilesInv`); a task between its two writes knows the certificate it wrote (`PairInv`); a pending row is in a
queue, with a task or in a report (`PendingIsServed`).

**HubTablesProofs.** `EditsAreSeenAlways` from `KeyInv`: an active row is of the last edition; an entry or a search that is
not late is not older than the settled edition, because an invalidation removes the one and marks the other; no request
expects more than is settled. `CatalogueAlwaysInForce` from `CatInv`: what each request holds is of a row of its kind
(`KindInv`), an activation that nobody crossed is alone (`LoneInv`) and leaves no other row active behind its clearing
(`ClearedInv`); between activations the nodes run what is in force or are marked (`PushedOrMarked`). `TemplatesEnabledOnce`
and the action property `TemplatesNoGap`: an editor still to disable the others knows of them or is one of the named races
(`OthersInv`), and two enabled templates of a format always have an editor between them who will disable one (`TwoInv`,
`Heeds`). `AcceptedAlwaysSaved`: an accepted record is in the channel, in the batch, saved, or in a batch whose insert failed
(`AcceptedIsSomewhere`), in rising order throughout (`InOrder`). `BurstAlwaysBounded`: for every stretch of ticks that ends
now, tokens left and requests allowed in it fit into what the bucket can have given, in the stretch and in the time by which
its checks were late (`Fits`); the truncation of the refill is what makes the bound one of whole tokens. The clean-up of old
buckets is harmless because it removes only those that would be full.

**HostProgramsProofs.** `NothingIsMissed`, from `DbUpInvariant`: not only the recorded version but also the one each opener has come
to, which it may record next, has all its steps behind it; what is due next is the least of what is due. `EachStepRunsOnce`: while
no exception has happened there is at most one opener at work, it started from the recorded version, and what has run is
recorded or about to be recorded by it. `OrphanIsAlwaysNamed` and `StrangersAlwaysSafe` from `CoreInv`: what the manager holds is a
core it started and not a stranger with a number used again (`HeldInv`), and a core that lives is the one just started, the one in
the pid file, or one of two named kinds (`NamedInv`).

**UpgradeProofs** (its base facts are in **UpgradeSteps**). `RunningAlwaysOwned`, `OneSubmissionAlways`,
`InstallationAlwaysWhole`, `OutcomeAlwaysTrue`, for any releases, requests, commands and any number of faults, from
`UpInvAlways`. The base (`UpBase`) is that the steps a command still has to take are the rest of its script, or of the
recovery (`JobOK`, `Follows`), from which each part knows what is behind and what is ahead of the current step. On it rest:
`SubInv`, who between flag, file and unit holds the one accepted update (`Targeted`, `Alone`, `Routed`); `UpgradeInv`, what an
upgrade and its recovery have done to the files so far (`Forward`, `Backward`); `WholeInv` and `HubInv`, that binary and
console are a pair, and the Hub that runs is the one installed, except between named steps; `CleanInv`, that the backup copies
are a ladder of pairs by release (`Ladder`, `Below`, `Grown`), so that the newest of each are of one release.

**PanelProofs.** `PanelTypeCorrect`: every row a handler writes, presets and provisioned relay clients included, has the shape
of its table. `EditsAlwaysMarked`, an action property, is proved handler by handler. What `GenerateNodeConfig(n, c)` reads is
taken apart first: it is the same after an edit when the node's active bindings are the same, with the same configuration,
certificate, clients and host for each (`BindingsKept`, `ConfigKept`, `ClientsKept`), and the same rules of the node with the
same exits (`RulesKept`), at the same version. Then, for each handler, those parts are shown kept for every node it does not
go to mark (`EditSeeks`: what is marked and what is lost are together what it sought). For the rules this needs to know whose
clients a new or deleted relay client joins: only bindings that share a group with the exit (`GroupsTell`), which is the
exemption `Unlisted`. `AccessIsTheSame` and `FormatsAlwaysAgree` hold in every state whose rows have their shapes; the one
compares the two walks binding by binding, the other the builders of links protocol by protocol: they differ only in the name
they write, and the names are one after the default each client program takes (`NamesAgree`).

`LinksAlwaysAccepted` and `HopsAlwaysAccepted` hold for all settings that can be stored, not only those in `MCStored`. Between
a link and an inbound stands what both have to be, computed from the stored row alone: `Fits(b, a, l)` of a link, `Ready(b, a,
i)` of an inbound, and a link that fits is accepted by an inbound that is ready (`ReadyAccepts`). That links fit (`LinkFits`)
goes protocol by protocol: injected credentials change nothing else that is read (`InjectedAlike`), and a certificate's domain
is the name that is shown (`NameIsShown`). That an inbound is ready (`InboundReady`) goes builder by builder: the client is
among the users (`UuidUsers`, `PasswordUsers`), the link's name and short id among those of REALITY (`SbRealityOpens`,
`MhRealityOpens`). A hop fits like a link (`HopFits`); that no mihomo listener drops its user needs an invariant beside the
types, that the client of a rule has its own id for a name (`NamesAreTheirs`). `PanelAssumption` says of the stored settings
that a value is not null, that what is not empty has a first item, that TLS settings hold strings and `cert_id` the id of a
certificate, and that no id or domain is empty.

Several properties were changed by the attempt to prove them. `LinkIsAccepted` and `HopIsAccepted` held in the run for the
settings stored there; for others they needed the exceptions `Twice`, `KeysDiffer`, `Renamed` and `HopRenamed`, and wider
`ShapeLost`, `FlowLost` and `ObfsUnset`, and two readings in `CoreConfig` were made exact: an empty obfuscation type is none
to a hop alone (`HopObfs`), and a number has no items (`ItemOf`). `FormatsAgree` held in the run as long as the schema of sing-box knew all
that was stored there; what it refuses is `SchemaKnows` now, and an unknown fingerprint and an unknown obfuscation are among
the settings of the run. `EditsAreMarked` excused any rule edit whose rule is gone; it excuses only nodes that share a group
with the exit now.

One property was found too strong by the attempt to prove it: `HubRunsInstalled` held for one fault, the bound of the run, but with
two faults a recovery that was killed, or whose restart failed, leaves the former Hub running beside another binary; that is the
mark `abandoned` now.

Only model-checked: every liveness property, because fairness and ENABLED are outside what the prover handles
(`DepartedGoesOffline`, `FreshReconnectIsReachable`, `EveryRequestEnds`, `PendingIsSettled`, `OrphanCoreStops`,
`LimitIsEnforced`, `RevocationIsPushed`, `EverythingIsReported`, `TableIsServed`). Every safety property of the runs that pass
is also a theorem.

## 5. Not modelled, and why

Everything in `PROJECT.json` under components with status `not_modelled`: read-only views, webhooks that nobody waits for, the
wiring of the Hub's start, types, the browser's interface, and the Agent's log channel, which drops what does not fit and has
no promise to keep. Of the components that are modelled in part, the notes there say what is left out. What the models leave
out throughout: the text of configurations, names of files, formats of archives and of templates, which are values that can be
compared; real time, which is "may happen now" (timers fire at any time) everywhere but in `RateLimiter`; several databases
(it is one consistent store whose single statements are atomic and may fail). Clients do not interact and nodes have
independent records, so one of each is modelled wherever that is true. The subscription route's reads are taken together, and
a template that is asked for by name is not modelled. A handler of the Hub that is dropped with its client's connection is
modelled in `Upgrade` alone: not between the insert of a certificate's row and its dispatch, nor between a push and its
record; the version that an administrator may name in a push (nodes.rs:378, 512) is not modelled either.
`validate_singbox_config` (config_gen.rs:107-110) can only refuse a configuration, and is left out. `PortsValid` compares
ports, not addresses to listen on. The identity check of a leftover core and its kill (lifecycle.rs:105-110) are one step. The
legacy HTTP API of sing-box, which the reporter tries when gRPC fails, is not answered by a core the Hub configures. mihomo's
`/traffic` is cumulative, as reporter.rs:382 says it is.

## 6. Plan

In order of what a fault would cost; all of the first plan is done: `AgentSession`, `ConfigPush`, `ConfigDelivery`,
`ClientAccess` and their proofs; `BinaryRequests`, `Certificates`, `CoreInstall`; `Upgrade`, `DbUpgrade`, `CoreProcess`;
`TrafficReporter`, `HubLogs`; `Panel` with the builders and the formats; `CoreVersions`, `Templates`; `ApiKeys`, `RateLimiter`;
`AgentTable`.

Left: the Agent's log channel with its inserts; the login handler and the scopes; installation of the Agent and its own
upgrade by the CLI.

Theorems worth adding: a refinement of an abstract upgrade by `Upgrade`.
