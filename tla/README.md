# HomeLabHQ in TLA+

HomeLabHQ is a self-hosted dashboard and controller for a home network: a Python
backend (`src/backend`) polls devices, runs maintenance on Proxmox nodes and
their guests through an Ansible controller, switches VPN endpoints and admits
clients on an OPNsense firewall, and keeps everything in one JSON document; a web
client (`src/web`) shows it.  One process runs many threads (HTTP requests,
daemon workers, schedulers), any of which may be cut short by a crash, and talks
to machines that fail, time out or do what they were asked and never answer.
This project specifies the parts of the backend where that is hard, checks them
with TLC on small instances, and proves the safety properties of its twelve state
machines with TLAPS for every size.

Paths below are relative to `src/`; `PROJECT.json` maps every definition to the
lines it stands for.

## 1. Inventory

| Component | State | Operations | What is hard, and what makes it correct |
|---|---|---|---|
| Compute maintenance jobs (`backend/compute_maintenance.py`) | `computeJobs`, the maintenance states on `computeInstances`, one thread per sequence | start a job or a refresh sequence, run, collect, conclude, prune, recover at start | job record and instance state are two transactions; records are deleted under running threads; one job at a time and sequences in order; nothing active without a thread; what is shown is what the output said |
| Ansible controller and mapping (`backend/ansible_integration.py`) | controller settings, inventory, discovered and approved playbooks, mapping | save, test, refresh, discover, approve, revoke, map | requests read, wait for SSH and write later; a command is built only of what is approved when its job begins |
| Compute inventory (`backend/compute.py`) | `computeInstances` | discover, reconcile projects, offer, summarise | offer and acceptance are decided in two places |
| Proxmox updates and reboots (`backend/device_updates.py`) | `_JOBS` in memory, a snapshot per Device in the store | start, start_reboot, run per node, status, reboot decision | memory and snapshot disagree after a crash; two looks at the slot; one operation per Device; reported success is real; no snapshot says "running" for ever |
| Update-check lease (`backend/devices.py`) | `meta.deviceUpdateCheckLocks` | acquire, release, expire | the holder dies |
| Morning update runs (`backend/morning_updates.py`) | `morningUpdateRuns`, `meta.morningUpdateLock`, settings | schedule, start, two phases, notify, complete, fail, release | the lease runs out under a live worker; pruning forgets occurrences; an occurrence runs again only when its record is pruned; every due occurrence is run |
| VPN endpoints (`backend/vpn_endpoint_service.py`) | `vpnEndpointProfiles` with candidates, history and alert state | discover, configure, validate, switch, remove, poll, alert | eight remote writes with lost replies and a rollback; results saved after the profile is gone; saved, generated and active configuration agree |
| Document store (`backend/store.py`) | `homelabhq.json`, its backup, an in-process cache | load, save, update, migrate, integrity check | crash between temporary file, backup and replace; stale cache; a transaction is atomic and durable |
| Metric history (`backend/history.py`) | one file per Device | update, delete, migrate from the store | a crash in the migration; deletion races with an append |
| Monitoring scheduler (`backend/monitoring_scheduler.py`) | jobs with locks and due times, workers | dispatch, execute, stop | a worker past its lock is still there when stop waits |
| Poller and alerts (`backend/poller.py`) | device states, alert states | read, commit, append, tell | a poll commits, then appends and tells; Devices are edited and deleted in between; an outage is debounced and reported |
| Clients and access control (`backend/client_*.py`, `nac*.py`) | roster; allow-list and deny rule on the firewall | full scan, partial scan, announce, approve, enforce | scans of seconds recorded over newer requests; a source that fails is no evidence |
| Push notifications (`backend/push.py`) | VAPID pair, subscriptions, notifications | publish keys, subscribe, notify, read, dismiss | a pair is two files; limits drop what nobody read |
| Authentication (`backend/auth.py`) | users, sessions | set up, log in, expire, revoke, delete | requests outlive the account they were accepted for; an administrator remains |
| Status summary (`backend/asgi/status_service.py`) | none | pure functions over what the others left | what is old or unknown must not look well |
| Devices (`backend/devices.py`) | `devices` | create, edit, order, delete | deletion cascades under running threads |
| HTTP application, service facade, drivers, transports, secrets, dashboards, log buffer | little | routing, parsing, I/O | no protocol of their own |
| Web client (`web/js`) | requests in flight | fetch, render | answers out of order, which a token per view drops |

Interaction: every component reads and writes the document through
`store.update`, a transaction under one lock that either commits as a whole or
raises; `Store` shows that it does, and the other modules use it as an atomic
step that may fail.  Requests start daemon threads and return; nothing joins
them.  The morning run drives the same update checks, under the same lease, as
requests do.  Deleting a Device removes Compute instances and jobs under their
threads, and its history under a poll.  What polls, checks and discoveries leave
in the document is what the status summary reads.  At start,
`recover_interrupted_jobs` and the migration of history run before requests are
served; the other components recover lazily (a lease that expires, a status read
that converts a snapshot).

The places where this goes wrong in ways a test would hardly reach are listed in
`PROJECT.json` under `hazards`, with the properties that would catch them.

## 2. Modules

| Module | Models | Run | Proofs |
|---|---|---|---|
| `ComputeJobs` | job engine, re-mapping, Device deletion, restart recovery | `jobs` | `ComputeJobs_proofs` |
| `Playbooks` | controller settings, approvals, offers, the launch of a job | `playbooks` | `DeviceUpdates_proofs` |
| `Results` | from playbook output to the states of a workload and its projects | `results` | `ComputeJobs_proofs` |
| `DeviceUpdates` | update and reboot operations of one Device, snapshots, status, check lease | `updates` | `DeviceUpdates_proofs` |
| `MorningUpdates` | scheduler, manual runs, lease, phases | `morning` | `MorningUpdates_proofs` |
| `VpnSwitch` | endpoint switch with rollback | `vpn` | `VpnSwitch_proofs` |
| `VpnProfiles` | profiles, discovery, history, background pass and alerts around it | `vpn_profiles` | `VpnSwitch_proofs` |
| `Monitoring` | scheduler, poll, alerts, history files, Device edits | `monitoring` | `Monitoring_proofs` |
| `Clients` | scans, roster, announcements, access control | `clients` | `Clients_proofs` |
| `Status` | status summary, reboot decision, container contract | `status` | `Status_proofs` |
| `Accounts` | users, sessions, subscriptions, notifications, key pair | `accounts` | `Monitoring_proofs` |
| `Document` | what a store transaction promises (abstract) | through `store` | through `Store_proofs` |
| `Store` | flock, cache and write protocol of the JSON document | `store` | `Store_proofs` |
| `Optional` | the absent value `None` | | |

A run uses the module `MC<Module>`, which gives the constants their values, and
`<Module>.cfg`.  Four of the proof modules are about two components that have
nothing to do with each other: they extend both, which share no name but `None` of
`Optional`.  That is why `Playbooks`, `Results`, `VpnProfiles` and `Accounts` call
their specification `PlaybooksSpec`, `ResultsSpec` and so on, and their inductive
invariant after what it is about.

Conventions.  `pc` (or `stage`) holds the place of a thread; a label is the code
between two points where another thread can be seen (a store transaction, a
remote call, a lock).  A store transaction is one step.  A remote call is a step
that succeeds, fails, or takes effect and loses its answer, where the code can
tell no better.  "EXTERNAL" marks the network, the file system and the machines.
Variables commented "for the properties" record what befell a request and are
read by properties only.  Operators commented "Defect:" are plausible mistakes in
the definition that follows; none is part of `Next`.  They show that a property
would notice: with the definition replaced by its defect TLC reports the property
violated (the pairs are listed in `PROJECT.json`).

### ComputeJobs

`jobState` is `computeJobs[j].state`; `view` is the maintenance state of an
instance per state key (`updateState`, `dockerDiscoveryState`,
`dockerUpdateState`, `applianceHealthState`) with its `lastJobId`; `req` is the
job dictionary `_new_job` builds; `outcome` and `existing` are locals of
`_run_job`; `playbook` is the set of remote `ansible-playbook` processes, which
survive timeouts and crashes.  `NewJob` is the part of a request before the
transaction, `StartJobs`/`RefuseJobs` the transaction, and the actions from
`BeginJob` to `ExceptState` follow `_run_job` transaction by transaction.  A
failed transaction inside the `try` goes to `except_job`; outside it, or in the
handler, the thread ends (`ThreadDies`).  Display labels are the job outcome
they are derived from.  Pruning removes any terminal records (the code removes
the oldest), which is weaker, and no property depends on the age.

### Playbooks

`ctl` is the controller record; a pending request is what it will write, read from
the record before it talked to the controller.  `JobContext` and `UpdateContext`
are what `start_job` accepts, `DockerModes` and `CheckEligible` what
`public_instance` offers, from approvals, restrictions, groups and the fall-back
to the separate update approvals.  `BuildCommand` is the second look of `_run_job`,
at the record; `Launch` runs the command it built once the controller answers,
seconds later and without another look.  `granted` is what an administrator
approved last; `muddled` says that a save or an approval was written over a change
it had not read.

### Results

The jobs of one workload, one after the other, with outputs that hold results in
one or two of the places `parse_structured_result_details` looks at.  `Printed`
enumerates what each contract tells apart; `Missing`, `ProjectResult`, `Aggregate`
and `Reconciled` are the functions of the same purpose in the code. A discovery
reconciles with the inventory read when it began, which a refresh may have
replaced; `EndDiscovery` makes one step of its read of the workload and its two
writes, which `ComputeJobs` keeps apart.  `said` keeps the verdicts in the output
of the last check, for the property.

### DeviceUpdates

One Device.  `slot`, `state`, `nodes`, `todo`, `current`, `stage` are the
`_JOBS` entry; `persisted` is the snapshot in the store; `saving` says that
`_JOBS` has changed and `_persist_operation` is still to come (it runs outside
`_LOCK`, and its failure is only logged).  `updates` and `kernel` are the nodes
themselves.  `check`/`lock` are `check()` and `update_check_lock`.  `reader` is a
`status()` call, whose look at `_JOBS`, read of the store and conversion are
three steps.  The stage `downloading` is merged with `preparing`.  `last` and
`lagging` are history: the operation that claimed the slot last, and those whose
snapshot was still to be written at that moment.

### MorningUpdates

`rec` and `kept` are the run records and which of them are on file; `at` of a
record is `completedAt or startedAt` and `stamps` the clock it is taken from, so
that pruning removes the oldest of those that are over; `lock` is the leased
lock; `due` the scheduler's local variable between reading settings and the
transaction.  Time is a local date and a slot of that date.  The work of a phase
is what `aggregate()` tells apart: successful and unsuccessful checks.

### VpnSwitch and VpnProfiles

In `VpnSwitch` the firewall keeps three configurations: saved (`peer`,
`gateway`), `generated` by reconfigure, and `active` after restart.  Each request
follows `switch()` call by call; `changed` is `configuration_changed`, set after
the first write returns.  `mark` records what befell a request (overlapped, lost
the reply of its first write, not audited, killed).

`VpnProfiles` is the rest of the service.  `configure`, validation, discovery and
status read the document, may call the provider or the firewall, and write in a
later transaction; `req` keeps what they read.  `pass` is `poll_enabled`, profile
by profile: discovery when the last one is `Interval` passes old, tunnel health,
utilization, alerts.  `cands` is the history all profiles of the Device share, by
profile and server, and `newer` the order of its `lastSeen`, by which `Record` cuts
it to `MAX_HISTORY`: what is seen in one transaction has one time, and which of
those is cut is left open.

### Monitoring

`phase` and `batch` are the worker of a job and its Devices: read in parallel,
committed in one transaction, then appended to history and told one by one, each
of which may fail alone.  `life` and `loop` are the start, graceful stop and end
of the process, where a worker that has released its job's lock is still there.
`legacy` follows `migrate_from_store`.

### Clients

A full scan reads every source and the allow-list, then records
(`record_observations`); the partial scan reads the firewall, looks whether the
roster is empty, records, and announces in a second transaction.  Access-control
requests read the alias and write it whole, switch the deny rule, or set both up,
and save in the document afterwards.  A write may be made and its reply lost
(`unsure` says that the allow-list may not be the one recorded last).  The
firewall's driver turns some failed requests into empty answers (`deaf`).  The age
of a record is recent, beyond `CLIENT_OFFLINE_AFTER`, or beyond retention.

### Status

What the poller (`Applied`), the Proxmox check and Docker discovery leave in the
document, with its age, and the pure functions over it: `DeviceStatus`,
`TrueNASStatus`, `NodeStatus`, `ContainerStatus`, `RebootStatus`.  The properties
compare them with what was really seen and when (`heard`, `found`, and for a
reboot the machine itself), which is the reference definition.  A node is taken to
boot the kernel that is pinned, or else the newest that is installed; `probes` says
which of the six probes answered: all of them, enough to know the marker and the pin,
or fewer.

### Accounts

A request is authenticated (`Authenticate`) and executes its transaction later;
`reqs` holds the ones in between.  Sessions, subscriptions and notes are sets
of records with ids in the order of creation, which stand for the lists of the
document and let a limit drop the oldest.  `notify` writes notes, then pushes, then
removes the endpoints the push service reports as gone.  `vapid` is the two key
files; `by` is the request that publishes them under the lock.

### Store and Document

Threads of several processes share a data directory.  `local`, `exclusive` and
`shared` are `_local` and the flock; `main`, `mtime`, `bak` the files; `cache`
the module's `_cache` per process.  A call goes `local`, `flock`, `read`, `tmp`,
`backup`, `replace`, `dirsync`, `finish`; `load` takes the shared flock instead,
or none when the cache is good.  A document is the set of updates it contains
and one bit for its schema, so that migration, which alone makes a write without
a change, is there.  Every file operation may fail (`Raise` releases what the
`with` statements release), a process may end between any two steps (`Crash`),
and so may the machine (`PowerLoss`).

The file system is external.  A rename is seen at once; after a power failure
the directory is one of `survivors`: the state at the last directory sync with
the renames since, in their order, up to some point.  The mtime of a file is the
tick it was written in, and two writes may share one (`coarse`).

`Document` says what the other modules rely on: a transaction takes effect at
one instant between its call and its return, or not at all; one that returned
survives everything.  An exception promises nothing: when the directory sync
fails, `update` raises with the new document in place.  The refinement mapping
takes the document to the updates it contains.

## 3. What the runs show

| Run | Bounds | Shows |
|---|---|---|
| `jobs` | 1 instance, 2 jobs in one sequence or two requests, `MAX_JOBS` 1, 1 crash, 1 failed transaction, 1 re-mapping | `OneJobAtATime`, `SequenceOrder`, `NoStrandedJob`; displayed results have a record (`ViewBackedByRecord`), finished and deleted records stay so (`NoRevival`), every accepted job concludes (`JobsConclude`) |
| `playbooks` | 3 requests, 2 at a time, 3 operations, 2 directories, 3 inventories | a job's command is built only of what is approved, enabled and permitted at that time (`CommandFollowsApproval`); what `start_job` accepts is offered (`AcceptedIsOffered`) |
| `results` | 2 projects, 3 jobs, 1 refresh, outputs with up to two results | what is shown was said (`VerdictIsKept`) |
| `updates` | 2 nodes, 2 operations, 1 crash or failed write | exclusive slot (`OneOperation`), real success (`CompletedMeansInstalled`), the snapshot agrees with memory and only one that was outstanding replaces that of the last operation (`DurableResult`), no snapshot stuck at "running" (`NoStuckSnapshot`) |
| `morning` | 4 runs, 2 records kept, 1 day of 2 slots, 1 change of settings, 1 fault, 1 overrun lease | an occurrence runs again only after as many other runs as records are kept (`OncePerOccurrence`), no orphaned record (`RunningHasOwner`), `CompletedMeansChecked`, every due occurrence is run (`OccurrenceRuns`) |
| `vpn` | 2 switches, 2 candidates, 3 faults, `MAX_HISTORY` 3 | `SuccessMeansActive`, `RollbackRestores`, `Settled` |
| `vpn_profiles` | 2 profiles, 2 requests at a time, a history of 1, 1 change of the tunnel | a removed profile stays forgotten but for what was in flight (`RemovedIsForgotten`), validations survive (`ValidationKept`), a tunnel that stays down is reported (`OutageIsAlerted`) |
| `monitoring` | 1 Device, 2 jobs, `OFFLINE_AFTER` 2, 2 changes, 1 edit or deletion, 1 fault | document, history and notifications agree (`SourcesAgree`), `OfflineIsDebounced`, an outage is reported (`OutageIsReported`) |
| `clients` | 1 client, 1 access point and the firewall, 1 full and 1 partial scan, 2 requests at a time, 1 move, 2 events | `DepartureIsReal`, `AnnouncedOnce`, `ApprovalIsShown` |
| `status` | one Device of each kind, 2 nodes, 1 container; unbounded in time | `HealthyIsEarned`, `TroubleIsShown`, `RebootFollowsKernel` |
| `accounts` | 2 accounts or none at first, 4 requests, 2 at a time, 2 endpoints, limits of 1 and 2, 1 crash | `AdminRemains`, `SubscriptionsWork`, `UnreadIsKept` |
| `store` | 2 processes, 3 callers (2 in one process), 2 faults | `Implements` (refinement of `Document`), `Durable`, `BackupIsPrevious`, `LoadIsFresh` (a `load` sees every update that had returned, short of two processes writing in one tick), `NoDeadlock` |

Why the bounds are enough to meet the interesting cases.  Two jobs (or
operations, requests, switches) are what a race needs.  With `MAX_JOBS` 1 the
second job of a sequence prunes, and a record can vanish under a thread.  One
crash can fall between any two steps, and so can one failed transaction; in `jobs`
they also meet in both orders.  Two records kept and four runs force the pruning
of a record a worker still uses, and of the one that remembers an occurrence that
then runs again.  Three faults let a switch fail, its rollback
fail, and the audit fail.  In `results` the first job discovers, the second
checks and the third checks the other project or discovers again, before or after
the refresh.  In `vpn_profiles` a history of one entry makes two profiles compete
for it.  In `clients` two events let two requests overlap, or one meet a failing
source.  In `accounts` four requests make two administrators delete each other,
or fill the limit of notes and read one.  In `store` two callers of one process
share a cache and a lock and are interchangeable (symmetry), the third meets them
through the file alone, and the second fault can hit the start after the first.
Symmetry elsewhere (requests of `clients`, endpoints of `accounts`, projects of
`results`) is of values nothing tells apart, in runs without liveness.  For the
properties that are proved, the bounds do not matter.

`TypeOK` of each module holds under the same bounds; it stands in the modules as
a description of the state and in the proofs, not among the runs' properties.

Fairness.  Weak fairness of a thread's steps: every remote call and SSH read has
a timeout and a thread that can run is scheduled.  Weak fairness of restart: the
container is restarted (`docker-compose.yml`, `restart: unless-stopped`).
`MorningUpdates`: the scheduler thread looks every 30 s and leases run out.
`Monitoring` and `VpnProfiles`: an interval comes round again and again.
`DeviceUpdates`: the browser keeps polling the status, which is what converts a
snapshot left by a crash.  No fairness on requests, faults, settings or
deletions.

Deadlock checking is off where bounded requests can be used up, after which the
system rightly stands still; it is on in `status`, whose time never ends.

### Disagreements between code and documentation

`PROJECT.json` quotes the lines of both sides.  Each names a property of the
module that says what the documentation says; put into the module's `.cfg` in the
place of the run's properties, TLC finds a behaviour that refutes it.  (For
`BusyIsTemporary` that behaviour is a crash: `recover_interrupted_jobs` does not
clear the label on the instance.  The case below needs `docker_check` among the
operations, three jobs and no crash.)

* `ResultsBelongToTarget`: a job in flight while its instance is mapped to another
  inventory host writes the old host's result after `set_mapping` cleared it.
* `BusyIsTemporary`: a Docker discovery whose record is already terminal writes
  back project states it read during a later check, so the project stays
  "checking" with nothing running.
* `OnlyApprovedRuns`: `save_controller` writes a whole record it read earlier; a
  revoked approval is back, and approvals of one directory hold for another.
* `LaunchedIsStillApproved`: what is revoked or disabled while a job connects to the
  controller is launched all the same.
* `OfferedIsAccepted`: a generic update approval that is not for this host stands
  in the way of the separate approval on which the mode is offered.
* `NeverCheckedIsNotCurrent`: a project the inventory begins to list as pulled
  keeps its old state, and the host is up to date without a check of it.
* `InterruptedMeansStopped`: a status read between insertion and snapshot of a new
  operation declares it interrupted by a restart.
* `RestartShowsLast`: the last snapshot of an operation, written outside the lock, may
  replace that of the operation after it; a restart then reports the earlier one.
* `OccurrenceRunsOnce`: once enough manual runs push its record out, a scheduled run is
  started again on the same day.
* `OncePerLocalDate`: moving the run time to later on a day whose run has happened
  makes a second scheduled run on that local date.
* `UnchangedMeansUnchanged`: the first write of a switch takes effect and its reply
  is lost; the user is told the configuration was left unchanged.
* `OnePeerPerProfile`: overlapping `configure` requests bind one peer to two
  profiles.
* `RemovedStaysForgotten`: a discovery or poll that read a profile before its removal
  saves history of it afterwards.
* `OwnerIsAlerted`: polls between two discoveries clear the count of the ownership
  conditions, so that alert is never sent.
* `HistoryIsMigrated`: a crash or failed write in the migration of history loses
  it.
* `RecoveryFollowsBreach`: the first ordinary value of a new rule is pushed as a
  recovery.
* `FailureIsNoEvidence`: the firewall's driver answers a failed request with an
  empty list, and its clients are recorded as gone.
* `IgnoredUntilReturn`: a scan that failed to see an ignored client counts as its
  leaving.
* `EnforcementStartsOff`: set-up on a firewall whose deny rule is enabled leaves it
  so and saves enforcement as off.
* `RecoveryIsShown`: a Device whose driver was changed from an ICMP one stays stale.
* `RebootIsNotDenied`: a failed probe can make "not required" of a reboot that is
  due.
* `NodesAreFresh`: the reboot check of one node renews the age of all.
* `RetainedIsUnknown`: containers of a failed discovery count as healthy again as
  soon as the next one begins.
* `DeletedOwnsNothing`: a request that overlaps the deletion of its account leaves a
  subscription or a device of nobody.
* `PairIsWhole`: a crash between the two key files leaves push notifications broken.

## 4. What is proved

For every value of the constants allowed by the assumptions of the module: on its
parameters (`ConstantsAssumption`, `ResultsAssumption`, ...), and that the absent
value is none of the values it stands in for (`NoneAssumption`, `NoProfile`, ...; in
Python `None` is no string, number or dictionary).  Every module states its
inductive invariant (`IInv`, or `ApprovalsInv`, `ResultsInv`, `ProfilesInv`,
`AccountsInv`), TLC has checked it under the bounds of the module's run, and lemmas
action by action show that it is kept.

`ComputeJobs_proofs` (`TypeCorrect`, `OneSequence`, `InSequenceOrder`,
`NothingStranded`, `OneAtATime`, `Final`, `ResultsBacked`).  The properties are
not inductive by themselves: that two active records belong to one sequence
depends on where their threads are.  `IInv` adds what ties them together:
`RecordMatchesThread` (what a record can be at each label of its thread),
`RequestsWellFormed` (a request is named after its first job, its jobs share its
instance, unused ids are blank), `PreparedTogether` and `RunInOrder` (the jobs of
a request start together and run one after the other), `DownIsIdle`.  One lemma
per action shows that it keeps `IInv`.  `NoRevival` follows from `IInv` step by
step.  `ViewBackedByRecord` needs a second invariant, `DisplaysBacked`, because
`docker_discovery` carries displayed states in a local variable (`existing`)
across transactions: they must be backed there too, by a thread that is past its
commit.

The same module proves `Results` (`ResultsTypeCorrect`, `VerdictKept`).
`VerdictIsKept` compares what is shown with the verdicts in the output, which no
variable of the program holds, so `ResultsInv` follows them: `ProjectsSaid` says
that what is kept of a project was said of it and the reverse, unless a job of that
project runs; `HostIsSummary` that the state of the host is always `Aggregate` of
its projects, which every transaction that writes a project has to restore.  Below
are lemmas about the functions: `ParsedIsPrinted` (what the parser finds is one of
the results printed), `CheckVerdict` and `MissingVerdict` (a contract that counts as
complete has the verdict of the project), `AggregateUpToDate` and
`AggregateUpdates` (what a host's state says of each project), `ReconciledFacts` (a
discovery carries verdicts over and invents none).

`VpnSwitch_proofs` (`TypeCorrect`, `Success`, `Restored`, `NothingHalfApplied`).
Two arguments.  `OverlapsMarked` says that requests that share time know it, so a
request that is alone is the only one that writes, and `Progress(s)` can say at
each of its labels what the firewall holds; `SuccessMeansActive` and
`RollbackRestores` are `Progress` at its end.  `Settled` holds however requests
overlap, so it cannot rest on that: `Pending` says that whenever saved and
generated, or generated and active, differ, somebody will still regenerate or
restart, or has an excuse (a failed rollback, a lost first reply, a kill); a
request hands that duty to its own rollback, and `FailedAtEnd` keeps an excuse
from being taken back.

The same module proves `VpnProfiles` (`ProfilesTypeCorrect`, `ProfilesBounded`,
`RemovalForgets`, `ValidationsStay`).  `RemovedIsForgotten` and `ValidationKept` are
about steps, and most of the argument is about the history: that `Record` keeps every
entry it has room for, drops one only when the history is full, and changes none
that it keeps, except as `Discovery` does, which hands the user's validations on.
The induction carries the two limits, `MAX_PROFILES` and `MAX_HISTORY` (both are
looked at in the transaction that could exceed them, not where the request began),
and that a target which a request removes is none it saves.

`Store_proofs` (`TypeCorrect`, `NothingLost`, `GoodBackup`, `LoadSeesWrites`,
`NobodyWaitsForever`, `StoreImplementsDocument`).  The properties speak of the file
in place; after a power failure an older one may be, so `Directory` says of every
directory that may be left that it holds what returned and a backup one step
behind (`NothingLost` and `GoodBackup` are its case of today's directory).  To keep
it, `WriterKnows` says what the thread that is writing has read and will add,
which stays true because the holder of the exclusive flock is the only writer
(`WriterHolds`); `NotYet` keeps an update out of all documents until its own
rename, which makes the rename the instant it takes effect in `Document`.
`PendingRuns` matches a call's result to its place.  The refinement proof maps each
step: the rename to `Apply` or, for a migration, to nothing; the directory sync to
`Sync`; the end of a call to `Return` or `Raise`; the end of a process to `Kill`;
a power failure to `PowerLoss`; all others to nothing.

`LoadSeesWrites` is about `load`, which may answer from a cache without a lock:
`Stamps` says that no time the cache or a reader remembers is younger than the
file's and that a writer's is, unless two writes shared a tick (`coarse`);
`CacheTrue` that a cache has what its own process wrote, and is the document when
its time is the file's.

`NobodyWaitsForever` is `NoDeadlock` with the guards of the steps (`Unblocked`) in
the place of ENABLED; TLC has checked that what is unblocked is enabled.
`LocksHeld` says that who holds a lock is at a label between taking and releasing
it, also after a failure or the end of its process, and that the lock of a process
is held by a thread of that process.  So whoever waits for the flock waits for
somebody who can go on, and whoever waits for the lock of the process waits for
one of these.

`DeviceUpdates_proofs` (`TypeCorrect`, `Exclusive`, `Installed`,
`ResultSurvives`).  `OneOperation` is that a thread at work is the one in the
slot (`ThreadHasSlot`), which the second look under `_LOCK` establishes and which
lasts because a slot is only taken from an operation that is terminal, and
terminal means its thread is over (`TerminalIsDone`).  Success is real because a
node's entry follows the machine (`NodesProgress`): nothing pending outside what
is left to do, nothing running but the current node, nothing completed that is
not installed; `SnapshotTrue` carries that over a restart.  `Unborn` and
`CheckAwaited` tie snapshots and checks to the operation they are of.
`DurableResult` is about a snapshot written outside the lock.  Its first half,
`SnapshotAgrees`, is inductive with the above; the second, `LastShown`, needs
`LateSnapshots`: an operation with a snapshot to write is the last one, or was in that
state when the last one claimed the slot, so that what may still overwrite the
document is known from then on.

The same module proves `Playbooks` (`PlaybooksTypeCorrect`, `AcceptedOffered`,
`CommandApproved`).  `ApprovalsGranted` says that, until a request overwrites what it
had not read, an approval on record is of the file an administrator granted;
`RecordFirst` that only a save makes the record, so the others always have one.
`CommandFollowsApproval` then needs only the second look of `_run_job`.
`AcceptedIsOffered` compares two pieces of code, with their fall-back from the
generic to the separate approval, and holds whatever the record is.

`MorningUpdates_proofs` (`TypeCorrect`, `RunsOnce`, `RunningIsOwned`,
`CompletedIsChecked`).  The lock is a lease and may pass to another run under a
live worker, so none of this can rest on mutual exclusion.  `OverrunsMarked` says
that a worker without the lock has overrun; for the others `WorkerProgress` says
what the record holds at each label.  `OncePerOccurrence` is about all runs that were
started, on file or not: a run is only added in the transaction that compares its
occurrence with the records on file, so one for the same occurrence was pruned, and
`PrunedAreOld` counts how many runs are newer than a pruned one.  That rests on
`RecordsOrdered`: records are as old as their runs, except for those of workers that
lost their lock and ended late.

`Clients_proofs` (`TypeCorrect`, `AnnouncedAtMostOnce`, `ApprovalShown`,
`DeparturesAreReal`).  A scan holds for seconds what others change.  What it holds
at each stage is part of `TypeOK`; `AnnouncedIsNoted` says that a client that was
announced has a record that says so, until it is forgotten, pruned or approved;
`Accounted` that of the sources that list a client that stayed home each is still
to be read, has reported it, or has failed.  `DepartureIsReal`, a property of
steps, follows from `Accounted` at the step that records a scan.

`Status_proofs` (`TypeCorrect`, `HealthyEarned`, `TroubleShown`,
`RebootDecided`).  The functions are pure, but what they are right about is when
something was seen.  `PollsRecorded` says that no timestamp in the record is
younger than the last success, and `DiscoveryRecorded` that the container on
record is the contract of the one last found, with its age.  On top of them come
lemmas about the operators: what the worst of a set of statuses is, what a
container's contract tells, that the decision on a reboot compares the right
kernels as long as the marker and the pin are known, whatever else is not.

`Monitoring_proofs` (`TypeCorrect`, `Agreement`, `Debounced`).  Between the
commit of a poll and the end of its job, document, history and notifications
disagree, and `SourcesAgree` says nothing; the invariant has to.  `PolledByItsJob`
says that one job polls a Device as long as its driver is not edited;
`Consistent` that of every Device what was committed is written and told, or is
carried by that job, in which case writing and telling what it carries restores
the agreement (`Carried`).  `WithPointFacts` is what appending to a bounded
series does to its end.  The proof showed that the two properties, as first
stated, were those of an `OFFLINE_AFTER` of at least 2 and at most `ONLINE_MAX`,
where the code only takes care that it is at least 1.  With 1, the first poll of a
new Device can confirm it offline without a transition to push; beyond
`ONLINE_MAX`, the series is too short to hold the misses.  They now say so.

The same module proves `Accounts` (`AccountsTypeCorrect`, `AdminStays`,
`SubscriptionsStayValid`, `UnreadKept`).  `AdminRemains` is inductive together with
`AccountsGrow`: a new account does not take the id of another, and a request that
creates one was accepted from a user, so it does not make the first account, which
`Setup` does.  `SubscriptionsWork` goes through the browser, which keeps a key for
as long as it likes: `KeysGiven` says that a key that anybody was given is the
published one, which is not replaced, and that nobody publishes while there is one.
`UnreadIsKept` is about the limit `Persist` applies for each recipient: what it drops
is read or dismissed, or as many unread notes that are not older stay as the limit
allows (`NewNotesFacts`, `OverflowFacts`).

Only model-checked.  Out of the provers' reach: liveness (`JobsConclude`,
`OccurrenceRuns`, `NoStuckSnapshot`, `OutageIsReported`, `OutageIsAlerted`), and
`NoDeadlock` in the words of the run, which are ENABLED.  Every other property of a
run is stated by a theorem.

## 5. Not modelled

Text and I/O: the patterns by which output is parsed, device drivers, transports
and provider clients; their calls appear as steps that succeed, fail or lose
their answer.  Cryptography, certificates, routing and rendering have no state
machine of their own.  Left out of the modelled components: `set_project_strategy`,
`configure_ssh`, the order of Devices and bindings of clients to access points
(one write each), the ranking of VPN candidates, the login throttle, notification
categories and paging, texts of notifications, `store.save` (nothing calls it) and
the contents of the schema migrations.  Assumed rather than modelled: that a
check's own timeouts end it before its lease expires; of the file system, that
renames in one directory reach the disk in their order.

## 6. Plan

Done: all modules above, in the order jobs, updates, morning runs, VPN switch,
store, monitoring, VPN profiles, clients, status, playbooks, results, accounts, and
the proofs about each of them.

What would come next: what a Device shows after a write of its poll was lost, which
`SourcesAgree` leaves open; that the result of a morning run, once it is on record, is
not rewritten; that the lease of an update check implements the
lock it is meant to be as long as checks end in time; and a composition of
`Playbooks`, `ComputeJobs` and `Results`, which now meet only in what they say of
`_run_job`.
