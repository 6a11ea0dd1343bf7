--------------------------- MODULE MorningUpdates ---------------------------
(***************************************************************************)
(* Morning update runs (backend/morning_updates.py): the scheduler thread  *)
(* that starts one run per configured occurrence, manual starts, the       *)
(* leased lock and the run records they share in the store, and the daemon *)
(* thread that executes a run in two phases, notifies and completes it.    *)
(* What the phases find at a target is reduced to what aggregate() tells   *)
(* apart: checks that succeeded ("ok") and checks that did not ("bad").    *)
(***************************************************************************)
EXTENDS Naturals, FiniteSets

CONSTANTS
  MaxStarts,     \* bound: runs started in a behaviour
  MaxKept,       \* MAX_RUNS, 10 or more in the code
  Days,          \* bound: local dates
  Slots,         \* bound: times of a day a run may be configured for
  DefaultConfig, \* DEFAULT_CONFIG
  Configs,       \* settings that may be saved
  Findings,      \* what a phase may find
  MaxSettings,   \* bound: changes of the settings
  MaxFaults,     \* bound: crashes and failed store transactions together
  MaxOverruns,   \* bound: leases that expire under a live worker
  None

ASSUME ConstantsAssumption ==
  /\ MaxStarts \in Nat /\ MaxKept \in Nat \ {0} /\ Days \in Nat \ {0} /\ Slots \in Nat \ {0}
  /\ MaxSettings \in Nat /\ MaxFaults \in Nat /\ MaxOverruns \in Nat
  /\ None \notin (1..Days) \X (1..Slots)
  /\ DefaultConfig \in Configs
  /\ Configs \subseteq [enabled : BOOLEAN, runTime : 1..Slots,
                        phases : SUBSET {"ansible", "deviceNative"}]
  /\ Findings \subseteq SUBSET {"ok", "bad"}

Runs == 1..MaxStarts
Phases == {"ansible", "deviceNative"}
\* A scheduled time: the local date and the configured runTime on it.
Occurrences == (1..Days) \X (1..Slots)
\* TERMINAL_RUN_STATES
Terminal == {"successful", "partial", "failed"}

VARIABLES
  rec,        \* what is written in a run's record
  kept,       \* the runs in morningUpdateRuns
  started,    \* runs started
  stamps,     \* timestamps written into records so far
  lock,       \* meta.morningUpdateLock: its runId (0: none); "live" until expiresAt
  pc,         \* where the worker of a run is
  due,        \* the scheduler's local scheduled_for, or None
  config,     \* meta.morningUpdateCheck
  clock,      \* the local date and time
  overran,    \* runs whose lease expired while they worked
  process, faults, settings

store == <<rec, kept, started, stamps, lock>>
budget == <<process, faults, settings>>
vars == <<store, pc, due, config, clock, overran, budget>>

\* Labels of _execute.
Working == {"begin", "ansible", "heartbeat", "deviceNative", "notify", "complete",
            "fail", "release"}

Record == [status : Terminal \cup {"running"}, scheduledFor : Occurrences \cup {None},
           completed : BOOLEAN, at : Nat, phases : [Phases -> {"pending", "disabled", "completed"}],
           results : SUBSET {"ok", "bad"}]

Alive(r) == pc[r] \in Working

TypeOK ==
  /\ rec \in [Runs -> Record]
  /\ started \in 0..MaxStarts /\ kept \subseteq 1..started /\ stamps \in Nat
  /\ lock \in [run : 0..started, live : BOOLEAN]
  /\ pc \in [Runs -> Working \cup {"none", "ended"}]
  /\ due \in Occurrences \cup {None}
  /\ config \in Configs
  /\ clock \in Occurrences
  /\ overran \subseteq 1..started
  /\ process \in {"up", "down"} /\ faults \in 0..MaxFaults /\ settings \in 0..MaxSettings

\* A record that is not in the store.  Of a pruned one the phases stay, for the
\* worker's copy of the settings it started with, and the occurrence, for the
\* properties.
Blank == [status |-> "running", scheduledFor |-> None, completed |-> FALSE, at |-> 0,
          phases |-> [p \in Phases |-> "pending"], results |-> {}]

Init ==
  /\ rec = [r \in Runs |-> Blank]
  /\ kept = {} /\ started = 0 /\ stamps = 0
  /\ lock = [run |-> 0, live |-> FALSE]
  /\ pc = [r \in Runs |-> "none"]
  /\ due = None
  /\ config = DefaultConfig
  /\ clock = <<1, 1>>
  /\ overran = {}
  /\ process = "up" /\ faults = 0 /\ settings = 0

Goto(r, label) == pc' = [pc EXCEPT ![r] = label]
Fault == faults < MaxFaults /\ faults' = faults + 1
NoFault == faults' = faults

\* aggregate()["status"]
Aggregate(results) ==
  IF "bad" \notin results THEN "successful" ELSE IF "ok" \in results THEN "partial" ELSE "failed"

\* completedAt, and with it (completedAt or startedAt), is later than what was written before.
Completed(record, status, at) == [record EXCEPT !.status = status, !.completed = TRUE, !.at = at]

----------------------------------------------------------------------------
\* _acquire and its callers

\* Defect: a lock that was never released is never replaced.
LockActiveHeld == lock.run # 0

LockActive == lock.run # 0 /\ lock.live

\* Defect: only the date of the newest run is compared.
HasRunLast(occurrence) ==
  /\ occurrence # None
  /\ \E r \in kept : rec[r].scheduledFor = occurrence /\ \A q \in kept : rec[q].at <= rec[r].at

HasRun(occurrence) == occurrence # None /\ \E r \in kept : rec[r].scheduledFor = occurrence

\* Defect: the lock is replaced and the run it names forgotten.
AbandonedNone == {}

\* The run of an expired lock, when it still says "running".
Abandoned == {r \in kept : r = lock.run /\ rec[r].status = "running"}

\* The oldest terminal records beyond MAX_RUNS are dropped.
Prune(runs, records) ==
  LET terminal == {q \in runs : records[q].status \in Terminal}
      excess == IF Cardinality(runs) > MaxKept THEN Cardinality(runs) - MaxKept ELSE 0
      older(q) == {p \in terminal : records[p].at < records[q].at}
  IN  runs \ {q \in terminal : Cardinality(older(q)) < excess}

\* The transaction that creates the record and the leased lock; start_run then
\* starts the worker.
Acquire(occurrence) ==
  /\ started < MaxStarts
  /\ ~LockActive /\ ~HasRun(occurrence)
  /\ LET r == started + 1
         failed == [q \in Runs |-> IF q \in Abandoned THEN Completed(rec[q], "failed", stamps + 1) ELSE rec[q]]
         created == [failed EXCEPT ![r] =
           [status |-> "running", scheduledFor |-> occurrence, completed |-> FALSE, at |-> stamps + 2,
            phases |-> [p \in Phases |-> IF p \in config.phases THEN "pending" ELSE "disabled"],
            results |-> {}]]
         pruned == Prune(kept \cup {r}, created)
     IN  /\ started' = r /\ stamps' = stamps + 2
         /\ rec' = [q \in Runs |->
              IF q \in pruned THEN created[q]
              ELSE [Blank EXCEPT !.scheduledFor = created[q].scheduledFor,
                                 !.phases = IF Alive(q) THEN created[q].phases ELSE @]]
         /\ kept' = pruned
         /\ lock' = [run |-> r, live |-> TRUE]
         /\ Goto(r, "begin")
  /\ NoFault

\* The transaction is aborted by Conflict, the marking of an abandoned run with it.
AcquireRefused(occurrence) ==
  /\ ((LockActive \/ HasRun(occurrence)) /\ NoFault) \/ Fault
  /\ UNCHANGED <<store, pc>>

\* POST /api/morning-updates/run; what a refused request leaves alone is not
\* a step of its own.
ManualStart ==
  /\ process = "up"
  /\ Acquire(None)
  /\ UNCHANGED <<due, config, clock, overran, process, settings>>

\* _due_occurrence: the settings are read before the transaction.
SchedulerLook ==
  /\ process = "up" /\ due = None
  /\ config.enabled /\ clock[2] >= config.runTime
  /\ due' = <<clock[1], config.runTime>>
  /\ UNCHANGED <<store, pc, config, clock, overran, budget>>

SchedulerStart ==
  /\ process = "up" /\ due # None
  /\ Acquire(due) \/ AcquireRefused(due)
  /\ due' = None
  /\ UNCHANGED <<config, clock, overran, process, settings>>

SaveSettings ==
  /\ process = "up"
  /\ settings < MaxSettings /\ settings' = settings + 1
  /\ \E c \in Configs : c # config /\ config' = c
  /\ UNCHANGED <<store, pc, due, clock, overran, process, faults>>

----------------------------------------------------------------------------
\* _execute

At(r, label) == process = "up" /\ pc[r] = label

\* An exception in the try block.
Raises(r) == Fault /\ Goto(r, "fail") /\ UNCHANGED store

\* A record that was pruned ends the run at once.
Begin(r) ==
  /\ At(r, "begin")
  /\ \/ /\ Goto(r, IF r \notin kept THEN "release"
                   ELSE IF rec[r].phases["ansible"] # "disabled" THEN "ansible" ELSE "heartbeat")
        /\ NoFault /\ UNCHANGED store
     \/ Raises(r)
  /\ UNCHANGED <<due, config, clock, overran, process, settings>>

\* _renew_lock, also of a lease that has run out and was not replaced.
RenewLock(r) ==
  /\ lock' = IF lock.run = r THEN [lock EXCEPT !.live = TRUE] ELSE lock
  /\ overran' = IF lock.run = r THEN overran \ {r} ELSE overran

\* _wait_for_jobs renews the lease while a job runs.
WaitForJobs(r) ==
  /\ At(r, "ansible")
  /\ RenewLock(r)
  /\ UNCHANGED <<rec, kept, started, stamps, pc, due, config, clock, budget>>

\* Defect: a phase that raised counts as a phase without results.
PersistPhaseSwallows(r, phase, next) ==
  /\ At(r, phase)
  /\ Goto(r, next)
  /\ \E found \in Findings :
       LET results == rec[r].results \cup found IN
       \/ /\ rec' = IF r \in kept
                    THEN [rec EXCEPT ![r].results = results, ![r].status = Aggregate(results),
                                     ![r].phases[phase] = "completed"]
                    ELSE rec
          /\ NoFault
       \/ Fault /\ rec' = rec
  /\ UNCHANGED <<kept, started, stamps, lock, due, config, clock, overran, process, settings>>

\* A phase and its _persist_phase: a target that
\* cannot be checked is a result, a failure of the store ends the phase.  The
\* record gets the aggregate's status here, before the run is complete.
PersistPhase(r, phase, next) ==
  /\ At(r, phase)
  /\ \/ /\ Goto(r, next)
        /\ \E found \in Findings :
             LET results == rec[r].results \cup found IN
             rec' = IF r \in kept
                    THEN [rec EXCEPT ![r].results = results, ![r].status = Aggregate(results),
                                     ![r].phases[phase] = "completed"]
                    ELSE rec
        /\ NoFault
        /\ UNCHANGED <<kept, started, stamps, lock>>
     \/ Raises(r)
  /\ UNCHANGED <<due, config, clock, overran, process, settings>>

\* The Ansible jobs and Proxmox checks of every managed target.
AnsiblePhase(r) == PersistPhase(r, "ansible", "heartbeat")

\* The driver's check_updates action of every included Device.
DevicePhase(r) == PersistPhase(r, "deviceNative", "notify")

\* heartbeat() between the phases.
Heartbeat(r) ==
  /\ At(r, "heartbeat")
  /\ \/ /\ RenewLock(r)
        /\ Goto(r, IF rec[r].phases["deviceNative"] # "disabled"
                   THEN "deviceNative" ELSE "notify")
        /\ NoFault
        /\ UNCHANGED <<rec, kept, started, stamps>>
     \/ Raises(r) /\ UNCHANGED overran
  /\ UNCHANGED <<due, config, clock, process, settings>>

\* The record is read, which fails when it was pruned, and _notify sends.
Notify(r) ==
  /\ At(r, "notify")
  /\ \/ Goto(r, IF r \in kept THEN "complete" ELSE "fail") /\ NoFault /\ UNCHANGED store
     \/ Raises(r)
  /\ UNCHANGED <<due, config, clock, overran, process, settings>>

Stamp(r, status) ==
  IF r \in kept
  THEN rec' = [rec EXCEPT ![r] = Completed(@, status, stamps + 1)] /\ stamps' = stamps + 1
  ELSE UNCHANGED <<rec, stamps>>

Complete(r) ==
  /\ At(r, "complete")
  /\ \/ /\ Stamp(r, Aggregate(rec[r].results))
        /\ Goto(r, "release")
        /\ NoFault
        /\ UNCHANGED <<kept, started, lock>>
     \/ Raises(r)
  /\ UNCHANGED <<due, config, clock, overran, process, settings>>

\* The except clause; its own failure still reaches the finally clause.
Fail(r) ==
  /\ At(r, "fail")
  /\ (Stamp(r, "failed") /\ NoFault) \/ (UNCHANGED <<rec, stamps>> /\ Fault)
  /\ Goto(r, "release")
  /\ UNCHANGED <<kept, started, lock, due, config, clock, overran, process, settings>>

\* _release, for the holder of the token only.
Release(r) ==
  /\ At(r, "release")
  /\ \/ lock' = (IF lock.run = r THEN [run |-> 0, live |-> FALSE] ELSE lock) /\ NoFault
     \/ lock' = lock /\ Fault
  /\ Goto(r, "ended")
  /\ UNCHANGED <<rec, kept, started, stamps, due, config, clock, overran, process, settings>>

Execute(r) ==
  \/ Begin(r) \/ AnsiblePhase(r) \/ Heartbeat(r) \/ DevicePhase(r)
  \/ Notify(r) \/ Complete(r) \/ Fail(r) \/ Release(r)

----------------------------------------------------------------------------
\* Time, crash and restart

\* expiresAt passes.  A dead worker's lease always runs out; a live one's
\* when LOCK_LEASE_SECONDS is short for what it does between two heartbeats.
LeaseExpires ==
  /\ LockActive
  /\ lock' = [lock EXCEPT !.live = FALSE]
  /\ IF Alive(lock.run)
     THEN Cardinality(overran) < MaxOverruns /\ overran' = overran \cup {lock.run}
     ELSE overran' = overran
  /\ UNCHANGED <<rec, kept, started, stamps, pc, due, config, clock, budget>>

TimePasses ==
  /\ clock # <<Days, Slots>>
  /\ clock' = IF clock[2] < Slots THEN <<clock[1], clock[2] + 1>> ELSE <<clock[1] + 1, 1>>
  /\ UNCHANGED <<store, pc, due, config, overran, budget>>

\* The store stays; the scheduler and every worker are gone.
Crash ==
  /\ process = "up" /\ Fault
  /\ process' = "down"
  /\ due' = None
  /\ pc' = [r \in Runs |-> IF Alive(r) THEN "ended" ELSE pc[r]]
  /\ UNCHANGED <<store, config, clock, overran, settings>>

Restart ==
  /\ process = "down"
  /\ process' = "up"
  /\ UNCHANGED <<store, pc, due, config, clock, overran, faults, settings>>

Next ==
  \/ ManualStart \/ SchedulerLook \/ SchedulerStart \/ SaveSettings
  \/ \E r \in Runs : Execute(r) \/ WaitForJobs(r)
  \/ LeaseExpires \/ TimePasses \/ Crash \/ Restart

Spec == Init /\ [][Next]_vars

\* Workers end (every remote call has a timeout), the scheduler looks every
\* 30 s, time passes, and a stopped container is restarted.
FairSpec ==
  /\ Spec
  /\ \A r \in Runs : WF_vars(Execute(r))
  /\ WF_vars(SchedulerLook \/ SchedulerStart)
  /\ WF_vars(LeaseExpires) /\ WF_vars(Restart)

----------------------------------------------------------------------------
\* Properties

\* Workers that lost their lock: what they write may make their record newer
\* than that of a later run.
Late == overran \ {lock.run}

\* _acquire: "this scheduled update check has already run": what an occurrence
\* is compared with is pruned, and with that alone it runs again: only after
\* MAX_RUNS other runs were started since (fewer by those whose late end pushed
\* its record out), across restarts, expired leases and changed settings.
OncePerOccurrence ==
  \A q, r \in 1..started :
    /\ q < r /\ rec[q].scheduledFor # None /\ rec[q].scheduledFor = rec[r].scheduledFor
    /\ faults <= 1
    => r - q + Cardinality(Late) > MaxKept

\* _acquire: "The previous process stopped before the run completed": a run
\* recorded "running" has the lock whose replacement will fail it, also after a
\* crash and when it outlived its lease; none is orphaned unless the store failed
\* twice under it.
RunningHasOwner ==
  \A r \in kept : rec[r].status = "running" => lock.run = r \/ faults > 1

\* _execute: a completed run that is not failed did every phase it was
\* configured for, also when the store failed on the way (a worker that
\* outlived its lease writes its phases into a record already stamped).
CompletedMeansChecked ==
  \A r \in kept \ overran :
    rec[r].completed /\ rec[r].status # "failed" => \A p \in Phases : rec[r].phases[p] # "pending"

\* The persistent scheduler: an occurrence that is due is run, although manual
\* runs, a lease a crash left behind and failed transactions are in its way
\* (until the day ends or the settings change).
OccurrenceRuns ==
  \A d \in 1..Days, s \in 1..Slots :
    clock[1] = d /\ clock[2] >= s /\ config.enabled /\ config.runTime = s
      ~> \/ \E r \in kept : rec[r].scheduledFor = <<d, s>>
         \/ clock[1] # d \/ config.runTime # s \/ ~config.enabled \/ started = MaxStarts

\* docs/operations.md: "It runs at most once for a scheduled local date", which
\* manual runs that push its record out undo.
OccurrenceRunsOnce ==
  \A q, r \in 1..started :
    rec[q].scheduledFor # None /\ rec[q].scheduledFor = rec[r].scheduledFor => q = r

\* docs/operations.md, the same sentence, while the run is still on record.
OncePerLocalDate ==
  \A q, r \in kept :
    rec[q].scheduledFor # None /\ rec[r].scheduledFor # None
      /\ rec[q].scheduledFor[1] = rec[r].scheduledFor[1] => q = r

----------------------------------------------------------------------------
\* The inductive invariant of the proofs

\* A worker that lost its lock had overrun its lease, and was seen to.
OverrunsMarked ==
  /\ lock.run # 0 /\ ~lock.live => lock.run \in overran \/ ~Alive(lock.run)
  /\ \A r \in Runs : Alive(r) => r <= started /\ (lock.run = r \/ r \in overran)

\* What the worker of a run that is on record has behind it at each label.
WorkerProgress(r) ==
  /\ pc[r] \in {"heartbeat", "deviceNative", "notify", "complete"} => rec[r].phases["ansible"] # "pending"
  /\ pc[r] \in {"notify", "complete"} => rec[r].phases["deviceNative"] # "pending"
  /\ pc[r] = "fail" => faults > 0
  /\ pc[r] = "release" /\ rec[r].status = "running" => faults > 1
  /\ Alive(r) /\ lock.run = r /\ rec[r].completed => pc[r] = "release"

\* Only the newest run can hold the lock, so records are as old as their runs, but
\* for those of workers that lost it.
RecordsOrdered ==
  /\ lock.run \in {0, started}
  /\ \A q \in kept : rec[q].at <= stamps
  /\ \A p, q \in kept : p < q => rec[p].at < rec[q].at \/ p \in Late

\* A pruned record was among the oldest: MAX_RUNS runs are newer, or were late.
PrunedAreOld ==
  faults <= 1 => \A q \in (1..started) \ kept : started - q + Cardinality(Late) >= MaxKept

IInv ==
  /\ TypeOK /\ OverrunsMarked
  /\ \A r \in kept : WorkerProgress(r)
  /\ RecordsOrdered /\ PrunedAreOld
  /\ OncePerOccurrence /\ RunningHasOwner /\ CompletedMeansChecked

=============================================================================
