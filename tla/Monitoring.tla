----------------------------- MODULE Monitoring -----------------------------
(***************************************************************************)
(* Scheduled monitoring of Devices: the interval scheduler                 *)
(* (backend/monitoring_scheduler.py), the poll that reads Devices, commits *)
(* the results in one transaction and then appends history and notifies    *)
(* (backend/poller.py), the Device records requests create, edit and       *)
(* delete under it (backend/devices.py), and the history files with their  *)
(* migration at start (backend/history.py).                                *)
(*                                                                         *)
(* Two of the scheduler's jobs are modelled: "network" and one dedicated   *)
(* to a driver, "proxmox"; the others have the same shape.  A Device has   *)
(* one metric, which is low or high, and at most one alert rule.           *)
(***************************************************************************)
EXTENDS Naturals, Sequences, Optional

CONSTANTS
  Devices,
  OFFLINE_AFTER,  \* missed polls before a Device is confirmed offline
  ONLINE_MAX,     \* points kept of the reachability series
  MaxChanges,     \* bound: changes of the Devices themselves
  MaxEdits,       \* bound: edits and deletions by requests
  MaxFaults       \* bound: failed writes, raising calls and crashes

ASSUME ConstantsAssumption ==
  /\ OFFLINE_AFTER \in Nat \ {0} /\ ONLINE_MAX \in Nat \ {0}
  /\ MaxChanges \in Nat /\ MaxEdits \in Nat /\ MaxFaults \in Nat

Jobs == {"network", "proxmox"}
Drivers == {"network", "icmp", "proxmox"}   \* "icmp": reachability is probed, values are not read
JobOf(driver) == IF driver = "proxmox" THEN "proxmox" ELSE "network"
Levels == {"low", "high"}
Rules == {"above", "below"}

VARIABLES
  exists,     \* a Device is "no"t yet there, there ("yes") or "gone"
  rec,        \* its record: driver, state, alerts and alertState
  series,     \* the online series of its history file; None: no file
  legacy,     \* history of an old document: "none" left, "embedded", being moved, or "lost"
  deleting,   \* Devices out of the document whose history file is still to go
  actual,     \* EXTERNAL: what the Device would answer
  life,       \* the process: "down", "migrating", "running", "stopping", "stopped"
  loop,       \* the scheduler thread is alive
  phase,      \* where the worker of a job is; "released": past its lock, still in _workers
  batch,      \* a job's Devices: to be read, read, to be appended, to be told
  told,       \* the last transition pushed for a Device
  toldAlert,  \* the last alert pushed: the rule, and whether it was a breach
  redriven,   \* Devices whose driver was edited; read by properties only
  dropped,    \* Devices of which something committed was not appended or told; ditto
  changes, edits, faults

record == <<exists, rec, series, legacy, deleting>>
process == <<life, loop>>
work == <<phase, batch>>
news == <<told, toldAlert, dropped>>
counts == <<changes, edits, faults>>
vars == <<record, actual, process, work, news, redriven, counts>>

Alerts == [rule : Rules, breached : BOOLEAN] \cup {None}
Items ==
  [stage : {"todo"}] \cup [stage : {"read"}, online : BOOLEAN, value : Levels \cup {None}]
  \cup [stage : {"append", "tell"}, online : BOOLEAN, transition : {"on", "off", None}, alert : Alerts]
Records == [driver : Drivers, confirmed : {"on", "off", None}, online : BOOLEAN,
            miss : 0..OFFLINE_AFTER, rule : Rules \cup {None}, alertState : Alerts]

\* None is none of the values it stands in for.
ASSUME NoneAssumption ==
  /\ None \notin Items /\ None \notin Seq(BOOLEAN) /\ None \notin [rule : Rules, breached : BOOLEAN]
  /\ None \notin Levels \cup Rules \cup {"on", "off"}

Empty == [d \in Devices |-> None]
Blank == [driver |-> "network", confirmed |-> None, online |-> FALSE, miss |-> 0,
          rule |-> None, alertState |-> None]

TypeOK ==
  /\ exists \in [Devices -> {"no", "yes", "gone"}]
  /\ rec \in [Devices -> Records]
  /\ series \in [Devices -> {s \in Seq(BOOLEAN) : Len(s) <= ONLINE_MAX} \cup {None}]
  /\ legacy \in [Devices -> {"none", "embedded", "moving", "lost"}]
  /\ deleting \subseteq Devices
  /\ actual \in [Devices -> Levels \cup {None}]
  /\ life \in {"down", "migrating", "running", "stopping", "stopped"} /\ loop \in BOOLEAN
  /\ phase \in [Jobs -> {"idle", "read", "commit", "after", "rest", "error", "released"}]
  /\ batch \in [Jobs -> [Devices -> Items \cup {None}]]
  /\ told \in [Devices -> {"on", "off", None}] /\ toldAlert \in [Devices -> Alerts]
  /\ redriven \subseteq Devices /\ dropped \subseteq Devices
  /\ changes \in 0..MaxChanges /\ edits \in 0..MaxEdits /\ faults \in 0..MaxFaults

\* A document an earlier version left: its history may be embedded in it.
Init ==
  /\ exists \in [Devices -> {"no", "yes"}]
  /\ rec = [d \in Devices |-> Blank] /\ series = Empty
  /\ legacy \in [Devices -> {"none", "embedded"}]
  /\ \A d \in Devices : legacy[d] = "embedded" => exists[d] = "yes"
  /\ deleting = {} /\ actual = [d \in Devices |-> "low"]
  /\ life = "down" /\ loop = FALSE
  /\ phase = [j \in Jobs |-> "idle"] /\ batch = [j \in Jobs |-> Empty]
  /\ told = Empty /\ toldAlert = Empty
  /\ redriven = {} /\ dropped = {}
  /\ changes = 0 /\ edits = 0 /\ faults = 0

Fault == faults < MaxFaults /\ faults' = faults + 1 /\ UNCHANGED <<changes, edits>>

----------------------------------------------------------------------------
\* Start, stop and crash

\* lifespan: history is migrated before the poller is started.  The old
\* history leaves the document in one transaction ...
MigrateStrip ==
  /\ life \in {"down", "stopped"} /\ life' = "migrating"
  /\ legacy' = [d \in Devices |->
       IF legacy[d] = "embedded" THEN IF series[d] = None THEN "moving" ELSE "none" ELSE legacy[d]]
  /\ UNCHANGED <<exists, rec, series, deleting, actual, loop, work, news, redriven, counts>>

\* ... and is saved file by file afterwards.
MigrateSave(d) ==
  /\ life = "migrating" /\ legacy[d] = "moving"
  /\ legacy' = [legacy EXCEPT ![d] = "none"]
  /\ series' = [series EXCEPT ![d] = <<>>]
  /\ UNCHANGED <<exists, rec, deleting, actual, process, work, news, redriven, counts>>

\* poller.start: every job is due after its initial delay.
Start ==
  /\ life = "migrating" /\ \A d \in Devices : legacy[d] # "moving"
  /\ life' = "running" /\ loop' = TRUE
  /\ UNCHANGED <<record, actual, work, news, redriven, counts>>

\* poller.stop, when the last request has been served.
Stop ==
  /\ life = "running" /\ deleting = {}
  /\ life' = "stopping"
  /\ UNCHANGED <<record, actual, loop, work, news, redriven, counts>>

\* The scheduler's loop sees stop_event.
LoopEnds ==
  /\ life = "stopping" /\ loop
  /\ loop' = FALSE
  /\ UNCHANGED <<record, actual, life, work, news, redriven, counts>>

\* wait_for_idle: no worker is left in _workers.
Idle == \A j \in Jobs : phase[j] = "idle"

\* IntervalScheduler.stop returns True: the thread is joined, then no worker
\* is left.  (A stop that times out ends in the end of the process, Crash.)
StopReturns ==
  /\ life = "stopping" /\ ~loop /\ Idle
  /\ life' = "stopped"
  /\ UNCHANGED <<record, actual, loop, work, news, redriven, counts>>

InFlight(d) == \E j \in Jobs : batch[j][d] # None /\ batch[j][d].stage \in {"append", "tell"}

Crash ==
  /\ life # "down" /\ Fault
  /\ life' = "down" /\ loop' = FALSE
  /\ phase' = [j \in Jobs |-> "idle"] /\ batch' = [j \in Jobs |-> Empty]
  /\ deleting' = {}
  /\ dropped' = dropped \cup {d \in Devices : InFlight(d)}
  /\ legacy' = [d \in Devices |-> IF legacy[d] = "moving" THEN "lost" ELSE legacy[d]]
  /\ UNCHANGED <<exists, rec, series, actual, told, toldAlert, redriven>>

----------------------------------------------------------------------------
\* The scheduler

\* The Devices poll_once finds in the document for a job.
Polled(j) == {d \in Devices : exists[d] = "yes" /\ JobOf(rec[d].driver) = j}

\* dispatch_due, of a job whose next_run has come, and the start of its poll.  (When the job's lock is taken only next_run
\* moves: it waits for another interval.  What a refresh does after its poll,
\* "rest": bindings, client scan, VPN profiles, Compute discovery, update
\* checks, has modules of its own.)
Dispatch(j) ==
  /\ loop /\ phase[j] = "idle"
  /\ batch' = [batch EXCEPT ![j] = [d \in Devices |-> IF d \in Polled(j) THEN [stage |-> "todo"] ELSE None]]
  /\ phase' = [phase EXCEPT ![j] = IF Polled(j) = {} THEN "rest" ELSE "read"]
  /\ UNCHANGED <<record, actual, process, news, redriven, counts>>

\* Defect: a runner that raises keeps its job's lock.
ReleaseUnlessError(j) ==
  /\ phase[j] = "rest"
  /\ phase' = [phase EXCEPT ![j] = "released"]
  /\ UNCHANGED <<record, actual, process, batch, news, redriven, counts>>

\* _execute: the lock is released before on_result; the worker is in _workers
\* until after it.  (Bound: on_result takes less than an interval.)
Release(j) ==
  /\ phase[j] \in {"rest", "error"}
  /\ phase' = [phase EXCEPT ![j] = "released"]
  /\ UNCHANGED <<record, actual, process, batch, news, redriven, counts>>

\* on_result (_record_job_result: the time and the error, for readiness and
\* diagnostics), then _finished.
RecordResult(j) ==
  /\ phase[j] = "released"
  /\ phase' = [phase EXCEPT ![j] = "idle"]
  /\ UNCHANGED <<record, actual, process, batch, news, redriven, counts>>

----------------------------------------------------------------------------
\* poll_once

\* _read, by the record as it is when the pool gets to it.
Answer(d) ==
  IF exists[d] # "yes" \/ actual[d] = None THEN [stage |-> "read", online |-> FALSE, value |-> None]
  ELSE [stage |-> "read", online |-> TRUE, value |-> IF rec[d].driver = "icmp" THEN None ELSE actual[d]]

Read(j, d) ==
  /\ phase[j] = "read" /\ batch[j][d] = [stage |-> "todo"]
  /\ batch' = [batch EXCEPT ![j][d] = Answer(d)]
  /\ UNCHANGED <<record, actual, process, phase, news, redriven, counts>>

\* All are read: nothing is recorded once _stop is set.
CheckStop(j) ==
  /\ phase[j] = "read" /\ \A d \in Devices : batch[j][d] # [stage |-> "todo"]
  /\ IF life = "stopping"
     THEN /\ phase' = [phase EXCEPT ![j] = "rest"]
          /\ batch' = [batch EXCEPT ![j] = Empty]
     ELSE phase' = [phase EXCEPT ![j] = "commit"] /\ UNCHANGED batch
  /\ UNCHANGED <<record, actual, process, news, redriven, counts>>

\* Defect: the first missed poll counts as all of them.
MissedAll(r, online) == IF online THEN 0 ELSE OFFLINE_AFTER

\* _apply_record: misses in a row, and the state they confirm.
Missed(r, online) == IF online THEN 0 ELSE IF r.miss < OFFLINE_AFTER THEN r.miss + 1 ELSE r.miss

Confirmed(r, online) ==
  IF online \/ (r.confirmed = None /\ Missed(r, online) < OFFLINE_AFTER) THEN "on"
  ELSE IF Missed(r, online) >= OFFLINE_AFTER THEN "off" ELSE r.confirmed

Transition(r, online) ==
  IF r.confirmed \in {None, Confirmed(r, online)} THEN None ELSE Confirmed(r, online)

\* _eval_alerts: a rule is evaluated on the fresh value only; the state of a
\* rule that is no more is dropped.
Breached(rule, value) == IF rule = "above" THEN value = "high" ELSE value = "low"
AlertState(r, value) ==
  IF r.driver = "icmp" THEN r.alertState
  ELSE IF r.rule = None THEN None
  ELSE IF value # None THEN [rule |-> r.rule, breached |-> Breached(r.rule, value)]
  ELSE IF r.alertState # None /\ r.alertState.rule = r.rule THEN r.alertState ELSE None

\* Defect: only a breach is an event.
BreachEvent(r, value) ==
  IF AlertState(r, value) \in {None, r.alertState} \/ ~AlertState(r, value).breached THEN None
  ELSE AlertState(r, value)

AlertEvent(r, value) ==
  IF AlertState(r, value) \in {None, r.alertState} THEN None ELSE AlertState(r, value)

Applied(r, result) ==
  [r EXCEPT !.online = result.online, !.miss = Missed(r, result.online),
            !.confirmed = Confirmed(r, result.online),
            !.alertState = AlertState(r, result.value)]

Capture(r, result) ==
  [stage |-> "append", online |-> result.online,
   transition |-> Transition(r, result.online), alert |-> AlertEvent(r, result.value)]

\* _record_all: one transaction for all Devices that are still there; what is
\* to be appended and told is captured in it.
Commit(j) ==
  /\ phase[j] = "commit"
  /\ LET live == {d \in Devices : batch[j][d] # None /\ exists[d] = "yes"} IN
     \/ /\ rec' = [d \in Devices |-> IF d \in live THEN Applied(rec[d], batch[j][d]) ELSE rec[d]]
        /\ batch' = [batch EXCEPT ![j] = [d \in Devices |->
             IF d \in live THEN Capture(rec[d], batch[j][d]) ELSE None]]
        /\ phase' = [phase EXCEPT ![j] = IF live = {} THEN "rest" ELSE "after"]
        /\ UNCHANGED counts
     \/ /\ Fault /\ phase' = [phase EXCEPT ![j] = "error"]
        /\ batch' = [batch EXCEPT ![j] = Empty]
        /\ UNCHANGED rec
  /\ UNCHANGED <<exists, series, legacy, deleting, actual, process, news, redriven>>

\* history.load: a missing file is an empty one.
Loaded(s) == IF s = None THEN <<>> ELSE s

\* _append_history: the point of this poll, and the cap.
WithPoint(s, online) ==
  LET longer == Append(s, online) IN IF Len(longer) > ONLINE_MAX THEN Tail(longer) ELSE longer

\* An exception leaves _record_all: the Devices after this one are neither
\* appended nor told.
Abandon(j) ==
  /\ Fault
  /\ batch' = [batch EXCEPT ![j] = Empty]
  /\ dropped' = dropped \cup {d \in Devices : batch[j][d] # None}
  /\ phase' = [phase EXCEPT ![j] = "error"]

\* history.update, Device by Device, whether or not the Device is still there.
AppendHistory(j, d) ==
  /\ phase[j] = "after" /\ batch[j][d] # None /\ batch[j][d].stage = "append"
  /\ \A e \in Devices : batch[j][e] # None => batch[j][e].stage = "append"
  /\ \/ /\ series' = [series EXCEPT ![d] = WithPoint(Loaded(@), batch[j][d].online)]
        /\ batch' = [batch EXCEPT ![j][d].stage = "tell"]
        /\ UNCHANGED <<phase, dropped, counts>>
     \/ Abandon(j) /\ UNCHANGED series
  /\ UNCHANGED <<exists, rec, legacy, deleting, actual, process, told, toldAlert, redriven>>

\* _finish_one: the transition, then the alert.  A push that fails is logged;
\* the recipients of a transition are looked up outside that protection.
Tell(j, d) ==
  LET c == batch[j][d]
      told1 == [batch EXCEPT ![j][d] = None]
      next == [phase EXCEPT ![j] = IF told1[j] = Empty THEN "rest" ELSE "after"]
  IN
  /\ phase[j] = "after" /\ c # None /\ c.stage = "tell"
  /\ \/ /\ told' = [told EXCEPT ![d] = IF c.transition = None THEN @ ELSE c.transition]
        /\ toldAlert' = [toldAlert EXCEPT ![d] = IF c.alert = None THEN @ ELSE c.alert]
        /\ batch' = told1 /\ phase' = next
        /\ UNCHANGED <<dropped, counts>>
     \/ /\ c.transition # None \/ c.alert # None
        /\ Fault
        /\ dropped' = dropped \cup {d}
        /\ batch' = told1 /\ phase' = next
        /\ UNCHANGED <<told, toldAlert>>
     \/ c.transition # None /\ Abandon(j) /\ UNCHANGED <<told, toldAlert>>
  /\ UNCHANGED <<record, actual, process, redriven>>

Worker(j) ==
  \/ Release(j) \/ RecordResult(j) \/ CheckStop(j) \/ Commit(j)
  \/ \E d \in Devices : Read(j, d) \/ AppendHistory(j, d) \/ Tell(j, d)

----------------------------------------------------------------------------
\* Requests, and the Devices themselves

Edit == life = "running" /\ edits < MaxEdits /\ edits' = edits + 1 /\ UNCHANGED <<changes, faults>>

CreateDevice(d, driver) ==
  /\ Edit /\ exists[d] = "no"
  /\ exists' = [exists EXCEPT ![d] = "yes"]
  /\ rec' = [rec EXCEPT ![d] = [Blank EXCEPT !.driver = driver]]
  /\ UNCHANGED <<series, legacy, deleting, actual, process, work, news, redriven>>

\* update_device: its driver, or its alert rules.
UpdateDevice(d) ==
  /\ Edit /\ exists[d] = "yes"
  /\ \/ \E driver \in Drivers \ {rec[d].driver} :
          /\ rec' = [rec EXCEPT ![d].driver = driver]
          /\ redriven' = redriven \cup {d}
     \/ \E rule \in (Rules \cup {None}) \ {rec[d].rule} :
          rec' = [rec EXCEPT ![d].rule = rule] /\ UNCHANGED redriven
  /\ UNCHANGED <<exists, series, legacy, deleting, actual, process, work, news>>

\* delete_device: out of the document; the history file goes afterwards.
DeleteDevice(d) ==
  /\ Edit /\ exists[d] = "yes"
  /\ exists' = [exists EXCEPT ![d] = "gone"]
  /\ rec' = [rec EXCEPT ![d] = Blank]
  /\ deleting' = deleting \cup {d}
  /\ UNCHANGED <<series, legacy, actual, process, work, news, redriven>>

DeleteHistory(d) ==
  /\ d \in deleting
  /\ deleting' = deleting \ {d}
  /\ series' = [series EXCEPT ![d] = None]
  /\ UNCHANGED <<exists, rec, legacy, actual, process, work, news, redriven, counts>>

\* EXTERNAL: a Device goes away, comes back, or its metric moves.
Change(d) ==
  /\ changes < MaxChanges /\ changes' = changes + 1
  /\ \E a \in Levels \cup {None} : a # actual[d] /\ actual' = [actual EXCEPT ![d] = a]
  /\ UNCHANGED <<record, process, work, news, redriven, edits, faults>>

Next ==
  \/ MigrateStrip \/ Start \/ Stop \/ LoopEnds \/ StopReturns \/ Crash
  \/ \E j \in Jobs : Dispatch(j) \/ Worker(j)
  \/ \E d \in Devices : MigrateSave(d) \/ UpdateDevice(d) \/ DeleteDevice(d) \/ DeleteHistory(d) \/ Change(d)
  \/ \E d \in Devices, driver \in Drivers : CreateDevice(d, driver)

\* Reads time out, the container is restarted, an interval comes round again
\* and again, threads are scheduled.
Fairness ==
  /\ WF_vars(MigrateStrip) /\ WF_vars(Start) /\ \A d \in Devices : WF_vars(MigrateSave(d))
  /\ WF_vars(LoopEnds) /\ WF_vars(StopReturns)
  /\ \A j \in Jobs : WF_vars(Dispatch(j)) /\ WF_vars(Worker(j))

Spec == Init /\ [][Next]_vars /\ Fairness

----------------------------------------------------------------------------
\* Properties

\* When nothing of a Device is in flight and nothing was dropped, the document,
\* the history file and the notifications say the same: the last point is the
\* last poll, the last push is the confirmed state, and the last alert the
\* state of the rule.  The first confirmed state is no transition and not pushed;
\* it is offline only where one missed poll is enough.  (A Device whose driver was
\* edited may be polled by two jobs at once.)
SourcesAgree ==
  \A d \in Devices \ (redriven \cup dropped) : exists[d] = "yes" /\ ~InFlight(d) =>
    /\ rec[d].confirmed # None =>
         series[d] \notin {None, <<>>} /\ series[d][Len(series[d])] = rec[d].online
    /\ \/ told[d] = rec[d].confirmed
       \/ told[d] = None /\ (rec[d].confirmed = "off" => OFFLINE_AFTER = 1)
    /\ rec[d].alertState # None => toldAlert[d] = rec[d].alertState

\* "only flip to offline once we've missed OFFLINE_AFTER polls in a row": the
\* series of a Device that is confirmed offline ends in that many misses, or in
\* as many as it keeps.
Lesser(m, n) == IF m < n THEN m ELSE n
EndsInMisses(s, n) == n <= Len(s) /\ \A i \in Len(s) - n + 1 .. Len(s) : ~s[i]
OfflineIsDebounced ==
  \A d \in Devices \ (redriven \cup dropped) :
    exists[d] = "yes" /\ ~InFlight(d) /\ rec[d].confirmed = "off" =>
      EndsInMisses(series[d], Lesser(OFFLINE_AFTER, ONLINE_MAX))

\* A Device that stays away is reported offline.
OutageIsReported ==
  \A d \in Devices :
    (exists[d] = "yes" /\ actual[d] = None /\ rec[d].confirmed # None) ~>
      \/ actual[d] # None \/ exists[d] = "gone" \/ rec[d].confirmed = "off" \/ ~loop

\* "Safe to call on every boot": the migration loses no history.
HistoryIsMigrated == \A d \in Devices : legacy[d] # "lost"

\* "edge-trigger (notify only when a rule crosses into or out of breach)": no
\* recovery is pushed for a rule that was not reported in breach.
RecoveryFollowsBreach ==
  [][\A d \in Devices \ (redriven \cup dropped) :
       toldAlert'[d] # toldAlert[d] /\ ~toldAlert'[d].breached =>
         toldAlert[d] # None /\ toldAlert[d].breached]_vars

----------------------------------------------------------------------------
\* The inductive invariant of the proofs

\* No worker outlives its process, and history is migrated before there is one.
Lifecycle ==
  /\ life \in {"down", "migrating", "stopped"} => ~loop /\ Idle
  /\ \A d \in Devices :
       /\ legacy[d] = "embedded" => life = "down" /\ rec[d].confirmed = None
       /\ legacy[d] = "moving" => life = "migrating" /\ rec[d].confirmed = None

\* What a job holds of a Device follows its phase.
BatchFollowsPhase ==
  \A j \in Jobs, d \in Devices : batch[j][d] # None =>
    \/ phase[j] = "read" /\ batch[j][d].stage \in {"todo", "read"}
    \/ phase[j] = "commit" /\ batch[j][d].stage = "read"
    \/ phase[j] = "after" /\ batch[j][d].stage \in {"append", "tell"}

\* A Device is polled by the job of its driver alone, as long as that is not edited.
PolledByItsJob ==
  \A j \in Jobs, d \in Devices : batch[j][d] # None =>
    /\ exists[d] # "no"
    /\ exists[d] = "yes" /\ d \notin redriven => JobOf(rec[d].driver) = j

\* The count of misses and the confirmed state of a record.
RecordSound(r) ==
  /\ r.confirmed = None \/ r.online => r.miss = 0
  /\ r.confirmed = "off" => r.miss = OFFLINE_AFTER

DevicesSound ==
  \A d \in Devices :
    /\ RecordSound(rec[d])
    /\ d \in deleting => exists[d] = "gone"
    /\ exists[d] = "no" => told[d] = None

\* The pushes t and a are the last a record r calls for; the series s ends as r says.
Heard(r, t, a) ==
  /\ t = r.confirmed \/ (t = None /\ (r.confirmed = "off" => OFFLINE_AFTER = 1))
  /\ r.alertState # None => a = r.alertState
Written(r, s) ==
  /\ r.confirmed # None => Len(s) > 0 /\ s[Len(s)] = r.online
  /\ EndsInMisses(s, Lesser(r.miss, ONLINE_MAX))

Carries(j, d) == batch[j][d] # None /\ batch[j][d].stage \in {"append", "tell"}

\* What was committed is written and told, or carried by the job that will do so.
Carried(d, c) ==
  /\ Heard(rec[d], IF c.transition = None THEN told[d] ELSE c.transition,
                   IF c.alert = None THEN toldAlert[d] ELSE c.alert)
  /\ rec[d].confirmed # None
  /\ c.stage = "tell" => Written(rec[d], Loaded(series[d]))
  /\ c.stage = "append" =>
       /\ c.online = rec[d].online
       /\ rec[d].miss > 0 => EndsInMisses(Loaded(series[d]), Lesser(rec[d].miss - 1, ONLINE_MAX))

Consistent(d) ==
  exists[d] = "yes" /\ d \notin redriven \cup dropped =>
    /\ (\A j \in Jobs : ~Carries(j, d)) =>
         Heard(rec[d], told[d], toldAlert[d]) /\ Written(rec[d], Loaded(series[d]))
    /\ \A j \in Jobs : Carries(j, d) => Carried(d, batch[j][d])

IInv ==
  /\ TypeOK /\ Lifecycle /\ BatchFollowsPhase /\ PolledByItsJob /\ DevicesSound
  /\ \A d \in Devices : Consistent(d)
=============================================================================
