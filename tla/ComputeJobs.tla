----------------------------- MODULE ComputeJobs -----------------------------
(***************************************************************************)
(* The maintenance-job engine of backend/compute_maintenance.py: request   *)
(* threads that prepare and start sequences of jobs, one daemon thread per *)
(* sequence that runs the Ansible playbooks, the two collections of the    *)
(* JSON document the engine writes (computeJobs and the maintenance states *)
(* on computeInstances), the remote playbook processes on the controller,  *)
(* deletion of a parent Device, re-mapping of an instance to another       *)
(* inventory host, failed store writes, crash and restart.                 *)
(*                                                                         *)
(* Every store.update is one atomic step (it holds the store's lock); what *)
(* the code does in several store transactions is several steps here.      *)
(***************************************************************************)
EXTENDS Naturals, FiniteSets, Optional

CONSTANTS
  Instances,      \* Compute instance ids
  Devices,        \* parent Proxmox Device ids
  ParentDevice,   \* parentDeviceId of every instance
  Targets,        \* Ansible inventory hosts
  Operations,     \* the maintenance operations in use
  Outcomes,       \* job states a finished playbook can be given
  MaxJobs,        \* MAX_JOBS
  MaxSequence,    \* bound: jobs in one sequence
  JobBudget,      \* bound: jobs created in a behaviour
  MaxCrashes,     \* bound: crashes in a behaviour
  MaxStoreErrors, \* bound: failed store transactions in a behaviour
  MaxRemaps       \* bound: changes of a mapping in a behaviour

ReadOperations == {"docker_discovery", "os_check", "docker_check", "appliance_health"}
AllOperations == ReadOperations \cup {"os_update", "docker_project_update"}
ActiveStates == {"queued", "running"}
TerminalStates == {"successful", "incomplete", "failed", "unreachable", "cancelled"}
StateKeys == {"updateState", "dockerDiscoveryState", "dockerUpdateState",
              "applianceHealthState"}

ASSUME ConstantsAssumption ==
  /\ ParentDevice \in [Instances -> Devices]
  /\ Operations \subseteq AllOperations
  /\ Outcomes \subseteq TerminalStates \ {"cancelled"}
  /\ MaxJobs \in Nat /\ MaxSequence \in Nat /\ JobBudget \in Nat
  /\ MaxCrashes \in Nat /\ MaxStoreErrors \in Nat /\ MaxRemaps \in Nat
  /\ None \notin Instances /\ None \notin Targets /\ None \notin AllOperations

\* Job ids are random tokens, never reused; ids grow along a sequence, so the
\* order of a thread's job list is the order of the ids.
JobIds == 1..JobBudget

VARIABLES
  jobState,    \* document.computeJobs[j].state, "absent" when there is no record
  present,     \* the keys of document.computeInstances
  mapping,     \* inventoryHost an instance is mapped to, or None
  view,        \* the maintenance states of an instance: label and lastJobId
  req,         \* the job as _new_job built it, with the thread that runs it
  pc,          \* where the thread of a job is in _run_job
  outcome,     \* the local variable "state" of _run_job
  existing,    \* the local variable "existing" of _run_job (docker_discovery)
  playbook,    \* jobs whose ansible-playbook process is alive on the controller
  process,     \* the application process is "up" or "down"
  nextId, crashes, storeErrors, remaps

doc == <<jobState, present, mapping, view>>
worker == <<req, pc, outcome, existing>>
bounds == <<nextId, crashes, storeErrors, remaps>>
vars == <<doc, worker, playbook, process, bounds>>

\* Control points at which a thread of this process owns the job.
Working == {"queued", "mark_running", "mark_instance", "launch", "waiting",
            "commit_job", "reconcile", "set_docker", "commit_state", "report",
            "except_job", "except_state"}
Control == Working \cup {"none", "prepared", "done", "dead"}

Busy == {"checking", "updating"}
ViewLabels == {"absent", "unknown"} \cup Busy \cup TerminalStates
Absent == [state |-> "absent", job |-> 0]
Unknown == [state |-> "unknown", job |-> 0]

Active(j) == jobState[j] \in ActiveStates
Stored == {j \in JobIds : jobState[j] # "absent"}
Peers(j) == {k \in JobIds : req[k].thread = req[j].thread}

TypeOK ==
  /\ jobState \in [JobIds -> {"absent"} \cup ActiveStates \cup TerminalStates]
  /\ present \subseteq Instances
  /\ mapping \in [Instances -> Targets \cup {None}]
  /\ view \in [Instances -> [StateKeys -> [state : ViewLabels, job : Nat]]]
  /\ req \in [JobIds -> [inst : Instances \cup {None}, op : Operations \cup {None},
                         target : Targets \cup {None}, thread : Nat]]
  /\ pc \in [JobIds -> Control]
  /\ outcome \in [JobIds -> TerminalStates]
  /\ existing \in [JobIds -> [state : ViewLabels, job : Nat]]
  /\ playbook \subseteq JobIds
  /\ process \in {"up", "down"}
  /\ nextId \in Nat /\ crashes \in Nat /\ storeErrors \in Nat /\ remaps \in Nat

Init ==
  /\ jobState = [j \in JobIds |-> "absent"]
  /\ present = Instances
  /\ mapping \in [Instances -> Targets]
  /\ view = [i \in Instances |-> [k \in StateKeys |->
               IF k = "updateState" THEN Unknown ELSE Absent]]
  /\ req = [j \in JobIds |-> [inst |-> None, op |-> None, target |-> None, thread |-> 0]]
  /\ pc = [j \in JobIds |-> "none"]
  /\ outcome = [j \in JobIds |-> "failed"]
  /\ existing = [j \in JobIds |-> Absent]
  /\ playbook = {}
  /\ process = "up"
  /\ nextId = 1 /\ crashes = 0 /\ storeErrors = 0 /\ remaps = 0

----------------------------------------------------------------------------
\* Requests: start_job, start_job_sequence

StateKey(op) ==
  CASE op \in {"os_check", "os_update"} -> "updateState"
    [] op = "docker_discovery" -> "dockerDiscoveryState"
    [] op \in {"docker_check", "docker_project_update"} -> "dockerUpdateState"
    [] op = "appliance_health" -> "applianceHealthState"

ProjectOperation(op) == op \in {"docker_check", "docker_project_update"}

\* _job_context: the checks a request makes on the document it loaded.  A
\* project operation needs a discovered project (dockerUpdateState stands for
\* the project states under instance.docker and their aggregate).
JobContext(i, op) ==
  /\ i \in present
  /\ mapping[i] # None
  /\ ProjectOperation(op) => view[i]["dockerUpdateState"].state # "absent"

\* _new_job for the request t: the first job of a request names it; a further
\* job joins a request only as start_job_sequence builds it, read operations
\* of one instance, none twice.
NewJob(i, op, t) ==
  /\ process = "up"
  /\ nextId \in JobIds
  /\ JobContext(i, op)
  /\ \/ t = nextId
     \/ /\ t \in JobIds /\ t < nextId
        /\ pc[t] = "prepared" /\ req[t].thread = t /\ req[t].inst = i
        /\ op \in ReadOperations
        /\ \A k \in Peers(t) : req[k].op \in ReadOperations \ {op}
        /\ Cardinality(Peers(t)) < MaxSequence
  /\ req' = [req EXCEPT ![nextId] =
               [inst |-> i, op |-> op, target |-> mapping[i], thread |-> t]]
  /\ pc' = [pc EXCEPT ![nextId] = "prepared"]
  /\ nextId' = nextId + 1
  /\ UNCHANGED <<doc, outcome, existing, playbook, process, crashes, storeErrors, remaps>>

\* What _start_jobs may prune, given the records js after the insertion: as
\* many terminal records as exceed MAX_JOBS, or all of them.  (The code takes
\* the oldest; no property here tells finished jobs apart by their age.)
Prunable(js) ==
  LET terminal == {j \in JobIds : js[j] \in TerminalStates}
      total == Cardinality({j \in JobIds : js[j] # "absent"})
      excess == IF total > MaxJobs THEN total - MaxJobs ELSE 0
      count == IF excess < Cardinality(terminal) THEN excess ELSE Cardinality(terminal)
  IN  {S \in SUBSET terminal : Cardinality(S) = count}

Request(t) == {j \in JobIds : req[j].thread = t /\ pc[j] = "prepared"}

\* Defect: only a running job counts as active.
HasRunningJob(i) == \E k \in JobIds : jobState[k] = "running" /\ req[k].inst = i

HasActiveJob(i) == \E k \in JobIds : Active(k) /\ req[k].inst = i

\* _start_jobs accepts the request t: one transaction under _LOCK inserts the
\* jobs and prunes, then the thread starts.
StartJobs(t) ==
  /\ process = "up"
  /\ Request(t) # {}
  /\ ~HasActiveJob(req[t].inst)
  /\ LET inserted == [j \in JobIds |-> IF j \in Request(t) THEN "queued" ELSE jobState[j]]
     IN  \E S \in Prunable(inserted) :
           jobState' = [j \in JobIds |-> IF j \in S THEN "absent" ELSE inserted[j]]
  /\ pc' = [j \in JobIds |-> IF j \in Request(t) THEN "queued" ELSE pc[j]]
  /\ UNCHANGED <<present, mapping, view, req, outcome, existing, playbook, process, bounds>>

\* _start_jobs refuses the request: Conflict, or the transaction fails.
RefuseJobs(t) ==
  /\ process = "up"
  /\ Request(t) # {}
  /\ \/ HasActiveJob(req[t].inst) /\ storeErrors' = storeErrors
     \/ storeErrors < MaxStoreErrors /\ storeErrors' = storeErrors + 1
  /\ pc' = [j \in JobIds |-> IF j \in Request(t) THEN "dead" ELSE pc[j]]
  /\ UNCHANGED <<doc, req, outcome, existing, playbook, process, nextId, crashes, remaps>>

----------------------------------------------------------------------------
\* The thread of a sequence: _run_job_sequence, _run_job

At(j, label) == process = "up" /\ pc[j] = label

Goto(j, label) == pc' = [pc EXCEPT ![j] = label]

\* A store transaction of the thread raises; handler is the label the
\* exception takes it to.
StoreError(j, handler) ==
  /\ storeErrors < MaxStoreErrors
  /\ storeErrors' = storeErrors + 1
  /\ Goto(j, handler)
  /\ UNCHANGED <<doc, req, outcome, existing, playbook, process, nextId, crashes, remaps>>

\* ... outside the try, or in its handler: the thread ends, the rest of its
\* list is never looked at again.
ThreadDies(j) ==
  /\ storeErrors < MaxStoreErrors
  /\ storeErrors' = storeErrors + 1
  /\ pc' = [k \in JobIds |-> IF k \in Peers(j) /\ pc[k] \in Working THEN "dead" ELSE pc[k]]
  /\ UNCHANGED <<doc, req, outcome, existing, playbook, process, nextId, crashes, remaps>>

\* Defect: _set_job creates the record it does not find.
SetJobUpsert(j, s) == [jobState EXCEPT ![j] = s]

\* The records after _set_job(j, state = s): nothing when the record is gone.
SetJob(j, s) ==
  IF jobState[j] = "absent" THEN jobState ELSE [jobState EXCEPT ![j] = s]

\* The instance states after _set_maintenance_state or
\* _set_docker_project_state of job j: the latter writes to every instance
\* mapped to the job's target that lists the project, the former to the job's
\* instance, whatever it is mapped to now.  A label stands for the display
\* states the result of a job with that outcome is given.
SetView(j, label) ==
  LET op == req[j].op
      key == StateKey(op)
      written(i) ==
        /\ i \in present
        /\ IF ProjectOperation(op)
           THEN mapping[i] = req[j].target /\ view[i][key].state # "absent"
           ELSE i = req[j].inst
  IN  [i \in Instances |-> [k \in StateKeys |->
         IF k = key /\ written(i) THEN [state |-> label, job |-> j] ELSE view[i][k]]]

\* Defect: the jobs of a sequence are handed to a pool at once.
BeginJobUnordered(j) ==
  /\ At(j, "queued")
  /\ Goto(j, IF jobState[j] = "absent" THEN "done" ELSE "mark_running")
  /\ UNCHANGED <<doc, req, outcome, existing, playbook, process, bounds>>

\* for job_id in job_ids: _run_job(job_id); get_job finds the record or not.
BeginJob(j) ==
  /\ At(j, "queued")
  /\ \A k \in Peers(j) : k < j => pc[k] = "done"
  /\ Goto(j, IF jobState[j] = "absent" THEN "done" ELSE "mark_running")
  /\ UNCHANGED <<doc, req, outcome, existing, playbook, process, bounds>>

MarkRunning(j) ==
  /\ At(j, "mark_running")
  /\ \/ /\ jobState' = SetJob(j, "running")
        /\ Goto(j, "mark_instance")
        /\ UNCHANGED <<present, mapping, view, req, outcome, existing,
                       playbook, process, bounds>>
     \/ ThreadDies(j)

RunningLabel(op) == IF op \in ReadOperations THEN "checking" ELSE "updating"

MarkInstance(j) ==
  /\ At(j, "mark_instance")
  /\ \/ /\ view' = SetView(j, RunningLabel(req[j].op))
        /\ Goto(j, "launch")
        /\ UNCHANGED <<jobState, present, mapping, req, outcome, existing,
                       playbook, process, bounds>>
     \/ ThreadDies(j)

\* The controller is unusable or the SSH connection fails; or the playbook starts.
Launch(j) ==
  /\ At(j, "launch")
  /\ \/ Goto(j, "except_job") /\ UNCHANGED playbook
     \/ Goto(j, "waiting") /\ playbook' = playbook \cup {j}
  /\ UNCHANGED <<doc, req, outcome, existing, process, bounds>>

\* Defect: the instance is updated before the job record.
CollectStateFirst(j) ==
  /\ At(j, "waiting")
  /\ j \in playbook
  /\ playbook' = playbook \ {j}
  /\ \E o \in Outcomes : outcome' = [outcome EXCEPT ![j] = o]
  /\ Goto(j, "commit_state")
  /\ UNCHANGED <<doc, req, existing, process, bounds>>

\* The playbook ends and its result is classified.
Collect(j) ==
  /\ At(j, "waiting")
  /\ j \in playbook
  /\ playbook' = playbook \ {j}
  /\ \E o \in Outcomes : outcome' = [outcome EXCEPT ![j] = o]
  /\ Goto(j, "commit_job")
  /\ UNCHANGED <<doc, req, existing, process, bounds>>

\* The read of the SSH channel times out or the connection is lost; the
\* remote process is not ended by that.
GiveUp(j) ==
  /\ At(j, "waiting")
  /\ Goto(j, "except_job")
  /\ UNCHANGED <<doc, req, outcome, existing, playbook, process, bounds>>

\* A playbook nobody waits for ends on the controller.
RemoteEnds(j) ==
  /\ j \in playbook
  /\ ~At(j, "waiting")
  /\ playbook' = playbook \ {j}
  /\ UNCHANGED <<doc, worker, process, bounds>>

AfterCommitJob(j) ==
  IF req[j].op = "docker_discovery" /\ outcome[j] = "successful"
  THEN "reconcile" ELSE "commit_state"

CommitJob(j) ==
  /\ At(j, "commit_job")
  /\ \/ /\ jobState' = SetJob(j, outcome[j])
        /\ Goto(j, AfterCommitJob(j))
        /\ UNCHANGED <<present, mapping, view, req, outcome, existing, playbook, process, bounds>>
     \/ StoreError(j, "except_job")

\* docker_discovery: the states of the known projects are read ...
Reconcile(j) ==
  /\ At(j, "reconcile")
  /\ existing' = [existing EXCEPT ![j] =
       IF req[j].inst \in present THEN view[req[j].inst]["dockerUpdateState"] ELSE Absent]
  /\ Goto(j, "set_docker")
  /\ UNCHANGED <<doc, req, outcome, playbook, process, bounds>>

\* ... and written back, in a transaction of its own, with the inventory.
SetDocker(j) ==
  /\ At(j, "set_docker")
  /\ \/ /\ view' = IF req[j].inst \in present
                   THEN [view EXCEPT ![req[j].inst]["dockerUpdateState"] =
                           IF existing[j].state = "absent" THEN Unknown ELSE existing[j]]
                   ELSE view
        /\ Goto(j, "commit_state")
        /\ UNCHANGED <<jobState, present, mapping, req, outcome, existing,
                       playbook, process, bounds>>
     \/ StoreError(j, "except_job")

CommitState(j) ==
  /\ At(j, "commit_state")
  /\ \/ /\ view' = SetView(j, outcome[j])
        /\ Goto(j, IF outcome[j] = "successful" THEN "done" ELSE "report")
        /\ UNCHANGED <<jobState, present, mapping, req, outcome, existing,
                       playbook, process, bounds>>
     \/ StoreError(j, "except_job")

\* followUpRecommended and _log_job_issue: both read or write the store.
Report(j) ==
  /\ At(j, "report")
  /\ \/ /\ Goto(j, "done")
        /\ UNCHANGED <<doc, req, outcome, existing, playbook, process, bounds>>
     \/ StoreError(j, "except_job")

\* Defect: the handler forgets the job record.
ExceptJobForgets(j) ==
  /\ At(j, "except_job")
  /\ outcome' = [outcome EXCEPT ![j] = "failed"]
  /\ Goto(j, "except_state")
  /\ UNCHANGED <<doc, req, existing, playbook, process, bounds>>

\* The handler records the job as failed, whatever it was before.
ExceptJob(j) ==
  /\ At(j, "except_job")
  /\ \/ /\ jobState' = SetJob(j, "failed")
        /\ outcome' = [outcome EXCEPT ![j] = "failed"]
        /\ Goto(j, "except_state")
        /\ UNCHANGED <<present, mapping, view, req, existing, playbook, process, bounds>>
     \/ ThreadDies(j)

ExceptState(j) ==
  /\ At(j, "except_state")
  /\ \/ /\ view' = SetView(j, outcome[j])
        /\ Goto(j, "done")
        /\ UNCHANGED <<jobState, present, mapping, req, outcome, existing,
                       playbook, process, bounds>>
     \/ ThreadDies(j)

RunJob(j) ==
  \/ BeginJob(j) \/ MarkRunning(j) \/ MarkInstance(j) \/ Launch(j) \/ Collect(j)
  \/ GiveUp(j) \/ CommitJob(j) \/ Reconcile(j) \/ SetDocker(j) \/ CommitState(j)
  \/ Report(j) \/ ExceptJob(j) \/ ExceptState(j)

----------------------------------------------------------------------------
\* Everyone else

\* devices.delete_device: the instances of the Device and their job records
\* go in one transaction, active ones too; no thread is told.
DeleteDevice(d) ==
  LET gone == {i \in present : ParentDevice[i] = d}
      cascaded(j) == jobState[j] # "absent" /\ req[j].inst \in gone
  IN  /\ process = "up"
      /\ gone # {}
      /\ present' = present \ gone
      /\ jobState' = [j \in JobIds |-> IF cascaded(j) THEN "absent" ELSE jobState[j]]
      /\ UNCHANGED <<mapping, view, worker, playbook, process, bounds>>

\* ansible_integration.set_mapping: a changed association (target, or the
\* operations enabled for the same target) clears what was collected before;
\* the states the new host's capabilities support start as unknown.
SetMapping(i, t) ==
  /\ process = "up"
  /\ i \in present
  /\ remaps < MaxRemaps
  /\ remaps' = remaps + 1
  /\ mapping' = [mapping EXCEPT ![i] = t]
  /\ \E supported \in SUBSET {"updateState", "applianceHealthState"} :
       view' = [view EXCEPT ![i] = [k \in StateKeys |->
                  IF k \in supported /\ t # None THEN Unknown ELSE Absent]]
  /\ UNCHANGED <<jobState, present, worker, playbook, process, nextId, crashes, storeErrors>>

\* The process ends; its daemon threads and requests end with it.
Crash ==
  /\ process = "up"
  /\ crashes < MaxCrashes
  /\ crashes' = crashes + 1
  /\ process' = "down"
  /\ pc' = [j \in JobIds |->
              IF pc[j] \in Working \cup {"prepared"} THEN "dead" ELSE pc[j]]
  /\ UNCHANGED <<doc, req, outcome, existing, playbook, nextId, storeErrors, remaps>>

\* Defect: queued jobs are left for a thread that no longer exists.
RecoverRunningOnly ==
  /\ process = "down"
  /\ process' = "up"
  /\ jobState' = [j \in JobIds |-> IF jobState[j] = "running" THEN "failed" ELSE jobState[j]]
  /\ UNCHANGED <<present, mapping, view, worker, playbook, bounds>>

\* recover_interrupted_jobs, run by the lifespan before anything is served.
RecoverInterruptedJobs ==
  /\ process = "down"
  /\ process' = "up"
  /\ jobState' = [j \in JobIds |-> IF Active(j) THEN "failed" ELSE jobState[j]]
  /\ UNCHANGED <<present, mapping, view, worker, playbook, bounds>>

Next ==
  \/ \E i \in Instances, op \in Operations, t \in JobIds : NewJob(i, op, t)
  \/ \E t \in JobIds : StartJobs(t)
  \/ \E t \in JobIds : RefuseJobs(t)
  \/ \E j \in JobIds : RunJob(j)
  \/ \E j \in JobIds : RemoteEnds(j)
  \/ \E d \in Devices : DeleteDevice(d)
  \/ \E i \in Instances, t \in Targets \cup {None} : SetMapping(i, t)
  \/ Crash
  \/ RecoverInterruptedJobs

Spec == Init /\ [][Next]_vars

\* A live thread keeps running (every wait in _run_job has a timeout) and a
\* stopped container is restarted; nobody has to send requests.
FairSpec ==
  /\ Spec
  /\ \A j \in JobIds : WF_vars(RunJob(j))
  /\ WF_vars(RecoverInterruptedJobs)

----------------------------------------------------------------------------
\* Properties

\* docs/compute.md: "One manual job or refresh sequence may be active per
\* Compute instance".  Two active records of an instance belong to one
\* sequence, although terminal records are written before the thread is
\* done, records disappear under running threads, and requests act on a
\* document they read earlier.
OneSequencePerInstance ==
  \A j, k \in JobIds :
    Active(j) /\ Active(k) /\ req[j].inst = req[k].inst => req[j].thread = req[k].thread

\* "... and at most one job in that sequence runs at a time": while the
\* instance exists, no two threads of this process are between starting and
\* concluding one of its jobs.
InConclusion == {"mark_instance", "launch", "waiting", "commit_job", "except_job"}
OneJobAtATime ==
  \A j, k \in JobIds :
    /\ pc[j] \in InConclusion /\ pc[k] \in InConclusion
    /\ Active(j) /\ Active(k)
    /\ req[j].inst = req[k].inst
    => j = k

\* "queues ... as an ordered sequence": a job has left the queue only when
\* every earlier job of its sequence is finished or deleted.
SequenceOrder ==
  \A j, k \in JobIds :
    /\ req[j].thread = req[k].thread /\ j < k
    /\ jobState[k] \notin {"absent", "queued"}
    => ~Active(j)

\* An active record blocks its instance, so a live thread must own it: as
\* long as no store transaction failed, no interleaving of requests,
\* deletions, crashes and restarts strands one.
NoStrandedJob ==
  process = "up" /\ storeErrors = 0 => \A j \in JobIds : Active(j) => pc[j] \in Working

\* An instance never shows a result its job record does not back: the record
\* is committed first, so a crash between the two transactions loses the
\* display, never the audit record.  (The error path may turn a recorded
\* failure of another kind into "failed".)
ViewBackedByRecord ==
  \A i \in Instances, k \in StateKeys :
    LET v == view[i][k]
    IN  v.state \in TerminalStates => jobState[v.job] \in {"absent", "failed", v.state}

\* A finished job is never revived and a deleted one never comes back,
\* although threads keep writing for records others removed.
StaysFinal(j) ==
  /\ jobState[j] \in TerminalStates => jobState'[j] \in TerminalStates \cup {"absent"}
  /\ jobState[j] = "absent" /\ pc[j] # "prepared" => jobState'[j] = "absent"
NoRevival == [][\A j \in JobIds : StaysFinal(j)]_vars

\* Every accepted job reaches a terminal state or is deleted, across crashes,
\* deletions and timeouts, unless a store transaction fails.
JobsConclude ==
  \A j \in JobIds : Active(j) ~> ~Active(j) \/ storeErrors > 0

\* set_mapping: "Results belong to the old target and must not be rendered as
\* if they had been collected from the newly selected inventory host."
ResultsBelongToTarget ==
  \A i \in present, k \in StateKeys :
    view[i][k].job # 0 => req[view[i][k].job].target = mapping[i]

\* docs/compute.md: "Actions that are temporarily unavailable while their
\* project is being checked or updated remain visibly disabled": the label
\* that disables them goes away.
BusyIsTemporary ==
  \A i \in Instances, k \in StateKeys :
    i \in present /\ view[i][k].state \in Busy
      ~> ~(i \in present /\ view[i][k].state \in Busy)

----------------------------------------------------------------------------
\* The inductive invariant of the proofs (module ComputeJobs_proofs)

\* What the record of a job can be, by the place its thread has reached.
RecordMatchesThread ==
  \A j \in JobIds :
    /\ pc[j] \in {"none", "prepared"} => jobState[j] = "absent"
    /\ pc[j] \in {"queued", "mark_running"} => jobState[j] \in {"absent", "queued"}
    /\ pc[j] \in {"mark_instance", "launch", "waiting", "commit_job"}
         => jobState[j] \in {"absent", "running"}
    /\ pc[j] \in {"reconcile", "set_docker", "commit_state", "report"}
         => jobState[j] \in {"absent", outcome[j]}
    /\ pc[j] = "except_job" => jobState[j] # "queued"
    /\ pc[j] = "except_state" => jobState[j] \in {"absent", "failed"} /\ outcome[j] = "failed"
    /\ pc[j] = "done" => ~Active(j)

\* A request is named after its first job, and all its jobs share its
\* instance; ids from nextId on are unused.
RequestsWellFormed ==
  \A j \in JobIds :
    /\ j >= nextId => pc[j] = "none" /\ req[j].thread = 0
    /\ j < nextId =>
         /\ pc[j] # "none"
         /\ req[j].thread \in JobIds
         /\ req[j].thread < nextId
         /\ req[req[j].thread].thread = req[j].thread
         /\ req[req[j].thread].inst = req[j].inst

\* The jobs of a request are started together ...
PreparedTogether ==
  \A j, k \in JobIds :
    req[j].thread = req[k].thread /\ pc[j] = "prepared" => pc[k] = "prepared"

\* ... and then run one after the other.
NotBegun == {"none", "prepared", "queued", "dead"}
RunInOrder ==
  \A j, k \in JobIds :
    req[j].thread = req[k].thread /\ j < k /\ pc[k] \notin NotBegun => pc[j] = "done"

\* A process that is down has no threads and no requests.
DownIsIdle ==
  process = "down" => \A j \in JobIds : pc[j] \notin Working \cup {"prepared"}

IInv ==
  /\ TypeOK
  /\ RecordMatchesThread
  /\ RequestsWellFormed
  /\ PreparedTogether
  /\ RunInOrder
  /\ DownIsIdle
  /\ OneSequencePerInstance
  /\ SequenceOrder
  /\ NoStrandedJob

\* A displayed result and the record behind it, for the second invariant.
Backed(v) ==
  v.state \in TerminalStates =>
    /\ v.job \in JobIds
    /\ jobState[v.job] \in {"absent", "failed", v.state}
    /\ pc[v.job] \in {"report", "except_job", "except_state", "done", "dead"}
DisplaysBacked ==
  /\ \A i \in Instances, k \in StateKeys : Backed(view[i][k])
  /\ \A j \in JobIds : Backed(existing[j])

=============================================================================
