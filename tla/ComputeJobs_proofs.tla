------------------------- MODULE ComputeJobs_proofs -------------------------
(***************************************************************************)
(* TLAPS proofs about the maintenance-job engine: type correctness first,  *)
(* then one inductive invariant that ties a job's record to the place its  *)
(* thread has reached, and from it the safety properties, for any number   *)
(* of instances, Devices, targets, jobs, crashes and store errors.         *)
(*                                                                         *)
(* The second part is about Results, what the jobs make of the output of   *)
(* their playbooks: a verdict that is kept of a project was in the output  *)
(* of its last check, and what was there is kept until the project's next  *)
(* job (ProjectSaid), through discoveries and refreshes of the inventory;  *)
(* the state of the host is the summary of just these (HostIsSummary).     *)
(***************************************************************************)
EXTENDS ComputeJobs, Results, TLAPS

\* The labels a step may move a thread to.
LEMMA Labels ==
  /\ "none" \in Control /\ "prepared" \in Control /\ "queued" \in Control
  /\ "mark_running" \in Control /\ "mark_instance" \in Control /\ "launch" \in Control
  /\ "waiting" \in Control /\ "commit_job" \in Control /\ "reconcile" \in Control
  /\ "set_docker" \in Control /\ "commit_state" \in Control /\ "report" \in Control
  /\ "except_job" \in Control /\ "except_state" \in Control
  /\ "done" \in Control /\ "dead" \in Control
  BY DEF Control, Working

\* The view a thread writes is well typed.
LEMMA SetViewType ==
  ASSUME TypeOK, NEW j \in JobIds, NEW label \in ViewLabels
  PROVE  SetView(j, label) \in [Instances -> [StateKeys -> [state : ViewLabels, job : Nat]]]
  BY DEF TypeOK, SetView, JobIds

\* A thread's write to its record keeps the records well typed.
LEMMA SetJobType ==
  ASSUME TypeOK, NEW j \in JobIds, NEW s \in ActiveStates \cup TerminalStates
  PROVE  SetJob(j, s) \in [JobIds -> {"absent"} \cup ActiveStates \cup TerminalStates]
  BY DEF TypeOK, SetJob

\* A failed store transaction only moves threads.
LEMMA StoreErrorType ==
  ASSUME TypeOK, NEW j \in JobIds,
         ThreadDies(j) \/ StoreError(j, "except_job")
  PROVE  TypeOK'
  <1> USE Labels DEF TypeOK, doc, Goto
  <1>1. CASE ThreadDies(j)
    BY <1>1 DEF ThreadDies
  <1>2. CASE StoreError(j, "except_job")
    BY <1>2 DEF StoreError
  <1> QED
    BY <1>1, <1>2

\* Every step of a thread keeps the types.
LEMMA RunJobType ==
  ASSUME TypeOK, NEW j \in JobIds, RunJob(j)
  PROVE  TypeOK'
  <1> USE Labels DEF doc, bounds, Goto
  <1>1. CASE BeginJob(j)
    BY <1>1 DEF BeginJob, TypeOK
  <1>2. CASE MarkRunning(j)
    <2>1. SetJob(j, "running") \in [JobIds -> {"absent"} \cup ActiveStates \cup TerminalStates]
      BY SetJobType DEF ActiveStates
    <2>2. CASE ThreadDies(j)
      BY <2>2, StoreErrorType
    <2>3. CASE ~ThreadDies(j)
      BY <1>2, <2>1, <2>3 DEF MarkRunning, TypeOK
    <2> QED
      BY <2>2, <2>3
  <1>3. CASE MarkInstance(j)
    <2>1. RunningLabel(req[j].op) \in ViewLabels
      BY DEF RunningLabel, ViewLabels, Busy
    <2>2. SetView(j, RunningLabel(req[j].op))
            \in [Instances -> [StateKeys -> [state : ViewLabels, job : Nat]]]
      BY <2>1, SetViewType
    <2>3. CASE ThreadDies(j)
      BY <2>3, StoreErrorType
    <2>4. CASE ~ThreadDies(j)
      BY <1>3, <2>2, <2>4 DEF MarkInstance, TypeOK
    <2> QED
      BY <2>3, <2>4
  <1>4. CASE Launch(j)
    BY <1>4 DEF Launch, TypeOK
  <1>5. CASE Collect(j)
    BY <1>5, ConstantsAssumption DEF Collect, TypeOK
  <1>6. CASE GiveUp(j)
    BY <1>6 DEF GiveUp, TypeOK
  <1>7. CASE CommitJob(j)
    <2>1. SetJob(j, outcome[j]) \in [JobIds -> {"absent"} \cup ActiveStates \cup TerminalStates]
      BY SetJobType DEF TypeOK
    <2>2. CASE StoreError(j, "except_job")
      BY <2>2, StoreErrorType
    <2>3. CASE ~StoreError(j, "except_job")
      BY <1>7, <2>1, <2>3 DEF CommitJob, AfterCommitJob, TypeOK
    <2> QED
      BY <2>2, <2>3
  <1>8. CASE Reconcile(j)
    BY <1>8 DEF Reconcile, Absent, ViewLabels, StateKeys, TypeOK
  <1>9. CASE SetDocker(j)
    <2>1. CASE StoreError(j, "except_job")
      BY <2>1, StoreErrorType
    <2>2. CASE ~StoreError(j, "except_job")
      <3>1. /\ existing[j] \in [state : ViewLabels, job : Nat]
            /\ Unknown \in [state : ViewLabels, job : Nat]
            /\ "dockerUpdateState" \in StateKeys
        BY DEF TypeOK, Unknown, ViewLabels, StateKeys
      <3>2. view' \in [Instances -> [StateKeys -> [state : ViewLabels, job : Nat]]]
        <4>1. CASE req[j].inst \in present
          <5> DEFINE v == IF existing[j].state = "absent" THEN Unknown ELSE existing[j]
                     i == req[j].inst
          <5>1. i \in Instances /\ v \in [state : ViewLabels, job : Nat]
            BY <3>1, <4>1 DEF TypeOK
          <5>2. view' = [view EXCEPT ![i] = [view[i] EXCEPT !["dockerUpdateState"] = v]]
            BY <1>9, <2>2, <4>1 DEF SetDocker
          <5>3. [view[i] EXCEPT !["dockerUpdateState"] = v]
                  \in [StateKeys -> [state : ViewLabels, job : Nat]]
            BY <3>1, <5>1 DEF TypeOK
          <5> HIDE DEF v, i
          <5> QED
            BY <5>1, <5>2, <5>3 DEF TypeOK
        <4>2. CASE req[j].inst \notin present
          BY <1>9, <2>2, <4>2 DEF SetDocker, TypeOK
        <4> QED
          BY <4>1, <4>2
      <3> QED
        BY <1>9, <2>2, <3>2 DEF SetDocker, TypeOK
    <2> QED
      BY <2>1, <2>2
  <1>10. CASE CommitState(j)
    <2>1. SetView(j, outcome[j]) \in [Instances -> [StateKeys -> [state : ViewLabels, job : Nat]]]
      BY SetViewType DEF TypeOK, ViewLabels
    <2>2. CASE StoreError(j, "except_job")
      BY <2>2, StoreErrorType
    <2>3. CASE ~StoreError(j, "except_job")
      BY <1>10, <2>1, <2>3 DEF CommitState, TypeOK
    <2> QED
      BY <2>2, <2>3
  <1>11. CASE Report(j)
    <2>1. CASE StoreError(j, "except_job")
      BY <2>1, StoreErrorType
    <2>2. CASE ~StoreError(j, "except_job")
      BY <1>11, <2>2 DEF Report, TypeOK
    <2> QED
      BY <2>1, <2>2
  <1>12. CASE ExceptJob(j)
    <2>1. /\ SetJob(j, "failed") \in [JobIds -> {"absent"} \cup ActiveStates \cup TerminalStates]
          /\ "failed" \in TerminalStates
      BY SetJobType DEF TerminalStates
    <2>2. CASE ThreadDies(j)
      BY <2>2, StoreErrorType
    <2>3. CASE ~ThreadDies(j)
      BY <1>12, <2>1, <2>3, ZenonT(40) DEF ExceptJob, TypeOK
    <2> QED
      BY <2>2, <2>3
  <1>13. CASE ExceptState(j)
    <2>1. SetView(j, outcome[j]) \in [Instances -> [StateKeys -> [state : ViewLabels, job : Nat]]]
      BY SetViewType DEF TypeOK, ViewLabels
    <2>2. CASE ThreadDies(j)
      BY <2>2, StoreErrorType
    <2>3. CASE ~ThreadDies(j)
      BY <1>13, <2>1, <2>3 DEF ExceptState, TypeOK
    <2> QED
      BY <2>2, <2>3
  <1> QED
    BY <1>1, <1>2, <1>3, <1>4, <1>5, <1>6, <1>7, <1>8, <1>9, <1>10, <1>11, <1>12,
       <1>13 DEF RunJob

\* Every variable of the engine keeps its type, whatever the threads,
\* requests, administrators, crashes and store errors do.
THEOREM TypeCorrect == Spec => []TypeOK
  <1>1. Init => TypeOK
    BY ConstantsAssumption DEF Init, TypeOK, Absent, Unknown, ViewLabels, Control,
       TerminalStates, JobIds, StateKeys
  <1>2. TypeOK /\ [Next]_vars => TypeOK'
    <2> SUFFICES ASSUME TypeOK, [Next]_vars PROVE TypeOK'
      OBVIOUS
    <2> USE ConstantsAssumption, Labels DEF TypeOK, doc, worker, bounds
    <2>1. ASSUME NEW i \in Instances, NEW op \in Operations, NEW t \in JobIds,
                 NewJob(i, op, t)
          PROVE  TypeOK'
      <3>1. /\ nextId \in JobIds
            /\ req' = [req EXCEPT ![nextId] =
                         [inst |-> i, op |-> op, target |-> mapping[i], thread |-> t]]
            /\ t \in Nat
        BY <2>1 DEF NewJob, JobIds
      <3>2. [inst |-> i, op |-> op, target |-> mapping[i], thread |-> t] \in
              [inst : Instances \cup {None}, op : Operations \cup {None},
               target : Targets \cup {None}, thread : Nat]
        BY <3>1
      <3>3. req' \in [JobIds -> [inst : Instances \cup {None}, op : Operations \cup {None},
                                 target : Targets \cup {None}, thread : Nat]]
        BY <3>1, <3>2
      <3> QED
        BY <2>1, <3>1, <3>3 DEF NewJob
    <2>2. ASSUME NEW t \in JobIds, StartJobs(t) PROVE TypeOK'
      BY <2>2 DEF StartJobs, ActiveStates
    <2>3. ASSUME NEW t \in JobIds, RefuseJobs(t) PROVE TypeOK'
      BY <2>3 DEF RefuseJobs
    <2>4. ASSUME NEW j \in JobIds, RunJob(j) PROVE TypeOK'
      BY <2>4, RunJobType
    <2>5. ASSUME NEW j \in JobIds, RemoteEnds(j) PROVE TypeOK'
      BY <2>5 DEF RemoteEnds
    <2>6. ASSUME NEW d \in Devices, DeleteDevice(d) PROVE TypeOK'
      BY <2>6 DEF DeleteDevice
    <2>7. ASSUME NEW i \in Instances, NEW t \in Targets \cup {None}, SetMapping(i, t)
          PROVE  TypeOK'
      BY <2>7 DEF SetMapping, Absent, Unknown, ViewLabels
    <2>8. CASE Crash
      BY <2>8 DEF Crash
    <2>9. CASE RecoverInterruptedJobs
      BY <2>9 DEF RecoverInterruptedJobs, TerminalStates
    <2>10. CASE UNCHANGED vars
      BY <2>10 DEF vars
    <2> QED
      BY <2>1, <2>2, <2>3, <2>4, <2>5, <2>6, <2>7, <2>8, <2>9, <2>10 DEF Next
  <1> QED
    BY <1>1, <1>2, PTL DEF Spec

\* The control points at which a thread works on the job at hand.
OnJob == Working \ {"queued"}

\* What the record of a job at label l can be (the body of RecordMatchesThread).
Fits(l, state, o) ==
  /\ l \in {"none", "prepared"} => state = "absent"
  /\ l \in {"queued", "mark_running"} => state \in {"absent", "queued"}
  /\ l \in {"mark_instance", "launch", "waiting", "commit_job"}
       => state \in {"absent", "running"}
  /\ l \in {"reconcile", "set_docker", "commit_state", "report"} => state \in {"absent", o}
  /\ l = "except_job" => state # "queued"
  /\ l = "except_state" => state \in {"absent", "failed"} /\ o = "failed"
  /\ l = "done" => state \notin ActiveStates

\* RecordMatchesThread in terms of Fits ...
LEMMA FitsRecord ==
  RecordMatchesThread <=> \A j \in JobIds : Fits(pc[j], jobState[j], outcome[j])
  BY DEF RecordMatchesThread, Fits, Active

\* ... and of the next state.
LEMMA FitsRecordPrime ==
  RecordMatchesThread' <=> \A j \in JobIds : Fits(pc'[j], jobState'[j], outcome'[j])
  BY DEF RecordMatchesThread, Fits, Active

\* A step of a thread on the job at hand preserves the invariant when it
\* moves to a label that fits the record it leaves, touches no other record
\* and does not make the job active again.
LEMMA ThreadStep ==
  ASSUME IInv, TypeOK', NEW j \in JobIds, NEW l \in (Working \cup {"done"}) \ {"queued"},
         process = "up", process' = process, pc[j] \in OnJob,
         req' = req, nextId' = nextId, pc' = [pc EXCEPT ![j] = l],
         storeErrors' = 0 => storeErrors = 0,
         \A k \in JobIds \ {j} : jobState'[k] = jobState[k] /\ outcome'[k] = outcome[k],
         jobState'[j] \in ActiveStates => jobState[j] \in ActiveStates,
         Fits(l, jobState'[j], outcome'[j])
  PROVE  IInv'
  <1>1. \A k \in JobIds : pc'[k] = IF k = j THEN l ELSE pc[k]
    BY DEF IInv, TypeOK
  <1>2. l \notin NotBegun /\ pc[j] \notin NotBegun
    BY DEF NotBegun, OnJob, Working
  <1>3. RecordMatchesThread'
    BY <1>1, FitsRecord, FitsRecordPrime DEF IInv
  <1>4. RequestsWellFormed'
    BY <1>1, <1>2 DEF IInv, RequestsWellFormed, NotBegun
  <1>5. PreparedTogether'
    BY <1>1, <1>2 DEF IInv, PreparedTogether, NotBegun
  <1>6. RunInOrder'
    BY <1>1, <1>2 DEF IInv, RunInOrder, OnJob, Working, JobIds
  <1>7. DownIsIdle'
    BY DEF DownIsIdle
  <1>8. \A k \in JobIds : Active(k)' => Active(k)
    BY DEF Active
  <1>9. OneSequencePerInstance'
    BY <1>8 DEF IInv, OneSequencePerInstance
  <1>10. SequenceOrder'
    <2> SUFFICES ASSUME NEW a \in JobIds, NEW b \in JobIds,
                        req[a].thread = req[b].thread, a < b,
                        jobState'[b] \notin {"absent", "queued"}
                 PROVE  ~Active(a)
      BY <1>8 DEF SequenceOrder
    <2>1. CASE b = j
      BY <1>2, <2>1 DEF IInv, RunInOrder, RecordMatchesThread
    <2>2. CASE b # j
      BY <2>2 DEF IInv, SequenceOrder
    <2> QED
      BY <2>1, <2>2
  <1>11. NoStrandedJob'
    BY <1>1, <1>8 DEF IInv, NoStrandedJob, Fits, Active, ActiveStates
  <1> QED
    BY <1>3, <1>4, <1>5, <1>6, <1>7, <1>9, <1>10, <1>11 DEF IInv

\* A thread that ends on a failed store transaction leaves the records alone.
LEMMA ThreadDiesStep ==
  ASSUME IInv, TypeOK', NEW j \in JobIds, process = "up", pc[j] \in OnJob, ThreadDies(j)
  PROVE  IInv'
  <1>1. /\ process' = process /\ req' = req /\ nextId' = nextId /\ outcome' = outcome
        /\ jobState' = jobState /\ storeErrors' = storeErrors + 1
        /\ \A k \in JobIds : pc'[k] = IF req[k].thread = req[j].thread /\ pc[k] \in Working
                                    THEN "dead" ELSE pc[k]
    BY DEF ThreadDies, doc, Peers
  <1>2. RecordMatchesThread'
    BY <1>1, FitsRecord, FitsRecordPrime DEF IInv, Fits
  <1>3. RequestsWellFormed'
    BY <1>1 DEF IInv, RequestsWellFormed, Working
  <1>4. PreparedTogether'
    BY <1>1 DEF IInv, PreparedTogether, OnJob, Working
  <1>5. RunInOrder'
    BY <1>1 DEF IInv, RunInOrder, NotBegun, Working
  <1>6. DownIsIdle' /\ OneSequencePerInstance' /\ SequenceOrder'
    BY <1>1 DEF IInv, DownIsIdle, OneSequencePerInstance, SequenceOrder, Active
  <1>7. NoStrandedJob'
    BY <1>1 DEF IInv, TypeOK, NoStrandedJob
  <1> QED
    BY <1>2, <1>3, <1>4, <1>5, <1>6, <1>7 DEF IInv

\* A failed store transaction inside the try takes the thread to the handler.
LEMMA StoreErrorStep ==
  ASSUME IInv, TypeOK', NEW j \in JobIds, process = "up", pc[j] \in OnJob,
         jobState[j] # "queued", StoreError(j, "except_job")
  PROVE  IInv'
  <1>1. /\ process' = process /\ req' = req /\ nextId' = nextId /\ outcome' = outcome
        /\ jobState' = jobState /\ storeErrors' = storeErrors + 1
        /\ pc' = [pc EXCEPT ![j] = "except_job"]
    BY DEF StoreError, doc, Goto
  <1>2. storeErrors' # 0
    BY <1>1 DEF IInv, TypeOK
  <1>3. Fits("except_job", jobState'[j], outcome'[j])
    BY <1>1 DEF Fits
  <1>4. "except_job" \in (Working \cup {"done"}) \ {"queued"}
    BY DEF Working
  <1> HIDE DEF Fits
  <1> QED
    BY <1>1, <1>2, <1>3, <1>4, ThreadStep

\* Every step of a thread preserves the invariant.
LEMMA RunJobStep ==
  ASSUME IInv, TypeOK', NEW j \in JobIds, RunJob(j)
  PROVE  IInv'
  <1> DEFINE Steps == (Working \cup {"done"}) \ {"queued"}
  <1>0. /\ jobState[j] \in {"absent"} \cup ActiveStates \cup TerminalStates
        /\ outcome[j] \in TerminalStates
        /\ Fits(pc[j], jobState[j], outcome[j])
    BY FitsRecord DEF IInv, TypeOK
  <1>1. CASE BeginJob(j)
    <2>1. /\ process' = process /\ req' = req /\ nextId' = nextId /\ outcome' = outcome
          /\ jobState' = jobState /\ storeErrors' = storeErrors /\ pc[j] = "queued"
          /\ process = "up"
          /\ \A k \in JobIds : req[k].thread = req[j].thread /\ k < j => pc[k] = "done"
          /\ \A k \in JobIds : pc'[k] = IF k = j
                 THEN IF jobState[j] = "absent" THEN "done" ELSE "mark_running" ELSE pc[k]
      BY <1>1 DEF BeginJob, At, Goto, Peers, doc, bounds, IInv, TypeOK
    <2>2. RecordMatchesThread'
      BY <2>1, <1>0, FitsRecord, FitsRecordPrime DEF IInv, Fits, ActiveStates
    <2>3. RequestsWellFormed'
      BY <2>1 DEF IInv, RequestsWellFormed
    <2>4. PreparedTogether'
      BY <2>1 DEF IInv, PreparedTogether
    <2>5. RunInOrder'
      BY <2>1 DEF IInv, RunInOrder, NotBegun
    <2>6. DownIsIdle' /\ OneSequencePerInstance' /\ SequenceOrder'
      BY <2>1 DEF IInv, DownIsIdle, OneSequencePerInstance, SequenceOrder, Active
    <2>7. NoStrandedJob'
      BY <2>1 DEF IInv, NoStrandedJob, Active, ActiveStates, Working
    <2> QED
      BY <2>2, <2>3, <2>4, <2>5, <2>6, <2>7 DEF IInv
  <1>2. CASE MarkRunning(j)
    <2>1. process = "up" /\ pc[j] = "mark_running" /\ pc[j] \in OnJob
      BY <1>2 DEF MarkRunning, At, OnJob, Working
    <2>2. CASE ThreadDies(j)
      BY <2>1, <2>2, ThreadDiesStep
    <2>3. CASE ~ThreadDies(j)
      <3>1. /\ process' = process /\ req' = req /\ nextId' = nextId /\ outcome' = outcome
            /\ storeErrors' = storeErrors /\ pc' = [pc EXCEPT ![j] = "mark_instance"]
            /\ jobState' = SetJob(j, "running")
        BY <1>2, <2>3 DEF MarkRunning, Goto, bounds
      <3>2. /\ \A k \in JobIds \ {j} : jobState'[k] = jobState[k]
            /\ jobState'[j] = IF jobState[j] = "absent" THEN "absent" ELSE "running"
        BY <3>1 DEF SetJob, IInv, TypeOK
      <3>3. /\ jobState'[j] \in ActiveStates => jobState[j] \in ActiveStates
            /\ Fits("mark_instance", jobState'[j], outcome'[j])
            /\ "mark_instance" \in Steps
        BY <1>0, <2>1, <3>2 DEF Fits, ActiveStates, Working
      <3> QED
        BY <2>1, <3>1, <3>2, <3>3, ThreadStep
    <2> QED
      BY <2>2, <2>3
  <1>3. CASE MarkInstance(j)
    <2>1. process = "up" /\ pc[j] = "mark_instance" /\ pc[j] \in OnJob
      BY <1>3 DEF MarkInstance, At, OnJob, Working
    <2>2. CASE ThreadDies(j)
      BY <2>1, <2>2, ThreadDiesStep
    <2>3. CASE ~ThreadDies(j)
      <3>1. /\ process' = process /\ req' = req /\ nextId' = nextId /\ outcome' = outcome
            /\ storeErrors' = storeErrors /\ pc' = [pc EXCEPT ![j] = "launch"]
            /\ jobState' = jobState
        BY <1>3, <2>3 DEF MarkInstance, Goto, bounds
      <3>2. Fits("launch", jobState'[j], outcome'[j]) /\ "launch" \in Steps
        BY <1>0, <2>1, <3>1 DEF Fits, Working
      <3> QED
        BY <2>1, <3>1, <3>2, ThreadStep
    <2> QED
      BY <2>2, <2>3
  <1>4. CASE Launch(j) \/ GiveUp(j)
    <2>1. process = "up" /\ pc[j] \in {"launch", "waiting"} /\ pc[j] \in OnJob
      BY <1>4 DEF Launch, GiveUp, At, OnJob, Working
    <2>2. PICK l \in {"except_job", "waiting"} :
            /\ process' = process /\ req' = req /\ nextId' = nextId /\ outcome' = outcome
            /\ storeErrors' = storeErrors /\ jobState' = jobState
            /\ pc' = [pc EXCEPT ![j] = l]
      BY <1>4 DEF Launch, GiveUp, Goto, bounds, doc
    <2>3. Fits(l, jobState'[j], outcome'[j]) /\ l \in Steps
      BY <1>0, <2>1, <2>2 DEF Fits, Working
    <2> QED
      BY <2>1, <2>2, <2>3, ThreadStep
  <1>5. CASE Collect(j)
    <2>1. process = "up" /\ pc[j] = "waiting" /\ pc[j] \in OnJob
      BY <1>5 DEF Collect, At, OnJob, Working
    <2>2. /\ process' = process /\ req' = req /\ nextId' = nextId
          /\ storeErrors' = storeErrors /\ jobState' = jobState
          /\ pc' = [pc EXCEPT ![j] = "commit_job"]
          /\ \A k \in JobIds \ {j} : outcome'[k] = outcome[k]
      BY <1>5 DEF Collect, Goto, bounds, doc, IInv, TypeOK
    <2>3. Fits("commit_job", jobState'[j], outcome'[j]) /\ "commit_job" \in Steps
      BY <1>0, <2>1, <2>2 DEF Fits, Working
    <2> QED
      BY <2>1, <2>2, <2>3, ThreadStep
  <1>6. CASE CommitJob(j)
    <2>1. process = "up" /\ pc[j] = "commit_job" /\ pc[j] \in OnJob
      BY <1>6 DEF CommitJob, At, OnJob, Working
    <2>2. CASE StoreError(j, "except_job")
      BY <1>0, <2>1, <2>2, StoreErrorStep DEF Fits
    <2>3. CASE ~StoreError(j, "except_job")
      <3>1. PICK l \in {"reconcile", "commit_state"} :
              /\ process' = process /\ req' = req /\ nextId' = nextId /\ outcome' = outcome
              /\ storeErrors' = storeErrors /\ pc' = [pc EXCEPT ![j] = l]
              /\ jobState' = SetJob(j, outcome[j])
        BY <1>6, <2>3 DEF CommitJob, AfterCommitJob, Goto, bounds
      <3>2. /\ \A k \in JobIds \ {j} : jobState'[k] = jobState[k]
            /\ jobState'[j] = IF jobState[j] = "absent" THEN "absent" ELSE outcome[j]
        BY <3>1 DEF SetJob, IInv, TypeOK
      <3>3. /\ jobState'[j] \in ActiveStates => jobState[j] \in ActiveStates
            /\ Fits(l, jobState'[j], outcome'[j])
            /\ l \in Steps
        BY <1>0, <3>1, <3>2 DEF Fits, ActiveStates, TerminalStates, Working
      <3> QED
        BY <2>1, <3>1, <3>2, <3>3, ThreadStep
    <2> QED
      BY <2>2, <2>3
  <1>7. CASE Reconcile(j) \/ SetDocker(j) \/ CommitState(j) \/ Report(j)
    <2>1. /\ process = "up" /\ pc[j] \in OnJob
          /\ pc[j] \in {"reconcile", "set_docker", "commit_state", "report"}
      BY <1>7 DEF Reconcile, SetDocker, CommitState, Report, At, OnJob, Working
    <2>2. CASE StoreError(j, "except_job")
      BY <1>0, <2>1, <2>2, StoreErrorStep DEF Fits, TerminalStates
    <2>3. CASE ~StoreError(j, "except_job")
      <3>1. PICK l \in {"set_docker", "commit_state", "report", "done"} :
              /\ process' = process /\ req' = req /\ nextId' = nextId /\ outcome' = outcome
              /\ storeErrors' = storeErrors /\ pc' = [pc EXCEPT ![j] = l]
              /\ jobState' = jobState
        BY <1>7, <2>3 DEF Reconcile, SetDocker, CommitState, Report, Goto, bounds, doc
      <3>2. Fits(l, jobState'[j], outcome'[j]) /\ l \in Steps
        BY <1>0, <2>1, <3>1 DEF Fits, ActiveStates, TerminalStates, Working
      <3> QED
        BY <2>1, <3>1, <3>2, ThreadStep
    <2> QED
      BY <2>2, <2>3
  <1>8. CASE ExceptJob(j)
    <2>1. process = "up" /\ pc[j] = "except_job" /\ pc[j] \in OnJob
      BY <1>8 DEF ExceptJob, At, OnJob, Working
    <2>2. CASE ThreadDies(j)
      BY <2>1, <2>2, ThreadDiesStep
    <2>3. CASE ~ThreadDies(j)
      <3>1. /\ process' = process /\ req' = req /\ nextId' = nextId
            /\ storeErrors' = storeErrors /\ pc' = [pc EXCEPT ![j] = "except_state"]
            /\ jobState' = SetJob(j, "failed")
            /\ outcome' = [outcome EXCEPT ![j] = "failed"]
        BY <1>8, <2>3 DEF ExceptJob, Goto, bounds
      <3>2. /\ \A k \in JobIds \ {j} : jobState'[k] = jobState[k] /\ outcome'[k] = outcome[k]
            /\ jobState'[j] = IF jobState[j] = "absent" THEN "absent" ELSE "failed"
            /\ outcome'[j] = "failed"
        BY <3>1 DEF SetJob, IInv, TypeOK
      <3>3. /\ jobState'[j] \in ActiveStates => jobState[j] \in ActiveStates
            /\ Fits("except_state", jobState'[j], outcome'[j])
            /\ "except_state" \in Steps
        BY <3>2 DEF Fits, ActiveStates, Working
      <3> QED
        BY <2>1, <3>1, <3>2, <3>3, ThreadStep
    <2> QED
      BY <2>2, <2>3
  <1>9. CASE ExceptState(j)
    <2>1. process = "up" /\ pc[j] = "except_state" /\ pc[j] \in OnJob
      BY <1>9 DEF ExceptState, At, OnJob, Working
    <2>2. CASE ThreadDies(j)
      BY <2>1, <2>2, ThreadDiesStep
    <2>3. CASE ~ThreadDies(j)
      <3>1. /\ process' = process /\ req' = req /\ nextId' = nextId /\ outcome' = outcome
            /\ storeErrors' = storeErrors /\ pc' = [pc EXCEPT ![j] = "done"]
            /\ jobState' = jobState
        BY <1>9, <2>3 DEF ExceptState, Goto, bounds
      <3>2. Fits("done", jobState'[j], outcome'[j]) /\ "done" \in Steps
        BY <1>0, <2>1, <3>1 DEF Fits, ActiveStates, Working
      <3> QED
        BY <2>1, <3>1, <3>2, ThreadStep
    <2> QED
      BY <2>2, <2>3
  <1> QED
    BY <1>1, <1>2, <1>3, <1>4, <1>5, <1>6, <1>7, <1>8, <1>9 DEF RunJob

\* A request that builds a job adds an unused id to its own list.
LEMMA NewJobStep ==
  ASSUME IInv, TypeOK', NEW i \in Instances, NEW op \in Operations, NEW t \in JobIds,
         NewJob(i, op, t)
  PROVE  IInv'
  <1> DEFINE n == nextId
  <1>1. /\ process' = process /\ process = "up" /\ outcome' = outcome /\ jobState' = jobState
        /\ storeErrors' = storeErrors /\ nextId' = n + 1 /\ n \in JobIds /\ n \in Nat
        /\ \A k \in JobIds : pc'[k] = IF k = n THEN "prepared" ELSE pc[k]
        /\ \A k \in JobIds \ {n} : req'[k] = req[k]
        /\ req'[n].thread = t /\ req'[n].inst = i
    BY DEF NewJob, doc, IInv, TypeOK
  <1>2. \/ t = n
        \/ t < n /\ pc[t] = "prepared" /\ req[t].thread = t /\ req[t].inst = i
    BY DEF NewJob
  <1>3. /\ pc[n] = "none" /\ req[n].thread = 0 /\ jobState[n] = "absent"
        /\ \A k \in JobIds : k > n => pc[k] = "none" /\ req[k].thread = 0
        /\ \A k \in JobIds : k < n => req[k].thread \in JobIds /\ req[k].thread < n
    BY <1>1 DEF IInv, RequestsWellFormed, RecordMatchesThread, JobIds
  <1>4. \A k \in JobIds : k \in Nat /\ k # 0
    BY DEF JobIds
  <1> HIDE DEF n
  <1>5. RecordMatchesThread'
    BY <1>1, <1>3, FitsRecord, FitsRecordPrime, ZenonT(40) DEF IInv, Fits
  <1>6. RequestsWellFormed'
    <2> SUFFICES ASSUME NEW k \in JobIds
                 PROVE  /\ k >= n + 1 => pc'[k] = "none" /\ req'[k].thread = 0
                        /\ k < n + 1 =>
                             /\ pc'[k] # "none"
                             /\ req'[k].thread \in JobIds
                             /\ req'[k].thread < n + 1
                             /\ req'[req'[k].thread].thread = req'[k].thread
                             /\ req'[req'[k].thread].inst = req'[k].inst
      BY <1>1 DEF RequestsWellFormed
    <2>1. CASE k > n
      BY <1>1, <1>3, <1>4, <2>1
    <2>2. CASE k = n
      BY <1>1, <1>2, <1>4, <2>2
    <2>3. CASE k < n
      <3>1. /\ pc[k] # "none" /\ req[k].thread \in JobIds /\ req[k].thread < n
            /\ req[req[k].thread].thread = req[k].thread
            /\ req[req[k].thread].inst = req[k].inst
        BY <2>3 DEF IInv, RequestsWellFormed, n
      <3>2. k # n /\ req[k].thread # n /\ k < n + 1 /\ req[k].thread < n + 1 /\ ~(k >= n + 1)
        <4> DEFINE r == req[k].thread
        <4>1. n \in Nat /\ k \in Nat /\ r \in Nat /\ r < n
          BY <1>1, <1>4, <3>1
        <4> HIDE DEF r
        <4>2. k # n /\ r # n /\ k < n + 1 /\ r < n + 1 /\ ~(k >= n + 1)
          BY <2>3, <4>1
        <4> QED
          BY <4>2 DEF r
      <3>3. pc'[k] = pc[k] /\ req'[k] = req[k] /\ req'[req[k].thread] = req[req[k].thread]
        BY <1>1, <3>1, <3>2
      <3> QED
        BY <3>1, <3>2, <3>3
    <2>4. k > n \/ k = n \/ k < n
      <3>1. k \in Nat /\ n \in Nat
        BY <1>1, <1>4
      <3> QED
        BY <3>1
    <2> QED
      BY <2>1, <2>2, <2>3, <2>4
  <1>7. PreparedTogether'
    <2> SUFFICES ASSUME NEW a \in JobIds, NEW b \in JobIds,
                        req'[a].thread = req'[b].thread, pc'[a] = "prepared"
                 PROVE  pc'[b] = "prepared"
      BY DEF PreparedTogether
    <2>1. CASE b = n
      BY <1>1, <2>1
    <2>2. CASE b # n /\ a # n
      BY <1>1, <2>2 DEF IInv, PreparedTogether
    <2>3. CASE b # n /\ a = n
      <3>1. req[b].thread = t
        BY <1>1, <2>3
      <3>2. t # n
        BY <1>1, <1>3, <1>4, <2>3, <3>1
      <3> QED
        BY <1>1, <1>2, <2>3, <3>1, <3>2 DEF IInv, PreparedTogether
    <2> QED
      BY <2>1, <2>2, <2>3
  <1>8. RunInOrder'
    <2> SUFFICES ASSUME NEW a \in JobIds, NEW b \in JobIds,
                        req'[a].thread = req'[b].thread, a < b, pc'[b] \notin NotBegun
                 PROVE  pc'[a] = "done"
      BY DEF RunInOrder
    <2>1. b # n /\ a # n
      BY <1>1, <1>3, <1>4 DEF NotBegun
    <2> QED
      BY <1>1, <2>1 DEF IInv, RunInOrder
  <1>9. DownIsIdle'
    BY <1>1 DEF DownIsIdle
  <1>10. \A k \in JobIds : Active(k)' => k # n /\ Active(k)
    BY <1>1, <1>3 DEF Active, ActiveStates
  <1>11. OneSequencePerInstance'
    BY <1>1, <1>10 DEF IInv, OneSequencePerInstance
  <1>12. SequenceOrder'
    BY <1>1, <1>3, <1>10 DEF IInv, SequenceOrder
  <1>13. NoStrandedJob'
    BY <1>1, <1>10 DEF IInv, NoStrandedJob
  <1> QED
    BY <1>5, <1>6, <1>7, <1>8, <1>9, <1>11, <1>12, <1>13 DEF IInv

\* Starting a request: its records appear together, after a look at the
\* records in the same transaction; only finished records are pruned.
LEMMA StartJobsStep ==
  ASSUME IInv, TypeOK', NEW t \in JobIds, StartJobs(t)
  PROVE  IInv'
  <1>1. PICK S \in SUBSET {j \in JobIds :
                 (IF j \in Request(t) THEN "queued" ELSE jobState[j]) \in TerminalStates} :
          \A j \in JobIds : jobState'[j] = IF j \in S THEN "absent" ELSE
                              IF j \in Request(t) THEN "queued" ELSE jobState[j]
    BY DEF StartJobs, Prunable
  <1>2. /\ process' = process /\ process = "up" /\ outcome' = outcome /\ req' = req
        /\ storeErrors' = storeErrors /\ nextId' = nextId
        /\ \A k \in JobIds : pc'[k] = IF k \in Request(t) THEN "queued" ELSE pc[k]
        /\ ~HasActiveJob(req[t].inst)
    BY DEF StartJobs, bounds
  <1>3. \A k \in JobIds : k \in Request(t) <=> req[k].thread = t /\ pc[k] = "prepared"
    BY DEF Request
  <1>4. \A k \in Request(t) : k \in JobIds /\ req[k].inst = req[t].inst /\ k < nextId
    BY DEF Request, IInv, RequestsWellFormed, TypeOK, JobIds
  <1>5. \A k \in JobIds : jobState'[k] = jobState[k] \/ k \in Request(t) \/
                          (jobState[k] \in TerminalStates /\ jobState'[k] = "absent")
    BY <1>1
  <1>6. \A k \in Request(t) : k \in JobIds /\ jobState'[k] = "queued"
    BY <1>1, <1>4 DEF TerminalStates
  <1>7. \A k \in JobIds : Active(k)' => Active(k) \/ k \in Request(t)
    BY <1>5 DEF Active, ActiveStates
  <1>8. RecordMatchesThread'
    BY <1>2, <1>5, <1>6, FitsRecord, FitsRecordPrime DEF IInv, Fits, ActiveStates
  <1>9. RequestsWellFormed'
    BY <1>2, <1>4 DEF IInv, RequestsWellFormed, TypeOK, JobIds
  <1>10. PreparedTogether'
    BY <1>2, <1>3 DEF IInv, PreparedTogether
  <1>11. RunInOrder'
    BY <1>2, <1>3 DEF IInv, RunInOrder, NotBegun, PreparedTogether
  <1>12. DownIsIdle'
    BY <1>2 DEF DownIsIdle
  <1>13. OneSequencePerInstance'
    <2> SUFFICES ASSUME NEW a \in JobIds, NEW b \in JobIds, Active(a)', Active(b)',
                        req[a].inst = req[b].inst
                 PROVE  req[a].thread = req[b].thread
      BY <1>2 DEF OneSequencePerInstance
    <2>1. CASE a \in Request(t) /\ b \in Request(t)
      BY <1>3, <2>1
    <2>2. CASE a \in Request(t) /\ Active(b)
      BY <1>2, <1>4, <2>2 DEF HasActiveJob
    <2>3. CASE Active(a) /\ b \in Request(t)
      BY <1>2, <1>4, <2>3 DEF HasActiveJob
    <2>4. CASE Active(a) /\ Active(b)
      BY <2>4 DEF IInv, OneSequencePerInstance
    <2> QED
      BY <1>7, <2>1, <2>2, <2>3, <2>4
  <1>14. SequenceOrder'
    <2> SUFFICES ASSUME NEW a \in JobIds, NEW b \in JobIds,
                        req[a].thread = req[b].thread, a < b,
                        jobState'[b] \notin {"absent", "queued"}
                 PROVE  ~Active(a)'
      BY <1>2 DEF SequenceOrder
    <2>1. b \notin Request(t) /\ jobState[b] = jobState'[b]
      BY <1>5, <1>6
    <2>2. ~Active(a)
      BY <2>1 DEF IInv, SequenceOrder
    <2>3. a \notin Request(t)
      BY <1>3, <2>1 DEF IInv, PreparedTogether
    <2> QED
      BY <1>7, <2>2, <2>3
  <1>15. NoStrandedJob'
    BY <1>2, <1>7 DEF IInv, NoStrandedJob, Working
  <1> QED
    BY <1>8, <1>9, <1>10, <1>11, <1>12, <1>13, <1>14, <1>15 DEF IInv

\* Refusing a request forgets its jobs, which have no records.
LEMMA RefuseJobsStep ==
  ASSUME IInv, TypeOK', NEW t \in JobIds, RefuseJobs(t)
  PROVE  IInv'
  <1>1. /\ process' = process /\ process = "up" /\ outcome' = outcome /\ req' = req
        /\ nextId' = nextId /\ jobState' = jobState
        /\ storeErrors' = storeErrors \/ storeErrors' = storeErrors + 1
        /\ \A k \in JobIds : pc'[k] = IF k \in Request(t) THEN "dead" ELSE pc[k]
    BY DEF RefuseJobs, doc
  <1>2. \A k \in JobIds : k \in Request(t) <=> req[k].thread = t /\ pc[k] = "prepared"
    BY DEF Request
  <1>3. \A k \in Request(t) : k \in JobIds /\ jobState[k] = "absent"
    BY DEF Request, IInv, RecordMatchesThread
  <1>4. RecordMatchesThread'
    BY <1>1, FitsRecord, FitsRecordPrime DEF IInv, Fits
  <1>5. RequestsWellFormed'
    BY <1>1, <1>2 DEF IInv, RequestsWellFormed
  <1>6. PreparedTogether'
    BY <1>1, <1>2 DEF IInv, PreparedTogether
  <1>7. RunInOrder'
    BY <1>1, <1>2 DEF IInv, RunInOrder, NotBegun
  <1>8. DownIsIdle' /\ OneSequencePerInstance' /\ SequenceOrder'
    BY <1>1 DEF IInv, DownIsIdle, OneSequencePerInstance, SequenceOrder, Active
  <1>9. NoStrandedJob'
    <2>1. storeErrors' = 0 => storeErrors = 0
      BY <1>1 DEF IInv, TypeOK
    <2> QED
      BY <1>1, <1>3, <2>1 DEF IInv, NoStrandedJob, Active, ActiveStates
  <1> QED
    BY <1>4, <1>5, <1>6, <1>7, <1>8, <1>9 DEF IInv

\* A step that leaves the threads alone and may only delete records.
LEMMA BystanderStep ==
  ASSUME IInv, TypeOK', process' = process, req' = req, pc' = pc, outcome' = outcome,
         nextId' = nextId, storeErrors' = storeErrors,
         \A k \in JobIds : jobState'[k] \in {"absent", jobState[k]}
  PROVE  IInv'
  <1>1. \A k \in JobIds : Active(k)' => Active(k)
    BY DEF Active, ActiveStates
  <1>2. RecordMatchesThread'
    BY FitsRecord, FitsRecordPrime DEF IInv, Fits, ActiveStates
  <1>3. RequestsWellFormed' /\ PreparedTogether' /\ RunInOrder' /\ DownIsIdle'
    BY DEF IInv, RequestsWellFormed, PreparedTogether, RunInOrder, DownIsIdle
  <1>4. OneSequencePerInstance' /\ NoStrandedJob'
    BY <1>1 DEF IInv, OneSequencePerInstance, NoStrandedJob
  <1>5. SequenceOrder'
    BY <1>1 DEF IInv, SequenceOrder
  <1> QED
    BY <1>2, <1>3, <1>4, <1>5 DEF IInv

\* The end of the process ends every thread and request.
LEMMA CrashStep ==
  ASSUME IInv, TypeOK', Crash
  PROVE  IInv'
  <1>1. /\ process' = "down" /\ outcome' = outcome /\ req' = req
        /\ nextId' = nextId /\ jobState' = jobState /\ storeErrors' = storeErrors
        /\ \A k \in JobIds : pc'[k] = IF pc[k] \in Working \cup {"prepared"}
                                    THEN "dead" ELSE pc[k]
    BY DEF Crash, doc
  <1>2. RecordMatchesThread'
    BY <1>1, FitsRecord, FitsRecordPrime DEF IInv, Fits
  <1>3. RequestsWellFormed'
    BY <1>1 DEF IInv, RequestsWellFormed, Working
  <1>4. PreparedTogether'
    BY <1>1 DEF PreparedTogether
  <1>5. RunInOrder'
    BY <1>1 DEF IInv, RunInOrder, NotBegun, Working
  <1>6. DownIsIdle'
    BY <1>1 DEF DownIsIdle, Working
  <1>7. OneSequencePerInstance' /\ SequenceOrder' /\ NoStrandedJob'
    BY <1>1 DEF IInv, OneSequencePerInstance, SequenceOrder, NoStrandedJob, Active
  <1> QED
    BY <1>2, <1>3, <1>4, <1>5, <1>6, <1>7 DEF IInv

\* Recovery leaves no active record, so nothing is stranded.
LEMMA RecoverStep ==
  ASSUME IInv, TypeOK', RecoverInterruptedJobs
  PROVE  IInv'
  <1>1. /\ process = "down" /\ process' = "up" /\ req' = req /\ pc' = pc
        /\ outcome' = outcome /\ nextId' = nextId /\ storeErrors' = storeErrors
        /\ \A k \in JobIds : jobState'[k] = IF Active(k) THEN "failed" ELSE jobState[k]
    BY DEF RecoverInterruptedJobs, worker, bounds
  <1>2. \A k \in JobIds : ~Active(k)'
    BY <1>1 DEF Active, ActiveStates
  <1>3. RecordMatchesThread'
    <2>1. \A k \in JobIds : pc[k] \in {"none", "done", "dead"}
      BY <1>1, Labels DEF IInv, TypeOK, DownIsIdle, Control
    <2> QED
      BY <1>1, <1>2, <2>1, FitsRecord, FitsRecordPrime DEF IInv, Fits, Active, ActiveStates
  <1>4. RequestsWellFormed' /\ PreparedTogether' /\ RunInOrder' /\ DownIsIdle'
    BY <1>1 DEF IInv, RequestsWellFormed, PreparedTogether, RunInOrder, DownIsIdle
  <1>5. OneSequencePerInstance' /\ SequenceOrder' /\ NoStrandedJob'
    BY <1>2 DEF OneSequencePerInstance, SequenceOrder, NoStrandedJob
  <1> QED
    BY <1>3, <1>4, <1>5 DEF IInv

\* The inductive invariant: the record of a job fits the place its thread
\* has reached, requests are started as a whole, their jobs run in order, and
\* the three guarantees about active records follow from that.
THEOREM Inductive == Spec => []IInv
  <1>1. Init => IInv
    <2> SUFFICES ASSUME Init PROVE IInv
      OBVIOUS
    <2>1. TypeOK
      BY ConstantsAssumption DEF Init, TypeOK, Absent, Unknown, ViewLabels, Control,
         TerminalStates, JobIds, StateKeys
    <2>2. /\ \A j \in JobIds : j \in Nat /\ j >= 1
          /\ \A j \in JobIds : pc[j] = "none" /\ jobState[j] = "absent" /\ req[j].thread = 0
          /\ process = "up" /\ nextId = 1
      BY DEF Init, JobIds
    <2>3. RecordMatchesThread /\ RequestsWellFormed /\ PreparedTogether /\ RunInOrder
      BY <2>2 DEF RecordMatchesThread, RequestsWellFormed, PreparedTogether, RunInOrder,
         NotBegun, Active, ActiveStates
    <2>4. DownIsIdle /\ OneSequencePerInstance /\ SequenceOrder /\ NoStrandedJob
      BY <2>2 DEF DownIsIdle, OneSequencePerInstance, SequenceOrder, NoStrandedJob, Active,
         ActiveStates
    <2> QED
      BY <2>1, <2>3, <2>4 DEF IInv
  <1>2. IInv /\ TypeOK' /\ [Next]_vars => IInv'
    <2> SUFFICES ASSUME IInv, TypeOK', [Next]_vars PROVE IInv'
      OBVIOUS
    <2>1. ASSUME NEW d \in Devices, DeleteDevice(d) PROVE IInv'
      BY <2>1, BystanderStep DEF DeleteDevice, worker, bounds
    <2>2. ASSUME NEW i \in Instances, NEW t \in Targets \cup {None}, SetMapping(i, t)
          PROVE  IInv'
      BY <2>2, BystanderStep DEF SetMapping, worker
    <2>3. ASSUME NEW j \in JobIds, RemoteEnds(j) PROVE IInv'
      BY <2>3, BystanderStep DEF RemoteEnds, worker, bounds, doc
    <2>4. CASE UNCHANGED vars
      BY <2>4, BystanderStep DEF vars, worker, bounds, doc
    <2> QED
      BY <2>1, <2>2, <2>3, <2>4, NewJobStep, StartJobsStep, RefuseJobsStep, RunJobStep,
         CrashStep, RecoverStep DEF Next
  <1> QED
    BY <1>1, <1>2, TypeCorrect, PTL DEF Spec

\* Two active records of a Compute instance belong to one sequence.
THEOREM OneSequence == Spec => []OneSequencePerInstance
  <1>1. IInv => OneSequencePerInstance
    BY DEF IInv
  <1> QED
    BY <1>1, Inductive, PTL

\* A job leaves the queue only after the earlier jobs of its sequence.
THEOREM InSequenceOrder == Spec => []SequenceOrder
  <1>1. IInv => SequenceOrder
    BY DEF IInv
  <1> QED
    BY <1>1, Inductive, PTL

\* Without store errors, an active record of a running process has a thread.
THEOREM NothingStranded == Spec => []NoStrandedJob
  <1>1. IInv => NoStrandedJob
    BY DEF IInv
  <1> QED
    BY <1>1, Inductive, PTL

\* No two threads are between starting and concluding recorded jobs of one
\* instance: by OneSequencePerInstance they would share a list, and a list is
\* run in order.
THEOREM OneAtATime == Spec => []OneJobAtATime
  <1>1. IInv => OneJobAtATime
    <2> SUFFICES ASSUME IInv, NEW j \in JobIds, NEW k \in JobIds,
                        pc[j] \in InConclusion, pc[k] \in InConclusion,
                        Active(j), Active(k), req[j].inst = req[k].inst
                 PROVE  j = k
      BY DEF OneJobAtATime
    <2>1. req[j].thread = req[k].thread
      BY DEF IInv, OneSequencePerInstance
    <2>2. ~(j < k) /\ ~(k < j)
      BY <2>1 DEF IInv, RunInOrder, NotBegun, InConclusion
    <2> QED
      BY <2>2 DEF JobIds
  <1> QED
    BY <1>1, Inductive, PTL

\* What a thread does to its record: nothing once it is gone, and it never
\* makes a finished one active.
LEMMA RunJobRecords ==
  ASSUME IInv, NEW j \in JobIds, RunJob(j), NEW k \in JobIds
  PROVE  /\ jobState[k] = "absent" => jobState'[k] = "absent"
         /\ jobState'[k] # jobState[k] =>
              k = j /\ pc[j] \in {"mark_running", "commit_job", "except_job"}
         /\ jobState'[k] # jobState[k] /\ jobState[k] \in TerminalStates =>
              jobState'[k] = "failed"
         /\ jobState'[k] # jobState[k] /\ pc[j] = "except_job" => jobState'[k] = "failed"
  <1>1. ASSUME NEW s \in {"running", outcome[j], "failed"}
        PROVE  \A i \in JobIds : SetJob(j, s)[i] =
                 IF i = j /\ jobState[j] # "absent" THEN s ELSE jobState[i]
    BY DEF SetJob, IInv, TypeOK
  <1>2. pc[j] = "mark_running" => jobState[j] \in {"absent", "queued"}
    BY DEF IInv, RecordMatchesThread
  <1>3. pc[j] = "commit_job" => jobState[j] \in {"absent", "running"}
    BY DEF IInv, RecordMatchesThread
  <1>4. CASE jobState' = jobState
    BY <1>4
  <1>5. CASE pc[j] = "mark_running" /\ jobState' = SetJob(j, "running")
    BY <1>1, <1>2, <1>5 DEF TerminalStates
  <1>6. CASE pc[j] = "commit_job" /\ jobState' = SetJob(j, outcome[j])
    BY <1>1, <1>3, <1>6 DEF TerminalStates
  <1>7. CASE pc[j] = "except_job" /\ jobState' = SetJob(j, "failed")
    BY <1>1, <1>7 DEF TerminalStates
  <1> QED
    BY <1>4, <1>5, <1>6, <1>7 DEF RunJob, BeginJob, MarkRunning, MarkInstance, Launch,
       Collect, GiveUp, CommitJob, Reconcile, SetDocker, CommitState, Report, ExceptJob,
       ExceptState, At, StoreError, ThreadDies, doc

\* What anyone else does to the records of jobs that are not just starting.
LEMMA OtherRecords ==
  ASSUME IInv, [Next]_vars, \A j \in JobIds : ~RunJob(j), NEW k \in JobIds,
         pc[k] # "prepared"
  PROVE  jobState'[k] \in {"absent", jobState[k]} \/ (Active(k) /\ jobState'[k] = "failed")
  <1>1. ASSUME NEW t \in JobIds, StartJobs(t)
        PROVE  jobState'[k] \in {"absent", jobState[k]}
    BY <1>1 DEF StartJobs, Prunable, Request
  <1> QED
    BY <1>1 DEF Next, NewJob, RefuseJobs, RemoteEnds, DeleteDevice, SetMapping, Crash,
       RecoverInterruptedJobs, vars, doc

\* A finished job is never revived and a deleted one never comes back.
THEOREM Final == Spec => NoRevival
  <1>1. IInv /\ [Next]_vars => [\A j \in JobIds : StaysFinal(j)]_vars
    <2> SUFFICES ASSUME IInv, [Next]_vars, NEW k \in JobIds PROVE StaysFinal(k)
      OBVIOUS
    <2>1. ASSUME NEW j \in JobIds, RunJob(j) PROVE StaysFinal(k)
      BY <2>1, RunJobRecords DEF StaysFinal, TerminalStates
    <2>2. CASE \A j \in JobIds : ~RunJob(j)
      <3>1. pc[k] = "prepared" => jobState[k] = "absent"
        BY DEF IInv, RecordMatchesThread
      <3> QED
        BY <2>2, <3>1, OtherRecords DEF StaysFinal, Active, ActiveStates, TerminalStates
    <2> QED
      BY <2>1, <2>2
  <1> QED
    BY <1>1, Inductive, PTL DEF Spec, NoRevival

\* The places a thread can be at when its result may be on display.
Settled == {"report", "except_job", "except_state", "done", "dead"}
BackedBy(v, js, p) ==
  v.state \in TerminalStates =>
    v.job \in JobIds /\ js[v.job] \in {"absent", "failed", v.state} /\ p[v.job] \in Settled

\* DisplaysBacked in terms of the functions it reads, now and next.
LEMMA DisplaysBackedBy ==
  /\ DisplaysBacked <=>
       /\ \A i \in Instances, k \in StateKeys : BackedBy(view[i][k], jobState, pc)
       /\ \A j \in JobIds : BackedBy(existing[j], jobState, pc)
  /\ DisplaysBacked' <=>
       /\ \A i \in Instances, k \in StateKeys : BackedBy(view'[i][k], jobState', pc')
       /\ \A j \in JobIds : BackedBy(existing'[j], jobState', pc')
  BY DEF DisplaysBacked, Backed, BackedBy, Settled

\* A settled job stays settled, and its record only becomes "failed" or goes.
LEMMA SettledStep ==
  ASSUME IInv, [Next]_vars, NEW k \in JobIds, pc[k] \in Settled
  PROVE  pc'[k] \in Settled /\ jobState'[k] \in {"absent", "failed", jobState[k]}
  <1>1. pc[k] \notin {"prepared", "mark_running", "commit_job", "queued"}
    BY DEF Settled
  <1>2. jobState'[k] \in {"absent", "failed", jobState[k]}
    <2>1. ASSUME NEW j \in JobIds, RunJob(j)
          PROVE  jobState'[k] \in {"absent", "failed", jobState[k]}
      BY <1>1, <2>1, RunJobRecords
    <2> QED
      BY <1>1, <2>1, OtherRecords
  <1>3. ASSUME NEW j \in JobIds, RunJob(j)
        PROVE  pc'[k] \in Settled
    <2>1. /\ ThreadDies(j) => pc'[k] \in {"dead", pc[k]}
          /\ StoreError(j, "except_job") => pc'[k] \in {"except_job", pc[k]}
      BY DEF ThreadDies, StoreError, Goto, IInv, TypeOK
    <2>2. ASSUME NEW l, Goto(j, l)
          PROVE  pc'[k] = IF k = j THEN l ELSE pc[k]
      BY <2>2 DEF Goto, IInv, TypeOK
    <2>3. CASE k # j
      BY <1>3, <2>1, <2>2, <2>3 DEF RunJob, BeginJob, MarkRunning, MarkInstance, Launch,
         Collect, GiveUp, CommitJob, Reconcile, SetDocker, CommitState, Report, ExceptJob,
         ExceptState, Settled
    <2>4. CASE k = j
      <3>1. /\ ~BeginJob(j) /\ ~MarkRunning(j) /\ ~MarkInstance(j) /\ ~Launch(j)
            /\ ~Collect(j) /\ ~GiveUp(j) /\ ~CommitJob(j) /\ ~Reconcile(j)
            /\ ~SetDocker(j) /\ ~CommitState(j)
        BY <2>4 DEF BeginJob, MarkRunning, MarkInstance, Launch, Collect, GiveUp,
           CommitJob, Reconcile, SetDocker, CommitState, At, Settled
      <3> QED
        BY <1>3, <2>1, <2>2, <2>4, <3>1 DEF RunJob, Report, ExceptJob, ExceptState, Settled
    <2> QED
      BY <2>3, <2>4
  <1>4. CASE \A j \in JobIds : ~RunJob(j)
    <2>1. ASSUME NEW i \in Instances, NEW op \in Operations, NEW t \in JobIds,
                 NewJob(i, op, t)
          PROVE  pc'[k] = pc[k]
      <3>1. pc[nextId] = "none" /\ nextId \in JobIds
        BY <2>1 DEF NewJob, IInv, RequestsWellFormed, TypeOK
      <3>2. k # nextId
        BY <3>1 DEF Settled
      <3> QED
        BY <2>1, <3>2 DEF NewJob, IInv, TypeOK
    <2>2. ASSUME NEW t \in JobIds, StartJobs(t) \/ RefuseJobs(t)
          PROVE  pc'[k] = pc[k]
      BY <1>1, <2>2 DEF StartJobs, RefuseJobs, Request
    <2>3. CASE Crash
      BY <1>2, <2>3 DEF Crash, Settled
    <2> QED
      BY <1>2, <1>4, <2>1, <2>2, <2>3 DEF Next, RemoteEnds, DeleteDevice, SetMapping,
         RecoverInterruptedJobs, vars, worker
  <1> QED
    BY <1>2, <1>3, <1>4

\* A display that is backed stays backed.
LEMMA StaysBacked ==
  ASSUME IInv, [Next]_vars, NEW v, BackedBy(v, jobState, pc)
  PROVE  BackedBy(v, jobState', pc')
  BY SettledStep DEF BackedBy

\* What _set_maintenance_state and _set_docker_project_state leave on display.
LEMMA SetViewValues ==
  ASSUME TypeOK, NEW j, NEW label, NEW i \in Instances, NEW k \in StateKeys
  PROVE  SetView(j, label)[i][k] \in {view[i][k], [state |-> label, job |-> j]}
  BY DEF SetView

\* Every display is backed by its job record, in every step.
LEMMA DisplaysBackedStep ==
  ASSUME IInv, [Next]_vars, DisplaysBacked
  PROVE  DisplaysBacked'
  <1>1. /\ \A i \in Instances, k \in StateKeys : BackedBy(view[i][k], jobState', pc')
        /\ \A j \in JobIds : BackedBy(existing[j], jobState', pc')
    BY DisplaysBackedBy, StaysBacked
  <1>2. BackedBy(Absent, jobState', pc') /\ BackedBy(Unknown, jobState', pc')
    BY DEF BackedBy, Absent, Unknown, TerminalStates
  <1>3. ASSUME NEW j \in JobIds, NEW label, view' = SetView(j, label),
               BackedBy([state |-> label, job |-> j], jobState', pc')
        PROVE  \A i \in Instances, k \in StateKeys : BackedBy(view'[i][k], jobState', pc')
    BY <1>1, <1>3, SetViewValues DEF IInv
  <1>4. \A i \in Instances, k \in StateKeys : BackedBy(view'[i][k], jobState', pc')
    <2>1. CASE view' = view
      BY <1>1, <2>1
    <2>2. ASSUME NEW j \in JobIds, MarkInstance(j), view' # view
          PROVE  \A i \in Instances, k \in StateKeys : BackedBy(view'[i][k], jobState', pc')
      <3>1. /\ view' = SetView(j, RunningLabel(req[j].op))
            /\ RunningLabel(req[j].op) \notin TerminalStates
        BY <2>2 DEF MarkInstance, ThreadDies, doc, RunningLabel, TerminalStates
      <3> QED
        BY <1>3, <3>1 DEF BackedBy
    <2>3. ASSUME NEW j \in JobIds, CommitState(j) \/ ExceptState(j), view' # view
          PROVE  \A i \in Instances, k \in StateKeys : BackedBy(view'[i][k], jobState', pc')
      <3>1. /\ view' = SetView(j, outcome[j]) /\ jobState' = jobState
            /\ pc'[j] \in {"done", "report"} /\ pc[j] \in {"commit_state", "except_state"}
        BY <2>3 DEF CommitState, ExceptState, ThreadDies, StoreError, doc, Goto, At, IInv,
           TypeOK
      <3>2. jobState[j] \in {"absent", "failed", outcome[j]}
        BY <3>1 DEF IInv, RecordMatchesThread
      <3>3. BackedBy([state |-> outcome[j], job |-> j], jobState', pc')
        BY <3>1, <3>2 DEF BackedBy, Settled
      <3> QED
        BY <1>3, <3>1, <3>3
    <2>4. ASSUME NEW j \in JobIds, SetDocker(j), view' # view
          PROVE  \A i \in Instances, k \in StateKeys : BackedBy(view'[i][k], jobState', pc')
      <3> DEFINE w == IF existing[j].state = "absent" THEN Unknown ELSE existing[j]
      <3>1. view' = [view EXCEPT ![req[j].inst]["dockerUpdateState"] = w]
        BY <2>4 DEF SetDocker, StoreError, doc
      <3>2. BackedBy(w, jobState', pc')
        BY <1>1, <1>2
      <3> HIDE DEF w
      <3>3. \A i \in Instances, k \in StateKeys : view'[i][k] \in {view[i][k], w}
        BY <3>1 DEF IInv, TypeOK
      <3> QED
        BY <1>1, <3>2, <3>3
    <2>5. ASSUME NEW i \in Instances, NEW t \in Targets \cup {None}, SetMapping(i, t)
          PROVE  \A a \in Instances, k \in StateKeys : BackedBy(view'[a][k], jobState', pc')
      <3>1. \A a \in Instances, k \in StateKeys : view'[a][k] \in {view[a][k], Absent, Unknown}
        BY <2>5 DEF SetMapping, IInv, TypeOK
      <3> QED
        BY <1>1, <1>2, <3>1
    <2> QED
      BY <2>1, <2>2, <2>3, <2>4, <2>5 DEF Next, NewJob, StartJobs, RefuseJobs, RemoteEnds,
         DeleteDevice, Crash, RecoverInterruptedJobs, RunJob, BeginJob, MarkRunning, Launch,
         Collect, GiveUp, CommitJob, Reconcile, Report, ExceptJob, ThreadDies, StoreError,
         vars, doc
  <1>5. \A j \in JobIds : BackedBy(existing'[j], jobState', pc')
    <2>1. CASE existing' = existing
      BY <1>1, <2>1
    <2>2. ASSUME NEW j \in JobIds, Reconcile(j)
          PROVE  \A a \in JobIds : BackedBy(existing'[a], jobState', pc')
      <3> DEFINE w == IF req[j].inst \in present
                        THEN view[req[j].inst]["dockerUpdateState"] ELSE Absent
      <3>1. BackedBy(w, jobState', pc')
        BY <1>1, <1>2 DEF IInv, TypeOK, StateKeys
      <3>2. existing' = [existing EXCEPT ![j] = w]
        BY <2>2 DEF Reconcile
      <3> HIDE DEF w
      <3>3. \A a \in JobIds : existing'[a] \in {existing[a], w}
        BY <3>2 DEF IInv, TypeOK
      <3> QED
        BY <1>1, <3>1, <3>3
    <2> QED
      BY <2>1, <2>2 DEF Next, NewJob, StartJobs, RefuseJobs, RemoteEnds, SetMapping,
         DeleteDevice, Crash, RecoverInterruptedJobs, RunJob, BeginJob, MarkRunning, Launch,
         Collect, GiveUp, CommitJob, MarkInstance, SetDocker, CommitState, Report, ExceptJob,
         ExceptState, ThreadDies, StoreError, vars, worker
  <1> QED
    BY <1>4, <1>5, DisplaysBackedBy

\* An instance never shows a result its job record does not back, across
\* crashes between the two writes, failed writes, deletions and the states a
\* discovery carries over.
THEOREM ResultsBacked == Spec => []ViewBackedByRecord
  <1>1. Init => DisplaysBacked
    BY DEF Init, DisplaysBacked, Backed, Absent, Unknown, TerminalStates
  <1>2. IInv /\ [Next]_vars /\ DisplaysBacked => DisplaysBacked'
    BY DisplaysBackedStep
  <1>3. DisplaysBacked => ViewBackedByRecord
    BY DEF DisplaysBacked, Backed, ViewBackedByRecord
  <1> QED
    BY <1>1, <1>2, <1>3, Inductive, PTL DEF Spec

----------------------------------------------------------------------------
\* What the jobs say of a workload (module Results)

\* The contracts a Docker check may come to.
DockerVerdicts == [available : Verdicts, projects : [Projects -> Verdicts \cup {None}]]

LEMMA DockerUpdatesTyped == DockerUpdates \subseteq DockerVerdicts \cup {Bad}
  <1> SUFFICES ASSUME NEW raw, NEW Entry, Entry = {"yes", "no", None},
                      \/ raw \in [available : {"yes", "no", None}, key : {"updates_available"},
                                  projects : {Bad, NoEntries}, single : {None}, summary : BOOLEAN]
                      \/ raw \in [available : {"yes"}, key : {"updates_available", "available"},
                                  projects : {NoEntries}, single : Projects, summary : {FALSE}]
                      \/ raw \in [available : {None}, key : {"updates_available"},
                                  projects : [Projects -> Entry], single : {None}, summary : {TRUE}]
               PROVE  DockerUpdateContract(raw) \in DockerVerdicts \cup {Bad}
    BY DEF DockerUpdates
  <1> DEFINE available == IF raw.available \in {"yes", "no"} THEN raw.available ELSE "unclear"
             entries == IF raw.projects \in {NoEntries, Bad} /\ raw.single # None
                        THEN [NoEntries EXCEPT ![raw.single] = IF raw.key = "updates_available" THEN available ELSE "unclear"]
                        ELSE raw.projects
  <1>1. available \in Verdicts
    BY DEF Verdicts
  <1>2. NoEntries \in [Projects -> Verdicts \cup {None}]
    BY DEF NoEntries
  <1>3. raw.projects # Bad => raw.projects \in [Projects -> Verdicts \cup {None}]
    BY <1>2 DEF Verdicts
  <1>4. raw.projects # Bad => entries \in [Projects -> Verdicts \cup {None}]
    <2> HIDE DEF available
    <2>1. CASE raw.projects \in {NoEntries, Bad} /\ raw.single # None
      <3>1. "unclear" \in Verdicts
        BY DEF Verdicts
      <3> QED
        BY <1>1, <1>2, <2>1, <3>1
    <2>2. CASE ~(raw.projects \in {NoEntries, Bad} /\ raw.single # None)
      BY <1>3, <2>2
    <2> QED
      BY <2>1, <2>2
  <1>5. raw.projects = Bad => DockerUpdateContract(raw) = Bad
    BY DEF DockerUpdateContract
  <1>6. DockerUpdateContract(raw) \in {Bad, [available |-> available, projects |-> entries]}
    BY DEF DockerUpdateContract
  <1> HIDE DEF available, entries
  <1> QED
    BY <1>1, <1>4, <1>5, <1>6 DEF DockerVerdicts

\* What a playbook may print, by its operation.
LEMMA PrintedTyped ==
  /\ \A op \in {"os_check", "os_update"} : \A r \in Printed(op) : r.update \in Verdicts \cup {Bad} /\ r.docker = None
  /\ \A r \in Printed("docker_check") :
       r.update \in Verdicts \cup {None, Bad} /\ r.docker \in DockerVerdicts \cup {None, Bad}
  /\ \A r \in Printed("docker_discovery") : r.docker = None
  <1>1. Updates \subseteq Verdicts \cup {Bad}
    BY DEF Updates, UpdateContract, Verdicts
  <1> QED
    BY <1>1, DockerUpdatesTyped DEF Printed

\* An output has at most two results, of the operation's kind.
LEMMA OutputTyped ==
  ASSUME NEW op, NEW out \in Outputs(op)
  PROVE  DOMAIN out \subseteq {1, 2} /\ \A i \in DOMAIN out : out[i].result \in Printed(op)
  <1>1. CASE out = <<>>
    BY <1>1
  <1>2. CASE \E l \in Layouts, r \in Printed(op) : out = <<[place |-> l[1], result |-> r]>>
    BY <1>2
  <1>3. CASE \E l \in Layouts, r \in Printed(op), q \in Printed(op) :
               out = <<[place |-> l[1], result |-> r], [place |-> l[2], result |-> q]>>
    BY <1>3
  <1> QED
    BY <1>1, <1>2, <1>3 DEF Outputs

\* What counts is one of the results, or that there is none.
LEMMA ParsedIsPrinted ==
  ASSUME NEW out, DOMAIN out \subseteq {1, 2}
  PROVE  Parsed(out) = Nothing \/ \E i \in DOMAIN out : Parsed(out) = out[i].result
  <1>1. ASSUME NEW place, Indices(out, place) # {}
        PROVE  /\ \E i \in DOMAIN out : FirstAt(out, place) = out[i].result
               /\ \E i \in DOMAIN out : LastAt(out, place) = out[i].result
    <2> DEFINE S == Indices(out, place)
    <2>1. S \subseteq {1, 2} /\ S \subseteq DOMAIN out /\ S # {}
      BY <1>1 DEF Indices
    <2>2. (\E i \in S : \A j \in S : i <= j) /\ (\E i \in S : \A j \in S : i >= j)
      BY <2>1
    <2>3. /\ (CHOOSE i \in S : \A j \in S : i <= j) \in S
          /\ (CHOOSE i \in S : \A j \in S : i >= j) \in S
      BY <2>2
    <2> QED
      BY <2>1, <2>3 DEF FirstAt, LastAt
  <1> QED
    BY <1>1 DEF Parsed

\* The contract of a job that ends well was printed, or says nothing.
LEMMA ContractTyped ==
  ASSUME NEW op, NEW out \in Outputs(op)
  PROVE  Parsed(out) = Nothing \/ (Parsed(out) \in Printed(op) /\ \E i \in DOMAIN out : Parsed(out) = out[i].result)
BY OutputTyped, ParsedIsPrinted

\* The verdict on the system is one that the output holds.
LEMMA OsVerdict ==
  ASSUME NEW op \in {"os_check", "os_update"}, NEW out \in Outputs(op), Parsed(out).update \in Verdicts
  PROVE  Parsed(out).update \in VerdictsIn(out, None)
  <1>1. Parsed(out) # Nothing \/ None \in Verdicts
    BY DEF Nothing
  <1>2. PICK i \in DOMAIN out : Parsed(out) = out[i].result
    BY <1>1, NoRecord, ContractTyped
  <1> QED
    BY <1>2 DEF VerdictsIn

\* What a check may be read as without an entry for the project.
LEMMA NoEntriesFacts ==
  ASSUME NEW d \in DockerVerdicts, Entries(d) = {}
  PROVE  d.projects = NoEntries
BY DEF DockerVerdicts, Entries, NoEntries

\* The verdict on a project, where none is missing, is one that the output holds.
LEMMA CheckVerdict ==
  ASSUME NEW out \in Outputs("docker_check"), NEW j, j.op = "docker_check", j.project \in Projects,
         ~Missing(j, Parsed(out))
  PROVE  Verdict(Parsed(out), j.project) \in VerdictsIn(out, j.project)
  <1> DEFINE c == Parsed(out)
             p == j.project
  <1>1. IF c.docker \in {None, Bad} THEN c.update \in Verdicts ELSE Entries(c.docker) = {} \/ p \in Entries(c.docker)
    BY DEF Missing
  <1>2. c # Nothing
    BY <1>1, NoRecord DEF Nothing
  <1>3. PICK i \in DOMAIN out : c = out[i].result
    BY <1>2, ContractTyped
  <1>4. c \in Printed("docker_check")
    BY <1>2, ContractTyped
  <1> DEFINE results == {out[k].result : k \in DOMAIN out}
             updates == {r.docker : r \in results} \ {None, Bad}
  <1>5. VerdictsIn(out, p) = Verdicts \cap ({r.update : r \in results} \cup {d.projects[p] : d \in updates}
                               \cup {d.available : d \in {u \in updates : u.projects = NoEntries}})
    BY DEF VerdictsIn
  <1>6. c \in results
    BY <1>3
  <1> HIDE DEF c, results
  <1>7. CASE c.docker \in {None, Bad}
    <2>1. Verdict(c, p) = c.update /\ c.update \in Verdicts
      BY <1>1, <1>7 DEF Verdict
    <2>2. c.update \in {r.update : r \in results}
      BY <1>6
    <2> QED
      BY <1>5, <2>1, <2>2 DEF c
  <1>8. CASE c.docker \notin {None, Bad}
    <2> DEFINE d == c.docker
    <2>1. d \in DockerVerdicts /\ d \in updates
      BY <1>4, <1>6, <1>8, PrintedTyped
    <2>2. CASE p \in Entries(d)
      <3>1. Verdict(c, p) = d.projects[p] /\ d.projects[p] \in Verdicts
        BY <1>8, <2>1, <2>2 DEF Verdict, DockerVerdicts, Entries
      <3>2. d.projects[p] \in {u.projects[p] : u \in updates}
        BY <2>1
      <3> HIDE DEF updates, d
      <3> QED
        BY <1>5, <3>1, <3>2 DEF c
    <2>3. CASE Entries(d) = {}
      <3>1. Verdict(c, p) = d.available /\ d.available \in Verdicts
        BY <1>8, <2>1, <2>3 DEF Verdict, DockerVerdicts
      <3>2. d.projects = NoEntries
        BY <2>1, <2>3, NoEntriesFacts
      <3>3. d.available \in {v.available : v \in {u \in updates : u.projects = NoEntries}}
        BY <2>1, <3>2
      <3> HIDE DEF updates, d
      <3> QED
        BY <1>5, <3>1, <3>3 DEF c
    <2> QED
      BY <1>1, <1>8, <2>2, <2>3
  <1> QED
    BY <1>7, <1>8

\* A missing result is no verdict.
LEMMA MissingVerdict ==
  ASSUME NEW c, NEW j, j.op = "docker_check", Missing(j, c)
  PROVE  Verdict(c, j.project) = "unclear"
  <1>1. CASE c.docker \in {None, Bad}
    BY <1>1 DEF Missing, Verdict
  <1>2. CASE c.docker \notin {None, Bad}
    BY <1>2 DEF Missing, Verdict
  <1> QED
    BY <1>1, <1>2

\* What a job is told and what is kept of a project after a check.
LEMMA ProjectResultTyped ==
  ASSUME NEW j, NEW c, NEW v, v = Verdict(c, j.project)
  PROVE  /\ j.mode = "read_only" => ProjectResult(j, c) = [state |-> "read_only", updates |-> None]
         /\ j.mode = "build" => ProjectResult(j, c) = [state |-> "not_applicable", updates |-> None]
         /\ j.mode = "pull" => ProjectResult(j, c) = [state |-> StateOf(v), updates |-> v]
BY DEF ProjectResult

LEMMA StateOfTyped ==
  ASSUME NEW v
  PROVE  /\ StateOf(v) \in {"updates_available", "up_to_date", "unknown"}
         /\ StateOf(v) = "updates_available" <=> v = "yes"
         /\ StateOf(v) = "up_to_date" <=> v = "no"
BY DEF StateOf

\* The summary of the projects is a state, and what it says is true of them.
LEMMA AggregateTyped ==
  ASSUME NEW d
  PROVE  Aggregate(d) \in ProjectStates
BY DEF Aggregate, ProjectStates, OsStates, Ended, Inapplicable

Needing(d) == {p \in Projects : d[p] # None /\ d[p].approved /\ d[p].state \notin Inapplicable}

LEMMA AggregateUpToDate ==
  ASSUME NEW d, Aggregate(d) = "up_to_date"
  PROVE  Needing(d) # {} /\ \A p \in Needing(d) : d[p].updates = "no"
  <1> DEFINE known == {p \in Projects : d[p] # None}
             approved == {p \in known : d[p].approved}
             states == {d[p].state : p \in approved}
             supported == {d[p].updates : p \in {q \in approved : d[q].state \notin Inapplicable}}
  <1>1. supported = {"no"}
    <2> HIDE DEF known, approved, states, supported
    <2>1. Aggregate(d) = (
            IF known # {} /\ approved = {} THEN "not_applicable"
            ELSE IF "updating" \in states THEN "updating"
            ELSE IF "checking" \in states THEN "checking"
            ELSE IF "yes" \in {d[p].updates : p \in approved} THEN "updates_available"
            ELSE IF "unreachable" \in states THEN "unreachable"
            ELSE IF "failed" \in states THEN "failed"
            ELSE IF "incomplete" \in states THEN "incomplete"
            ELSE IF supported = {"no"} THEN "up_to_date"
            ELSE IF "check_recommended" \in states THEN "check_recommended"
            ELSE IF states # {} /\ states \subseteq Inapplicable THEN "not_applicable"
            ELSE IF "unknown" \in states THEN "unknown"
            ELSE IF "not_checked" \in states THEN "not_checked" ELSE "unknown")
      BY DEF Aggregate, known, approved, states, supported
    <2> QED
      BY <2>1
  <1>2. Needing(d) = {q \in approved : d[q].state \notin Inapplicable}
    BY DEF Needing
  <1>3. supported = {d[p].updates : p \in Needing(d)}
    BY <1>2
  <1> HIDE DEF supported
  <1> QED
    BY <1>1, <1>3

\* Updates of an approved project are shown unless a project is worked on.
LEMMA AggregateUpdates ==
  ASSUME NEW d, NEW p \in Projects, d[p] # None, d[p].approved, d[p].updates = "yes",
         \A q \in Projects : d[q] # None => d[q].state \notin {"checking", "updating"}
  PROVE  Aggregate(d) = "updates_available"
  <1> DEFINE known == {q \in Projects : d[q] # None}
             approved == {q \in known : d[q].approved}
             states == {d[q].state : q \in approved}
  <1>1. p \in approved /\ "yes" \in {d[q].updates : q \in approved}
    OBVIOUS
  <1>2. "updating" \notin states /\ "checking" \notin states
    OBVIOUS
  <1> QED
    BY <1>1, <1>2 DEF Aggregate

\* The types, and what is known of the projects.
LEMMA ResultsTypes ==
  ASSUME ResultsInv
  PROVE  /\ inv \in Inventories /\ os \in OsStates \cup {None} /\ host \in ProjectStates \cup {None}
         /\ health \in {"unknown", "checking", "available", None} \cup Ended
         /\ docker \in [Projects -> ProjectRecords \cup {None}] \cup {None} /\ job \in Plays
         /\ told \in [project : Projects \cup {None}, state : ProjectStates] \cup {None}
         /\ said \in [os : SUBSET Verdicts, project : [Projects -> SUBSET Verdicts]]
         /\ plays \in 0..MaxPlays /\ refreshes \in 0..MaxRefreshes
BY DEF ResultsInv, ResultsTypeOK

LEMMA DiscoveredFacts ==
  ASSUME ResultsInv
  PROVE  /\ \A p \in Discovered : p \in Projects /\ docker # None /\ docker \in [Projects -> ProjectRecords \cup {None}]
                                  /\ docker[p] # None /\ docker[p] \in ProjectRecords
         /\ \A p \in Projects : docker # None /\ docker[p] # None => p \in Discovered
  <1>1. docker \in [Projects -> ProjectRecords \cup {None}] \cup {None}
    BY ResultsTypes
  <1> QED
    BY <1>1 DEF Discovered

\* _set_docker_project_state: what becomes of the records and the summary.
LEMMA SetProjectEffect ==
  ASSUME ResultsInv, NEW p \in Projects, NEW state \in ProjectStates, NEW updates \in Verdicts \cup {None},
         SetProject(p, state, updates)
  PROVE  /\ docker' \in [Projects -> ProjectRecords \cup {None}] \cup {None} /\ host' \in ProjectStates \cup {None}
         /\ HostIsSummary' /\ Discovered' = Discovered
         /\ \A q \in Discovered : q # p => docker'[q] = docker[q]
         /\ p \in Discovered => docker'[p].state = state /\ docker'[p].updates = updates
  <1>1. CASE p \notin Discovered
    <2>1. UNCHANGED <<docker, host>>
      BY <1>1 DEF SetProject
    <2> QED
      BY <1>1, <2>1, ResultsTypes DEF ResultsInv, HostIsSummary, Discovered
  <1>2. CASE p \in Discovered
    <2>1. docker # None /\ docker \in [Projects -> ProjectRecords \cup {None}] /\ docker[p] # None /\ docker[p] \in ProjectRecords
      BY <1>2, DiscoveredFacts
    <2> DEFINE record == [docker[p] EXCEPT !.state = state, !.updates = updates]
    <2>2. docker' = [docker EXCEPT ![p] = record] /\ host' = Aggregate(docker')
      BY <1>2, <2>1 DEF SetProject
    <2>3. record \in ProjectRecords /\ record.state = state /\ record.updates = updates
      BY <2>1 DEF ProjectRecords
    <2> HIDE DEF record
    <2>4. record # None
      BY <2>3, NoRecord
    <2>5. docker' \in [Projects -> ProjectRecords \cup {None}] /\ docker'[p] = record
          /\ \A q \in Projects : q # p => docker'[q] = docker[q]
      BY <2>1, <2>2, <2>3
    <2>6. docker' # None
      BY <2>5, NoRecord
    <2>7. Discovered' = Discovered
      BY <2>1, <2>4, <2>5, <2>6 DEF Discovered
    <2>8. HostIsSummary' /\ host' \in ProjectStates
      BY <2>2, <2>6, AggregateTyped DEF HostIsSummary
    <2>9. \A q \in Discovered : q # p => docker'[q] = docker[q]
      BY <2>5, DiscoveredFacts
    <2> QED
      BY <2>3, <2>5, <2>7, <2>8, <2>9
  <1> QED
    BY <1>1, <1>2

\* A step of a job of project p: what is left to show is what is kept and said of p.
LEMMA ProjectStep ==
  ASSUME ResultsInv, NEW p \in Projects, NEW state \in ProjectStates, NEW updates \in Verdicts \cup {None},
         SetProject(p, state, updates), UNCHANGED <<inv, os, health, refreshes>>,
         plays' \in 0..MaxPlays, job' \in Plays, told' \in [project : Projects \cup {None}, state : ProjectStates] \cup {None},
         said' \in [os : SUBSET Verdicts, project : [Projects -> SUBSET Verdicts]], said'.os = said.os,
         \A q \in Projects : q # p => said'.project[q] = said.project[q],
         \A q \in Projects : q # p => ~OfJob(q) /\ ~OfJob(q)',
         told' # None => told'.project = p /\ told'.state = state,
         p \in Discovered =>
           \A record \in ProjectRecords : record.state = state /\ record.updates = updates =>
              ProjectSaid(record, said'.project[p], OfJob(p)')
  PROVE  ResultsInv'
  <1>1. /\ docker' \in [Projects -> ProjectRecords \cup {None}] \cup {None} /\ host' \in ProjectStates \cup {None}
        /\ HostIsSummary' /\ Discovered' = Discovered
        /\ \A q \in Discovered : q # p => docker'[q] = docker[q]
        /\ p \in Discovered => docker'[p].state = state /\ docker'[p].updates = updates
    BY SetProjectEffect
  <1>2. ResultsTypeOK'
    BY <1>1, ResultsTypes DEF ResultsTypeOK
  <1>3. p \in Discovered => docker'[p] \in ProjectRecords
    <2> SUFFICES ASSUME p \in Discovered PROVE docker'[p] \in ProjectRecords
      OBVIOUS
    <2>1. p \in Discovered'
      BY <1>1
    <2>2. docker' # None /\ docker'[p] # None
      BY <2>1 DEF Discovered
    <2> QED
      BY <1>1, <2>2
  <1>4. ProjectsSaid'
    <2> SUFFICES ASSUME NEW q \in Discovered PROVE ProjectSaid(docker'[q], said'.project[q], OfJob(q)')
      BY <1>1 DEF ProjectsSaid
    <2>1. CASE q = p
      BY <1>1, <1>3, <2>1
    <2>2. CASE q # p
      <3>1. q \in Projects /\ ProjectSaid(docker[q], said.project[q], OfJob(q))
        BY DiscoveredFacts DEF ResultsInv, ProjectsSaid
      <3>2. docker'[q] = docker[q] /\ said'.project[q] = said.project[q] /\ ~OfJob(q) /\ ~OfJob(q)'
        BY <1>1, <2>2, <3>1
      <3> QED
        BY <3>1, <3>2 DEF ProjectSaid
    <2> QED
      BY <2>1, <2>2
  <1>5. OsSaid'
    BY DEF ResultsInv, OsSaid
  <1>6. CheckIsTold'
    <2>1. None # p
      BY ResultsAssumption
    <2> QED
      BY <1>1, <2>1 DEF CheckIsTold
  <1> QED
    BY <1>1, <1>2, <1>4, <1>5, <1>6 DEF ResultsInv

\* A job of the host begins, or ends with what it says of the system or the appliance.
LEMMA HostStep ==
  ASSUME ResultsInv, UNCHANGED <<inv, docker, host, refreshes>>,
         os' \in OsStates \cup {None}, health' \in {"unknown", "checking", "available", None} \cup Ended,
         plays' \in 0..MaxPlays, job' \in Plays, told' \in [project : Projects \cup {None}, state : ProjectStates] \cup {None},
         said' \in [os : SUBSET Verdicts, project : [Projects -> SUBSET Verdicts]], said'.project = said.project,
         \A q \in Projects : ~OfJob(q), OsSaid', told' # None => told'.project = None,
         CheckIsTold'
  PROVE  ResultsInv'
  <1>1. ResultsTypeOK'
    BY ResultsTypes DEF ResultsTypeOK
  <1>2. ProjectsSaid'
    <2> SUFFICES ASSUME NEW q \in Discovered PROVE ProjectSaid(docker[q], said.project[q], OfJob(q)')
      BY DEF ProjectsSaid, Discovered
    <2>1. q \in Projects /\ ProjectSaid(docker[q], said.project[q], OfJob(q)) /\ ~OfJob(q)
      BY DiscoveredFacts DEF ResultsInv, ProjectsSaid
    <2> QED
      BY <2>1 DEF ProjectSaid
  <1>3. HostIsSummary'
    BY DEF ResultsInv, HostIsSummary
  <1> QED
    BY <1>1, <1>2, <1>3 DEF ResultsInv

LEMMA BeginEffect ==
  ASSUME ResultsInv, NEW j, Begin(j)
  PROVE  plays' \in 0..MaxPlays /\ job' = j /\ told' = None /\ \A q \in Projects : ~OfJob(q)
  <1>1. plays \in 0..MaxPlays /\ plays < MaxPlays /\ plays' = plays + 1 /\ MaxPlays \in Nat
    BY ResultsTypes, ResultsAssumption DEF Begin
  <1>2. job.op = None
    BY DEF Begin, Idle
  <1>3. None \notin {"docker_check", "docker_project_update"}
    BY NoRecord DEF PlayKinds
  <1> QED
    BY <1>1, <1>2, <1>3 DEF Begin, OfJob

LEMMA BeginHostStep ==
  ASSUME ResultsInv, BeginOs \/ BeginDiscovery \/ BeginHealth
  PROVE  ResultsInv'
  <1>1. PICK j : /\ Begin(j) /\ j \in Plays /\ UNCHANGED <<inv, docker, host, said, refreshes>>
                 /\ os' \in {os, "checking", "updating"} /\ health' \in {health, "checking"}
    <2>1. CASE BeginOs
      <3>1. PICK op \in {"os_check", "os_update"} : Begin([op |-> op]) /\ os' \in {"checking", "updating"}
        BY <2>1 DEF BeginOs
      <3>2. [op |-> op] \in Plays
        BY DEF Plays
      <3> QED
        BY <2>1, <3>1, <3>2 DEF BeginOs
    <2>2. CASE BeginDiscovery
      <3>1. inv.mode \in Listings
        BY ResultsTypes DEF Inventories, Listings, Modes
      <3>2. [op |-> "docker_discovery", listed |-> inv.mode] \in Plays
        BY <3>1 DEF Plays
      <3> QED
        BY <2>2, <3>2 DEF BeginDiscovery
    <2>3. CASE BeginHealth
      <3>1. [op |-> "appliance_health"] \in Plays
        BY DEF Plays
      <3> QED
        BY <2>3, <3>1 DEF BeginHealth
    <2> QED
      BY <2>1, <2>2, <2>3
  <1>2. plays' \in 0..MaxPlays /\ job' = j /\ told' = None /\ \A q \in Projects : ~OfJob(q)
    BY <1>1, BeginEffect
  <1>3. os' \in OsStates \cup {None} /\ health' \in {"unknown", "checking", "available", None} \cup Ended
    BY <1>1, ResultsTypes DEF OsStates
  <1>4. OsSaid'
    BY <1>1 DEF ResultsInv, OsSaid
  <1>5. CheckIsTold'
    BY <1>2 DEF CheckIsTold
  <1>6. said' \in [os : SUBSET Verdicts, project : [Projects -> SUBSET Verdicts]] /\ said'.project = said.project
    BY <1>1, ResultsTypes
  <1> QED
    BY <1>1, <1>2, <1>3, <1>4, <1>5, <1>6, HostStep

LEMMA BeginProjectStep ==
  ASSUME ResultsInv, BeginProject
  PROVE  ResultsInv'
  <1>1. PICK p \in Discovered, op \in {"docker_check", "docker_project_update"}, state \in {"checking", "updating"} :
          /\ inv.mode[p] # None /\ Begin([op |-> op, project |-> p, mode |-> inv.mode[p]])
          /\ SetProject(p, state, None) /\ UNCHANGED <<inv, os, health, said, refreshes>>
    BY DEF BeginProject
  <1>2. p \in Projects
    BY DiscoveredFacts
  <1>3. inv.mode[p] \in Modes
    BY <1>1, <1>2, ResultsTypes DEF Inventories, Modes
  <1> DEFINE j == [op |-> op, project |-> p, mode |-> inv.mode[p]]
  <1>4. j \in Plays /\ j.op \in {"docker_check", "docker_project_update"} /\ j.project = p
    BY <1>2, <1>3 DEF Plays
  <1>5. plays' \in 0..MaxPlays /\ job' = j /\ told' = None /\ \A q \in Projects : ~OfJob(q)
    BY <1>1, BeginEffect
  <1> HIDE DEF j
  <1>6. OfJob(p)' /\ \A q \in Projects : q # p => ~OfJob(q)'
    BY <1>4, <1>5 DEF OfJob
  <1>7. state \in ProjectStates /\ None \notin {"yes", "no"}
    BY NoRecord DEF ProjectStates, OsStates, Verdicts
  <1>8. \A record \in ProjectRecords : record.state = state /\ record.updates = None =>
           ProjectSaid(record, said'.project[p], OfJob(p)')
    BY <1>6, <1>7 DEF ProjectSaid
  <1>9. /\ said' \in [os : SUBSET Verdicts, project : [Projects -> SUBSET Verdicts]] /\ said'.os = said.os
        /\ \A q \in Projects : said'.project[q] = said.project[q]
    BY <1>1, ResultsTypes
  <1> QED
    BY <1>1, <1>2, <1>4, <1>5, <1>6, <1>7, <1>8, <1>9, ProjectStep

\* refresh_inventory clears what the host's groups no longer allow.
LEMMA RefreshInventoryStep ==
  ASSUME ResultsInv, RefreshInventory
  PROVE  ResultsInv'
  <1>1. /\ refreshes < MaxRefreshes /\ refreshes' = refreshes + 1 /\ inv' \in Inventories
        /\ os' \in {os, None} /\ health' \in {health, None}
        /\ (docker' = docker /\ host' = host) \/ (docker' = None /\ host' = None)
        /\ UNCHANGED <<job, told, said, plays>>
    BY DEF RefreshInventory
  <1>2. refreshes' \in 0..MaxRefreshes
    BY <1>1, ResultsTypes, ResultsAssumption
  <1>3. ResultsTypeOK'
    BY <1>1, <1>2, ResultsTypes DEF ResultsTypeOK
  <1>4. None \notin {"up_to_date", "updates_available"}
    BY NoRecord DEF ProjectStates, OsStates
  <1>5. OsSaid'
    BY <1>1, <1>4 DEF ResultsInv, OsSaid
  <1>6. Discovered' = Discovered \/ Discovered' = {}
    BY <1>1 DEF Discovered
  <1>7. docker' = docker \/ Discovered' = {}
    BY <1>1 DEF Discovered
  <1>8. ProjectsSaid'
    BY <1>1, <1>6, <1>7 DEF ResultsInv, ProjectsSaid, OfJob
  <1>9. HostIsSummary'
    BY <1>1 DEF ResultsInv, HostIsSummary
  <1>10. CheckIsTold'
    BY <1>1, <1>6, <1>7 DEF ResultsInv, CheckIsTold
  <1> QED
    BY <1>3, <1>5, <1>8, <1>9, <1>10 DEF ResultsInv

----------------------------------------------------------------------------
\* The end of a job: what it came to

\* How a job of an operation may end, with the contract that was read.
Outcome(ending, contract, out) ==
  \/ ending \in {"failed", "unreachable"}
  \/ /\ out \in Outputs(job.op) /\ contract = Parsed(out)
     /\ ending = IF Missing(job, contract) THEN "incomplete" ELSE "successful"

\* The end of a check or update of the system.
LEMMA EndOsStep ==
  ASSUME ResultsInv, NEW ending, NEW contract, NEW out, Outcome(ending, contract, out),
         EndOs(ending, contract, out), Concluded(ending, contract)
  PROVE  ResultsInv'
  <1>1. job.op \in {"os_check", "os_update"} /\ UNCHANGED <<docker, host, health, inv, plays, refreshes>> /\ job' = Idle
    BY DEF EndOs, Concluded
  <1>2. /\ ending = "successful" => os' = StateOf(contract.update)
        /\ ending = "incomplete" => os' = "unknown"
        /\ ending \in {"failed", "unreachable"} => os' = ending
    BY DEF EndOs
  <1>3. ending \in {"successful", "incomplete", "failed", "unreachable"}
    BY DEF Outcome
  <1>4. said' = [said EXCEPT !.os = IF ending = "successful" THEN VerdictsIn(out, None) ELSE {}]
    BY DEF EndOs
  <1>5. VerdictsIn(out, None) \subseteq Verdicts
    BY DEF VerdictsIn
  <1>6. /\ said' \in [os : SUBSET Verdicts, project : [Projects -> SUBSET Verdicts]] /\ said'.project = said.project
        /\ ending = "successful" => said'.os = VerdictsIn(out, None)
    BY <1>4, <1>5, ResultsTypes
  <1>7. ending = "successful" => contract.update \in VerdictsIn(out, None)
    <2> SUFFICES ASSUME ending = "successful" PROVE contract.update \in VerdictsIn(out, None)
      OBVIOUS
    <2>1. out \in Outputs(job.op) /\ contract = Parsed(out) /\ ~Missing(job, contract)
      BY DEF Outcome
    <2>2. contract.update \in Verdicts
      BY <1>1, <2>1 DEF Missing
    <2> QED
      BY <1>1, <2>1, <2>2, OsVerdict
  <1>8. os' \in OsStates
    BY <1>2, <1>3, StateOfTyped DEF OsStates, Ended
  <1>9. OsSaid'
    <2>1. CASE ending = "successful"
      BY <1>2, <1>6, <1>7, <2>1, StateOfTyped DEF OsSaid
    <2>2. CASE ending # "successful"
      BY <1>2, <1>3, <2>2 DEF OsSaid
    <2> QED
      BY <2>1, <2>2
  <1>10. told' = None \/ told' = [project |-> None, state |-> IF ending # "successful" THEN ending ELSE StateOf(contract.update)]
    BY <1>1 DEF Concluded, CheckResult
  <1>11. /\ told' \in [project : Projects \cup {None}, state : ProjectStates] \cup {None}
         /\ told' # None => told'.project = None
    <2>1. (IF ending # "successful" THEN ending ELSE StateOf(contract.update)) \in ProjectStates
      BY <1>3, StateOfTyped DEF ProjectStates, OsStates, Ended
    <2> QED
      BY <1>10, <2>1
  <1>12. CheckIsTold'
    <2>1. told' # None => told'.project = None
            /\ (os' = told'.state \/ (told'.state = "incomplete" /\ os' = "unknown"))
      BY <1>2, <1>3, <1>10
    <2>2. None \notin Discovered'
      BY ResultsAssumption DEF Discovered
    <2> QED
      BY <2>1, <2>2 DEF CheckIsTold
  <1>13. Idle \in Plays /\ \A q \in Projects : ~OfJob(q)
    BY <1>1 DEF Idle, Plays, OfJob
  <1>14. plays' \in 0..MaxPlays /\ health' \in {"unknown", "checking", "available", None} \cup Ended
    BY <1>1, ResultsTypes
  <1> QED
    BY <1>1, <1>6, <1>8, <1>9, <1>11, <1>12, <1>13, <1>14, HostStep

LEMMA EndHealthStep ==
  ASSUME ResultsInv, NEW ending, NEW contract, NEW out, Outcome(ending, contract, out),
         EndHealth(ending), Concluded(ending, contract)
  PROVE  ResultsInv'
  <1>1. /\ job.op = "appliance_health" /\ UNCHANGED <<os, docker, host, said, inv, plays, refreshes>>
        /\ job' = Idle /\ told' = None /\ health' = IF ending = "successful" THEN "available" ELSE ending
    BY DEF EndHealth, Concluded
  <1>2. ~Missing(job, contract)
    BY <1>1 DEF Missing
  <1>3. health' \in {"available"} \cup Ended
    BY <1>1, <1>2 DEF Outcome, Ended
  <1>4. Idle \in Plays /\ \A q \in Projects : ~OfJob(q)
    BY <1>1 DEF Idle, Plays, OfJob
  <1>5. CheckIsTold'
    BY <1>1 DEF CheckIsTold
  <1>6. OsSaid'
    BY <1>1 DEF ResultsInv, OsSaid
  <1>7. plays' \in 0..MaxPlays /\ os' \in OsStates \cup {None}
        /\ said' \in [os : SUBSET Verdicts, project : [Projects -> SUBSET Verdicts]] /\ said'.project = said.project
    BY <1>1, ResultsTypes
  <1> QED
    BY <1>1, <1>3, <1>4, <1>5, <1>6, <1>7, HostStep

\* The job of a project, and the end of it.
LEMMA ProjectJob ==
  ASSUME ResultsInv, job.op \in {"docker_check", "docker_project_update"}, job' = Idle
  PROVE  /\ job.project \in Projects /\ job.mode \in Modes /\ job' \in Plays
         /\ \A q \in Projects : (q # job.project => ~OfJob(q)) /\ ~OfJob(q)'
  <1>1. job.project \in Projects /\ job.mode \in Modes
    BY ResultsTypes, NoRecord DEF Plays, PlayKinds
  <1>2. job'.op = None /\ job' \in Plays /\ None \notin {"docker_check", "docker_project_update"}
    BY NoRecord DEF Idle, Plays, PlayKinds
  <1> QED
    BY <1>1, <1>2 DEF OfJob

\* The end of a check of a project.
LEMMA EndCheckStep ==
  ASSUME ResultsInv, NEW ending, NEW contract, NEW out, Outcome(ending, contract, out),
         EndCheck(ending, contract, out), Concluded(ending, contract)
  PROVE  ResultsInv'
  <1>0. PICK p \in Projects : p = job.project
    BY ProjectJob DEF EndCheck, Concluded
  <1> DEFINE result == ProjectResult(job, contract)
             v == Verdict(contract, p)
             state == IF ending = "successful" THEN result.state ELSE ending
             updates == IF ending \in {"successful", "incomplete"} THEN result.updates ELSE None
             V == IF ending = "successful" /\ job.mode = "pull" THEN VerdictsIn(out, p) ELSE {}
  <1>1. /\ job.op = "docker_check" /\ job' = Idle /\ UNCHANGED <<os, health, inv, plays, refreshes>>
        /\ said' = [said EXCEPT !.project[p] = V]
    BY <1>0 DEF EndCheck, Concluded
  <1>2. ending \in {"successful", "incomplete", "failed", "unreachable"}
    BY DEF Outcome
  <1>3. SetProject(p, state, updates)
    BY <1>0, <1>2 DEF EndCheck
  <1>4. told' = [project |-> p, state |-> state]
    BY <1>0, <1>1 DEF Concluded, CheckResult
  <1>5. /\ p \in Projects /\ job.mode \in Modes /\ job' \in Plays
        /\ \A q \in Projects : (q # p => ~OfJob(q)) /\ ~OfJob(q)'
    BY <1>0, <1>1, ProjectJob
  <1>6. /\ job.mode = "read_only" => result = [state |-> "read_only", updates |-> None]
        /\ job.mode = "build" => result = [state |-> "not_applicable", updates |-> None]
        /\ job.mode = "pull" => result = [state |-> StateOf(v), updates |-> v]
    BY <1>0, ProjectResultTyped
  <1>7. ending = "successful" => v \in VerdictsIn(out, p)
    BY <1>0, <1>1, <1>5, CheckVerdict DEF Outcome
  <1>8. ending = "incomplete" => v = "unclear"
    BY <1>0, <1>1, MissingVerdict DEF Outcome
  <1>9. VerdictsIn(out, p) \subseteq Verdicts
    BY DEF VerdictsIn
  <1>10. V \subseteq Verdicts
    BY <1>9
  <1> HIDE DEF result, v, V
  <1>11. StateOf(v) \in {"updates_available", "up_to_date", "unknown"}
    BY StateOfTyped
  <1>12. CASE job.mode = "pull"
    <2>1. result.state = StateOf(v) /\ result.updates = v
      BY <1>6, <1>12
    <2>2. v \in Verdicts \/ ending \in {"failed", "unreachable"}
      BY <1>2, <1>7, <1>8, <1>9 DEF Verdicts
    <2>3. state \in ProjectStates /\ updates \in Verdicts \cup {None}
      BY <1>2, <1>11, <2>1, <2>2 DEF ProjectStates, OsStates, Ended
    <2>4. /\ ending = "successful" => state = StateOf(v) /\ updates = v /\ updates \in V
          /\ ending # "successful" => V = {} /\ updates \notin {"yes", "no"} /\ state \in {"incomplete", "failed", "unreachable"}
      <3>1. None \notin {"yes", "no"}
        BY NoRecord DEF Verdicts
      <3> QED
        BY <1>2, <1>7, <1>8, <1>12, <2>1, <3>1 DEF V
    <2>5. \A record \in ProjectRecords : record.state = state /\ record.updates = updates =>
             ProjectSaid(record, V, OfJob(p)')
      <3>1. StateOf(v) = "updates_available" <=> v = "yes"
        BY StateOfTyped
      <3>2. StateOf(v) = "up_to_date" <=> v = "no"
        BY StateOfTyped
      <3> HIDE DEF state, updates
      <3> QED
        BY <1>11, <2>4, <3>1, <3>2 DEF ProjectSaid
    <2>6. said' \in [os : SUBSET Verdicts, project : [Projects -> SUBSET Verdicts]] /\ said'.os = said.os
          /\ said'.project[p] = V /\ \A q \in Projects : q # p => said'.project[q] = said.project[q]
      BY <1>1, <1>5, <1>10, ResultsTypes
    <2>7. told' \in [project : Projects \cup {None}, state : ProjectStates] /\ told'.project = p /\ told'.state = state
      BY <1>4, <1>5, <2>3
    <2>8. plays' \in 0..MaxPlays
      BY <1>1, ResultsTypes
    <2>9. PICK s \in ProjectStates, u \in Verdicts \cup {None} : s = state /\ u = updates
      BY <2>3
    <2> HIDE DEF state, updates
    <2> QED
      BY <1>1, <1>3, <1>5, <2>5, <2>6, <2>7, <2>8, <2>9, ProjectStep
  <1>13. CASE job.mode # "pull"
    <2>1. result.state \in {"read_only", "not_applicable"} /\ result.updates = None
      BY <1>5, <1>6, <1>13 DEF Modes
    <2>2. state \in {"read_only", "not_applicable", "incomplete", "failed", "unreachable"} /\ updates = None /\ V = {}
      BY <1>2, <1>13, <2>1 DEF V
    <2>3. state \in ProjectStates /\ None \notin {"yes", "no"}
      BY <2>2, NoRecord DEF ProjectStates, OsStates, Ended, Inapplicable, Verdicts
    <2>5. \A record \in ProjectRecords : record.state = state /\ record.updates = updates =>
             ProjectSaid(record, V, OfJob(p)')
      <3> HIDE DEF state, updates
      <3> QED
        BY <2>2, <2>3 DEF ProjectSaid
    <2>6. said' \in [os : SUBSET Verdicts, project : [Projects -> SUBSET Verdicts]] /\ said'.os = said.os
          /\ said'.project[p] = V /\ \A q \in Projects : q # p => said'.project[q] = said.project[q]
      BY <1>1, <1>5, <1>10, ResultsTypes
    <2>7. told' \in [project : Projects \cup {None}, state : ProjectStates] /\ told'.project = p /\ told'.state = state
      BY <1>4, <1>5, <2>3
    <2>8. plays' \in 0..MaxPlays
      BY <1>1, ResultsTypes
    <2>9. PICK s \in ProjectStates, u \in Verdicts \cup {None} : s = state /\ u = updates
      BY <2>2, <2>3
    <2> HIDE DEF state, updates
    <2> QED
      BY <1>1, <1>3, <1>5, <2>5, <2>6, <2>7, <2>8, <2>9, ProjectStep
  <1> QED
    BY <1>12, <1>13

\* The end of an update of a project.
LEMMA EndUpdateStep ==
  ASSUME ResultsInv, NEW ending, NEW contract, NEW out, Outcome(ending, contract, out),
         EndUpdate(ending), Concluded(ending, contract)
  PROVE  ResultsInv'
  <1>0. PICK p \in Projects : p = job.project
    BY ProjectJob DEF EndUpdate, Concluded
  <1> DEFINE state == IF ending = "successful" THEN "check_recommended" ELSE ending
  <1>1. /\ job.op = "docker_project_update" /\ job' = Idle /\ told' = None
        /\ UNCHANGED <<os, health, inv, plays, refreshes>> /\ said' = [said EXCEPT !.project[p] = {}]
        /\ SetProject(p, state, None)
    BY <1>0 DEF EndUpdate, Concluded
  <1>2. state \in {"check_recommended", "incomplete", "failed", "unreachable"}
    BY DEF Outcome
  <1>3. state \in ProjectStates /\ None \notin {"yes", "no"}
    BY <1>2, NoRecord DEF ProjectStates, OsStates, Ended, Verdicts
  <1>4. /\ p \in Projects /\ job' \in Plays /\ \A q \in Projects : (q # p => ~OfJob(q)) /\ ~OfJob(q)'
    BY <1>0, <1>1, ProjectJob
  <1>5. said' \in [os : SUBSET Verdicts, project : [Projects -> SUBSET Verdicts]] /\ said'.os = said.os
        /\ said'.project[p] = {} /\ \A q \in Projects : q # p => said'.project[q] = said.project[q]
    BY <1>1, <1>4, ResultsTypes
  <1>8. PICK s \in ProjectStates : s = state
    BY <1>3
  <1> HIDE DEF state
  <1>6. \A record \in ProjectRecords : record.state = s /\ record.updates = None =>
           ProjectSaid(record, said'.project[p], OfJob(p)')
    BY <1>2, <1>3, <1>5, <1>8 DEF ProjectSaid
  <1>7. plays' \in 0..MaxPlays
    BY <1>1, ResultsTypes
  <1> QED
    BY <1>1, <1>4, <1>5, <1>6, <1>7, <1>8, ProjectStep

\* reconcile_docker_projects: a project keeps what it had, or begins anew.
LEMMA ReconciledFacts ==
  ASSUME NEW found, NEW listed \in Listings, NEW prior \in [Projects -> ProjectRecords \cup {None}] \cup {None},
         NEW R, R = Reconciled(found, listed, prior)
  PROVE  /\ R \in [Projects -> ProjectRecords \cup {None}]
         /\ \A p \in Projects : R[p] # None =>
              \/ R[p].updates = None /\ R[p].state \in Inapplicable \cup {"not_checked"}
              \/ /\ prior # None /\ prior[p] # None
                 /\ R[p].state = prior[p].state /\ R[p].updates = prior[p].updates
         /\ \A p \in Projects : p \in found => R[p] # None
  <1> DEFINE
             kept(p) == IF prior # None /\ prior[p] # None THEN prior[p] ELSE [state |-> "not_checked", updates |-> None]
             entry(p) ==
               [approved |-> TRUE, mode |-> listed[p],
                state |-> CASE listed[p] = "read_only" -> "read_only" [] listed[p] = "build" -> "not_applicable"
                            [] OTHER -> kept(p).state,
                updates |-> IF listed[p] = "pull" THEN kept(p).updates ELSE None]
             unlisted == [approved |-> FALSE, mode |-> "read_only", state |-> "unmanaged", updates |-> None]
  <1>1. R = [p \in Projects |-> IF p \notin found THEN None ELSE IF listed[p] = None THEN unlisted ELSE entry(p)]
    BY DEF Reconciled
  <1>2. unlisted \in ProjectRecords /\ unlisted.state \in Inapplicable /\ unlisted.updates = None
    BY DEF ProjectRecords, ProjectStates, Inapplicable, Modes
  <1>3. ASSUME NEW p \in Projects, listed[p] # None
        PROVE  /\ entry(p) \in ProjectRecords
               /\ \/ entry(p).updates = None /\ entry(p).state \in Inapplicable \cup {"not_checked"}
                  \/ /\ prior # None /\ prior[p] # None
                     /\ entry(p).state = prior[p].state /\ entry(p).updates = prior[p].updates
    <2>1. listed[p] \in Modes
      BY <1>3 DEF Listings
    <2>2. kept(p).state \in ProjectStates /\ kept(p).updates \in Verdicts \cup {None}
      BY DEF ProjectRecords, ProjectStates
    <2>3. \/ kept(p).updates = None /\ kept(p).state = "not_checked"
          \/ prior # None /\ prior[p] # None /\ kept(p).state = prior[p].state /\ kept(p).updates = prior[p].updates
      OBVIOUS
    <2> HIDE DEF kept
    <2>4. CASE listed[p] = "pull"
      <3>1. entry(p).state = kept(p).state /\ entry(p).updates = kept(p).updates
        BY <2>4
      <3>2. entry(p) \in ProjectRecords
        BY <2>1, <2>2, <2>4 DEF ProjectRecords
      <3> HIDE DEF entry
      <3> QED
        BY <2>3, <3>1, <3>2
    <2>5. CASE listed[p] \in {"read_only", "build"}
      <3>1. entry(p).state \in {"read_only", "not_applicable"} /\ entry(p).updates = None
        BY <2>5
      <3>2. entry(p) \in ProjectRecords
        BY <2>1, <2>5 DEF ProjectRecords, ProjectStates, Inapplicable
      <3> HIDE DEF entry
      <3> QED
        BY <3>1, <3>2 DEF Inapplicable
    <2> QED
      BY <2>1, <2>4, <2>5 DEF Modes
  <1> HIDE DEF entry, unlisted
  <1> QED
    BY <1>1, <1>2, <1>3, NoRecord

\* The end of a discovery.
LEMMA EndDiscoveryStep ==
  ASSUME ResultsInv, NEW ending, NEW contract, EndDiscovery(ending, contract), Concluded(ending, contract)
  PROVE  ResultsInv'
  <1>1. /\ job.op = "docker_discovery" /\ job' = Idle /\ told' = None
        /\ UNCHANGED <<os, health, inv, plays, refreshes>>
    BY DEF EndDiscovery, Concluded
  <1>2. Idle \in Plays /\ \A q \in Projects : ~OfJob(q)
    BY <1>1 DEF Idle, Plays, OfJob
  <1>3. OsSaid /\ CheckIsTold' /\ plays' \in 0..MaxPlays
    BY <1>1, ResultsTypes DEF ResultsInv, CheckIsTold
  <1>4. CASE ending # "successful"
    <2>1. UNCHANGED <<docker, host, said>>
      BY <1>4 DEF EndDiscovery
    <2>2. OsSaid'
      BY <1>1, <1>3, <2>1 DEF OsSaid
    <2>3. /\ os' \in OsStates \cup {None} /\ health' \in {"unknown", "checking", "available", None} \cup Ended
          /\ said' \in [os : SUBSET Verdicts, project : [Projects -> SUBSET Verdicts]] /\ said'.project = said.project
      BY <1>1, <2>1, ResultsTypes
    <2> QED
      BY <1>1, <1>2, <1>3, <2>1, <2>2, <2>3, HostStep
  <1>5. CASE ending = "successful"
    <2> DEFINE R == Reconciled(contract.found, job.listed, docker)
               V == [p \in Projects |-> IF p \in Discovered /\ docker'[p] # None /\ docker'[p].state = docker[p].state
                                        THEN said.project[p] ELSE {}]
    <2>1. docker' = R /\ host' = Aggregate(docker') /\ said' = [said EXCEPT !.project = V]
      BY <1>5 DEF EndDiscovery
    <2>2. job.listed \in Listings
      BY <1>1, ResultsTypes, NoRecord DEF Plays, PlayKinds
    <2>3. /\ R \in [Projects -> ProjectRecords \cup {None}]
          /\ \A p \in Projects : R[p] # None =>
               \/ R[p].updates = None /\ R[p].state \in Inapplicable \cup {"not_checked"}
               \/ /\ docker # None /\ docker[p] # None
                  /\ R[p].state = docker[p].state /\ R[p].updates = docker[p].updates
      <3>1. PICK found, listed, prior, new : found = contract.found /\ listed = job.listed /\ prior = docker /\ new = R
        OBVIOUS
      <3>2. listed \in Listings /\ prior \in [Projects -> ProjectRecords \cup {None}] \cup {None}
        BY <2>2, <3>1, ResultsTypes
      <3>3. new = Reconciled(found, listed, prior)
        BY <3>1
      <3>4. new = R /\ prior = docker
        BY <3>1
      <3> HIDE DEF R, V
      <3>5. new \in [Projects -> ProjectRecords \cup {None}]
        BY <3>2, <3>3, ReconciledFacts
      <3>6. ASSUME NEW p \in Projects, new[p] # None
            PROVE  \/ new[p].updates = None /\ new[p].state \in Inapplicable \cup {"not_checked"}
                   \/ /\ prior # None /\ prior[p] # None
                      /\ new[p].state = prior[p].state /\ new[p].updates = prior[p].updates
        BY <3>2, <3>3, <3>6, ReconciledFacts
      <3> QED
        BY <3>4, <3>5, <3>6
    <2> HIDE DEF R
    <2>4. docker' # None /\ Discovered' = {p \in Projects : docker'[p] # None}
      BY <2>1, <2>3, NoRecord DEF Discovered
    <2>5. said.os \in SUBSET Verdicts /\ said.project \in [Projects -> SUBSET Verdicts]
      BY ResultsTypes
    <2>6. V \in [Projects -> SUBSET Verdicts]
      BY <2>5
    <2>7. /\ said' \in [os : SUBSET Verdicts, project : [Projects -> SUBSET Verdicts]]
          /\ said'.os = said.os /\ said'.project = V
      <3> HIDE DEF V
      <3> QED
        BY <2>1, <2>6, ResultsTypes
    <2>8. ResultsTypeOK'
      BY <1>1, <1>2, <1>3, <2>1, <2>3, <2>7, AggregateTyped, ResultsTypes DEF ResultsTypeOK
    <2>9. HostIsSummary'
      BY <2>1, <2>4 DEF HostIsSummary
    <2>10. OsSaid'
      BY <1>1, <1>3, <2>7 DEF OsSaid
    <2>11. ProjectsSaid'
      <3> SUFFICES ASSUME NEW p \in Projects, docker'[p] # None
                   PROVE  ProjectSaid(docker'[p], V[p], OfJob(p)')
        BY <2>4, <2>7 DEF ProjectsSaid
      <3>1. None \notin {"yes", "no"}
        BY NoRecord DEF Verdicts
      <3>2. CASE docker'[p].updates = None /\ docker'[p].state \in Inapplicable \cup {"not_checked"}
        <4>1. V[p] = {}
          <5>1. CASE p \in Discovered /\ docker'[p].state = docker[p].state
            <6>1. ProjectSaid(docker[p], said.project[p], OfJob(p)) /\ ~OfJob(p)
              BY <1>2, <5>1 DEF ResultsInv, ProjectsSaid
            <6>2. said.project[p] # {} => docker[p].state = StateOf(docker[p].updates)
              BY <6>1 DEF ProjectSaid
            <6>3. StateOf(docker[p].updates) \in {"updates_available", "up_to_date", "unknown"}
              BY StateOfTyped
            <6>4. said.project[p] = {}
              BY <3>2, <5>1, <6>2, <6>3 DEF Inapplicable
            <6> QED
              BY <6>4
          <5>2. CASE ~(p \in Discovered /\ docker'[p].state = docker[p].state)
            BY <5>2
          <5> QED
            BY <5>1, <5>2
        <4> HIDE DEF V
        <4>2. docker'[p].state \notin {"up_to_date", "updates_available", "checking", "updating"}
          BY <3>2 DEF Inapplicable
        <4> QED
          BY <3>1, <3>2, <4>1, <4>2 DEF ProjectSaid
      <3>3. CASE /\ docker # None /\ docker[p] # None
                 /\ docker'[p].state = docker[p].state /\ docker'[p].updates = docker[p].updates
        <4>1. p \in Discovered
          BY <3>3, DiscoveredFacts
        <4>2. V[p] = said.project[p]
          BY <3>3, <4>1
        <4>3. ProjectSaid(docker[p], said.project[p], OfJob(p)) /\ ~OfJob(p)
          BY <1>2, <4>1 DEF ResultsInv, ProjectsSaid
        <4> HIDE DEF V
        <4> QED
          BY <3>3, <4>2, <4>3 DEF ProjectSaid
      <3> QED
        BY <2>1, <2>3, <3>2, <3>3
    <2> QED
      BY <1>3, <2>8, <2>9, <2>10, <2>11 DEF ResultsInv
  <1> QED
    BY <1>4, <1>5

\* However a job ends.
LEMMA EndStep ==
  ASSUME ResultsInv, NEW ending, NEW contract, NEW out, Outcome(ending, contract, out), End(ending, contract, out)
  PROVE  ResultsInv'
BY EndOsStep, EndDiscoveryStep, EndCheckStep, EndUpdateStep, EndHealthStep DEF End

LEMMA ResultsInitInv == ResultsInit => ResultsInv
  <1> SUFFICES ASSUME ResultsInit PROVE ResultsInv
    OBVIOUS
  <1>1. /\ inv \in Inventories /\ os \in {"unknown", None} /\ docker = None /\ host = None /\ health \in {"unknown", None}
        /\ job = Idle /\ told = None /\ plays = 0 /\ refreshes = 0
        /\ said = [os |-> {}, project |-> [p \in Projects |-> {}]]
    BY DEF ResultsInit
  <1>2. ResultsTypeOK
    BY <1>1, ResultsAssumption DEF ResultsTypeOK, OsStates, Idle, Plays
  <1>3. None \notin {"up_to_date", "updates_available"}
    BY NoRecord DEF ProjectStates, OsStates
  <1>4. OsSaid
    BY <1>1, <1>3 DEF OsSaid
  <1>5. ProjectsSaid /\ HostIsSummary /\ CheckIsTold
    BY <1>1 DEF ProjectsSaid, HostIsSummary, CheckIsTold, Discovered
  <1> QED
    BY <1>2, <1>4, <1>5 DEF ResultsInv

\* The invariant holds in every behaviour of the workload's jobs.
LEMMA ResultsInvariant == ResultsSpec => []ResultsInv
  <1>1. ResultsInv /\ [ResultsNext]_resultsVars => ResultsInv'
    <2> SUFFICES ASSUME ResultsInv, [ResultsNext]_resultsVars PROVE ResultsInv'
      OBVIOUS
    <2>1. CASE UNCHANGED resultsVars
      BY <2>1 DEF resultsVars, ResultsInv, ResultsTypeOK, ProjectsSaid, OsSaid, HostIsSummary, CheckIsTold, Discovered, OfJob
    <2>2. CASE Fail
      <3>1. PICK ending \in {"failed", "unreachable"} : End(ending, Nothing, <<>>)
        BY <2>2 DEF Fail
      <3> QED
        BY <3>1, EndStep DEF Outcome
    <2>3. CASE Succeed
      <3>1. PICK out \in Outputs(job.op) :
              End(IF Missing(job, Parsed(out)) THEN "incomplete" ELSE "successful", Parsed(out), out)
        BY <2>3 DEF Succeed
      <3>2. PICK ending : ending = IF Missing(job, Parsed(out)) THEN "incomplete" ELSE "successful"
        OBVIOUS
      <3>3. Outcome(ending, Parsed(out), out) /\ End(ending, Parsed(out), out)
        BY <3>1, <3>2 DEF Outcome
      <3> QED
        BY <3>3, EndStep
    <2> QED
      BY <2>1, <2>2, <2>3, RefreshInventoryStep, BeginHostStep, BeginProjectStep DEF ResultsNext
  <1> QED
    BY <1>1, ResultsInitInv, PTL DEF ResultsSpec

\* What the workload keeps, the job that runs and what a check was told keep their types.
THEOREM ResultsTypeCorrect == ResultsSpec => []ResultsTypeOK
  <1>1. ResultsInv => ResultsTypeOK
    BY DEF ResultsInv
  <1> QED
    BY <1>1, ResultsInvariant, PTL

\* parse_structured_result_details, _docker_project_result_state, reconcile_docker_projects
\* and _aggregate_docker_project_state together: whatever the playbooks print and the
\* inventory lists, what is shown of the system, of a project and of the host, and what a
\* scheduled check is told, is what was said.
THEOREM VerdictKept == ResultsSpec => []VerdictIsKept
  <1>1. ResultsInv => VerdictIsKept
    <2> SUFFICES ASSUME ResultsInv PROVE VerdictIsKept
      OBVIOUS
    <2> DEFINE needs == {p \in Discovered : docker[p].approved /\ docker[p].state \notin Inapplicable}
    <2>1. None \notin {"up_to_date", "updates_available"}
      BY NoRecord DEF ProjectStates, OsStates
    <2>2. (ShownOs = "up_to_date" => "no" \in said.os) /\ (ShownOs = "updates_available" => "yes" \in said.os)
      BY <2>1 DEF ResultsInv, OsSaid, ShownOs
    <2>3. \A p \in Discovered : ProjectSaid(docker[p], said.project[p], OfJob(p))
      BY DEF ResultsInv, ProjectsSaid
    <2>4. Shown # None =>
            \A p \in Discovered :
              /\ Shown[p].state = "up_to_date" => "no" \in said.project[p]
              /\ Shown[p].state = "updates_available" => "yes" \in said.project[p]
      <3> SUFFICES ASSUME Shown # None, NEW p \in Discovered, Shown[p].state \in {"up_to_date", "updates_available"}
                   PROVE  /\ Shown[p].state = "up_to_date" => "no" \in said.project[p]
                          /\ Shown[p].state = "updates_available" => "yes" \in said.project[p]
        OBVIOUS
      <3>1. Shown = Reconciled(Discovered, inv.mode, docker) /\ docker # None
        BY DEF Shown
      <3>2. inv.mode \in Listings
        BY ResultsTypes DEF Inventories, Listings, Modes
      <3>3. PICK found, listed, prior, new : found = Discovered /\ listed = inv.mode /\ prior = docker /\ new = Shown
        OBVIOUS
      <3>4. p \in Projects
        BY DiscoveredFacts
      <3>5. new = Reconciled(found, listed, prior)
        BY <3>1, <3>3
      <3>6. \/ Shown[p].state \in Inapplicable \cup {"not_checked"}
            \/ Shown[p].state = docker[p].state
        <4>1. listed \in Listings /\ prior \in [Projects -> ProjectRecords \cup {None}] \cup {None} /\ p \in found
          BY <3>2, <3>3, ResultsTypes
        <4> QED
          BY <3>3, <3>4, <3>5, <4>1, ReconciledFacts
      <3>7. Shown[p].state = docker[p].state
        BY <3>6 DEF Inapplicable
      <3> QED
        BY <2>3, <3>7 DEF ProjectSaid
    <2>5. host = "up_to_date" => needs # {} /\ \A p \in needs : "no" \in said.project[p]
      <3> SUFFICES ASSUME host = "up_to_date" PROVE needs # {} /\ \A p \in needs : "no" \in said.project[p]
        OBVIOUS
      <3>1. docker # None /\ Aggregate(docker) = "up_to_date"
        BY <2>1 DEF ResultsInv, HostIsSummary
      <3>2. needs = Needing(docker)
        BY <3>1 DEF Needing, Discovered
      <3>3. needs # {} /\ \A p \in needs : docker[p].updates = "no"
        BY <3>1, <3>2, AggregateUpToDate
      <3> QED
        BY <2>3, <3>3 DEF ProjectSaid
    <2>6. (job.op \notin {"docker_check", "docker_project_update"} /\ \E p \in needs : said.project[p] = {"yes"})
            => host = "updates_available"
      <3> SUFFICES ASSUME job.op \notin {"docker_check", "docker_project_update"}, NEW p \in needs, said.project[p] = {"yes"}
                   PROVE  host = "updates_available"
        OBVIOUS
      <3>1. p \in Projects /\ docker # None /\ docker[p] # None /\ docker[p].approved
        BY DiscoveredFacts
      <3>2. \A q \in Projects : ~OfJob(q)
        BY DEF OfJob
      <3>3. docker[p].updates = "yes"
        BY <2>3, <3>1, <3>2 DEF ProjectSaid
      <3>4. \A q \in Projects : docker[q] # None => docker[q].state \notin {"checking", "updating"}
        BY <2>3, <3>1, <3>2, DiscoveredFacts DEF ProjectSaid
      <3>5. Aggregate(docker) = "updates_available"
        BY <3>1, <3>3, <3>4, AggregateUpdates
      <3> QED
        BY <3>1, <3>5 DEF ResultsInv, HostIsSummary
    <2>7. told # None =>
            CASE told.project = None -> os \in {None, told.state} \/ (told.state = "incomplete" /\ os = "unknown")
              [] told.project \in Discovered -> docker[told.project].state = told.state
              [] OTHER -> TRUE
      <3>1. None \notin Discovered
        BY ResultsAssumption DEF Discovered
      <3> QED
        BY <3>1 DEF ResultsInv, CheckIsTold
    <2> QED
      BY <2>2, <2>4, <2>5, <2>6, <2>7 DEF VerdictIsKept
  <1> QED
    BY <1>1, ResultsInvariant, PTL
=============================================================================
