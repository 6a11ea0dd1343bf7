---------------------------- MODULE DeviceUpdates ----------------------------
(***************************************************************************)
(* Package updates and reboots of the nodes of one Proxmox Device          *)
(* (backend/device_updates.py): request threads that validate and claim    *)
(* the Device's operation slot, the daemon thread that works through the   *)
(* nodes over SSH, the snapshot of the operation kept in the store for     *)
(* status reads after a restart, and the persistent lease that serialises  *)
(* update checks (devices.update_check_lock), which requests, workers and  *)
(* the poller share.                                                       *)
(***************************************************************************)
EXTENDS Naturals, Optional

CONSTANTS
  NodeCount,      \* nodes of the Device
  Pollers,        \* checks of the poller, Compute refreshes and morning runs
  Requests,       \* operations asked for: <<operationType, nodes>>
  MaxOps,         \* bound: operations requested in a behaviour
  MaxFaults       \* bound: crashes and failed store transactions together

\* The nodes, in the order of the catalogue.
Nodes == 1..NodeCount

\* An update names all nodes or one, a reboot one.
ASSUME ConstantsAssumption ==
  /\ Requests \subseteq {"update", "reboot"} \X SUBSET Nodes
  /\ \A r \in Requests : r[1] = "reboot" => \E n \in Nodes : r[2] = {n}
  /\ NodeCount \in Nat /\ MaxOps \in Nat /\ MaxFaults \in Nat
  /\ Pollers \cap Nat = {} /\ None \notin Nodes \cup Pollers \cup Nat

Ops == 1..MaxOps
Checkers == Ops \cup Pollers
NodeStates == {"absent", "pending", "running", "completed", "failed"}

VARIABLES
  slot,         \* id of _JOBS[device], or 0
  kind,         \* operationType
  state,        \* state of an operation in _JOBS
  nodes,        \* state of its nodes in _JOBS
  todo,         \* nodes its thread has not come to
  current,      \* the node its thread is at
  stage,        \* and the stage that node is in
  pc,           \* where the request or the thread of an operation is
  saving,       \* "yes": _JOBS is changed, _persist_operation still to come
  persisted,    \* device.proxmoxUpdateOperation
  lock,         \* holder of the lease in meta.deviceUpdateCheckLocks, or None
  check,        \* where a check is; "confirmed": it found the reboot required
  reader,       \* a status() call: "idle", "load" or "convert"
  readerSaw,    \* the id it read
  updates,      \* EXTERNAL: "available" or "installed" packages of a node
  kernel,       \* EXTERNAL: whether the node runs its newest kernel
  last,         \* history: the operation that claimed the slot last, or 0
  lagging,      \* history: those whose snapshot was still to be written then
  process, crashes, storeErrors

runtime == <<slot, kind, state, nodes, todo, current, stage, pc, saving>>
checking == <<lock, check>>
reading == <<reader, readerSaw>>
outside == <<updates, kernel>>
history == <<last, lagging>>
faults == <<process, crashes, storeErrors>>
vars == <<runtime, persisted, checking, reading, outside, history, faults>>

\* Labels at which the thread of an operation runs.
Threads == {"next", "working", "sent", "refresh", "conclude"}
Labels == Threads \cup {"none", "validate", "insert", "gone", "done"}
Stages == {"preparing", "installing", "checking_reboot_status", "rebooting", "finished"}

TypeOK ==
  /\ slot \in Ops \cup {0}
  /\ kind \in [Ops -> {"update", "reboot"}]
  /\ state \in [Ops -> {"running", "completed", "failed"}]
  /\ nodes \in [Ops -> [Nodes -> NodeStates]]
  /\ todo \in [Ops -> SUBSET Nodes]
  /\ current \in [Ops -> Nodes \cup {None}]
  /\ stage \in [Ops -> Stages]
  /\ pc \in [Ops -> Labels]
  /\ saving \in [Ops -> {"yes", "no"}]
  /\ persisted \in [id : Ops \cup {0}, state : {"running", "completed", "failed", "interrupted"},
                    nodes : [Nodes -> NodeStates]]
  /\ lock \in Checkers \cup {None}
  /\ check \in [Checkers -> {"idle", "inspect", "confirmed", "release"}]
  /\ reader \in {"idle", "load", "convert"} /\ readerSaw \in Ops \cup {0}
  /\ updates \in [Nodes -> {"available", "installed"}]
  /\ kernel \in [Nodes -> {"current", "stale"}]
  /\ last \in Ops \cup {0} /\ lagging \subseteq Ops
  /\ process \in {"up", "down"} /\ crashes \in Nat /\ storeErrors \in Nat

NoNodes == [n \in Nodes |-> "absent"]

Init ==
  /\ slot = 0
  /\ kind = [o \in Ops |-> "update"]
  /\ state = [o \in Ops |-> "running"]
  /\ nodes = [o \in Ops |-> NoNodes]
  /\ todo = [o \in Ops |-> {}]
  /\ current = [o \in Ops |-> None]
  /\ stage = [o \in Ops |-> "preparing"]
  /\ pc = [o \in Ops |-> "none"]
  /\ saving = [o \in Ops |-> "no"]
  /\ persisted = [id |-> 0, state |-> "failed", nodes |-> NoNodes]
  /\ lock = None
  /\ check = [c \in Checkers |-> "idle"]
  /\ reader = "idle" /\ readerSaw = 0
  /\ updates = [n \in Nodes |-> "available"]
  /\ kernel = [n \in Nodes |-> "stale"]
  /\ last = 0 /\ lagging = {}
  /\ process = "up" /\ crashes = 0 /\ storeErrors = 0

Goto(o, label) == pc' = [pc EXCEPT ![o] = label]
Save(o) == saving' = [saving EXCEPT ![o] = "yes"]

StoreFails == crashes + storeErrors < MaxFaults /\ storeErrors' = storeErrors + 1
StoreWorks == storeErrors' = storeErrors

----------------------------------------------------------------------------
\* Requests: start, start_reboot

SlotFree == slot # 0 => state[slot] # "running"

\* The first look at the slot.
Request(o, k, wanted) ==
  /\ process = "up"
  /\ pc[o] = "none" /\ \A p \in Ops : p < o => pc[p] # "none"
  /\ SlotFree
  /\ kind' = [kind EXCEPT ![o] = k]
  /\ todo' = [todo EXCEPT ![o] = wanted]
  /\ Goto(o, "validate")
  /\ UNCHANGED <<slot, state, nodes, current, stage, saving, persisted,
                 checking, reading, outside, faults, history>>

\* start: the catalogue is read from the Device, without the lease; nodes that
\* are offline or have no packages are no targets.
Validate(o) ==
  /\ process = "up"
  /\ pc[o] = "validate" /\ kind[o] = "update"
  /\ \E online \in SUBSET Nodes :
       LET targets == {n \in todo[o] \cap online : updates[n] = "available"}
       IN  /\ todo' = [todo EXCEPT ![o] = targets]
           /\ Goto(o, IF targets = {} THEN "gone" ELSE "insert")
  /\ UNCHANGED <<slot, kind, state, nodes, current, stage, saving, persisted,
                 checking, reading, outside, faults, history>>

\* Defect: the slot is not looked at again.
InsertUnchecked(o) ==
  /\ process = "up"
  /\ pc[o] = "insert"
  /\ slot' = o
  /\ state' = [state EXCEPT ![o] = "running"]
  /\ nodes' = [nodes EXCEPT ![o] = [n \in Nodes |-> IF n \in todo[o] THEN "pending" ELSE "absent"]]
  /\ Goto(o, "next")
  /\ Save(o)
  /\ last' = o /\ lagging' = {p \in Ops : saving[p] = "yes"}
  /\ UNCHANGED <<kind, todo, current, stage, persisted, checking, reading,
                 outside, faults>>

\* The second look at the slot and its claim, under _LOCK.
Insert(o) ==
  /\ process = "up"
  /\ pc[o] = "insert"
  /\ SlotFree
  /\ slot' = o
  /\ state' = [state EXCEPT ![o] = "running"]
  /\ nodes' = [nodes EXCEPT ![o] = [n \in Nodes |-> IF n \in todo[o] THEN "pending" ELSE "absent"]]
  /\ Goto(o, "next")
  /\ Save(o)
  /\ last' = o /\ lagging' = {p \in Ops : saving[p] = "yes"}
  /\ UNCHANGED <<kind, todo, current, stage, persisted, checking, reading,
                 outside, faults>>

InsertConflict(o) ==
  /\ process = "up"
  /\ pc[o] = "insert"
  /\ ~SlotFree
  /\ Goto(o, "gone")
  /\ todo' = [todo EXCEPT ![o] = {}]
  /\ UNCHANGED <<slot, kind, state, nodes, current, stage, saving, persisted,
                 checking, reading, outside, faults, history>>

\* Defect: a terminal state is only kept in memory.
PersistRunningOnly(o) ==
  /\ process = "up"
  /\ saving[o] = "yes"
  /\ saving' = [saving EXCEPT ![o] = "no"]
  /\ \/ /\ persisted' = IF state[o] = "running"
                        THEN [id |-> o, state |-> state[o], nodes |-> nodes[o]] ELSE persisted
        /\ StoreWorks
     \/ persisted' = persisted /\ StoreFails
  /\ UNCHANGED <<slot, kind, state, nodes, todo, current, stage, pc, checking,
                 reading, outside, process, crashes, history>>

\* _persist_operation: outside _LOCK; a failure is logged and forgotten.
Persist(o) ==
  /\ process = "up"
  /\ saving[o] = "yes"
  /\ saving' = [saving EXCEPT ![o] = "no"]
  /\ \/ /\ persisted' = [id |-> o, state |-> state[o], nodes |-> nodes[o]]
        /\ StoreWorks
     \/ persisted' = persisted /\ StoreFails
  /\ UNCHANGED <<slot, kind, state, nodes, todo, current, stage, pc, checking,
                 reading, outside, process, crashes, history>>

----------------------------------------------------------------------------
\* The thread: _run_install, _run_reboot

Working(o, label) == process = "up" /\ pc[o] = label /\ saving[o] = "no"

\* The next node: _set_node_progress (preparing), or _set_node and _set_job
\* (rebooting).
BeginNode(o) ==
  /\ Working(o, "next")
  /\ \E n \in todo[o] :
       /\ \A m \in todo[o] : n <= m
       /\ todo' = [todo EXCEPT ![o] = @ \ {n}]
       /\ current' = [current EXCEPT ![o] = n]
       /\ nodes' = [nodes EXCEPT ![o][n] = "running"]
  /\ stage' = [stage EXCEPT ![o] = IF kind[o] = "update" THEN "preparing" ELSE "rebooting"]
  /\ Goto(o, "working")
  /\ Save(o)
  /\ UNCHANGED <<slot, kind, state, persisted, checking, reading, outside, faults, history>>

\* The package lists are read ("downloading" is part of "preparing" here), or
\* the installation is over.  A finished
\* dist-upgrade leaves no packages and may leave a kernel to boot.
AdvanceStage(o) ==
  LET n == current[o] IN
  /\ Working(o, "working")
  /\ kind[o] = "update" /\ stage[o] # "checking_reboot_status"
  /\ stage' = [stage EXCEPT ![o] =
       IF @ = "preparing" THEN "installing" ELSE "checking_reboot_status"]
  /\ IF stage[o] = "installing"
     THEN /\ updates' = [updates EXCEPT ![n] = "installed"]
          /\ \E k \in {kernel[n], "stale"} : kernel' = [kernel EXCEPT ![n] = k]
     ELSE UNCHANGED outside
  /\ Save(o)
  /\ UNCHANGED <<slot, kind, state, nodes, todo, current, pc, persisted,
                 checking, reading, faults, history>>

\* systemctl reboot is acknowledged.
SendReboot(o) ==
  /\ Working(o, "working")
  /\ kind[o] = "reboot"
  /\ kernel' = [kernel EXCEPT ![current[o]] = "current"]
  /\ Goto(o, "sent")
  /\ UNCHANGED <<slot, kind, state, nodes, todo, current, stage, saving, persisted,
                 checking, reading, updates, faults, history>>

\* Defect: the exception ends the thread.
NodeFailsUncaught(o) ==
  /\ Working(o, "working")
  /\ Goto(o, "gone")
  /\ UNCHANGED <<slot, kind, state, nodes, todo, current, stage, saving, persisted, checking,
                 reading, outside, faults, history>>

\* Any step of a node raises: connection lost, command failed or timed out.
\* What was under way on the node may have taken effect.
NodeFails(o) ==
  LET n == current[o] IN
  /\ Working(o, "working")
  /\ nodes' = [nodes EXCEPT ![o][n] = "failed"]
  /\ \/ UNCHANGED outside
     \/ /\ stage[o] = "installing"
        /\ updates' = [updates EXCEPT ![n] = "installed"] /\ UNCHANGED kernel
     \/ /\ stage[o] = "rebooting"
        /\ kernel' = [kernel EXCEPT ![n] = "current"] /\ UNCHANGED updates
  /\ Goto(o, "next")
  /\ Save(o)
  /\ UNCHANGED <<slot, kind, state, todo, current, stage, persisted, checking,
                 reading, faults, history>>

\* Reboot detection is over, or the reboot is sent; the status found is stored
\* for display (a failure to store it is a diagnostic) and the node is done.
CompleteNode(o) ==
  /\ \/ Working(o, "working") /\ stage[o] = "checking_reboot_status"
     \/ Working(o, "sent")
  /\ nodes' = [nodes EXCEPT ![o][current[o]] = "completed"]
  /\ Goto(o, "next")
  /\ Save(o)
  /\ UNCHANGED <<slot, kind, state, todo, current, stage, persisted, checking,
                 reading, outside, faults, history>>

\* After the last node an installation checks again; a reboot does not.
NodesDone(o) ==
  /\ Working(o, "next")
  /\ todo[o] = {}
  /\ Goto(o, IF kind[o] = "update" THEN "refresh" ELSE "conclude")
  /\ UNCHANGED <<slot, kind, state, nodes, todo, current, stage, saving, persisted,
                 checking, reading, outside, faults, history>>

\* Defect: the result of the last node decides.
ConcludeLast(o) ==
  /\ Working(o, "conclude")
  /\ state' = [state EXCEPT ![o] = IF nodes[o][current[o]] = "failed" THEN "failed" ELSE "completed"]
  /\ Goto(o, "done")
  /\ Save(o)
  /\ UNCHANGED <<slot, kind, nodes, todo, current, stage, persisted, checking,
                 reading, outside, faults, history>>

\* The terminal _set_job (the packageRefresh it follows is not kept apart).
Conclude(o) ==
  /\ Working(o, "conclude")
  /\ state' = [state EXCEPT ![o] =
                 IF \E n \in Nodes : nodes[o][n] = "failed" THEN "failed" ELSE "completed"]
  /\ current' = [current EXCEPT ![o] = None]
  /\ stage' = [stage EXCEPT ![o] = "finished"]
  /\ Goto(o, "done")
  /\ Save(o)
  /\ UNCHANGED <<slot, kind, nodes, todo, persisted, checking,
                 reading, outside, faults, history>>

RunOperation(o) ==
  \/ Persist(o) \/ BeginNode(o) \/ AdvanceStage(o) \/ SendReboot(o)
  \/ NodeFails(o) \/ CompleteNode(o) \/ NodesDone(o) \/ Conclude(o)

----------------------------------------------------------------------------
\* check and the lease of update_check_lock

\* A check is due: a reboot request's second look, a thread's package
\* refresh, or somebody else's.
CheckDue(c) ==
  /\ process = "up"
  /\ check[c] = "idle"
  /\ c \in Ops => (pc[c] = "validate" /\ kind[c] = "reboot") \/ Working(c, "refresh")

\* Where the owner goes after its check: the thread concludes either way.
AfterCheck(c, ok) ==
  IF c \in Pollers THEN UNCHANGED <<pc, todo>>
  ELSE /\ Goto(c, IF pc[c] = "refresh" THEN "conclude"
                  ELSE IF ok THEN "insert" ELSE "gone")
       /\ todo' = IF ok THEN todo ELSE [todo EXCEPT ![c] = {}]

AcquireCheck(c) ==
  /\ CheckDue(c)
  /\ lock = None
  /\ lock' = c
  /\ check' = [check EXCEPT ![c] = "inspect"]
  /\ UNCHANGED <<runtime, persisted, reading, outside, faults, history>>

\* Conflict, or the transaction fails.
RefuseCheck(c) ==
  /\ CheckDue(c)
  /\ (lock # None /\ StoreWorks) \/ StoreFails
  /\ AfterCheck(c, FALSE)
  /\ UNCHANGED <<slot, kind, state, nodes, current, stage, saving, persisted,
                 checking, reading, outside, process, crashes, history>>

\* available_updates, _inspect_reboots, _persist_maintenance: the probes see
\* that a reboot is required, or cannot tell (the Device or the store may fail).
Inspect(c) ==
  /\ process = "up"
  /\ check[c] = "inspect"
  /\ \/ /\ c \in Ops /\ pc[c] = "validate"
        /\ \A n \in todo[c] : kernel[n] = "stale"
        /\ check' = [check EXCEPT ![c] = "confirmed"]
        /\ StoreWorks
     \/ /\ check' = [check EXCEPT ![c] = "release"]
        /\ StoreWorks \/ StoreFails
  /\ UNCHANGED <<runtime, persisted, lock, reading, outside, process, crashes, history>>

\* The finally: a release that fails leaves the lease to expire.
ReleaseCheck(c) ==
  /\ process = "up"
  /\ check[c] \in {"confirmed", "release"}
  /\ check' = [check EXCEPT ![c] = "idle"]
  /\ \/ /\ lock' = IF lock = c THEN None ELSE lock
        /\ AfterCheck(c, check[c] = "confirmed")
        /\ StoreWorks
     \/ lock' = lock /\ AfterCheck(c, FALSE) /\ StoreFails
  /\ UNCHANGED <<slot, kind, state, nodes, current, stage, saving, persisted,
                 reading, outside, process, crashes, history>>

\* expiresAt passes; a check's own timeouts end it long before.
LeaseExpires ==
  /\ lock # None /\ check[lock] = "idle"
  /\ lock' = None
  /\ UNCHANGED <<runtime, persisted, check, reading, outside, faults, history>>

----------------------------------------------------------------------------
\* status, crash and restart

\* status() finds nothing in _JOBS (when it finds an operation it returns it).
StatusLook ==
  /\ process = "up"
  /\ reader = "idle" /\ slot = 0
  /\ reader' = "load"
  /\ UNCHANGED <<runtime, persisted, checking, readerSaw, outside, faults, history>>

StatusLoad ==
  /\ process = "up"
  /\ reader = "load"
  /\ IF persisted.id # 0 /\ persisted.state = "running"
     THEN reader' = "convert" /\ readerSaw' = persisted.id
     ELSE reader' = "idle" /\ readerSaw' = 0
  /\ UNCHANGED <<runtime, persisted, checking, outside, faults, history>>

\* state "failed", stage "interrupted".
Interrupted(p) ==
  [id |-> p.id, state |-> "interrupted",
   nodes |-> [n \in Nodes |->
                IF p.nodes[n] \in {"pending", "running"} THEN "failed" ELSE p.nodes[n]]]

StatusConvert ==
  /\ process = "up"
  /\ reader = "convert"
  /\ reader' = "idle" /\ readerSaw' = 0
  /\ \/ /\ persisted' = IF persisted.id = readerSaw /\ persisted.state = "running"
                        THEN Interrupted(persisted) ELSE persisted
        /\ StoreWorks
     \/ persisted' = persisted /\ StoreFails
  /\ UNCHANGED <<runtime, checking, outside, process, crashes, history>>

\* An operation whose thread, request or last snapshot a crash cuts short.
Cut(o) == pc[o] \in Threads \cup {"validate", "insert"} \/ saving[o] = "yes"

\* _JOBS and every thread are gone; the document stays.
Crash ==
  /\ process = "up"
  /\ crashes + storeErrors < MaxFaults
  /\ crashes' = crashes + 1
  /\ process' = "down"
  /\ slot' = 0
  /\ pc' = [o \in Ops |-> IF Cut(o) THEN "gone" ELSE pc[o]]
  /\ state' = [o \in Ops |-> IF Cut(o) THEN "running" ELSE state[o]]
  /\ nodes' = [o \in Ops |-> IF Cut(o) THEN NoNodes ELSE nodes[o]]
  /\ stage' = [o \in Ops |-> IF Cut(o) THEN "preparing" ELSE stage[o]]
  /\ saving' = [o \in Ops |-> "no"]
  /\ check' = [c \in Checkers |-> "idle"]
  /\ reader' = "idle" /\ readerSaw' = 0
  /\ todo' = [o \in Ops |-> {}]
  /\ current' = [o \in Ops |-> None]
  /\ UNCHANGED <<kind, persisted, lock, outside, storeErrors, history>>

Restart ==
  /\ process = "down"
  /\ process' = "up"
  /\ UNCHANGED <<runtime, persisted, checking, reading, outside, crashes,
                 storeErrors, history>>

Next ==
  \/ \E o \in Ops, r \in Requests : Request(o, r[1], r[2])
  \/ \E o \in Ops : Validate(o) \/ Insert(o) \/ InsertConflict(o)
  \/ \E o \in Ops : RunOperation(o)
  \/ \E c \in Checkers : AcquireCheck(c) \/ RefuseCheck(c) \/ Inspect(c) \/ ReleaseCheck(c)
  \/ LeaseExpires
  \/ StatusLook \/ StatusLoad \/ StatusConvert
  \/ Crash \/ Restart

Spec == Init /\ [][Next]_vars

\* Threads keep running (every SSH and HTTP call has a timeout), a stopped
\* container is restarted, and the browser keeps asking for the status.
FairSpec ==
  /\ Spec
  /\ \A o \in Ops : WF_vars(RunOperation(o))
  /\ \A c \in Checkers : WF_vars(AcquireCheck(c) \/ RefuseCheck(c) \/ Inspect(c) \/ ReleaseCheck(c))
  /\ WF_vars(StatusLook) /\ WF_vars(StatusLoad) /\ WF_vars(StatusConvert)
  /\ WF_vars(Restart)

----------------------------------------------------------------------------
\* Properties

\* docs/operations.md: "Update installs and reboots share one runtime
\* operation slot per Proxmox Device, so they cannot overlap", although both
\* requests validate for a long time between their two looks at the slot.
OneOperation ==
  \A o, p \in Ops : pc[o] \in Threads /\ pc[p] \in Threads => o = p

\* _run_install: an operation that says it completed installed every node it
\* targeted, in memory and in the snapshot a restart will show.
CompletedMeansInstalled ==
  /\ \A o \in Ops : pc[o] = "done" /\ state[o] = "completed" /\ kind[o] = "update" =>
       \A n \in Nodes : nodes[o][n] # "absent" => updates[n] = "installed"
  /\ persisted.state = "completed" /\ kind[persisted.id] = "update" =>
       \A n \in Nodes : persisted.nodes[n] # "absent" => updates[n] = "installed"

\* A snapshot of an operation that ended and wrote its last says what memory says.
SnapshotAgrees ==
  \A o \in Ops :
    pc[o] = "done" /\ saving[o] = "no" /\ persisted.id = o /\ storeErrors = 0
      => persisted.state = state[o] /\ persisted.nodes = nodes[o]

\* When the operation that claimed the slot last has nothing left to write, the
\* snapshot is its own, or that of one whose last snapshot was outstanding when
\* it claimed the slot.
LastShown ==
  last # 0 /\ pc[last] \in Threads \cup {"done"} /\ saving[last] = "no" /\ storeErrors = 0
    => persisted.id \in {last} \cup lagging

\* "The operation snapshot is persisted after each stage and terminal
\* transition", outside _LOCK: without a failed write, a restart reads the
\* latest operation with the result it had.  Only a snapshot that was still
\* outstanding when that operation claimed the slot may replace it, whatever
\* status reads, crashes and older operations do (RestartShowsLast).
DurableResult == SnapshotAgrees /\ LastShown

\* "The operation snapshot is persisted after each stage and terminal
\* transition": once the latest operation ended and wrote its result, a restart
\* shows it.
RestartShowsLast ==
  last # 0 /\ pc[last] = "done" /\ saving[last] = "no" /\ storeErrors = 0 => persisted.id = last

\* status: "rather than leaving the UI stuck": no snapshot says "running" for
\* ever, across crashes, as long as the store can be written.
NoStuckSnapshot ==
  \A o \in Ops :
    persisted.id = o /\ persisted.state = "running"
      ~> ~(persisted.id = o /\ persisted.state = "running") \/ storeErrors > 0

\* status: "A process-local SSH thread cannot survive a backend restart":
\* an operation is reported interrupted only when its thread is gone.
InterruptedMeansStopped ==
  persisted.state = "interrupted" => pc[persisted.id] \notin Threads

----------------------------------------------------------------------------
\* The inductive invariant of the proofs

\* Whoever runs a thread holds the slot, and the slot says so.
ThreadHasSlot == \A o \in Ops : pc[o] \in Threads => slot = o /\ state[o] = "running"

\* A terminal state is the last thing a thread writes to _JOBS, and it writes one.
TerminalIsDone == \A o \in Ops : state[o] # "running" <=> pc[o] = "done"

\* What a request that was not made has left, and what a snapshot is of.
Unborn ==
  /\ \A o \in Ops : pc[o] = "none" => saving[o] = "no"
  /\ persisted.id # 0 => pc[persisted.id] # "none"
  /\ persisted.id = 0 => persisted.state = "failed"

\* The owner of a check waits for it.
CheckAwaited ==
  \A o \in Ops : check[o] # "idle" => (pc[o] = "validate" /\ kind[o] = "reboot") \/ pc[o] = "refresh"

\* How far the thread of an operation has come with its nodes.
NodesProgress(o) ==
  /\ pc[o] \in {"working", "sent"} => current[o] \in Nodes
  /\ pc[o] = "sent" => kind[o] = "reboot"
  /\ pc[o] \in {"refresh", "conclude", "done"} => todo[o] = {}
  /\ pc[o] = "working" /\ kind[o] = "update" =>
       \/ stage[o] \in {"preparing", "installing"}
       \/ stage[o] = "checking_reboot_status" /\ updates[current[o]] = "installed"
  /\ \A n \in Nodes :
       pc[o] \in Threads \cup {"done"} =>
         /\ nodes[o][n] = "pending" => n \in todo[o]
         /\ nodes[o][n] = "running" => pc[o] \in {"working", "sent"} /\ current[o] = n
         /\ nodes[o][n] = "completed" /\ kind[o] = "update" => updates[n] = "installed"
         /\ nodes[o][n] = "failed" => state[o] # "completed"

\* A snapshot that says "completed" is of nodes that were installed.
SnapshotTrue ==
  persisted.state = "completed" /\ kind[persisted.id] = "update" =>
    \A n \in Nodes : persisted.nodes[n] # "absent" => updates[n] = "installed"

\* An outstanding snapshot is of the last operation or was outstanding at its
\* claim; memory holds no older operation.
LateSnapshots ==
  /\ \A o \in Ops : saving[o] = "yes" => o \in {last} \cup lagging
  /\ slot # 0 => slot = last

IInv ==
  /\ TypeOK /\ ThreadHasSlot /\ TerminalIsDone /\ Unborn /\ CheckAwaited
  /\ \A o \in Ops : NodesProgress(o)
  /\ SnapshotTrue /\ SnapshotAgrees

\* What IInv needs for LastShown.
LastInv == LateSnapshots /\ LastShown

=============================================================================
