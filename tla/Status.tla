------------------------------- MODULE Status -------------------------------
(***************************************************************************)
(* What the operator is told about the health of the homelab: the status   *)
(* summary (backend/asgi/status_service.py) and the Compute summary        *)
(* (compute.summary), computed from what the poller, the Proxmox           *)
(* maintenance check and the Docker discovery jobs left in the document    *)
(* (poller._apply_record, device_updates.py, compute_maintenance.py), and  *)
(* the Proxmox reboot decision (device_updates.reboot_status).             *)
(*                                                                         *)
(* The stacks of the summary meet only in _worst, so a behaviour has one   *)
(* of them, with one Device or one workload of one container.  The age of  *)
(* an observation is 0 or 1 when it is recent, and 2 when it is older than *)
(* the stack's stale threshold.  No code sets expectedToRun on a workload, *)
(* so the guests of a Proxmox Device never change its status.              *)
(***************************************************************************)
EXTENDS Naturals

CONSTANTS
  Nodes,          \* of the Proxmox Device
  OFFLINE_AFTER,  \* polls missed in a row that confirm an outage
  None

ASSUME ConstantsAssumption == OFFLINE_AFTER \in Nat \ {0}

VARIABLES
  stack,    \* the Device's, by its driver; "icmp": a Keeplink switch of the Network stack
  state,    \* device["state"]; None: it was never polled
  upkeep,   \* device["proxmoxMaintenance"]
  docker,   \* the workload's dockerDiscoveryState and container
  reboot,   \* the last reboot decision, and what it should have been
  heard,    \* for the properties: age of the last poll, check or discovery that succeeded
  found     \* for the properties: what that discovery saw of the container

vars == <<stack, state, upkeep, docker, reboot, heard, found>>

Stacks == {"network", "icmp", "proxmox", "truenas", "docker"}
Stale(age) == age > 1
Older(age) == IF age \in {0, 1} THEN age + 1 ELSE age

\* _SEVERITY and _worst
Severity == [healthy |-> 0, unknown |-> 1, stale |-> 2, warning |-> 3, critical |-> 4]
Worst(statuses) ==
  IF statuses = {} THEN "unknown"
  ELSE CHOOSE s \in statuses : \A t \in statuses : Severity[s] >= Severity[t]

----------------------------------------------------------------------------
\* Devices

NoValues == [pools |-> {}, alerts |-> None, level |-> "none"]

\* What the TrueNAS driver reads: the states of its pools, the active alerts and
\* the highest of their levels.
Values ==
  [pools : SUBSET {"ONLINE", "DEGRADED", "FAULTED", "UNKNOWN"}, alerts : {0}, level : {"none"}]
  \cup [pools : {{}, {"ONLINE"}, {"DEGRADED"}}, alerts : {1}, level : {"INFO", "WARNING", "CRITICAL"}]
  \cup {NoValues}

\* _apply_record
Applied(prev, ok, icmp, values) ==
  LET miss == IF ok THEN 0 ELSE IF prev.miss < OFFLINE_AFTER THEN prev.miss + 1 ELSE prev.miss
  IN [online |-> ok, miss |-> miss, ts |-> 0,
      confirmed |-> ok \/ (miss < OFFLINE_AFTER /\ prev.confirmed # FALSE),
      source |-> IF ok /\ ~icmp THEN 0
                 ELSE IF prev.source = None /\ prev.online THEN prev.ts ELSE prev.source,
      reach |-> IF icmp /\ ok THEN 0 ELSE prev.reach,
      values |-> IF ok /\ ~icmp THEN values ELSE prev.values]

NeverPolled == [online |-> FALSE, miss |-> 0, ts |-> None, confirmed |-> None, source |-> None,
                reach |-> None, values |-> NoValues]

\* _source_timestamp
Source(s) == IF s.reach # None THEN s.reach ELSE IF s.source # None THEN s.source ELSE s.ts

\* _device_status
DeviceStatus ==
  IF state = NeverPolled THEN "unknown"
  ELSE IF ~state.confirmed THEN "critical"
  ELSE IF Stale(Source(state)) THEN "stale"
  ELSE IF ~state.online THEN "warning" ELSE "healthy"

\* _network_status, of the one Device of the stack.
NetworkStatus == Worst({DeviceStatus})

PoolStatus(pools) ==
  IF pools = {} THEN "unknown" ELSE IF pools = {"ONLINE"} THEN "healthy"
  ELSE IF "UNKNOWN" \in pools THEN "unknown"
  ELSE IF "FAULTED" \in pools THEN "critical" ELSE "warning"

AlertStatus(v) ==
  IF v.alerts = None THEN "unknown" ELSE IF v.alerts = 0 \/ v.level = "INFO" THEN "healthy"
  ELSE IF v.level = "CRITICAL" THEN "critical" ELSE "warning"

TrueNASStatus ==
  IF DeviceStatus # "healthy" THEN DeviceStatus
  ELSE Worst({PoolStatus(state.values.pools), AlertStatus(state.values)})

----------------------------------------------------------------------------
\* Proxmox nodes

NodeStatus(n) ==
  IF DeviceStatus # "healthy" THEN DeviceStatus
  ELSE IF upkeep.checked # None /\ Stale(upkeep.checked) THEN "stale"
  ELSE IF upkeep.nodes[n] = "offline" THEN "critical"
  ELSE IF upkeep.nodes[n] = "unknown" THEN "unknown" ELSE "healthy"

\* A node is known from a check, or from the workloads found on it; the Device
\* stands for its node when none is.
KnownNodes == {n \in Nodes : upkeep.nodes[n] # None \/ n \in upkeep.guests}
ProxmoxStatus ==
  IF KnownNodes = {} THEN DeviceStatus ELSE Worst({NodeStatus(n) : n \in KnownNodes})

----------------------------------------------------------------------------
\* The reboot decision

Kernels == {"old", "new"}

\* EXTERNAL: a node.  pin: the kernel that is pinned for the next boot; selected:
\* the ones proxmox-boot-tool lists.
Machines == [running : Kernels, newest : Kernels, pin : Kernels \cup {None}, selected : SUBSET Kernels,
             marker : BOOLEAN]
NextKernel(m) == IF m.pin # None THEN m.pin ELSE m.newest
Due(m) == m.marker \/ m.running # NextKernel(m)

Probes == {"running", "pins", "bootTool", "needrestart", "marker", "installed"}

\* What reboot_status reads of the output of the probes that answered: a pin from
\* the pin files or proxmox-boot-tool, the running kernel from needrestart as well.
Readings(m, ok) ==
  [running |-> IF ok \cap {"running", "needrestart"} # {} THEN m.running ELSE None,
   pin |-> IF ok \cap {"pins", "bootTool"} # {} THEN m.pin ELSE None,
   need |-> IF "needrestart" \in ok THEN m.newest ELSE None,
   selected |-> IF "bootTool" \in ok THEN m.selected ELSE {},
   marked |-> "marker" \in ok /\ m.marker,
   installed |-> IF "installed" \in ok THEN m.newest ELSE None]

\* The newest boot image, unless proxmox-boot-tool lists others only.
Installed(r) == IF r.selected = {} \/ r.installed \in r.selected THEN r.installed ELSE None

\* Defect: needrestart is asked before the pins.
TargetUnpinned(r) == IF r.need # None THEN r.need ELSE IF r.pin # None THEN r.pin ELSE Installed(r)

\* The kernel the running one is compared with; None: it cannot be told.  needrestart
\* and the installed images know nothing of a pin.
Target(r) == IF r.pin # None THEN r.pin ELSE IF r.need # None THEN r.need ELSE Installed(r)

\* reboot_status
RebootStatus(r) ==
  IF (None \notin {r.running, Target(r)} /\ r.running # Target(r)) \/ r.marked THEN "required"
  ELSE IF None \in {r.running, Target(r)} THEN "unknown" ELSE "not_required"

\* For the properties: whether all probes answered, or at least the marker and one of
\* the two that know the pin.
Answered(ok) ==
  IF ok = Probes THEN "all"
  ELSE IF "marker" \in ok /\ ok \cap {"pins", "bootTool"} # {} THEN "enough" ELSE "some"

Decision(m, ok) == [status |-> RebootStatus(Readings(m, ok)), due |-> Due(m), probes |-> Answered(ok)]
Decisions == {Decision(m, ok) : m \in Machines, ok \in SUBSET Probes}
NoDecision == [status |-> "unknown", due |-> FALSE, probes |-> "some"]

----------------------------------------------------------------------------
\* Containers

\* EXTERNAL: a container; what its project intends it to be: labelled as one-shot,
\* awaited to complete by another, expected to run by the playbook, kept running by its
\* restart policy, or nothing.
Intents == {"oneshot", "dependency", "expected", "service", "unstated"}
Lives == [run : {"running"}, exit : {0}, health : {"none", "healthy", "unhealthy", "starting"},
          intent : Intents]
         \cup [run : {"exited"}, exit : {0, 1}, health : {"none"},
               intent : Intents]
         \cup [run : {"restarting", "paused"}, exit : {1}, health : {"none"}, intent : {"service"}]

\* Defect: the exit code of a finished container is not read off its status text.
ContainerContractNoExit(c, inspect) ==
  [state |-> c.run, labelled |-> c.intent = "oneshot",
   health |-> IF c.health # "none" THEN c.health ELSE IF inspect THEN None ELSE "unknown",
   checked |-> IF c.health # "none" THEN "yes" ELSE IF inspect THEN "no" ELSE None,
   exit |-> IF inspect THEN c.exit ELSE None,
   policy |-> IF inspect /\ c.intent = "service" THEN "always" ELSE None,
   oneShot |-> IF c.intent \in {"oneshot", "dependency"} THEN "yes"
               ELSE IF c.intent = "expected" THEN "no" ELSE None]

\* _container_contract and _mark_completed_dependencies, of the output of docker
\* inspect, or of docker ps: a restart policy is only in the first, and a container
\* without a healthcheck cannot be told from an unknown one in the second.
ContainerContract(c, inspect) ==
  [state |-> c.run, labelled |-> c.intent = "oneshot",
   health |-> IF c.health # "none" THEN c.health ELSE IF inspect THEN None ELSE "unknown",
   checked |-> IF c.health # "none" THEN "yes" ELSE IF inspect THEN "no" ELSE None,
   exit |-> IF inspect \/ c.run = "exited" THEN c.exit ELSE None,
   policy |-> IF inspect /\ c.intent = "service" THEN "always" ELSE None,
   oneShot |-> IF c.intent \in {"oneshot", "dependency"} THEN "yes"
               ELSE IF c.intent = "expected" THEN "no" ELSE None]

\* Defect: an attempt that failed counts as well.
DiscoveryAgeOfAttempt == IF docker.source # None THEN docker.source ELSE docker.job

\* A discovery's age: sourceCheckedAt, or of an older version's record lastJobAt.
DiscoveryAge == IF docker.source # None THEN docker.source
                ELSE IF docker.state = "successful" THEN docker.job ELSE None
DiscoveryStatus == IF DiscoveryAge = None THEN "unknown" ELSE IF Stale(DiscoveryAge) THEN "stale" ELSE "healthy"

\* _docker_status of the container; "completed" is left out of the stack.
ContainerStatus ==
  LET c == docker.container
      stopped == c.state = "exited"
      oneShot == IF c.oneShot = None /\ c.policy = "always" THEN "no" ELSE c.oneShot
  IN IF stopped /\ oneShot = "yes" /\ c.exit = 0 THEN "completed"
     ELSE IF stopped /\ c.labelled /\ c.exit # None THEN "critical"
     ELSE IF DiscoveryStatus # "healthy" THEN DiscoveryStatus
     ELSE IF c.state = "restarting" \/ (c.state = "running" /\ c.health = "unhealthy") THEN "critical"
     ELSE IF c.state = "running" THEN IF c.health = "starting" THEN "warning" ELSE "healthy"
     ELSE IF stopped /\ (oneShot = "no" \/ c.exit \notin {0, None}) THEN "critical"
     ELSE "unknown"

DockerStatus == Worst(IF docker.container = None THEN {} ELSE {ContainerStatus} \ {"completed"})

\* compute.summary: what the container counts as.
CountsCurrent == docker.state \notin {"failed", "unreachable", "unknown", "incomplete"}

\* Its unknownContainers: what it was meant to be, or how it does, is not known.
LifecycleUnknown(c) ==
  /\ c.state = "exited" /\ c.exit \in {0, None}
  /\ c.oneShot # "no" /\ ~(c.oneShot = "yes" /\ c.exit = 0)
CountsUnknown ==
  /\ docker.container # None
  /\ \/ ~CountsCurrent \/ LifecycleUnknown(docker.container)
     \/ docker.container.state = "running" /\ docker.container.checked = None

----------------------------------------------------------------------------
\* status_summary
StackStatus ==
  CASE stack = "docker" -> DockerStatus
    [] stack = "truenas" -> TrueNASStatus
    [] stack = "proxmox" -> ProxmoxStatus
    [] OTHER -> NetworkStatus

Times == (0..2) \cup {None}

States == [online : BOOLEAN, miss : 0..OFFLINE_AFTER, ts : Times, confirmed : BOOLEAN \cup {None},
           source : Times, reach : Times, values : Values]
Contracts == {ContainerContract(c, inspect) : c \in Lives, inspect \in BOOLEAN}

\* None is none of the values it stands in for.
ASSUME NoneAssumption ==
  /\ None \notin 0..2 /\ None \notin BOOLEAN /\ None \notin Lives /\ None \notin Contracts
  /\ None \notin Kernels \cup {"always", "yes", "no", "online", "offline", "unknown"}
  /\ None \notin {"healthy", "unhealthy", "starting", "none"}

TypeOK ==
  /\ stack \in Stacks /\ state \in States
  /\ upkeep \in [checked : Times, nodes : [Nodes -> {"online", "offline", "unknown", None}], guests : SUBSET Nodes]
  /\ docker \in [state : {"none", "checking", "successful", "failed", "unreachable", "unknown"},
                 source : Times, job : Times, container : Contracts \cup {None}]
  /\ reboot \in Decisions \cup {NoDecision}
  /\ heard \in [poll : Times, nodes : Times, docker : Times] /\ found \in Lives \cup {None}

Init ==
  /\ stack \in Stacks /\ state = NeverPolled
  /\ upkeep = [checked |-> None, nodes |-> [n \in Nodes |-> None], guests |-> {}]
  /\ docker \in {[state |-> "none", source |-> None, job |-> None, container |-> None]}
       \cup {[state |-> "successful", source |-> None, job |-> 0, container |-> ContainerContract(c, TRUE)] :
               c \in {x \in Lives : stack = "docker" /\ x.run = "running"}}
  /\ reboot = NoDecision
  /\ heard = [poll |-> None, nodes |-> None, docker |-> docker.job]
  /\ found = IF docker.container = None THEN None
             ELSE CHOOSE c \in Lives : ContainerContract(c, TRUE) = docker.container

\* A poll of the Device: an ICMP echo only, or a read of its values.
Poll ==
  /\ stack # "docker"
  /\ \E ok \in BOOLEAN, values \in IF stack = "truenas" THEN Values ELSE {NoValues} :
       /\ state' = Applied(state, ok, stack = "icmp", values)
       /\ heard' = IF ok THEN [heard EXCEPT !.poll = 0] ELSE heard
  /\ UNCHANGED <<stack, upkeep, docker, reboot, found>>

\* update_device points the Device at another driver; its state is kept.
EditDriver ==
  /\ stack \in {"icmp", "network"}
  /\ stack' = IF stack = "icmp" THEN "network" ELSE "icmp"
  /\ UNCHANGED <<state, upkeep, docker, reboot, heard, found>>

\* discover_device finds workloads on nodes; they are kept when they are gone.
DiscoverWorkloads ==
  /\ stack = "proxmox"
  /\ \E n \in Nodes : upkeep' = [upkeep EXCEPT !.guests = @ \cup {n}]
  /\ UNCHANGED <<stack, state, docker, reboot, heard, found>>

\* check: the catalogue of every node, and the reboot status of those online.
\* record_refresh_failure changes nothing that is shown here.
CheckMaintenance ==
  /\ stack = "proxmox"
  /\ \E nodes \in [Nodes -> {"online", "offline", "unknown"}] :
       /\ upkeep' = [upkeep EXCEPT !.checked = 0, !.nodes = nodes]
       /\ \/ (\E n \in Nodes : nodes[n] = "online") /\ reboot' \in Decisions
          \/ reboot' = NoDecision
  /\ heard' = [heard EXCEPT !.nodes = 0]
  /\ UNCHANGED <<stack, state, docker, found>>

\* The check before a reboot writes its node's decision, and the time of the
\* whole snapshot (_persist_node_reboot).
CheckReboot ==
  /\ stack = "proxmox"
  /\ \E n \in Nodes : upkeep' = [upkeep EXCEPT !.checked = 0, !.nodes[n] = IF @ = None THEN "online" ELSE @]
  /\ reboot' \in Decisions
  /\ UNCHANGED <<stack, state, docker, heard, found>>

\* A Docker discovery job marks the instance, keeping when it last succeeded ...
BeginDiscovery ==
  /\ stack = "docker" /\ docker.state # "checking"
  /\ docker' = [docker EXCEPT !.state = "checking", !.job = 0]
  /\ UNCHANGED <<stack, state, upkeep, reboot, heard, found>>

\* ... and writes its result: the playbook fails, its output is no valid contract,
\* or the container is recorded (_state_for_result, _set_maintenance_state).
EndDiscovery ==
  /\ stack = "docker" /\ docker.state = "checking"
  /\ \/ /\ \E s \in {"failed", "unreachable", "unknown"} : docker' = [docker EXCEPT !.state = s, !.job = 0]
        /\ UNCHANGED <<heard, found>>
     \/ /\ \E c \in Lives, inspect \in BOOLEAN :
             /\ docker' = [state |-> "successful", source |-> 0, job |-> 0, container |-> ContainerContract(c, inspect)]
             /\ found' = c
        /\ heard' = [heard EXCEPT !.docker = 0]
  /\ UNCHANGED <<stack, state, upkeep, reboot>>

Tick ==
  /\ state' = [state EXCEPT !.ts = Older(@), !.source = Older(@), !.reach = Older(@)]
  /\ upkeep' = [upkeep EXCEPT !.checked = Older(@)]
  /\ docker' = [docker EXCEPT !.source = Older(@), !.job = Older(@)]
  /\ heard' = [x \in DOMAIN heard |-> Older(heard[x])]
  /\ UNCHANGED <<stack, reboot, found>>

Next ==
  \/ Poll \/ EditDriver \/ DiscoverWorkloads \/ CheckMaintenance \/ CheckReboot
  \/ BeginDiscovery \/ EndDiscovery \/ Tick

Spec == Init /\ [][Next]_vars

----------------------------------------------------------------------------
\* Properties

\* "Missing polls are unknown; aged observations are stale": a stack is shown
\* healthy only on the word of a poll that succeeded a short while ago, of pools
\* and alerts that are known to be well, of a container that a recent discovery
\* saw running and not failing its healthcheck.
HealthyIsEarned ==
  StackStatus = "healthy" =>
    IF stack = "docker"
    THEN heard.docker \in {0, 1} /\ found.run = "running" /\ found.health \in {"healthy", "none"}
    ELSE /\ heard.poll \in {0, 1} /\ state.online
         /\ stack = "truenas" =>
              state.values.pools = {"ONLINE"} /\ (state.values.alerts = 0 \/ state.values.level = "INFO")

\* "confirmed outages are critical", "unhealthy, failed, restarting, ... services
\* remain visible": an outage, a faulted pool (all pool states being known), a
\* container that restarts, is unhealthy or stopped against its known purpose is
\* critical as long as it is recent; completed one-shot containers are not.  What is
\* kept of a Device that no poll has reached for long is stale.
TroubleIsShown ==
  /\ stack # "docker" /\ heard.poll = 2 /\ state.miss < OFFLINE_AFTER => StackStatus = "stale"
  /\ stack # "docker" /\ state.miss = OFFLINE_AFTER => StackStatus = "critical"
  /\ DeviceStatus = "healthy" /\ stack = "truenas" =>
       ("FAULTED" \in state.values.pools /\ "UNKNOWN" \notin state.values.pools => StackStatus = "critical")
  /\ stack = "docker" /\ found # None /\ DiscoveryStatus = "healthy" =>
       LET failing == \/ found.run = "restarting" \/ found.health = "unhealthy"
                      \/ found.run = "exited" /\ found.exit = 1
                      \/ found.run = "exited" /\ found.intent = "service" /\ docker.container.policy # None
                      \/ found.run = "exited" /\ found.intent = "expected"
           completed == found.run = "exited" /\ found.exit = 0 /\ found.intent \in {"oneshot", "dependency"}
       IN (failing => StackStatus = "critical") /\ (completed => StackStatus = "unknown")

\* A Device whose last poll, a short while ago, succeeded is healthy.  It is not:
\* a Device that was an ICMP one keeps the age of its last echo for good.
RecoveryIsShown ==
  stack \in {"network", "icmp"} /\ heard.poll \in {0, 1} /\ state.online => StackStatus = "healthy"

\* "It reads the running kernel, honours Proxmox ... pins, consumes needrestart":
\* as long as the marker and one source of the pin can be read, whatever else fails,
\* a reboot is never required that is not due nor denied that is; and when every
\* probe answers it is decided.
RebootFollowsKernel ==
  /\ reboot.probes # "some" =>
       (reboot.status = "required" => reboot.due) /\ (reboot.status = "not_required" => ~reboot.due)
  /\ reboot.probes = "all" => reboot.status # "unknown"

\* "Failed or inconclusive probes produce Reboot status unknown, never No reboot
\* required": a reboot that is due is not denied.  It is: probes that failed are
\* left out of the decision.
RebootIsNotDenied == reboot.status = "not_required" => ~reboot.due

\* A node is shown healthy on the word of a check a short while ago.  It is not:
\* a reboot check renews the time of what was read of every node.
NodesAreFresh ==
  stack = "proxmox" /\ StackStatus = "healthy" /\ (\E n \in Nodes : upkeep.nodes[n] # None) =>
    heard.nodes \in {0, 1}

\* "Retained inventory from a ... failed ... discovery is shown as unknown until a
\* successful refresh replaces it": it counts as healthy again as soon as the
\* next discovery begins.
RetainedIsUnknown == [][CountsUnknown /\ ~CountsUnknown' => heard'.docker = 0]_vars

----------------------------------------------------------------------------
\* The inductive invariant of the proofs

\* What the record of a Device says of the polls: it is kept from the first one on;
\* the outage is confirmed after OFFLINE_AFTER misses; the last poll was answered
\* when the Device is online; no timestamp of a success is younger than the last
\* success, and there is one once there was a success.
PollsRecorded ==
  /\ state = NeverPolled \/ (state.ts # None /\ state.confirmed = (state.miss < OFFLINE_AFTER))
  /\ state.online => state.ts # None /\ heard.poll = state.ts
  /\ \A t \in {state.reach, state.source} \ {None} : heard.poll \in 0..t
  /\ heard.poll # None => {state.reach, state.source} # {None}

\* What the record of a workload says of the discoveries: its container is the one
\* the last successful discovery found, and its age is that of this discovery.
DiscoveryRecorded ==
  /\ docker.container = None <=> found = None
  /\ found # None => \E inspect \in BOOLEAN : docker.container = ContainerContract(found, inspect)
  /\ docker.source # None => heard.docker = docker.source
  /\ docker.source = None /\ docker.state = "successful" => heard.docker = docker.job

IInv == TypeOK /\ PollsRecorded /\ DiscoveryRecorded
=============================================================================
