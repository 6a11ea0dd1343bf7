--------------------------- MODULE Status_proofs ---------------------------
(***************************************************************************)
(* Proofs about Status: the inductive invariant IInv, which says what the  *)
(* records of a Device and of a workload mean, and the properties that the *)
(* shown status keeps because of it.                                       *)
(***************************************************************************)
EXTENDS Status, TLAPS

----------------------------------------------------------------------------
\* The operators

Statuses == {"healthy", "unknown", "stale", "warning", "critical"}

\* _worst of statuses is one of them, and none of them is more severe.
LEMMA WorstIsWorst ==
  ASSUME NEW S \in SUBSET Statuses, S # {}
  PROVE  Worst(S) \in S /\ \A t \in S : Severity[Worst(S)] >= Severity[t]
<1>1. \E s \in S : \A t \in S : Severity[s] >= Severity[t]
  <2>1. CASE "critical" \in S
    BY <2>1 DEF Statuses, Severity
  <2>2. CASE "critical" \notin S /\ "warning" \in S
    BY <2>2 DEF Statuses, Severity
  <2>3. CASE S \cap {"critical", "warning"} = {} /\ "stale" \in S
    BY <2>3 DEF Statuses, Severity
  <2>4. CASE S \cap {"critical", "warning", "stale"} = {} /\ "unknown" \in S
    BY <2>4 DEF Statuses, Severity
  <2>5. CASE S = {"healthy"}
    BY <2>5 DEF Statuses, Severity
  <2> QED BY <2>1, <2>2, <2>3, <2>4, <2>5 DEF Statuses
<1> QED BY <1>1 DEF Worst

\* What is shown healthy is all healthy, and something critical is not outshone.
LEMMA WorstExtremes ==
  ASSUME NEW S \in SUBSET Statuses, S # {}
  PROVE  /\ Worst(S) = "healthy" => S = {"healthy"}
         /\ "critical" \in S => Worst(S) = "critical"
         /\ \A s : S = {s} => Worst(S) = s
<1>1. Worst(S) \in S /\ \A t \in S : Severity[Worst(S)] >= Severity[t]
  BY WorstIsWorst
<1>s. /\ Severity["healthy"] = 0 /\ Severity["critical"] = 4
      /\ \A t \in Statuses : t # "healthy" => Severity[t] \in 1..4
      /\ \A t \in Statuses : t # "critical" => Severity[t] \in 0..3
  BY DEF Statuses, Severity
<1>2. Worst(S) = "healthy" => S = {"healthy"}
  <2>1. SUFFICES ASSUME Worst(S) = "healthy", NEW t \in S, t # "healthy" PROVE FALSE
    BY <1>1
  <2>2. 0 >= Severity[t] /\ Severity[t] \in 1..4
    BY <1>1, <1>s, <2>1
  <2> QED BY <2>2
<1>3. "critical" \in S => Worst(S) = "critical"
  <2>1. SUFFICES ASSUME "critical" \in S, Worst(S) # "critical" PROVE FALSE
    OBVIOUS
  <2>2. Severity[Worst(S)] >= 4 /\ Severity[Worst(S)] \in 0..3
    BY <1>1, <1>s, <2>1
  <2> QED BY <2>2
<1>4. \A s : S = {s} => Worst(S) = s
  BY <1>1
<1> QED BY <1>2, <1>3, <1>4

LEMMA DeviceStatusType == DeviceStatus \in Statuses
BY DEF DeviceStatus, Statuses

\* Time passes for a timestamp that is there, up to the stale age, and keeps order.
LEMMA OlderTimes ==
  ASSUME NEW t \in Times
  PROVE  /\ Older(t) \in Times
         /\ Older(t) = None <=> t = None
         /\ \A u \in Times : u # None /\ t \in 0..u => Older(t) \in 0..Older(u)
BY NoneAssumption DEF Older, Times

----------------------------------------------------------------------------
\* Type correctness

LEMMA NeverPolledType == NeverPolled \in States
BY ConstantsAssumption DEF NeverPolled, States, Times, Values

LEMMA AppliedType ==
  ASSUME NEW prev \in States, NEW ok \in BOOLEAN, NEW icmp \in BOOLEAN, NEW values \in Values
  PROVE  Applied(prev, ok, icmp, values) \in States
<1> DEFINE next == Applied(prev, ok, icmp, values)
<1>1. next.online \in BOOLEAN /\ next.confirmed \in BOOLEAN
  BY DEF Applied
<1>2. next.miss \in 0..OFFLINE_AFTER
  BY ConstantsAssumption DEF Applied, States
<1>3. next.ts \in Times /\ next.source \in Times /\ next.reach \in Times
  BY DEF Applied, States, Times
<1>4. next.values \in Values
  BY DEF Applied, States
<1> QED BY <1>1, <1>2, <1>3, <1>4 DEF Applied, States

LEMMA ContractType ==
  ASSUME NEW c \in Lives, NEW inspect \in BOOLEAN
  PROVE  ContainerContract(c, inspect) \in Contracts /\ ContainerContract(c, inspect) # None
<1>1. ContainerContract(c, inspect) \in Contracts
  BY DEF Contracts
<1> QED BY <1>1, NoneAssumption

\* Initially a Device was never polled, and a workload has no container, or the
\* one that an older version's discovery found.
LEMMA InitIInv == Init => IInv
<1> SUFFICES ASSUME Init PROVE IInv
  OBVIOUS
<1>1. state \in States /\ upkeep \in [checked : Times, nodes : [Nodes -> {"online", "offline", "unknown", None}],
                                      guests : SUBSET Nodes]
  BY NeverPolledType DEF Init, Times
<1>2. PollsRecorded
  BY DEF Init, PollsRecorded, NeverPolled
<1>3. heard = [poll |-> None, nodes |-> None, docker |-> docker.job]
  BY DEF Init
<1>4. CASE docker = [state |-> "none", source |-> None, job |-> None, container |-> None]
  <2>1. found = None /\ docker.source = None /\ docker.job = None /\ docker.container = None /\ docker.state = "none"
    BY <1>4 DEF Init
  <2>2. TypeOK
    BY <1>1, <1>3, <1>4, <2>1 DEF Init, TypeOK, Times
  <2>3. DiscoveryRecorded
    BY <2>1 DEF DiscoveryRecorded
  <2> QED BY <1>2, <2>2, <2>3 DEF IInv
<1>5. CASE docker # [state |-> "none", source |-> None, job |-> None, container |-> None]
  <2>1. PICK c \in Lives : docker = [state |-> "successful", source |-> None, job |-> 0,
                                    container |-> ContainerContract(c, TRUE)]
    BY <1>5 DEF Init
  <2> DEFINE contract == ContainerContract(c, TRUE)
  <2>c. contract \in Contracts /\ contract # None
    BY ContractType, Zenon
  <2> HIDE DEF contract
  <2>d. docker = [state |-> "successful", source |-> None, job |-> 0, container |-> contract]
    BY <2>1, Zenon DEF contract
  <2>2. docker.container = contract /\ docker.source = None /\ docker.job = 0
    BY <2>d
  <2>3. docker.container # None
    BY <2>2, <2>c
  <2>4. found = CHOOSE x \in Lives : ContainerContract(x, TRUE) = docker.container
    BY <2>3 DEF Init
  <2>5. found \in Lives /\ ContainerContract(found, TRUE) = docker.container
    BY <2>2, <2>4 DEF contract
  <2>6. found # None
    BY <2>5, NoneAssumption
  <2>7. TypeOK
    <3>1. docker \in [state : {"none", "checking", "successful", "failed", "unreachable", "unknown"},
                      source : Times, job : Times, container : Contracts \cup {None}]
      BY <2>c, <2>d DEF Times
    <3>2. heard \in [poll : Times, nodes : Times, docker : Times]
      BY <1>3, <2>2 DEF Times
    <3> QED BY <1>1, <2>5, <3>1, <3>2 DEF Init, TypeOK
  <2>8. DiscoveryRecorded
    <3>1. heard.docker = docker.job
      BY <1>3
    <3>2. \E inspect \in BOOLEAN : docker.container = ContainerContract(found, inspect)
      BY <2>5
    <3> QED BY <2>2, <2>3, <2>6, <3>1, <3>2 DEF DiscoveryRecorded
  <2> QED BY <1>2, <2>7, <2>8 DEF IInv
<1> QED BY <1>4, <1>5

\* A poll, answered or not, keeps the record of the Device true.
LEMMA PollIInv ==
  ASSUME IInv, Poll
  PROVE  IInv'
<1>1. PICK ok \in BOOLEAN, values \in IF stack = "truenas" THEN Values ELSE {NoValues} :
        /\ state' = Applied(state, ok, stack = "icmp", values)
        /\ heard' = IF ok THEN [heard EXCEPT !.poll = 0] ELSE heard
  BY DEF Poll
<1>2. UNCHANGED <<stack, upkeep, docker, reboot, found>>
  BY DEF Poll
<1>3. /\ state \in States /\ heard \in [poll : Times, nodes : Times, docker : Times] /\ values \in Values
      /\ heard.poll \in Times
  BY DEF IInv, TypeOK, Values
<1>4. /\ heard' \in [poll : Times, nodes : Times, docker : Times] /\ heard'.docker = heard.docker
      /\ heard'.poll = IF ok THEN 0 ELSE heard.poll
  BY <1>1, <1>3 DEF Times
<1>5. PICK icmp \in BOOLEAN : icmp = (stack = "icmp") /\ state' = Applied(state, ok, icmp, values)
  BY <1>1
<1>6. state' \in States
  BY <1>3, <1>5, AppliedType
<1>7. TypeOK'
  BY <1>2, <1>4, <1>6 DEF IInv, TypeOK
<1>8. DiscoveryRecorded'
  BY <1>2, <1>4 DEF IInv, DiscoveryRecorded
<1>9. /\ state'.online = ok /\ state'.ts = 0
      /\ state'.confirmed = (ok \/ (state'.miss < OFFLINE_AFTER /\ state.confirmed # FALSE))
      /\ state'.miss = IF ok THEN 0 ELSE IF state.miss < OFFLINE_AFTER THEN state.miss + 1 ELSE state.miss
      /\ state'.source = IF ok /\ ~icmp THEN 0
                         ELSE IF state.source = None /\ state.online THEN state.ts ELSE state.source
      /\ state'.reach = IF icmp /\ ok THEN 0 ELSE state.reach
  BY <1>5 DEF Applied
<1>10. None \notin {0, 1, 2}
  BY NoneAssumption
<1>11. state'.confirmed = (state'.miss < OFFLINE_AFTER)
  <2>1. state.miss \in 0..OFFLINE_AFTER
    BY <1>3 DEF States
  <2>a. state.confirmed # FALSE <=> state.miss < OFFLINE_AFTER
    <3>1. CASE state = NeverPolled
      <4>1. state.confirmed = None /\ state.miss = 0
        BY <3>1 DEF NeverPolled
      <4>2. None # FALSE
        BY NoneAssumption, Zenon
      <4>3. state.miss < OFFLINE_AFTER
        BY <4>1, ConstantsAssumption
      <4> QED BY <4>1, <4>2, <4>3, Zenon
    <3>2. CASE state # NeverPolled
      <4>1. state.confirmed = (state.miss < OFFLINE_AFTER)
        BY <3>2 DEF IInv, PollsRecorded
      <4>2. CASE state.miss < OFFLINE_AFTER
        <5>1. state.confirmed = TRUE
          BY <4>1, <4>2
        <5> QED BY <4>2, <5>1, Zenon
      <4>3. CASE ~(state.miss < OFFLINE_AFTER)
        <5>1. state.confirmed # TRUE
          BY <4>1, <4>3, Zenon
        <5>2. state.confirmed \in BOOLEAN
          BY <4>1
        <5> QED BY <4>3, <5>1, <5>2, Zenon
      <4> QED BY <4>2, <4>3
    <3> QED BY <3>1, <3>2
  <2>2. CASE ok
    BY <2>2, <1>9, ConstantsAssumption
  <2>3. CASE ~ok
    <3>1. state'.confirmed = (state'.miss < OFFLINE_AFTER /\ state.miss < OFFLINE_AFTER)
      BY <2>3, <2>a, <1>9
    <3> QED BY <3>1, <2>1, <2>3, <1>9, ConstantsAssumption
  <2> QED BY <2>2, <2>3
<1>12. state'.online => heard'.poll = state'.ts
  BY <1>4, <1>9
<1>13. \A t \in {state'.reach, state'.source} \ {None} : heard'.poll \in 0..t
  <2>1. /\ state.reach \in Times /\ state.source \in Times /\ state.ts \in Times
        /\ state.online => heard.poll = state.ts /\ state.ts # None
        /\ state.reach # None => heard.poll \in 0..state.reach
        /\ state.source # None => heard.poll \in 0..state.source
    BY <1>3 DEF IInv, PollsRecorded, States
  <2>2. CASE ok
    <3>1. {state'.reach, state'.source} \subseteq Times
      BY <1>6 DEF States
    <3> QED BY <2>2, <3>1, <1>4 DEF Times
  <2>3. CASE ~ok
    BY <2>1, <2>3, <1>4, <1>9 DEF Times
  <2> QED BY <2>2, <2>3
<1>14. heard'.poll # None => {state'.reach, state'.source} # {None}
  BY <1>4, <1>9, <1>10 DEF IInv, PollsRecorded
<1>15. PollsRecorded'
  BY <1>9, <1>10, <1>11, <1>12, <1>13, <1>14 DEF PollsRecorded
<1> QED BY <1>7, <1>8, <1>15 DEF IInv

\* The records depend on the state, the workload, what was heard and found alone.
LEMMA FrameIInv ==
  ASSUME IInv, UNCHANGED <<state, docker, heard, found>>
  PROVE  PollsRecorded' /\ DiscoveryRecorded'
BY DEF IInv, PollsRecorded, DiscoveryRecorded

LEMMA EditDriverIInv ==
  ASSUME IInv, EditDriver
  PROVE  IInv'
<1>1. TypeOK'
  BY DEF IInv, TypeOK, EditDriver, Stacks
<1> QED BY <1>1, FrameIInv DEF IInv, EditDriver

LEMMA DiscoverWorkloadsIInv ==
  ASSUME IInv, DiscoverWorkloads
  PROVE  IInv'
<1>1. PICK n \in Nodes : upkeep' = [upkeep EXCEPT !.guests = @ \cup {n}]
  BY DEF DiscoverWorkloads
<1>2. TypeOK'
  BY <1>1 DEF IInv, TypeOK, DiscoverWorkloads
<1> QED BY <1>2, FrameIInv DEF IInv, DiscoverWorkloads

\* The check of the nodes says nothing of the polls and the discoveries.
LEMMA CheckMaintenanceIInv ==
  ASSUME IInv, CheckMaintenance
  PROVE  IInv'
<1>1. PICK nodes \in [Nodes -> {"online", "offline", "unknown"}] :
        /\ upkeep' = [upkeep EXCEPT !.checked = 0, !.nodes = nodes]
        /\ reboot' \in Decisions \cup {NoDecision}
  BY DEF CheckMaintenance
<1>2. heard' = [heard EXCEPT !.nodes = 0] /\ UNCHANGED <<stack, state, docker, found>>
  BY DEF CheckMaintenance
<1>3. upkeep' \in [checked : Times, nodes : [Nodes -> {"online", "offline", "unknown", None}], guests : SUBSET Nodes]
  <2>1. nodes \in [Nodes -> {"online", "offline", "unknown", None}] /\ 0 \in Times
    BY <1>1 DEF Times
  <2> QED BY <1>1, <2>1 DEF IInv, TypeOK
<1>4. /\ heard' \in [poll : Times, nodes : Times, docker : Times]
      /\ heard'.poll = heard.poll /\ heard'.docker = heard.docker
  BY <1>2 DEF IInv, TypeOK, Times
<1>5. TypeOK'
  BY <1>1, <1>2, <1>3, <1>4 DEF IInv, TypeOK
<1>6. PollsRecorded' /\ DiscoveryRecorded'
  BY <1>2, <1>4 DEF IInv, PollsRecorded, DiscoveryRecorded
<1> QED BY <1>5, <1>6 DEF IInv

LEMMA CheckRebootIInv ==
  ASSUME IInv, CheckReboot
  PROVE  IInv'
<1>1. PICK n \in Nodes : upkeep' = [upkeep EXCEPT !.checked = 0, !.nodes[n] = IF @ = None THEN "online" ELSE @]
  BY DEF CheckReboot
<1> DEFINE nodes == [upkeep.nodes EXCEPT ![n] = IF @ = None THEN "online" ELSE @]
<1>2. nodes \in [Nodes -> {"online", "offline", "unknown", None}] /\ 0 \in Times
  BY DEF IInv, TypeOK, Times
<1>3. upkeep' = [upkeep EXCEPT !.checked = 0, !.nodes = nodes]
  BY <1>1 DEF IInv, TypeOK
<1> HIDE DEF nodes
<1>4. upkeep' \in [checked : Times, nodes : [Nodes -> {"online", "offline", "unknown", None}], guests : SUBSET Nodes]
  BY <1>2, <1>3 DEF IInv, TypeOK
<1>5. TypeOK'
  BY <1>4 DEF IInv, TypeOK, CheckReboot
<1> QED BY <1>5, FrameIInv DEF IInv, CheckReboot

\* A discovery that begins is no success, and keeps the age of the last one.
LEMMA BeginDiscoveryIInv ==
  ASSUME IInv, BeginDiscovery
  PROVE  IInv'
<1>1. docker' = [docker EXCEPT !.state = "checking", !.job = 0] /\ UNCHANGED <<stack, state, upkeep, reboot, heard, found>>
  BY DEF BeginDiscovery
<1>2. /\ docker' \in [state : {"none", "checking", "successful", "failed", "unreachable", "unknown"},
                      source : Times, job : Times, container : Contracts \cup {None}]
      /\ docker'.state = "checking" /\ docker'.source = docker.source /\ docker'.container = docker.container
  <2> DEFINE marked == [docker EXCEPT !.state = "checking"]
  <2>1. /\ marked \in [state : {"none", "checking", "successful", "failed", "unreachable", "unknown"},
                       source : Times, job : Times, container : Contracts \cup {None}]
        /\ marked.state = "checking" /\ marked.source = docker.source /\ marked.container = docker.container
    BY DEF IInv, TypeOK
  <2>2. docker' = [marked EXCEPT !.job = 0] /\ 0 \in Times
    BY <1>1 DEF Times, IInv, TypeOK
  <2> HIDE DEF marked
  <2> QED BY <2>1, <2>2
<1>3. TypeOK' /\ PollsRecorded'
  BY <1>1, <1>2 DEF IInv, TypeOK, PollsRecorded
<1>4. DiscoveryRecorded'
  BY <1>1, <1>2 DEF IInv, DiscoveryRecorded
<1> QED BY <1>3, <1>4 DEF IInv

\* A discovery that fails leaves the container and the age of the last success, one
\* that succeeds replaces both.
LEMMA EndDiscoveryIInv ==
  ASSUME IInv, EndDiscovery
  PROVE  IInv'
<1>1. UNCHANGED <<stack, state, upkeep, reboot>>
  BY DEF EndDiscovery
<1>2. CASE \E s \in {"failed", "unreachable", "unknown"} :
             docker' = [docker EXCEPT !.state = s, !.job = 0] /\ UNCHANGED <<heard, found>>
  <2>1. PICK s \in {"failed", "unreachable", "unknown"} : docker' = [docker EXCEPT !.state = s, !.job = 0]
    BY <1>2
  <2>2. /\ docker' \in [state : {"none", "checking", "successful", "failed", "unreachable", "unknown"},
                        source : Times, job : Times, container : Contracts \cup {None}]
        /\ docker'.state = s /\ docker'.source = docker.source /\ docker'.container = docker.container
    <3> DEFINE marked == [docker EXCEPT !.state = s]
    <3>1. /\ marked \in [state : {"none", "checking", "successful", "failed", "unreachable", "unknown"},
                         source : Times, job : Times, container : Contracts \cup {None}]
          /\ marked.state = s /\ marked.source = docker.source /\ marked.container = docker.container
      BY DEF IInv, TypeOK
    <3>2. docker' = [marked EXCEPT !.job = 0] /\ 0 \in Times
      BY <2>1 DEF Times, IInv, TypeOK
    <3> HIDE DEF marked
    <3> QED BY <3>1, <3>2
  <2>3. TypeOK' /\ PollsRecorded'
    BY <1>1, <1>2, <2>2 DEF IInv, TypeOK, PollsRecorded
  <2>4. DiscoveryRecorded'
    BY <1>2, <2>2 DEF IInv, DiscoveryRecorded
  <2> QED BY <2>3, <2>4 DEF IInv
<1>3. CASE \E c \in Lives, inspect \in BOOLEAN :
             /\ docker' = [state |-> "successful", source |-> 0, job |-> 0, container |-> ContainerContract(c, inspect)]
             /\ found' = c /\ heard' = [heard EXCEPT !.docker = 0]
  <2>1. PICK c \in Lives, inspect \in BOOLEAN :
          /\ docker' = [state |-> "successful", source |-> 0, job |-> 0, container |-> ContainerContract(c, inspect)]
          /\ found' = c /\ heard' = [heard EXCEPT !.docker = 0]
    BY <1>3
  <2> DEFINE contract == ContainerContract(c, inspect)
  <2>2. contract \in Contracts /\ contract # None /\ c # None
    BY ContractType, NoneAssumption
  <2>3. \E i \in BOOLEAN : contract = ContainerContract(c, i)
    OBVIOUS
  <2>4. docker' = [state |-> "successful", source |-> 0, job |-> 0, container |-> contract]
    BY <2>1
  <2> HIDE DEF contract
  <2>5. docker' \in [state : {"none", "checking", "successful", "failed", "unreachable", "unknown"},
                     source : Times, job : Times, container : Contracts \cup {None}]
    BY <2>2, <2>4 DEF Times
  <2>6. docker'.source = 0 /\ docker'.job = 0 /\ docker'.container = contract
    BY <2>4
  <2>7. /\ heard' \in [poll : Times, nodes : Times, docker : Times]
        /\ heard'.poll = heard.poll /\ heard'.docker = 0
    BY <2>1 DEF IInv, TypeOK, Times
  <2>8. TypeOK'
    BY <1>1, <2>1, <2>5, <2>7 DEF IInv, TypeOK
  <2>9. PollsRecorded'
    BY <1>1, <2>7 DEF IInv, PollsRecorded
  <2>10. DiscoveryRecorded'
    BY <2>1, <2>2, <2>3, <2>6, <2>7, NoneAssumption DEF DiscoveryRecorded
  <2> QED BY <2>8, <2>9, <2>10 DEF IInv
<1> QED BY <1>2, <1>3 DEF EndDiscovery

\* Time passes for what is recorded and for what was heard alike.
LEMMA TickIInv ==
  ASSUME IInv, Tick
  PROVE  IInv'
<1>1. /\ state' = [state EXCEPT !.ts = Older(@), !.source = Older(@), !.reach = Older(@)]
      /\ upkeep' = [upkeep EXCEPT !.checked = Older(@)]
      /\ docker' = [docker EXCEPT !.source = Older(@), !.job = Older(@)]
      /\ heard' = [x \in DOMAIN heard |-> Older(heard[x])]
      /\ UNCHANGED <<stack, reboot, found>>
  BY DEF Tick
<1>2. /\ state \in States /\ heard \in [poll : Times, nodes : Times, docker : Times]
      /\ {state.ts, state.source, state.reach, heard.poll, heard.nodes, heard.docker,
          docker.source, docker.job, upkeep.checked} \subseteq Times
  BY DEF IInv, TypeOK, States
<1>3. \A t \in Times : Older(t) \in Times /\ (Older(t) = None <=> t = None)
  BY OlderTimes
<1>4. /\ state'.online = state.online /\ state'.miss = state.miss /\ state'.confirmed = state.confirmed
      /\ state'.ts = Older(state.ts) /\ state'.source = Older(state.source) /\ state'.reach = Older(state.reach)
      /\ state' \in States
  <2> DEFINE one == [state EXCEPT !.ts = Older(@)]
             two == [one EXCEPT !.source = Older(@)]
  <2>1. /\ one \in States /\ one.ts = Older(state.ts) /\ one.source = state.source /\ one.reach = state.reach
        /\ one.online = state.online /\ one.miss = state.miss /\ one.confirmed = state.confirmed
    BY <1>2, <1>3 DEF States
  <2>2. state' = [two EXCEPT !.reach = Older(@)]
    BY <1>1, <1>2 DEF States
  <2> HIDE DEF one
  <2>3. /\ two \in States /\ two.ts = Older(state.ts) /\ two.source = Older(state.source) /\ two.reach = state.reach
        /\ two.online = state.online /\ two.miss = state.miss /\ two.confirmed = state.confirmed
    BY <2>1, <1>2, <1>3 DEF States
  <2> HIDE DEF two
  <2> QED BY <2>2, <2>3, <1>2, <1>3 DEF States
<1>5. upkeep' \in [checked : Times, nodes : [Nodes -> {"online", "offline", "unknown", None}], guests : SUBSET Nodes]
  BY <1>1, <1>2, <1>3 DEF IInv, TypeOK
<1>6. /\ docker' \in [state : {"none", "checking", "successful", "failed", "unreachable", "unknown"},
                      source : Times, job : Times, container : Contracts \cup {None}]
      /\ docker'.state = docker.state /\ docker'.container = docker.container
      /\ docker'.source = Older(docker.source) /\ docker'.job = Older(docker.job)
  <2> DEFINE aged == [docker EXCEPT !.source = Older(@)]
  <2>1. /\ aged \in [state : {"none", "checking", "successful", "failed", "unreachable", "unknown"},
                     source : Times, job : Times, container : Contracts \cup {None}]
        /\ aged.state = docker.state /\ aged.container = docker.container
        /\ aged.source = Older(docker.source) /\ aged.job = docker.job
    BY <1>2, <1>3 DEF IInv, TypeOK
  <2>2. docker' = [aged EXCEPT !.job = Older(@)]
    BY <1>1 DEF IInv, TypeOK
  <2> HIDE DEF aged
  <2> QED BY <2>1, <2>2, <1>2, <1>3
<1>7. /\ heard' \in [poll : Times, nodes : Times, docker : Times]
      /\ heard'.poll = Older(heard.poll) /\ heard'.docker = Older(heard.docker)
  BY <1>1, <1>2, <1>3
<1>8. TypeOK'
  BY <1>1, <1>4, <1>5, <1>6, <1>7 DEF IInv, TypeOK
<1>9. DiscoveryRecorded'
  BY <1>1, <1>2, <1>3, <1>6, <1>7 DEF IInv, DiscoveryRecorded
<1>10. state = NeverPolled => state' = NeverPolled
  <2> SUFFICES ASSUME state = NeverPolled PROVE state' = NeverPolled
    OBVIOUS
  <2>1. state.ts = None /\ state.source = None /\ state.reach = None /\ Older(None) = None
    BY <1>2, <1>3 DEF NeverPolled
  <2> QED BY <1>1, <2>1 DEF NeverPolled
<1>11. PollsRecorded'
  <2>1. state' = NeverPolled \/ (state'.ts # None /\ state'.confirmed = (state'.miss < OFFLINE_AFTER))
    BY <1>2, <1>3, <1>4, <1>10 DEF IInv, PollsRecorded
  <2>2. state'.online => state'.ts # None /\ heard'.poll = state'.ts
    BY <1>2, <1>3, <1>4, <1>7 DEF IInv, PollsRecorded
  <2>3. \A t \in {state.reach, state.source} : t # None => Older(heard.poll) \in 0..Older(t)
    BY <1>2, OlderTimes DEF IInv, PollsRecorded
  <2>4. \A t \in {state'.reach, state'.source} \ {None} : heard'.poll \in 0..t
    BY <2>3, <1>2, <1>3, <1>4, <1>7
  <2>5. heard'.poll # None => {state'.reach, state'.source} # {None}
    BY <1>2, <1>3, <1>4, <1>7 DEF IInv, PollsRecorded
  <2> QED BY <2>1, <2>2, <2>4, <2>5 DEF PollsRecorded
<1> QED BY <1>8, <1>9, <1>11 DEF IInv

LEMMA NextIInv == IInv /\ [Next]_vars => IInv'
<1> SUFFICES ASSUME IInv, [Next]_vars PROVE IInv'
  OBVIOUS
<1>1. CASE UNCHANGED vars
  BY <1>1 DEF vars, IInv, TypeOK, PollsRecorded, DiscoveryRecorded
<1>2. CASE Next
  BY <1>2, PollIInv, EditDriverIInv, DiscoverWorkloadsIInv, CheckMaintenanceIInv, CheckRebootIInv,
     BeginDiscoveryIInv, EndDiscoveryIInv, TickIInv DEF Next
<1> QED BY <1>1, <1>2

\* The invariant holds in every reachable state.
THEOREM Invariant == Spec => []IInv
BY InitIInv, NextIInv, PTL DEF Spec

----------------------------------------------------------------------------
\* The shown status

\* What _device_status makes of the record, and what that says of the polls.
LEMMA DeviceIsShown ==
  ASSUME IInv
  PROVE  /\ DeviceStatus = "healthy" => heard.poll \in {0, 1} /\ state.online
         /\ heard.poll = 2 /\ state.miss < OFFLINE_AFTER => DeviceStatus = "stale"
         /\ state.miss = OFFLINE_AFTER => DeviceStatus = "critical"
<1>1. /\ state.miss \in 0..OFFLINE_AFTER /\ heard.poll \in Times
      /\ state.ts \in Times /\ state.source \in Times /\ state.reach \in Times
      /\ None \notin 0..2
  BY NoneAssumption DEF IInv, TypeOK, States
<1>2. CASE state = NeverPolled
  <2>1. /\ state.miss = 0 /\ state.reach = None /\ state.source = None /\ DeviceStatus = "unknown"
    BY <1>2 DEF NeverPolled, DeviceStatus
  <2>2. heard.poll = None
    BY <2>1 DEF IInv, PollsRecorded
  <2>3. heard.poll # 2 /\ state.miss # OFFLINE_AFTER
    BY <2>1, <2>2, <1>1, ConstantsAssumption
  <2> QED BY <2>1, <2>3
<1>3. CASE state # NeverPolled
  <2>1. state.ts # None /\ state.confirmed = (state.miss < OFFLINE_AFTER)
    BY <1>3 DEF IInv, PollsRecorded
  <2>2. CASE ~(state.miss < OFFLINE_AFTER)
    <3>1. ~state.confirmed
      BY <2>1, <2>2, Zenon
    <3>2. DeviceStatus = "critical"
      BY <1>3, <3>1, Zenon DEF DeviceStatus
    <3> QED BY <3>2, <2>2
  <2>3. CASE state.miss < OFFLINE_AFTER
    <3>1. state.confirmed
      BY <2>1, <2>3, Zenon
    <3>2. DeviceStatus = IF Stale(Source(state)) THEN "stale" ELSE IF ~state.online THEN "warning" ELSE "healthy"
      BY <1>3, <3>1, Zenon DEF DeviceStatus
    <3>3. /\ state.reach # None => heard.poll \in 0..state.reach
          /\ state.source # None => heard.poll \in 0..state.source
          /\ state.online => heard.poll = state.ts
          /\ heard.poll # None => state.reach # None \/ state.source # None
      BY DEF IInv, PollsRecorded
    <3>4. heard.poll = 2 => Source(state) = 2
      BY <1>1, <3>3 DEF Source, Times
    <3>5. state.online /\ Source(state) \in {0, 1} => heard.poll \in {0, 1}
      BY <1>1, <3>3 DEF Source, Times
    <3>6. Source(state) \in 0..2
      BY <1>1, <2>1 DEF Source, Times
    <3>7. DeviceStatus = "healthy" => ~Stale(Source(state)) /\ state.online
      BY <3>2
    <3>8. DeviceStatus = "healthy" => heard.poll \in {0, 1}
      BY <3>5, <3>6, <3>7 DEF Stale
    <3>9. heard.poll = 2 => DeviceStatus = "stale"
      BY <3>2, <3>4 DEF Stale
    <3>10. state.miss # OFFLINE_AFTER
      BY <1>1, <2>3, ConstantsAssumption
    <3> QED BY <3>7, <3>8, <3>9, <3>10
  <2> QED BY <2>2, <2>3
<1> QED BY <1>2, <1>3

\* A stack of one Device is no better than the Device.
LEMMA StackFollowsDevice ==
  ASSUME stack \in Stacks, stack # "docker", DeviceStatus # "healthy"
  PROVE  StackStatus = DeviceStatus
<1>0. DeviceStatus \in Statuses
  BY DeviceStatusType
<1>1. CASE stack = "truenas"
  <2>1. StackStatus = TrueNASStatus
    BY <1>1 DEF StackStatus
  <2> QED BY <2>1 DEF TrueNASStatus
<1>2. CASE stack = "proxmox"
  <2>1. StackStatus = ProxmoxStatus
    BY <1>2 DEF StackStatus
  <2>2. CASE KnownNodes = {}
    BY <2>1, <2>2 DEF ProxmoxStatus
  <2>3. CASE KnownNodes # {}
    <3>1. {NodeStatus(n) : n \in KnownNodes} = {DeviceStatus}
      BY <2>3 DEF NodeStatus
    <3>2. Worst({DeviceStatus}) = DeviceStatus
      BY <1>0, WorstExtremes
    <3> QED BY <2>1, <2>3, <3>1, <3>2 DEF ProxmoxStatus
  <2> QED BY <2>2, <2>3
<1>3. CASE stack \notin {"docker", "truenas", "proxmox"}
  <2>1. StackStatus = NetworkStatus
    BY <1>3 DEF StackStatus
  <2>2. Worst({DeviceStatus}) = DeviceStatus
    BY <1>0, WorstExtremes
  <2> QED BY <2>1, <2>2 DEF NetworkStatus
<1> QED BY <1>1, <1>2, <1>3

\* A TrueNAS Device that answers is as well as its pools and alerts.
LEMMA TrueNASIsShown ==
  ASSUME stack = "truenas", DeviceStatus = "healthy"
  PROVE  /\ StackStatus = "healthy" =>
              state.values.pools = {"ONLINE"} /\ (state.values.alerts = 0 \/ state.values.level = "INFO")
         /\ "FAULTED" \in state.values.pools /\ "UNKNOWN" \notin state.values.pools => StackStatus = "critical"
<1> DEFINE pool == PoolStatus(state.values.pools)
           alert == AlertStatus(state.values)
<1>1. StackStatus = Worst({pool, alert})
  BY DEF StackStatus, TrueNASStatus
<1>2. pool \in Statuses /\ alert \in Statuses
  BY DEF PoolStatus, AlertStatus, Statuses
<1>3. pool = "healthy" => state.values.pools = {"ONLINE"}
  BY DEF PoolStatus
<1>4. alert = "healthy" => state.values.alerts = 0 \/ state.values.level = "INFO"
  BY DEF AlertStatus
<1>5. "FAULTED" \in state.values.pools /\ "UNKNOWN" \notin state.values.pools => pool = "critical"
  BY DEF PoolStatus
<1> HIDE DEF pool, alert
<1>6. /\ Worst({pool, alert}) = "healthy" => {pool, alert} = {"healthy"}
      /\ "critical" \in {pool, alert} => Worst({pool, alert}) = "critical"
  BY <1>2, WorstExtremes
<1>7. StackStatus = "healthy" => pool = "healthy" /\ alert = "healthy"
  BY <1>1, <1>6
<1>8. pool = "critical" => StackStatus = "critical"
  BY <1>1, <1>6
<1> QED BY <1>3, <1>4, <1>5, <1>7, <1>8

\* The Docker stack shows its container, unless it has done its work.
LEMMA StackFollowsContainer ==
  ASSUME stack = "docker"
  PROVE  /\ docker.container = None => StackStatus = "unknown"
         /\ docker.container # None /\ ContainerStatus = "completed" => StackStatus = "unknown"
         /\ docker.container # None /\ ContainerStatus # "completed" => StackStatus = ContainerStatus
<1>1. StackStatus = DockerStatus
  BY DEF StackStatus
<1>2. Worst({}) = "unknown"
  BY DEF Worst
<1>3. CASE docker.container = None
  BY <1>1, <1>2, <1>3 DEF DockerStatus
<1>4. CASE docker.container # None /\ ContainerStatus = "completed"
  <2>1. {ContainerStatus} \ {"completed"} = {}
    BY <1>4
  <2> QED BY <1>1, <1>2, <1>4, <2>1 DEF DockerStatus
<1>5. CASE docker.container # None /\ ContainerStatus # "completed"
  <2>1. {ContainerStatus} \ {"completed"} = {ContainerStatus}
    BY <1>5
  <2>2. DiscoveryStatus \in Statuses
    BY DEF DiscoveryStatus, Statuses
  <2>3. ContainerStatus \in Statuses
    BY <1>5, <2>2 DEF ContainerStatus, Statuses
  <2>4. Worst({ContainerStatus}) = ContainerStatus
    BY <2>3, WorstExtremes
  <2> QED BY <1>1, <1>5, <2>1, <2>4 DEF DockerStatus
<1> QED BY <1>3, <1>4, <1>5

\* What a discovery records of the container it found.
LEMMA ContractFields ==
  ASSUME IInv, found # None
  PROVE  \E inspect \in BOOLEAN :
           LET c == docker.container
           IN /\ c.state = found.run /\ (c.labelled <=> found.intent = "oneshot")
              /\ c.health = IF found.health # "none" THEN found.health ELSE IF inspect THEN None ELSE "unknown"
              /\ c.exit = IF inspect \/ found.run = "exited" THEN found.exit ELSE None
              /\ c.policy = IF inspect /\ found.intent = "service" THEN "always" ELSE None
              /\ c.oneShot = IF found.intent \in {"oneshot", "dependency"} THEN "yes"
                             ELSE IF found.intent = "expected" THEN "no" ELSE None
<1>1. PICK inspect \in BOOLEAN : docker.container = ContainerContract(found, inspect)
  BY DEF IInv, DiscoveryRecorded
<1>2. docker.container =
        [state |-> found.run, labelled |-> found.intent = "oneshot",
         health |-> IF found.health # "none" THEN found.health ELSE IF inspect THEN None ELSE "unknown",
         checked |-> IF found.health # "none" THEN "yes" ELSE IF inspect THEN "no" ELSE None,
         exit |-> IF inspect \/ found.run = "exited" THEN found.exit ELSE None,
         policy |-> IF inspect /\ found.intent = "service" THEN "always" ELSE None,
         oneShot |-> IF found.intent \in {"oneshot", "dependency"} THEN "yes"
                             ELSE IF found.intent = "expected" THEN "no" ELSE None]
  BY <1>1, Zenon DEF ContainerContract
<1> DEFINE c == docker.container
<1>3. c.state = found.run
  BY <1>2
<1>4. c.labelled <=> found.intent = "oneshot"
  <2>1. c.labelled = (found.intent = "oneshot")
    BY <1>2
  <2> QED BY <2>1, Zenon
<1>5. c.health = IF found.health # "none" THEN found.health ELSE IF inspect THEN None ELSE "unknown"
  BY <1>2
<1>6. c.exit = IF inspect \/ found.run = "exited" THEN found.exit ELSE None
  BY <1>2
<1>7. c.policy = IF inspect /\ found.intent = "service" THEN "always" ELSE None
  BY <1>2
<1>8. c.oneShot = IF found.intent \in {"oneshot", "dependency"} THEN "yes"
                             ELSE IF found.intent = "expected" THEN "no" ELSE None
  BY <1>2
<1> WITNESS inspect \in BOOLEAN
<1> QED BY <1>3, <1>4, <1>5, <1>6, <1>7, <1>8

\* A recent discovery's container is shown by what was found of it.
LEMMA DockerIsShown ==
  ASSUME IInv, stack = "docker"
  PROVE  /\ StackStatus = "healthy" =>
              heard.docker \in {0, 1} /\ found.run = "running" /\ found.health \in {"healthy", "none"}
         /\ found # None /\ DiscoveryStatus = "healthy" =>
              LET failing == \/ found.run = "restarting" \/ found.health = "unhealthy"
                             \/ found.run = "exited" /\ found.exit = 1
                             \/ found.run = "exited" /\ found.intent = "service" /\ docker.container.policy # None
                             \/ found.run = "exited" /\ found.intent = "expected"
                  completed == found.run = "exited" /\ found.exit = 0 /\ found.intent \in {"oneshot", "dependency"}
              IN (failing => StackStatus = "critical") /\ (completed => StackStatus = "unknown")
<1>1. CASE found = None
  <2>1. StackStatus = "unknown"
    BY <1>1, StackFollowsContainer DEF IInv, DiscoveryRecorded
  <2> QED BY <1>1, <2>1
<1>2. CASE found # None
  <2> DEFINE c == docker.container
  <2>1. PICK inspect \in BOOLEAN :
          /\ c.state = found.run /\ (c.labelled <=> found.intent = "oneshot")
          /\ c.health = IF found.health # "none" THEN found.health ELSE IF inspect THEN None ELSE "unknown"
          /\ c.exit = IF inspect \/ found.run = "exited" THEN found.exit ELSE None
          /\ c.policy = IF inspect /\ found.intent = "service" THEN "always" ELSE None
          /\ c.oneShot = IF found.intent \in {"oneshot", "dependency"} THEN "yes"
                             ELSE IF found.intent = "expected" THEN "no" ELSE None
    BY <1>2, ContractFields
  <2>2. /\ found.run \in {"running", "exited", "restarting", "paused"}
        /\ found.health \in {"none", "healthy", "unhealthy", "starting"}
        /\ found.run # "running" => found.health = "none"
        /\ found.exit \in {0, 1}
        /\ found.intent \in Intents
    BY <1>2 DEF IInv, TypeOK, Lives, Intents
  <2>3. None \notin {0, 1} /\ None \notin {"always", "yes", "no", "unknown"}
        /\ None \notin {"healthy", "unhealthy", "starting", "none"}
    BY NoneAssumption
  <2>4. c # None
    BY <1>2 DEF IInv, DiscoveryRecorded
  <2>5. ContainerStatus \in {"healthy"} => DiscoveryStatus = "healthy" /\ c.state = "running"
                                           /\ c.health \notin {"unhealthy", "starting"}
    BY DEF ContainerStatus
  <2>6. DiscoveryStatus = "healthy" => heard.docker \in {0, 1}
    <3>1. DiscoveryStatus = "healthy" => DiscoveryAge # None /\ ~Stale(DiscoveryAge)
      BY DEF DiscoveryStatus
    <3>2. DiscoveryAge # None => heard.docker = DiscoveryAge
      BY DEF IInv, DiscoveryRecorded, DiscoveryAge
    <3>3. heard.docker \in Times
      BY DEF IInv, TypeOK
    <3> QED BY <3>1, <3>2, <3>3 DEF Stale, Times
  <2>7. StackStatus = "healthy" => ContainerStatus = "healthy"
    BY <2>4, StackFollowsContainer
  <2>8. StackStatus = "healthy" =>
          heard.docker \in {0, 1} /\ found.run = "running" /\ found.health \in {"healthy", "none"}
    BY <2>1, <2>2, <2>5, <2>6, <2>7
  <2>9. ASSUME DiscoveryStatus = "healthy"
        PROVE  /\ found.run = "restarting" => ContainerStatus = "critical"
               /\ found.health = "unhealthy" => ContainerStatus = "critical"
               /\ found.run = "exited" /\ found.exit = 1 => ContainerStatus = "critical"
               /\ found.run = "exited" /\ found.intent = "service" /\ c.policy # None => ContainerStatus = "critical"
               /\ found.run = "exited" /\ found.intent = "expected" => ContainerStatus = "critical"
               /\ found.run = "exited" /\ found.exit = 0 /\ found.intent \in {"oneshot", "dependency"} =>
                    ContainerStatus = "completed"
    <3>1. CASE found.run = "restarting"
      BY <3>1, <2>1, <2>2, <2>9 DEF ContainerStatus
    <3>2. CASE found.run = "running"
      BY <3>2, <2>1, <2>2, <2>9 DEF ContainerStatus
    <3>3. CASE found.run = "paused"
      BY <3>3, <2>2
    <3>4. CASE found.run = "exited"
      <4>1. c.state = "exited" /\ c.exit = found.exit /\ c.exit # None /\ found.health = "none"
        BY <3>4, <2>1, <2>2, <2>3
      <4>2. found.exit = 1 => ContainerStatus = "critical"
        BY <4>1, <2>1, <2>3, <2>9 DEF ContainerStatus
      <4>3. found.intent = "service" /\ c.policy # None => ContainerStatus = "critical"
        <5> SUFFICES ASSUME found.intent = "service", c.policy # None PROVE ContainerStatus = "critical"
          OBVIOUS
        <5>1. c.policy = "always" /\ c.oneShot = None
          BY <2>1
        <5> QED BY <4>1, <5>1, <2>3, <2>9 DEF ContainerStatus
      <4>4. found.exit = 0 /\ found.intent \in {"oneshot", "dependency"} => ContainerStatus = "completed"
        BY <4>1, <2>1, <2>3 DEF ContainerStatus
      <4>5. found.intent = "expected" => ContainerStatus = "critical"
        <5> SUFFICES ASSUME found.intent = "expected" PROVE ContainerStatus = "critical"
          OBVIOUS
        <5>1. c.oneShot = "no" /\ ~c.labelled
          BY <2>1
        <5> QED BY <4>1, <5>1, <2>3, <2>9 DEF ContainerStatus
      <4> QED BY <3>4, <4>1, <4>2, <4>3, <4>4, <4>5
    <3> QED BY <2>2, <3>1, <3>2, <3>3, <3>4
  <2>10. /\ ContainerStatus = "critical" => StackStatus = "critical"
         /\ ContainerStatus = "completed" => StackStatus = "unknown"
    BY <2>4, StackFollowsContainer
  <2> HIDE DEF c
  <2> QED BY <1>2, <2>8, <2>9, <2>10 DEF c
<1> QED BY <1>1, <1>2

LEMMA HealthyIsEarnedInv == IInv => HealthyIsEarned
<1> SUFFICES ASSUME IInv, StackStatus = "healthy"
             PROVE  IF stack = "docker"
                    THEN heard.docker \in {0, 1} /\ found.run = "running" /\ found.health \in {"healthy", "none"}
                    ELSE /\ heard.poll \in {0, 1} /\ state.online
                         /\ stack = "truenas" =>
                              state.values.pools = {"ONLINE"} /\ (state.values.alerts = 0 \/ state.values.level = "INFO")
  BY DEF HealthyIsEarned
<1>1. CASE stack = "docker"
  BY <1>1, DockerIsShown
<1>2. CASE stack # "docker"
  <2>1. DeviceStatus = "healthy"
    BY <1>2, StackFollowsDevice DEF IInv, TypeOK
  <2>2. heard.poll \in {0, 1} /\ state.online
    BY <2>1, DeviceIsShown
  <2>3. stack = "truenas" =>
          state.values.pools = {"ONLINE"} /\ (state.values.alerts = 0 \/ state.values.level = "INFO")
    BY <2>1, TrueNASIsShown
  <2> QED BY <1>2, <2>2, <2>3
<1> QED BY <1>1, <1>2

LEMMA TroubleIsShownInv == IInv => TroubleIsShown
<1> SUFFICES ASSUME IInv PROVE TroubleIsShown
  OBVIOUS
<1>1. /\ stack # "docker" /\ heard.poll = 2 /\ state.miss < OFFLINE_AFTER => StackStatus = "stale"
      /\ stack # "docker" /\ state.miss = OFFLINE_AFTER => StackStatus = "critical"
  BY DeviceIsShown, StackFollowsDevice DEF IInv, TypeOK
<1>2. DeviceStatus = "healthy" /\ stack = "truenas" =>
        ("FAULTED" \in state.values.pools /\ "UNKNOWN" \notin state.values.pools => StackStatus = "critical")
  BY TrueNASIsShown
<1> QED BY <1>1, <1>2, DockerIsShown DEF TroubleIsShown

\* The readings of a source that answered are the node's: where one that knows the pin
\* did, the kernel compared with is the one the node boots next, or none.
LEMMA RebootInv == IInv => RebootFollowsKernel
<1> SUFFICES ASSUME IInv, reboot.probes # "some"
             PROVE  /\ reboot.status = "required" => reboot.due
                    /\ reboot.status = "not_required" => ~reboot.due
                    /\ reboot.probes = "all" => reboot.status # "unknown"
  BY DEF RebootFollowsKernel
<1>1. reboot # NoDecision
  BY DEF NoDecision
<1>2. PICK m \in Machines, ok \in SUBSET Probes : reboot = Decision(m, ok)
  BY <1>1 DEF IInv, TypeOK, Decisions
<1>3. /\ "marker" \in ok /\ ok \cap {"pins", "bootTool"} # {}
      /\ reboot.probes = "all" => ok = Probes
  BY <1>2 DEF Decision, Answered, Probes
<1> DEFINE r == Readings(m, ok)
<1>4. /\ r.running \in {m.running, None} /\ r.pin = m.pin
      /\ r.need \in {m.newest, None} /\ r.installed \in {m.newest, None}
      /\ r.marked <=> m.marker
      /\ ok = Probes => r.running = m.running /\ r.need = m.newest
  BY <1>3 DEF Readings, Probes
<1>5. /\ m.running \in Kernels /\ m.newest \in Kernels /\ m.pin \in Kernels \cup {None} /\ m.marker \in BOOLEAN
      /\ None \notin Kernels
  BY NoneAssumption DEF Machines
<1> HIDE DEF r
<1>6. /\ Target(r) \in {NextKernel(m), None} /\ NextKernel(m) \in Kernels
      /\ ok = Probes => Target(r) # None
  BY <1>4, <1>5 DEF Target, Installed, NextKernel
<1>7. /\ RebootStatus(r) = "required" => Due(m)
      /\ RebootStatus(r) = "not_required" => ~Due(m)
      /\ ok = Probes => RebootStatus(r) # "unknown"
  BY <1>4, <1>5, <1>6 DEF RebootStatus, Due
<1>8. reboot = [status |-> RebootStatus(r), due |-> Due(m), probes |-> Answered(ok)]
  BY <1>2 DEF Decision, r
<1>9. reboot.status = RebootStatus(r) /\ reboot.due = Due(m)
  BY <1>8
<1> QED BY <1>3, <1>7, <1>9

----------------------------------------------------------------------------
\* Theorems

\* The records of the Device, the nodes, the workload and the decision keep their
\* types through every poll, check, discovery and passing of time.
THEOREM TypeCorrect == Spec => []TypeOK
<1>1. IInv => TypeOK
  BY DEF IInv
<1> QED BY Invariant, <1>1, PTL

\* status_summary shows a stack healthy only on a recent success: of a poll of its
\* Device, with well pools and alerts, or of a discovery that saw the container run.
THEOREM HealthyEarned == Spec => []HealthyIsEarned
BY Invariant, HealthyIsEarnedInv, PTL

\* status_summary shows an outage, a faulted pool, a failing container as critical
\* and what no poll has reached for long as stale, of a Device with any number of
\* nodes and any number of misses that confirm an outage.
THEOREM TroubleShown == Spec => []TroubleIsShown
BY Invariant, TroubleIsShownInv, PTL

\* reboot_status: as long as the marker and one source of the pin can be read, a reboot
\* is never required that is not due nor denied that is, whichever other probes fail;
\* when none fails it is decided.
THEOREM RebootDecided == Spec => []RebootFollowsKernel
BY Invariant, RebootInv, PTL
=============================================================================
