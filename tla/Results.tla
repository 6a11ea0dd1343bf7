------------------------------ MODULE Results ------------------------------
(***************************************************************************)
(* From the output of a playbook to what a Compute workload shows: the     *)
(* structured result is found in the output, checked and turned into the   *)
(* state of the workload or of one of its Compose projects, and the states *)
(* of the projects into one of the host (backend/compute_maintenance.py),  *)
(* while inventory refreshes change which projects are approved and how    *)
(* they are updated (compute.reconcile_docker_projects,                    *)
(* ansible_integration._clear_incompatible_cached_state).                  *)
(*                                                                         *)
(* The jobs of the workload follow one another here; ComputeJobs is about  *)
(* their overlap, and Status about the containers of a discovery.          *)
(***************************************************************************)
EXTENDS Naturals, Sequences, FiniteSets, Optional

CONSTANTS
  Projects,      \* Compose projects
  Layouts,       \* the places of an output that hold results
  Bad,
  MaxPlays,      \* bound: playbooks run
  MaxRefreshes   \* bound: refreshes of the inventory

\* One result or two; None and Bad are none of the values they stand in for.
ASSUME ResultsAssumption ==
  /\ \A layout \in Layouts : Len(layout) \in {1, 2}
  /\ None \notin Projects /\ MaxPlays \in Nat /\ MaxRefreshes \in Nat

VARIABLES
  inv,      \* the host's groups, and its docker_compose_projects: the mode of each
  os,       \* updateState; None: the workload has none
  docker,   \* docker.projects
  host,     \* dockerUpdateState
  health,   \* applianceHealthState
  job,      \* the job that runs
  told,     \* update_check_result of the check that just ended
  said,     \* for the properties: the verdicts in the output of the last check of each
  plays, refreshes

resultsVars == <<inv, os, docker, host, health, job, told, said, plays, refreshes>>

Modes == {"pull", "build", "read_only"}
Verdicts == {"yes", "no", "unclear"}

\* EXTERNAL: what the inventory lists.
Inventories ==
  [groups : {{"debian_hosts", "docker_hosts"}}, mode : [Projects -> Modes \cup {None}]]
    \cup [groups : {{"docker_hosts"}, {"appliances"}}, mode : {[p \in Projects |-> "pull"]}]

----------------------------------------------------------------------------
\* Playbook output

\* _update_contract: Bad is no object, "unclear" no Boolean.
UpdateContract(raw) == IF raw \in {"yes", "no", Bad} THEN raw ELSE "unclear"

\* _docker_update_contract: the entries of "projects", else the project the result names,
\* which only the keys of an entry describe; a result that says nothing is Bad.
NoEntries == [p \in Projects |-> None]
DockerUpdateContract(raw) ==
  LET available == IF raw.available \in {"yes", "no"} THEN raw.available ELSE "unclear"
      entries == IF raw.projects \in {NoEntries, Bad} /\ raw.single # None
                 THEN [NoEntries EXCEPT ![raw.single] = IF raw.key = "updates_available" THEN available ELSE "unclear"]
                 ELSE raw.projects
  IN IF raw.projects = Bad \/ (available = "unclear" /\ entries = NoEntries /\ ~raw.summary) THEN Bad
     ELSE [available |-> available, projects |-> entries]

\* _docker_contract: the projects listed, and those that containers are labelled with.
DockerContract(raw) == IF raw.valid THEN raw.projects \cup raw.labels ELSE Bad

\* EXTERNAL: the results a playbook may print, by their contracts.
Updates == {UpdateContract(raw) : raw \in {"yes", "no", None, Bad}}
DockerUpdates ==
  {DockerUpdateContract(raw) : raw \in
     [available : {"yes", "no", None}, key : {"updates_available"}, projects : {Bad, NoEntries}, single : {None}, summary : BOOLEAN]
       \cup [available : {"yes"}, key : {"updates_available", "available"}, projects : {NoEntries}, single : Projects, summary : {FALSE}]
       \cup [available : {None}, key : {"updates_available"}, projects : [Projects -> {"yes", "no", None}], single : {None}, summary : {TRUE}]}
Discoveries == {DockerContract(raw) : raw \in [valid : BOOLEAN, projects : SUBSET Projects, labels : SUBSET Projects]}

\* _result_mapping: a result has one of the keys.
Nothing == [update |-> None, docker |-> None, found |-> None]
Printed(op) ==
  CASE op \in {"os_check", "os_update"} -> [update : Updates, docker : {None}, found : {None}]
    [] op = "docker_check" -> ([update : {None} \cup Updates, docker : {None, Bad}, found : {None}]
                                 \cup [update : {None}, docker : DockerUpdates, found : {None}]) \ {Nothing}
    [] op = "docker_discovery" -> [update : {None}, docker : {None}, found : Discoveries]
    [] OTHER -> {}

\* EXTERNAL: an output has results in the places of one of Layouts; the second is
\* one of the older kind, that may contradict the first.
Plain(result) == result.docker = None
Outputs(op) ==
  LET single == {l \in Layouts : Len(l) = 1}
      plain == {r \in Printed(op) : Plain(r)}
  IN {<<>>} \cup {<<[place |-> l[1], result |-> r]>> : l \in single, r \in Printed(op)}
       \cup {<<[place |-> l[1], result |-> r], [place |-> l[2], result |-> q]>> :
               l \in Layouts \ single, r \in Printed(op), q \in plain}

\* parse_structured_result_details: the first result that set_stats published, then the
\* first that stands by itself, the first in the message of a task, the last marked line.
Indices(out, place) == {i \in DOMAIN out : out[i].place = place}
FirstAt(out, place) == out[CHOOSE i \in Indices(out, place) : \A j \in Indices(out, place) : i <= j].result
LastAt(out, place) == out[CHOOSE i \in Indices(out, place) : \A j \in Indices(out, place) : i >= j].result
Parsed(out) ==
  IF Indices(out, "stats") # {} THEN FirstAt(out, "stats")
  ELSE IF Indices(out, "direct") # {} THEN FirstAt(out, "direct")
  ELSE IF Indices(out, "msg") # {} THEN FirstAt(out, "msg")
  ELSE IF Indices(out, "marker") # {} THEN LastAt(out, "marker") ELSE Nothing

\* For the properties: every verdict the output holds on the system, or on project p.
VerdictsIn(out, p) ==
  LET results == {out[i].result : i \in DOMAIN out}
      updates == {r.docker : r \in results} \ {None, Bad}
  IN Verdicts \cap (   {r.update : r \in results} \cup {d.projects[p] : d \in updates}
                    \cup {d.available : d \in {u \in updates : u.projects = NoEntries}})

\* _docker_project_result_state: the verdict on one project, taken from
\* its entry, from the host's when there are no entries, or from an older contract.
Entries(d) == {p \in Projects : d.projects[p] # None}
Verdict(contract, p) ==
  LET d == contract.docker
  IN IF d \notin {None, Bad}
     THEN IF p \in Entries(d) THEN d.projects[p] ELSE IF Entries(d) = {} THEN d.available ELSE "unclear"
     ELSE IF contract.update \in Verdicts THEN contract.update ELSE "unclear"

\* _missing_result_summary
Missing(j, contract) ==
  CASE j.op \in {"os_check", "os_update"} -> contract.update \notin Verdicts
    [] j.op = "docker_discovery" -> contract.found \in {None, Bad}
    [] j.op = "docker_check" ->
         IF contract.docker \in {None, Bad} THEN contract.update \notin Verdicts
         ELSE Entries(contract.docker) # {} /\ j.project \notin Entries(contract.docker)
    [] OTHER -> FALSE

StateOf(verdict) ==
  CASE verdict = "yes" -> "updates_available" [] verdict = "no" -> "up_to_date" [] OTHER -> "unknown"

\* _docker_project_result_state
ProjectResult(j, contract) ==
  CASE j.mode = "read_only" -> [state |-> "read_only", updates |-> None]
    [] j.mode = "build" -> [state |-> "not_applicable", updates |-> None]
    [] OTHER -> [state |-> StateOf(Verdict(contract, j.project)), updates |-> Verdict(contract, j.project)]

\* update_check_result: what a scheduled check is told of its job
CheckResult(j, ending, contract) ==
  IF ending # "successful" THEN ending
  ELSE IF j.op = "os_check" THEN StateOf(contract.update) ELSE ProjectResult(j, contract).state

----------------------------------------------------------------------------
\* The states of a host's projects

Inapplicable == {"read_only", "not_applicable", "unmanaged"}

\* Defect: projects that failed are left out.
AggregateUnfailed(projects) ==
  LET approved == {p \in Projects : projects[p] # None /\ projects[p].approved}
      states == {projects[p].state : p \in approved}
      supported == {projects[p].updates : p \in {q \in approved : projects[q].state \notin Inapplicable \cup {"failed"}}}
  IN IF approved = {} THEN "unknown"
     ELSE IF "yes" \in {projects[p].updates : p \in approved} THEN "updates_available"
     ELSE IF supported = {"no"} THEN "up_to_date" ELSE "unknown"

\* _aggregate_docker_project_state; the first that applies
Aggregate(projects) ==
  LET known == {p \in Projects : projects[p] # None}
      approved == {p \in known : projects[p].approved}
      states == {projects[p].state : p \in approved}
      supported == {projects[p].updates : p \in {q \in approved : projects[q].state \notin Inapplicable}}
  IN IF known # {} /\ approved = {} THEN "not_applicable"
     ELSE IF "updating" \in states THEN "updating"
     ELSE IF "checking" \in states THEN "checking"
     ELSE IF "yes" \in {projects[p].updates : p \in approved} THEN "updates_available"
     ELSE IF "unreachable" \in states THEN "unreachable"
     ELSE IF "failed" \in states THEN "failed"
     ELSE IF "incomplete" \in states THEN "incomplete"
     ELSE IF supported = {"no"} THEN "up_to_date"
     ELSE IF "check_recommended" \in states THEN "check_recommended"
     ELSE IF states # {} /\ states \subseteq Inapplicable THEN "not_applicable"
     ELSE IF "unknown" \in states THEN "unknown"
     ELSE IF "not_checked" \in states THEN "not_checked" ELSE "unknown"

\* reconcile_docker_projects: a project takes its mode from the inventory, and keeps
\* its state when it is one that is pulled.
Reconciled(found, listed, prior) ==
  [p \in Projects |->
     IF p \notin found THEN None
     ELSE IF listed[p] = None
     THEN [approved |-> FALSE, mode |-> "read_only", state |-> "unmanaged", updates |-> None]
     ELSE LET kept == IF prior # None /\ prior[p] # None THEN prior[p]
                      ELSE [state |-> "not_checked", updates |-> None]
          IN [approved |-> TRUE, mode |-> listed[p],
              state |-> CASE listed[p] = "read_only" -> "read_only" [] listed[p] = "build" -> "not_applicable"
                          [] OTHER -> kept.state,
              updates |-> IF listed[p] = "pull" THEN kept.updates ELSE None]]

Discovered == IF docker = None THEN {} ELSE {p \in Projects : docker[p] # None}

\* public_instance: what the workload shows, by the inventory of now
ShownOs == IF "debian_hosts" \in inv.groups THEN os ELSE None
Shown == IF "docker_hosts" \in inv.groups /\ docker # None THEN Reconciled(Discovered, inv.mode, docker) ELSE None
ShownHost == IF "docker_hosts" \in inv.groups THEN host ELSE None

----------------------------------------------------------------------------
Idle == [op |-> None]

Ended == {"failed", "unreachable"}
OsStates == {"unknown", "checking", "updating", "updates_available", "up_to_date"} \cup Ended
ProjectStates == OsStates \cup Inapplicable \cup {"not_checked", "check_recommended", "incomplete"}

ProjectRecords == [approved : BOOLEAN, mode : Modes, state : ProjectStates, updates : Verdicts \cup {None}]
Listings == [Projects -> Modes \cup {None}]
Plays ==
  [op : {None, "os_check", "os_update", "appliance_health"}] \cup [op : {"docker_discovery"}, listed : Listings]
    \cup [op : {"docker_check", "docker_project_update"}, project : Projects, mode : Modes]

PlayKinds == {"os_check", "os_update", "docker_discovery", "docker_check", "docker_project_update", "appliance_health"}

ASSUME NoRecord ==
  /\ None \notin ProjectRecords /\ None \notin [Projects -> ProjectRecords \cup {None}]
  /\ None \notin [project : Projects \cup {None}, state : ProjectStates]
  /\ None \notin Verdicts \cup Modes \cup ProjectStates \cup PlayKinds

ResultsTypeOK ==
  /\ inv \in Inventories /\ os \in OsStates \cup {None} /\ host \in ProjectStates \cup {None}
  /\ health \in {"unknown", "checking", "available", None} \cup Ended
  /\ docker \in [Projects -> ProjectRecords \cup {None}] \cup {None}
  /\ job \in Plays /\ told \in [project : Projects \cup {None}, state : ProjectStates] \cup {None}
  /\ said \in [os : SUBSET Verdicts, project : [Projects -> SUBSET Verdicts]]
  /\ plays \in 0..MaxPlays /\ refreshes \in 0..MaxRefreshes

ResultsInit ==
  /\ inv \in Inventories
  /\ os = IF "debian_hosts" \in inv.groups THEN "unknown" ELSE None
  /\ docker = None /\ host = None
  /\ health = IF "appliances" \in inv.groups THEN "unknown" ELSE None
  /\ job = Idle /\ told = None /\ plays = 0 /\ refreshes = 0
  /\ said = [os |-> {}, project |-> [p \in Projects |-> {}]]

\* refresh_inventory; _clear_incompatible_cached_state
RefreshInventory ==
  /\ refreshes < MaxRefreshes /\ refreshes' = refreshes + 1
  /\ inv' \in Inventories
  /\ os' = IF "debian_hosts" \in inv'.groups THEN os ELSE None
  /\ docker' = (IF "docker_hosts" \in inv'.groups THEN docker ELSE None)
  /\ host' = IF "docker_hosts" \in inv'.groups THEN host ELSE None
  /\ health' = IF "appliances" \in inv'.groups THEN health ELSE None
  /\ UNCHANGED <<job, told, said, plays>>

Begin(j) == job = Idle /\ plays < MaxPlays /\ plays' = plays + 1 /\ job' = j /\ told' = None

\* _set_docker_project_state, where the project is known; with the host's summary
SetProject(p, state, updates) ==
  IF p \in Discovered
  THEN /\ docker' = [docker EXCEPT ![p].state = state, ![p].updates = updates]
       /\ host' = Aggregate(docker')
  ELSE UNCHANGED <<docker, host>>

BeginOs ==
  /\ "debian_hosts" \in inv.groups
  /\ \E op \in {"os_check", "os_update"} :
       /\ Begin([op |-> op]) /\ os' = IF op = "os_check" THEN "checking" ELSE "updating"
  /\ UNCHANGED <<inv, docker, host, health, said, refreshes>>

BeginDiscovery ==
  /\ "docker_hosts" \in inv.groups /\ Begin([op |-> "docker_discovery", listed |-> inv.mode])
  /\ UNCHANGED <<inv, os, docker, host, health, said, refreshes>>

\* _docker_project and _approved_project: a project that is discovered and listed
BeginProject ==
  /\ "docker_hosts" \in inv.groups
  /\ \E p \in Discovered :
       /\ inv.mode[p] # None
       /\ \/ Begin([op |-> "docker_check", project |-> p, mode |-> inv.mode[p]]) /\ SetProject(p, "checking", None)
          \/ /\ inv.mode[p] # "read_only"
             /\ Begin([op |-> "docker_project_update", project |-> p, mode |-> inv.mode[p]])
             /\ SetProject(p, "updating", None)
  /\ UNCHANGED <<inv, os, health, said, refreshes>>

BeginHealth ==
  /\ "appliances" \in inv.groups /\ Begin([op |-> "appliance_health"]) /\ health' = "checking"
  /\ UNCHANGED <<inv, os, docker, host, said, refreshes>>

----------------------------------------------------------------------------
\* The end of a job: ending is the job's state, "incomplete" when its result is missing.
Concluded(ending, contract) ==
  /\ job' = Idle
  /\ told' = IF job.op \notin {"os_check", "docker_check"} THEN None
             ELSE [project |-> IF job.op = "os_check" THEN None ELSE job.project,
                   state |-> CheckResult(job, ending, contract)]
  /\ UNCHANGED <<inv, plays, refreshes>>

EndOs(ending, contract, out) ==
  /\ job.op \in {"os_check", "os_update"}
  /\ os' = CASE ending = "successful" -> StateOf(contract.update) [] ending = "incomplete" -> "unknown"
             [] OTHER -> ending
  /\ said' = [said EXCEPT !.os = IF ending = "successful" THEN VerdictsIn(out, None) ELSE {}]
  /\ UNCHANGED <<docker, host, health>>

\* The controller, and the projects it lists, were read when the job began.
EndDiscovery(ending, contract) ==
  /\ job.op = "docker_discovery"
  /\ IF ending = "successful"
     THEN /\ docker' = Reconciled(contract.found, job.listed, docker)
          /\ host' = Aggregate(docker')
          /\ said' = [said EXCEPT !.project = [p \in Projects |->
                        IF p \in Discovered /\ docker'[p] # None /\ docker'[p].state = docker[p].state
                        THEN @[p] ELSE {}]]
     ELSE UNCHANGED <<docker, host, said>>
  /\ UNCHANGED <<os, health>>

EndCheck(ending, contract, out) ==
  /\ job.op = "docker_check"
  /\ LET result == ProjectResult(job, contract)
     IN CASE ending = "successful" -> SetProject(job.project, result.state, result.updates)
          [] ending = "incomplete" -> SetProject(job.project, "incomplete", result.updates)
          [] OTHER -> SetProject(job.project, ending, None)
  /\ said' = [said EXCEPT !.project[job.project] =
                IF ending = "successful" /\ job.mode = "pull" THEN VerdictsIn(out, job.project) ELSE {}]
  /\ UNCHANGED <<os, health>>

EndUpdate(ending) ==
  /\ job.op = "docker_project_update"
  /\ SetProject(job.project, IF ending = "successful" THEN "check_recommended" ELSE ending, None)
  /\ said' = [said EXCEPT !.project[job.project] = {}]
  /\ UNCHANGED <<os, health>>

EndHealth(ending) ==
  /\ job.op = "appliance_health" /\ health' = IF ending = "successful" THEN "available" ELSE ending
  /\ UNCHANGED <<os, docker, host, said>>

End(ending, contract, out) ==
  /\ job # Idle
  /\ \/ EndOs(ending, contract, out) \/ EndDiscovery(ending, contract) \/ EndCheck(ending, contract, out)
     \/ EndUpdate(ending) \/ EndHealth(ending)
  /\ Concluded(ending, contract)

\* The playbook fails or cannot reach the host, whatever it printed ...
Fail == \E ending \in {"failed", "unreachable"} : End(ending, Nothing, <<>>)

\* ... or ends well, with results or without.
Succeed ==
  \E out \in Outputs(job.op) :
    LET contract == Parsed(out)
    IN End(IF Missing(job, contract) THEN "incomplete" ELSE "successful", contract, out)

ResultsNext ==
  \/ RefreshInventory \/ BeginOs \/ BeginDiscovery \/ BeginProject \/ BeginHealth \/ Fail \/ Succeed

ResultsSpec == ResultsInit /\ [][ResultsNext]_resultsVars

----------------------------------------------------------------------------
\* Properties

\* What is shown was said: the system or a project is shown up to date, or with updates,
\* only if the output of its last check said so; a host is up to date only if that was
\* said of each of its projects that is pulled and has been checked; and updates that
\* were all the output of a project's check spoke of are not hidden by the other
\* projects of the host, nor by a discovery, once no job of a project runs.  A scheduled
\* check is told what the workload keeps.
VerdictIsKept ==
  LET needs == {p \in Discovered : docker[p].approved /\ docker[p].state \notin Inapplicable}
  IN /\ ShownOs = "up_to_date" => "no" \in said.os
     /\ ShownOs = "updates_available" => "yes" \in said.os
     /\ Shown # None =>
          \A p \in Discovered :
            /\ Shown[p].state = "up_to_date" => "no" \in said.project[p]
            /\ Shown[p].state = "updates_available" => "yes" \in said.project[p]
     /\ host = "up_to_date" => needs # {} /\ \A p \in needs : "no" \in said.project[p]
     /\ (job.op \notin {"docker_check", "docker_project_update"} /\ \E p \in needs : said.project[p] = {"yes"})
          => host = "updates_available"
     /\ told # None =>
          CASE told.project = None -> os \in {None, told.state} \/ (told.state = "incomplete" /\ os = "unknown")
            [] told.project \in Discovered -> docker[told.project].state = told.state
            [] OTHER -> TRUE

\* Not so: a project that the inventory begins to list as pulled keeps the state it had
\* as unmanaged or built, and the host is shown up to date without a check of it.
NeverCheckedIsNotCurrent ==
  (job = Idle /\ ShownHost = "up_to_date") =>
    \A p \in Discovered : (docker[p].approved /\ docker[p].mode = "pull") => said.project[p] # {}

----------------------------------------------------------------------------
\* The inductive invariant of the proofs

\* The job that runs is of project p.
OfJob(p) == job.op \in {"docker_check", "docker_project_update"} /\ job.project = p

\* What is kept of a project was said of it, and what was said is kept unless the
\* project's next job runs.
ProjectSaid(record, verdicts, busy) ==
  /\ record.updates \in {"yes", "no"} => record.updates \in verdicts
  /\ record.state = "up_to_date" => record.updates = "no"
  /\ record.state = "updates_available" => record.updates = "yes"
  /\ verdicts # {} => busy \/ (record.updates \in verdicts /\ record.state = StateOf(record.updates))
  /\ record.state \in {"checking", "updating"} => busy

ProjectsSaid == \A p \in Discovered : ProjectSaid(docker[p], said.project[p], OfJob(p))
OsSaid == (os = "up_to_date" => "no" \in said.os) /\ (os = "updates_available" => "yes" \in said.os)
HostIsSummary == host = IF docker = None THEN None ELSE Aggregate(docker)
CheckIsTold ==
  told # None =>
    /\ told.project = None => os \in {None, told.state} \/ (told.state = "incomplete" /\ os = "unknown")
    /\ told.project \in Discovered => docker[told.project].state = told.state

ResultsInv == ResultsTypeOK /\ ProjectsSaid /\ OsSaid /\ HostIsSummary /\ CheckIsTold
=============================================================================
