----------------------------- MODULE Playbooks -----------------------------
(***************************************************************************)
(* The Ansible controller's configuration (backend/ansible_integration.py):*)
(* administrators save it, test it, refresh the inventory, discover, approve*)
(* and revoke playbooks in requests that overlap, while a job of a Compute *)
(* workload waits in the queue and is launched (_job_context,              *)
(* playbook_command), and what the workload offers (public_instance).      *)
(*                                                                         *)
(* A request reads the record, talks to the controller over SSH and writes *)
(* in a transaction of its own.  A pending request is what it will write.  *)
(* Paths, labels, credentials and the variables of a playbook are left out;*)
(* what jobs write to the workload is in ComputeJobs and Results.          *)
(***************************************************************************)
EXTENDS Naturals, FiniteSets, Optional

CONSTANTS
  Operations,   \* approvals are given for these
  Names,        \* of playbooks, relative to their directory
  Dirs,         \* playbook directories
  Hosts,        \* of the inventory
  Target,       \* the host the workload is mapped to
  Inventories,  \* what ansible-inventory may answer: the groups of each host, None without it
  MaxPending,   \* requests at a time
  MaxRequests   \* requests in all


VARIABLES
  ctl,      \* ansibleControllers["primary"]; None: it was never saved
  tools,    \* EXTERNAL: where the Ansible tools are installed
  report,   \* the path the last connection test found
  pending,  \* what requests will write
  asked,    \* requests made so far
  job,      \* the workload's job
  granted,  \* for the properties: the file an administrator approved for each operation
  muddled   \* for the properties: operations whose approval was written over a change
            \* the request had not read, and not approved or revoked since

playbooksVars == <<ctl, tools, report, pending, asked, job, granted, muddled>>

Modes == {"pull", "build"}
Groups == {"debian_hosts", "docker_hosts"}

\* REQUIRED_INVENTORY_GROUPS
RequiredGroup(op) == IF op = "os_check" THEN "debian_hosts" ELSE "docker_hosts"

\* An approval: its restriction lists hosts and groups, none for no restriction.
\* docker_update has modes of its own, the separate updates have one each.
ModesOf(op) == CASE op = "docker_update" -> (SUBSET Modes) \ {{}} [] op = "docker_update_pull" -> {{"pull"}}
                 [] op = "docker_update_local_build" -> {{"build"}} [] OTHER -> {{}}

----------------------------------------------------------------------------
\* What a controller record permits

\* approved_playbook
ApprovedPlaybook(c, op) == op \in Operations /\ c.approvals[op] # None /\ c.approvals[op].name \in c.found

\* require_operation_capability
Capable(c, op) == c.inv[Target] # None /\ RequiredGroup(op) \in c.inv[Target]

Unrestricted(c, op) ==
  \/ c.approvals[op].only = {} \/ Target \in c.approvals[op].only
  \/ c.inv[Target] \cap c.approvals[op].only # {}

\* operation_is_allowed_for_target
AllowedForTarget(c, op) == c.enabled /\ ApprovedPlaybook(c, op) /\ Capable(c, op) /\ Unrestricted(c, op)

\* playbook_command
PlaybookCommand(c, op) ==
  ApprovedPlaybook(c, op) /\ Capable(c, op) /\ Unrestricted(c, op) /\ c.exe # None

Legacy(mode) == IF mode = "pull" THEN "docker_update_pull" ELSE "docker_update_local_build"

\* docker_update_operation
DockerUpdateOperation(c, mode) ==
  IF "docker_update" \in Operations /\ c.approvals["docker_update"] # None
     /\ mode \in c.approvals["docker_update"].modes
  THEN "docker_update" ELSE Legacy(mode)

\* _job_context of a check, and of the update of a project with the given mode
JobContext(c, op) == c # None /\ c.enabled /\ PlaybookCommand(c, op)
UpdateContext(c, mode) == JobContext(c, DockerUpdateOperation(c, mode))

\* Defect: the separate approvals are offered only without a generic one.
DockerModesGenericOnly(c) ==
  IF AllowedForTarget(c, "docker_update") THEN c.approvals["docker_update"].modes
  ELSE {m \in Modes : AllowedForTarget(c, Legacy(m))}

\* dockerUpdateModes and updateCheckEligible of public_instance
DockerModes(c) ==
  (IF AllowedForTarget(c, "docker_update") THEN c.approvals["docker_update"].modes ELSE {})
  \cup {m \in Modes : AllowedForTarget(c, Legacy(m))}
CheckEligible(c) == AllowedForTarget(c, "os_check")

----------------------------------------------------------------------------
File(c, op) == <<c.dir, c.approvals[op].name>>

NoApprovals == [op \in Operations |-> None]
NotFound == [h \in Hosts |-> None]

Blank == [enabled |-> TRUE, dir |-> CHOOSE d \in Dirs : TRUE, exe |-> None, inv |-> NotFound,
          found |-> {}, approvals |-> NoApprovals]

Paths == {"path", "home", None}
\* _run_job: accepted, with its command built, and running on the controller.
Jobs == [op : Operations, stage : {"queued", "connecting", "running"}, file : Dirs \X Names, exe : Paths]
Approvals == [name : Names, only : SUBSET (Hosts \cup Groups), modes : SUBSET Modes]

\* The records of the controller, and the requests, by what they write.
ApprovalMaps == [Operations -> Approvals \cup {None}]
InventoryMaps == Inventories \cup {NotFound}
Controllers == [enabled : BOOLEAN, dir : Dirs, exe : Paths, inv : InventoryMaps, found : SUBSET Names,
                approvals : ApprovalMaps]
SaveRequests == [kind : {"save"}, enabled : BOOLEAN, dir : Dirs, exe : Paths,
                 kept : [inv : InventoryMaps, found : SUBSET Names, approvals : ApprovalMaps]]
OtherRequests ==
  [kind : {"inventory"}, inv : Inventories] \cup [kind : {"discover"}, found : SUBSET Names]
    \cup [kind : {"approve"}, op : Operations, dir : Dirs, approval : Approvals]

ASSUME PlaybooksAssumption ==
  /\ Target \in Hosts /\ "os_check" \in Operations /\ Dirs # {}
  /\ Inventories \subseteq [Hosts -> (SUBSET Groups) \cup {None}]
  /\ MaxPending \in Nat /\ MaxRequests \in Nat

\* None is none of the values it stands in for.
ASSUME NoController ==
  /\ None \notin Controllers /\ None \notin Approvals /\ None \notin Dirs \X Names
  /\ None \notin Jobs

PlaybooksTypeOK ==
  /\ ctl \in Controllers \cup {None}
  /\ tools \subseteq Paths /\ report \in Paths
  /\ pending \subseteq SaveRequests \cup OtherRequests
  /\ IsFiniteSet(pending) /\ Cardinality(pending) <= MaxPending /\ asked \in 0..MaxRequests
  /\ job \in Jobs \cup {None}
  /\ granted \in [Operations -> (Dirs \X Names) \cup {None}] /\ muddled \subseteq Operations

\* A fresh controller, or one that is set up and has nothing approved yet.
PlaybooksInit ==
  /\ tools \in SUBSET {"path", "home"}
  /\ ctl \in {None} \cup {[Blank EXCEPT !.exe = "path", !.inv = inv, !.found = Names] : inv \in Inventories}
  /\ report = None /\ pending = {} /\ asked = 0 /\ job = None
  /\ granted = NoApprovals /\ muddled = {}

Ask(request) ==
  /\ asked < MaxRequests /\ Cardinality(pending) < MaxPending
  /\ asked' = asked + 1 /\ pending' = pending \cup {request}
  /\ UNCHANGED <<ctl, tools, report, job, granted, muddled>>

Answered(request) == pending' = pending \ {request} /\ UNCHANGED <<tools, report, asked, job>>

\* What save_controller takes over from the record it read.
Kept(c) == IF c = None THEN [inv |-> NotFound, found |-> {}, approvals |-> NoApprovals]
           ELSE [inv |-> c.inv, found |-> c.found, approvals |-> c.approvals]

\* save_controller reads the record ...
BeginSave ==
  \E enabled \in BOOLEAN, dir \in Dirs, exe \in {None, report, IF ctl = None THEN None ELSE ctl.exe} :
    Ask([kind |-> "save", enabled |-> enabled, dir |-> dir, exe |-> exe, kept |-> Kept(ctl)])

\* ... and later replaces the whole of it.
SaveController ==
  \E r \in pending :
    /\ r.kind = "save"
    /\ ctl' = [enabled |-> r.enabled, dir |-> r.dir, exe |-> r.exe, inv |-> r.kept.inv,
               found |-> r.kept.found, approvals |-> r.kept.approvals]
    /\ muddled' = muddled \cup {op \in Operations : r.kept.approvals[op] # Kept(ctl).approvals[op]
                                                    \/ (ctl # None /\ r.dir # ctl.dir)}
    /\ Answered(r) /\ UNCHANGED granted

\* _discover_executables: the configured path, the PATH, the usual places.
Discovered(c) ==
  IF c.exe # None THEN c.exe ELSE IF "path" \in tools THEN "path" ELSE IF "home" \in tools THEN "home" ELSE None

\* test_connection changes nothing: the form takes the path, to be saved.
TestConnection ==
  /\ ctl # None /\ report' = (IF Discovered(ctl) \in tools THEN Discovered(ctl) ELSE None)
  /\ UNCHANGED <<ctl, tools, pending, asked, job, granted, muddled>>

\* refresh_inventory: the executable is checked before it is run.
BeginRefresh ==
  /\ ctl # None /\ ctl.exe \in tools
  /\ \E inv \in Inventories : Ask([kind |-> "inventory", inv |-> inv])
Refresh ==
  \E r \in pending :
    r.kind = "inventory" /\ ctl' = [ctl EXCEPT !.inv = r.inv] /\ Answered(r) /\ UNCHANGED <<granted, muddled>>

\* discover_playbooks, of the directory it read.
BeginDiscover ==
  /\ ctl # None
  /\ \E found \in SUBSET Names : Ask([kind |-> "discover", found |-> found])
Discover ==
  \E r \in pending :
    r.kind = "discover" /\ ctl' = [ctl EXCEPT !.found = r.found] /\ Answered(r) /\ UNCHANGED <<granted, muddled>>

\* approve_playbook checks the file and the restriction against the record it read ...
BeginApprove ==
  /\ ctl # None
  /\ \E op \in Operations, name \in ctl.found,
        only \in {{}} \cup {{h} : h \in {x \in Hosts : ctl.inv[x] # None}} \cup {{g} : g \in Groups} :
       /\ only \subseteq Hosts \cup UNION {ctl.inv[h] : h \in {x \in Hosts : ctl.inv[x] # None}}
       /\ \E modes \in ModesOf(op) :
            Ask([kind |-> "approve", op |-> op, dir |-> ctl.dir,
                 approval |-> [name |-> name, only |-> only, modes |-> modes]])

\* ... and later writes the approval.
Approve ==
  \E r \in pending :
    /\ r.kind = "approve" /\ ctl' = [ctl EXCEPT !.approvals[r.op] = r.approval]
    /\ granted' = [granted EXCEPT ![r.op] = <<r.dir, r.approval.name>>]
    /\ muddled' = (IF r.dir = ctl.dir THEN muddled \ {r.op} ELSE muddled \cup {r.op}) /\ Answered(r)

\* approve_playbook takes an approval back in one transaction.
Revoke ==
  /\ ctl # None /\ asked < MaxRequests /\ asked' = asked + 1
  /\ \E op \in Operations :
       /\ ctl.approvals[op] # None
       /\ ctl' = [ctl EXCEPT !.approvals[op] = None] /\ granted' = [granted EXCEPT ![op] = None]
       /\ muddled' = muddled \ {op}
  /\ UNCHANGED <<tools, report, pending, job>>

----------------------------------------------------------------------------
\* Jobs: _new_job records the operation and the playbook it was accepted for.
NewJob(op) == [op |-> op, stage |-> "queued", file |-> File(ctl, op), exe |-> None]

StartJob ==
  /\ job = None
  /\ \/ JobContext(ctl, "os_check") /\ job' = NewJob("os_check")
     \/ \E m \in Modes : UpdateContext(ctl, m) /\ job' = NewJob(DockerUpdateOperation(ctl, m))
  /\ UNCHANGED <<ctl, tools, report, pending, asked, granted, muddled>>

\* Defect: the playbook the job was accepted for is not checked again.
BuildCommandQueued ==
  /\ job # None /\ job.stage = "queued"
  /\ job' = IF ctl.enabled THEN [job EXCEPT !.stage = "connecting", !.exe = ctl.exe] ELSE None
  /\ UNCHANGED <<ctl, tools, report, pending, asked, granted, muddled>>

\* _run_job reads the record, builds the command from it, and fails where it may not.
BuildCommand ==
  /\ job # None /\ job.stage = "queued"
  /\ job' = IF ctl.enabled /\ PlaybookCommand(ctl, job.op)
            THEN [job EXCEPT !.stage = "connecting", !.file = File(ctl, job.op), !.exe = ctl.exe] ELSE None
  /\ UNCHANGED <<ctl, tools, report, pending, asked, granted, muddled>>

\* It connects to the controller, checks that the executable is there and runs the
\* command it has built, whatever the record says by now.
Launch ==
  /\ job # None /\ job.stage = "connecting"
  /\ job.exe \in tools /\ job' = [job EXCEPT !.stage = "running"]
  /\ UNCHANGED <<ctl, tools, report, pending, asked, granted, muddled>>

\* The connection may fail, and so may the executable and the playbook.
EndJob ==
  /\ job # None /\ job.stage # "queued" /\ job' = None
  /\ UNCHANGED <<ctl, tools, report, pending, asked, granted, muddled>>

PlaybooksNext ==
  \/ BeginSave \/ SaveController \/ TestConnection \/ BeginRefresh \/ Refresh \/ BeginDiscover \/ Discover
  \/ BeginApprove \/ Approve \/ Revoke \/ StartJob \/ BuildCommand \/ Launch
  \/ EndJob

PlaybooksSpec == PlaybooksInit /\ [][PlaybooksNext]_playbooksVars

----------------------------------------------------------------------------
\* Properties

CommandBuilt == job # None /\ job.stage = "queued" /\ job' # None /\ job'.stage = "connecting"
Launched == job # None /\ job.stage = "connecting" /\ job' # None /\ job'.stage = "running"

\* "Persisted background jobs execute only discovered and approved playbooks against
\* discovered, optionally approval-restricted targets": whatever is revoked, disabled,
\* removed from the inventory, moved or approved anew while a job waits, the command
\* built for it runs only the file an administrator approved last, on a host whose groups
\* permit it at that moment; unless a configuration or approval was written over a change
\* of this operation's that it had not read, and the operation not approved or revoked since.
CommandFollowsApproval ==
  [][CommandBuilt => /\ ctl.enabled /\ Capable(ctl, job.op)
                     /\ job.op \in muddled \/ job'.file = granted[job.op]]_playbooksVars

\* The same without the exception.  It does not hold: save_controller brings revoked
\* approvals back, and takes the approvals of one directory over to another.
OnlyApprovedRuns == [][CommandBuilt => job'.file = granted[job.op]]_playbooksVars

\* The same sentence at the moment the playbook is started.  It does not hold: what is
\* revoked or disabled while _run_job connects to the controller is started all the same.
LaunchedIsStillApproved ==
  [][Launched => ctl.enabled /\ (job.op \in muddled \/ job.file = granted[job.op])]_playbooksVars

\* A check or update that start_job would accept is one that the workload offers.
AcceptedIsOffered ==
  ctl # None =>
    /\ JobContext(ctl, "os_check") => CheckEligible(ctl)
    /\ \A m \in Modes : UpdateContext(ctl, m) => m \in DockerModes(ctl)

\* And the other way round, once the tools are configured.  It does not hold: a generic
\* approval that is not for this host, or whose file is gone, stands in the way of the
\* separate approval that makes the workload offer the mode.
OfferedIsAccepted ==
  ctl # None /\ ctl.exe # None =>
    \A m \in Modes : m \in DockerModes(ctl) => UpdateContext(ctl, m)

----------------------------------------------------------------------------
\* The inductive invariant of the proofs

\* Only a save may be the first to write the record, and a job is of a record.
RecordFirst == ctl = None => pending \subseteq SaveRequests /\ job = None

\* An approval on record is of the file that was granted, unless a request overwrote
\* what it had not read.
ApprovalsGranted ==
  \A op \in Operations \ muddled :
    ctl # None /\ ctl.approvals[op] # None => granted[op] = File(ctl, op)

ApprovalsInv == PlaybooksTypeOK /\ RecordFirst /\ ApprovalsGranted
=============================================================================
