------------------------------ MODULE Clients ------------------------------
(***************************************************************************)
(* The clients of one owner's network: the roster that scans keep          *)
(* (backend/client_roster.py), full scans of every source that can list    *)
(* clients (client_service.py, client_discovery.py, client_merge.py), the  *)
(* poller's partial scan of the firewall that announces new clients        *)
(* (nac_service.py, poller.notify_new_devices), and access control: the    *)
(* allow-list and the deny rule on the OPNsense firewall with what the     *)
(* document says of them (nac.py, drivers/opnsense.py).                    *)
(*                                                                         *)
(* A scan reads the network for seconds and records afterwards; requests   *)
(* and other scans come in between.  The time since a client was last seen *)
(* is one of three: less than CLIENT_OFFLINE_AFTER (0), more (1), or more  *)
(* than the retention period (2).                                          *)
(***************************************************************************)
EXTENDS Naturals

CONSTANTS
  MACs,
  APs,        \* access points; a client is at one of them, on the wire or away
  Firewall,   \* the source that lists every client that is not away
  Scans,      \* full scans that may run at the same time
  Requests,   \* access-control requests that may run at the same time
  MaxMoves,   \* bound: moves of clients
  MaxEvents,  \* bound: requests, and requests to the network's devices that fail
  None

ASSUME ConstantsAssumption ==
  /\ Firewall \notin APs /\ None \notin APs \cup {Firewall}
  /\ MaxMoves \in Nat /\ MaxEvents \in Nat

Sources == APs \cup {Firewall}

VARIABLES
  at,        \* EXTERNAL: where a client is
  roster,    \* its record; None: it is not tracked
  scan,      \* what a full scan has read
  nacScan,   \* the partial scan
  allow,     \* EXTERNAL: members of the allow-list alias
  deny,      \* EXTERNAL: the deny rule is enabled
  nac,       \* the Device's access control: "none", "external" (an alias of the user's own
             \* rules), or managed with enforcement "off" or "on"
  req,       \* what an access-control request is doing
  told,      \* whether a client was announced, for the properties: "unrecorded": its
             \* record was gone when it was, "twice": again while its record said so
  unsure,    \* the allow-list is not the one recorded last, for the properties
  moves, events

network == <<at, allow, deny>>
bounds == <<moves, events>>
vars == <<network, roster, scan, nacScan, nac, req, told, unsure, bounds>>

Places == APs \cup {"wired", "away"}
Idle == [stage |-> "idle"]
Record == [online : BOOLEAN, seen : SUBSET Sources, age : 0..2, ignored : BOOLEAN, away : BOOLEAN,
           notified : BOOLEAN, approved : BOOLEAN \cup {None}]
Blank == [online |-> FALSE, seen |-> {}, age |-> 0, ignored |-> FALSE, away |-> FALSE,
          notified |-> FALSE, approved |-> None]

\* A full scan while it reads its sources, and when it has read the allow-list.
Reading == [stage : {"read"}, left : SUBSET Sources, failed : SUBSET Sources, deaf : BOOLEAN,
            found : [MACs -> SUBSET Sources], stayed : SUBSET MACs]
Recording == [stage : {"record"}, found : [MACs -> SUBSET Sources], failed : SUBSET Sources,
              deaf : BOOLEAN, stayed : SUBSET MACs, approved : (SUBSET MACs) \cup {None}]
\* The partial scan, before and after it looked at the roster.
NacReading == [stage : {"before"}, approved : SUBSET MACs, clients : SUBSET MACs]
NacRecording == [stage : {"record", "mark"}, approved : SUBSET MACs, clients : SUBSET MACs, firstRun : BOOLEAN]
\* A request that has read the allow-list, and one that has switched the rule.
Writing == [stage : {"member", "seed"}, members : SUBSET MACs]
Switching == [stage : {"rule"}, enabled : BOOLEAN]

ASSUME NoneAssumption == None \notin Record /\ \A members \in SUBSET MACs : None # members

TypeOK ==
  /\ at \in [MACs -> Places] /\ roster \in [MACs -> Record \cup {None}]
  /\ scan \in [Scans -> {Idle} \cup Reading \cup Recording]
  /\ nacScan \in {Idle} \cup NacReading \cup NacRecording
  /\ allow \subseteq MACs /\ deny \in BOOLEAN /\ nac \in {"none", "external", "off", "on"}
  /\ req \in [Requests -> {Idle} \cup Writing \cup Switching \cup {[stage |-> "setup"]}]
  /\ told \in [MACs -> {"no", "yes", "unrecorded", "twice"}]
  /\ unsure \in BOOLEAN
  /\ moves \in 0..MaxMoves /\ events \in 0..MaxEvents

Init ==
  /\ at \in [MACs -> {"away"} \cup APs]
  /\ roster = [m \in MACs |-> None]
  /\ scan = [s \in Scans |-> Idle] /\ nacScan = Idle
  /\ allow = {} /\ deny = FALSE /\ nac \in {"none", "off"}
  /\ req = [r \in Requests |-> Idle]
  /\ told = [m \in MACs |-> "no"] /\ unsure = FALSE
  /\ moves = 0 /\ events = 0

Event == events < MaxEvents /\ events' = events + 1 /\ UNCHANGED moves

\* The sources that list a client.
Visible(m) == IF at[m] = "away" THEN {} ELSE {Firewall, at[m]} \cap Sources

----------------------------------------------------------------------------
\* What a scan does to the roster

\* Defect: a source that failed counts as one that did not see the client.
GoneUnheard(r, failed) == r.online /\ r.age >= 1

\* A client that a full scan did not find is offline, unless a source that saw
\* it last has failed, or it was seen a short while ago.
Gone(r, failed) == r.online /\ r.seen \cap failed = {} /\ r.age >= 1

\* record_observations, of a client that was found by `sources` ...
Found(r, full, sources, failed) ==
  [r EXCEPT !.online = TRUE, !.age = 0,
            !.ignored = @ /\ ~r.away, !.away = @ /\ ~r.ignored,
            !.seen = IF full \/ @ = {} THEN sources \cup (@ \cap failed) ELSE @]

\* ... and of one that was not; a stale record is pruned.
NotFound(r, full, failed) ==
  LET left == [r EXCEPT !.away = @ \/ r.ignored, !.online = @ /\ ~(full /\ Gone(r, failed))]
  IN IF ~left.online /\ left.age = 2 THEN None ELSE left

\* Defect: only the clients that were found are compared with it.
ApprovedFound(m, r, found, approved) ==
  IF r = None \/ approved = None \/ ~found THEN r ELSE [r EXCEPT !.approved = m \in approved]

\* The allow-list is authoritative for every record, when it could be read.
Approved(m, r, found, approved) ==
  IF r = None \/ approved = None THEN r ELSE [r EXCEPT !.approved = m \in approved]

Observed(full, sightings, failed, approved) ==
  [m \in MACs |->
     LET r == roster[m]
         found == sightings[m] # {}
     IN Approved(m,
          IF found THEN Found(IF r = None THEN Blank ELSE r, full, sightings[m], failed)
          ELSE IF r = None THEN None ELSE NotFound(r, full, failed),
          found, approved)]

\* A record that is gone takes the note that it was announced with it.
Told(new) == [m \in MACs |-> IF roster[m] # None /\ new[m] = None THEN "no" ELSE told[m]]

----------------------------------------------------------------------------
\* Full scans: client_service.refresh

BeginScan(s) ==
  /\ scan[s] = Idle
  /\ scan' = [scan EXCEPT ![s] = [stage |-> "read", left |-> Sources, failed |-> {},
       deaf |-> FALSE,
       found |-> [m \in MACs |-> {}], stayed |-> {m \in MACs : at[m] # "away"}]]
  /\ UNCHANGED <<network, roster, nacScan, nac, req, told, unsure, bounds>>

\* merge_observations: what a source lists joins the sightings of its clients.
Merged(found, x) == [m \in MACs |-> IF x \in Visible(m) THEN found[m] \cup {x} ELSE found[m]]

\* _read_device: a source lists its clients, or fails.  The firewall's driver turns
\* a request that fails into an empty answer (opnsense._get): no failure is seen.
ReadSource(s, x) ==
  /\ scan[s].stage = "read" /\ x \in scan[s].left
  /\ \/ /\ scan' = [scan EXCEPT ![s].left = @ \ {x}, ![s].found = Merged(@, x)]
        /\ UNCHANGED bounds
     \/ Event /\ scan' = [scan EXCEPT ![s].left = @ \ {x}, ![s].failed = @ \cup {x}]
     \/ Event /\ x = Firewall /\ scan' = [scan EXCEPT ![s].left = @ \ {x}, ![s].deaf = TRUE]
  /\ UNCHANGED <<network, roster, nacScan, nac, req, told, unsure>>

\* nac_members: the allow-list; none are approved when a request of it fails.
Members == {allow, {}}

\* discovery_membership: None when there is no firewall or no connection to it.
ReadMembership(s) ==
  /\ scan[s].stage = "read" /\ scan[s].left = {}
  /\ \E approved \in IF nac = "none" THEN {None} ELSE Members \cup {None} :
       /\ scan' = [scan EXCEPT ![s] = [stage |-> "record", found |-> scan[s].found, failed |-> scan[s].failed,
            deaf |-> scan[s].deaf, stayed |-> scan[s].stayed, approved |-> approved]]
       /\ IF nac = "none" \/ approved = allow THEN UNCHANGED bounds ELSE Event
  /\ UNCHANGED <<network, roster, nacScan, nac, req, told, unsure>>

RecordScan(s) ==
  /\ scan[s].stage = "record"
  /\ roster' = Observed(TRUE, scan[s].found, scan[s].failed, scan[s].approved)
  /\ told' = Told(roster')
  /\ unsure' = IF scan[s].approved = None THEN unsure ELSE scan[s].approved # allow
  /\ scan' = [scan EXCEPT ![s] = Idle]
  /\ UNCHANGED <<network, nacScan, nac, req, bounds>>

----------------------------------------------------------------------------
\* The partial scan: notify_new_devices

\* scan_new_clients: the firewall is read, or the scan ends.
BeginNacScan ==
  /\ nacScan = Idle /\ nac # "none"
  /\ \E approved \in Members, clients \in {{m \in MACs : at[m] # "away"}, {}} :
       /\ nacScan' = [stage |-> "before", approved |-> approved, clients |-> clients]
       /\ IF approved = allow /\ (clients = {} => \A m \in MACs : at[m] = "away") THEN UNCHANGED bounds ELSE Event
  /\ UNCHANGED <<network, roster, scan, nac, req, told, unsure>>

\* record_nac_observations: whether the roster is empty ...
ReadFirstRun ==
  /\ nacScan.stage = "before"
  /\ nacScan' = [stage |-> "record", approved |-> nacScan.approved, clients |-> nacScan.clients,
                 firstRun |-> \A m \in MACs : roster[m] = None]
  /\ UNCHANGED <<network, roster, scan, nac, req, told, unsure, bounds>>

\* ... and its first transaction.
RecordNacScan ==
  /\ nacScan.stage = "record"
  /\ roster' = Observed(FALSE,
       [m \in MACs |-> IF m \in nacScan.clients THEN {Firewall} ELSE {}], {}, nacScan.approved)
  /\ told' = Told(roster')
  /\ unsure' = (nacScan.approved # allow)
  /\ nacScan' = [nacScan EXCEPT !.stage = "mark"]
  /\ UNCHANGED <<network, scan, nac, req, bounds>>

\* Defect: the mark is set and never looked at.
AnnouncesMarked(m) ==
  /\ m \in nacScan.clients \ nacScan.approved /\ ~nacScan.firstRun
  /\ roster[m] # None => ~roster[m].ignored

\* The clients the second transaction announces: not approved, not ignored, and
\* not announced before.
Announces(m) ==
  /\ m \in nacScan.clients \ nacScan.approved /\ ~nacScan.firstRun
  /\ roster[m] # None => ~roster[m].ignored /\ ~roster[m].notified

Mark ==
  /\ nacScan.stage = "mark"
  /\ roster' = [m \in MACs |->
       IF roster[m] = None THEN None
       ELSE [roster[m] EXCEPT !.notified = Announces(m) \/ (@ /\ m \notin nacScan.clients \cap nacScan.approved)]]
  /\ told' = [m \in MACs |->
       IF Announces(m) THEN (IF told[m] = "yes" THEN "twice" ELSE IF roster[m] = None THEN "unrecorded" ELSE "yes")
       ELSE IF m \in nacScan.clients \cap nacScan.approved THEN "no" ELSE told[m]]
  /\ nacScan' = Idle
  /\ UNCHANGED <<network, scan, nac, req, unsure, bounds>>

----------------------------------------------------------------------------
\* Requests about the roster

\* forget
Forget(m) ==
  /\ Event /\ roster[m] # None
  /\ roster' = [roster EXCEPT ![m] = None]
  /\ told' = [told EXCEPT ![m] = "no"]
  /\ UNCHANGED <<network, scan, nacScan, nac, req, unsure>>

\* ignore
Ignore(m) ==
  /\ Event
  /\ roster' = [roster EXCEPT ![m] = [IF @ = None THEN Blank ELSE @ EXCEPT !.ignored = TRUE, !.away = FALSE]]
  /\ UNCHANGED <<network, scan, nacScan, nac, req, told, unsure>>

\* set_metadata of a client that is not tracked makes its record.
SetMetadata(m) ==
  /\ Event /\ roster[m] = None
  /\ roster' = [roster EXCEPT ![m] = Blank]
  /\ UNCHANGED <<network, scan, nacScan, nac, req, told, unsure>>

----------------------------------------------------------------------------
\* Access control

\* nac_approve: nac_set_member reads the alias; there may be nothing to do ...
BeginApprove(r, m, add) ==
  /\ Event /\ req[r] = Idle /\ nac # "none" /\ (m \in allow) # add
  /\ req' = [req EXCEPT ![r] = [stage |-> "member", members |-> IF add THEN allow \cup {m} ELSE allow \ {m}]]
  /\ UNCHANGED <<network, roster, scan, nacScan, nac, told, unsure>>

\* ... and writes it whole (_alias_write), or fails, having written it when only the
\* reply is lost.  The roster hears of it from the next scan.
WriteMembers(r) ==
  /\ req[r].stage \in {"member", "seed"}
  /\ \/ /\ allow' = req[r].members
        /\ req' = [req EXCEPT ![r] = IF req[r].stage = "seed" THEN [stage |-> "setup"] ELSE Idle]
        /\ UNCHANGED bounds
     \/ /\ Event /\ allow' \in {allow, req[r].members}
        /\ req' = [req EXCEPT ![r] = Idle]
  /\ unsure' = (unsure \/ allow' # allow)
  /\ UNCHANGED <<at, deny, roster, scan, nacScan, nac, told>>

\* nac_set_enforcement: the deny rule is switched on the firewall ...
SwitchRule(r, enabled) ==
  /\ req[r] = Idle /\ nac \in {"off", "on"}
  /\ deny' = enabled
  /\ \/ Event /\ req' = [req EXCEPT ![r] = [stage |-> "rule", enabled |-> enabled]]
     \/ Event /\ UNCHANGED req   \* the reply is lost
  /\ UNCHANGED <<at, allow, roster, scan, nacScan, nac, told, unsure>>

\* ... and what it answered is saved; a configuration that became external in
\* between keeps that mode.
SaveRule(r) ==
  /\ req[r].stage = "rule"
  /\ nac' = IF nac = "external" THEN nac ELSE IF req[r].enabled THEN "on" ELSE "off"
  /\ req' = [req EXCEPT ![r] = Idle]
  /\ UNCHANGED <<network, roster, scan, nacScan, told, unsure, bounds>>

\* nac_setup: the rules are made unless they are there (nac_ensure), the alias is
\* read to add the seeds ...
Setup(r, seeds) ==
  /\ Event /\ req[r] = Idle
  /\ req' = [req EXCEPT ![r] = IF seeds = {} THEN [stage |-> "setup"]
                               ELSE [stage |-> "seed", members |-> allow \cup seeds]]
  /\ UNCHANGED <<network, roster, scan, nacScan, nac, told, unsure>>

\* ... and the whole configuration is saved anew, with enforcement off.
SaveSetup(r) ==
  /\ req[r].stage = "setup"
  /\ nac' = "off"
  /\ req' = [req EXCEPT ![r] = Idle]
  /\ UNCHANGED <<network, roster, scan, nacScan, told, unsure, bounds>>

\* nac_setup_existing
SetupExisting ==
  /\ Event /\ nac' = "external"
  /\ UNCHANGED <<network, roster, scan, nacScan, req, told, unsure>>

----------------------------------------------------------------------------
\* EXTERNAL: clients come, roam and leave; time passes.

Move(m) ==
  /\ moves < MaxMoves /\ moves' = moves + 1
  /\ \E p \in Places \ {at[m]} : at' = [at EXCEPT ![m] = p]
  /\ scan' = [s \in Scans |-> IF scan[s] = Idle THEN Idle ELSE [scan[s] EXCEPT !.stayed = @ \ {m}]]
  /\ UNCHANGED <<allow, deny, roster, nacScan, nac, req, told, unsure, events>>

Tick(m) ==
  /\ roster[m] # None /\ roster[m].age < 2
  /\ roster' = [roster EXCEPT ![m].age = @ + 1]
  /\ UNCHANGED <<network, scan, nacScan, nac, req, told, unsure, bounds>>

Next ==
  \/ \E s \in Scans : BeginScan(s) \/ ReadMembership(s) \/ RecordScan(s) \/ \E x \in Sources : ReadSource(s, x)
  \/ BeginNacScan \/ ReadFirstRun \/ RecordNacScan \/ Mark
  \/ \E m \in MACs : Forget(m) \/ Ignore(m) \/ SetMetadata(m) \/ Move(m) \/ Tick(m)
  \/ SetupExisting
  \/ \E r \in Requests :
       \/ WriteMembers(r) \/ SaveRule(r) \/ SaveSetup(r) \/ \E seeds \in SUBSET MACs : Setup(r, seeds)
       \/ \E b \in BOOLEAN : SwitchRule(r, b) \/ \E m \in MACs : BeginApprove(r, m, b)

Spec == Init /\ [][Next]_vars

----------------------------------------------------------------------------
\* Properties

\* "A failed source supplied no negative evidence": a client that stayed home
\* while a scan ran is not recorded as gone by it, unless it had moved before to
\* where no source that saw it last would see it, or the firewall's answer was
\* empty because its request failed.
DepartureIsReal ==
  [][\A m \in MACs :
       roster[m] # None /\ roster'[m] # None /\ roster[m].online /\ ~roster'[m].online =>
         \E s \in Scans : /\ scan[s].stage = "record"
                          /\ m \in scan[s].stayed /\ ~scan[s].deaf => Visible(m) \cap roster[m].seen = {}]_vars

\* "once per device": a client is announced again only after it was forgotten,
\* pruned or approved, or when its record was gone as it was announced.
AnnouncedOnce == \A m \in MACs : told[m] # "twice"

\* "The OPNsense allow-list is authoritative for approval": once a scan that
\* read the allow-list as it is has been recorded, every record agrees with it,
\* of the clients that were not found too.
ApprovalIsShown ==
  ~unsure =>
    \A m \in MACs : roster[m] # None => roster[m].approved \in {None, (m \in allow)}

\* The same of a firewall that failed silently too.  It does not hold: an empty
\* answer is taken for an empty network.
FailureIsNoEvidence ==
  [][\A m \in MACs :
       roster[m] # None /\ roster'[m] # None /\ roster[m].online /\ ~roster'[m].online =>
         \E s \in Scans : /\ scan[s].stage = "record"
                          /\ m \in scan[s].stayed => Visible(m) \cap roster[m].seen = {}]_vars

\* "Enforcement starts OFF": once access control is set up the firewall enforces
\* nothing.  It may: a deny rule that is there and enabled is left as it is.
EnforcementStartsOff ==
  [][\A r \in Requests : req[r].stage = "setup" /\ req'[r] = Idle => ~deny']_vars

\* "hide until this device connects again": an ignored client that stays home
\* stays hidden.  It does not: a scan that failed to see it counts as its leaving.
IgnoredUntilReturn ==
  [][\A m \in MACs : roster[m] # None /\ roster'[m] # None /\ roster[m].ignored /\ ~roster'[m].ignored =>
       moves > 0]_vars

----------------------------------------------------------------------------
\* The inductive invariant of the proofs

\* A client that counts as announced has a record that says so.
AnnouncedIsNoted == \A m \in MACs : told[m] = "yes" => roster[m] # None /\ roster[m].notified

\* Every source that is read and lists a client that stayed home has reported it,
\* has failed, or is the firewall that answered with nothing.
Accounted(s) ==
  /\ scan[s].stage = "read" =>
       \A m \in scan[s].stayed : ~scan[s].deaf =>
         Visible(m) \subseteq scan[s].left \cup scan[s].found[m] \cup scan[s].failed
  /\ scan[s].stage = "record" =>
       \A m \in scan[s].stayed : ~scan[s].deaf => Visible(m) \subseteq scan[s].found[m] \cup scan[s].failed

IInv ==
  /\ TypeOK /\ AnnouncedOnce /\ AnnouncedIsNoted /\ ApprovalIsShown
  /\ \A s \in Scans : Accounted(s)
=============================================================================
