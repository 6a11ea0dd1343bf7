---------------------------- MODULE VpnProfiles ----------------------------
(***************************************************************************)
(* The VPN endpoint manager of one OPNsense Device around the switch of    *)
(* VpnSwitch (backend/vpn_endpoint_service.py): profiles that requests     *)
(* configure and remove, discovery of candidates at the provider, the      *)
(* bounded history with the user's validations, and the background pass    *)
(* that polls enabled profiles and raises alerts.  A request reads the     *)
(* document, may call the provider or the firewall, and writes in a later  *)
(* transaction; no lock spans the two.                                     *)
(*                                                                         *)
(* Time is counted in background passes: a discovery stays fresh for       *)
(* Interval of them.                                                       *)
(***************************************************************************)
EXTENDS Naturals, FiniteSets, Optional

CONSTANTS
  Ids,          \* profile ids; LEGACY_PROFILE_ID is one of them
  LEGACY_PROFILE_ID,
  Peers,        \* WireGuard peers of the firewall
  Servers,      \* the candidates: servers the provider may offer
  Active,       \* the one the firewall's peers are configured with
  Owners,       \* owners of networks, as RDAP knows them
  TunnelStates, \* what the firewall may say of a tunnel
  Targets,      \* compatibility targets
  Requests,     \* requests served at the same time
  MAX_PROFILES,
  MAX_HISTORY,
  Interval,     \* discoveryIntervalSeconds, in passes
  MaxOps,       \* bound: requests that configure, remove, validate or look
  MaxChanges    \* bound: changes of the tunnel

ASSUME ProfilesAssumption ==
  /\ LEGACY_PROFILE_ID \in Ids /\ None \notin Ids \cup Peers \cup Servers \cup Owners
  /\ Active \in Servers /\ IsFiniteSet(Ids) /\ IsFiniteSet(Servers)
  /\ "healthy" \in TunnelStates /\ TunnelStates \subseteq {"healthy", "down", "failed", "stale", "unreadable"}
  /\ MAX_PROFILES \in Nat \ {0} /\ MAX_HISTORY \in Nat \ {0} /\ Interval \in Nat \ {0}
  /\ MaxOps \in Nat /\ MaxChanges \in Nat

VARIABLES
  profiles,   \* vpnEndpointProfiles, by id; None: there is no such profile
  cands,      \* candidates of the Device's history; None: not in it
  newer,      \* the order of their lastSeen: the first of a pair was seen later
  last,       \* lastCandidates of a profile's discovery, with their classification
  age,        \* passes since its lastDiscovery; None: never
  util,       \* candidates with a utilization observation
  alerts,     \* profileAlerts: how often a condition was seen in a row, 2: sent
  req,        \* what a request is doing, with what it read
  pass,       \* the background pass
  tunnel,     \* EXTERNAL: what the firewall says of its tunnels
  used,       \* profile ids handed out so far
  ops, changes

history == <<cands, newer, last, age, util>>
bounds == <<ops, changes>>
profilesVars == <<profiles, history, alerts, req, pass, tunnel, used, bounds>>

Profile == [peer : Peers \cup {None}, enabled : BOOLEAN, preferred : SUBSET Owners,
            excluded : SUBSET Owners, targets : SUBSET Targets]
Classes == {"Preferred", "Eligible", "Excluded", "Unknown", "Stale"}
Conditions == {"server_down", "handshake_failed", "stale_handshake",
               "owner_not_preferred", "no_preferred_candidate"}
Keys == Ids \X Servers
Entry == [class : Classes, valid : SUBSET Targets]
Idle == [op |-> "idle"]
Blank == [peer |-> None, enabled |-> FALSE, preferred |-> {}, excluded |-> {}, targets |-> {}]
NoneSeen == [c \in Servers |-> None]

\* What a request or the pass has read and not written yet.
Tasks ==
  [op : {"idle"}]
  \cup [op : {"configure"}, id : Ids, profile : Profile, create : BOOLEAN, removed : SUBSET Targets]
  \cup [op : {"validate"}, id : Ids, cand : Servers, target : Targets]
  \cup [op : {"discover"}, id : Ids, profile : Profile]
  \cup [op : {"status"}, id : Ids, peer : Peers \cup {None}]
Todo == SUBSET (Ids \X Profile)
Passes ==
  [stage : {"next"}, todo : Todo]
  \cup [stage : {"provider"}, todo : Todo, id : Ids, snapshot : Profile, profile : Profile]
  \cup [stage : {"status"}, todo : Todo, id : Ids, snapshot : Profile, discovery : {"cached", "ok", "error"}]
  \cup [stage : {"utilization", "alerts"}, todo : Todo, id : Ids, conditions : SUBSET Conditions]

ASSUME NoProfile == None \notin Profile \cup Entry \cup Classes \cup (0..Interval)

Configured == {i \in Ids : profiles[i] # None}
Known == {k \in Keys : cands[k] # None}

ProfilesTypeOK ==
  /\ profiles \in [Ids -> Profile \cup {None}]
  /\ cands \in [Keys -> Entry \cup {None}] /\ newer \in SUBSET (Keys \X Keys)
  /\ last \in [Ids -> [Servers -> Classes \cup {None}]]
  /\ age \in [Ids -> 0..Interval \cup {None}]
  /\ util \in [Ids -> SUBSET Servers]
  /\ alerts \in [Ids -> [Conditions -> 0..2]]
  /\ req \in [Requests -> Tasks] /\ pass \in Passes
  /\ tunnel \in TunnelStates
  /\ used \in SUBSET Ids
  /\ ops \in 0..MaxOps /\ changes \in 0..MaxChanges

\* No profile yet, or one that an earlier version saved.
ProfilesInit ==
  /\ \E p \in [peer : Peers, enabled : {TRUE}, preferred : {{}}, excluded : {Owners},
               targets : {Targets}] \cup {None} :
       profiles = [i \in Ids |-> IF i = LEGACY_PROFILE_ID THEN p ELSE None]
  /\ cands = [k \in Keys |-> None] /\ newer = {} /\ last = [i \in Ids |-> NoneSeen]
  /\ age = [i \in Ids |-> None]
  /\ util = [i \in Ids |-> {}] /\ alerts = [i \in Ids |-> [c \in Conditions |-> 0]]
  /\ req = [r \in Requests |-> Idle]
  /\ pass = [stage |-> "next", todo |-> {}]
  /\ tunnel = "healthy" /\ used = {LEGACY_PROFILE_ID}
  /\ ops = 0 /\ changes = 0

\* A thread that serves no request, and an id not handed out yet: any will do.
Thread == CHOOSE r \in Requests : req[r] = Idle
Serves(r) == (\E q \in Requests : req[q] = Idle) /\ r = Thread
FreshId == CHOOSE i \in Ids : i \notin used

Op == ops < MaxOps /\ ops' = ops + 1 /\ UNCHANGED changes

----------------------------------------------------------------------------
\* The history

\* _classification: an exclusion wins over a preference.
Classification(owner, p) ==
  IF owner = None THEN "Unknown"
  ELSE IF owner \in p.excluded THEN "Excluded"
  ELSE IF owner \in p.preferred THEN "Preferred" ELSE "Eligible"

Valid(k) == IF cands[k] = None THEN {} ELSE cands[k].valid

\* The history is saved with the candidates `fresh` seen now: sorted by lastSeen,
\* newest first, and cut.
Record(all, fresh) ==
  LET known == {k \in Keys : all[k] # None}
      order == (fresh \X (known \ fresh)) \cup {e \in newer : e[1] \notin fresh /\ e[2] \notin fresh}
  IN \E kept \in SUBSET known :
       /\ Cardinality(kept) <= MAX_HISTORY /\ (kept = known \/ Cardinality(kept) = MAX_HISTORY)
       /\ \A k \in kept, d \in known \ kept : <<d, k>> \notin order
       /\ cands' = [k \in Keys |-> IF k \in kept THEN all[k] ELSE None]
       /\ newer' = order \cap (kept \X kept)

\* Defect: the entry of a candidate that is seen again is made anew.
SeenAnew(k, class) == [class |-> class, valid |-> {}]

\* The entry of a candidate that is seen; the user's validations of it are kept.
Seen(k, class) == [class |-> class, valid |-> Valid(k)]

\* _save_discovery, of what the provider offered for the profile as it was read
\* (owner: what RDAP knows of it): what is not offered any more is stale.
\* Whether there still is such a profile is not looked at.
Discovery(i, class) ==
  [k \in Keys |->
     IF k[1] # i THEN cands[k]
     ELSE IF k[2] \in DOMAIN class THEN Seen(k, class[k[2]])
     ELSE IF cands[k] = None THEN None ELSE [class |-> "Stale", valid |-> cands[k].valid]]

SaveDiscovery(i, p, owner) ==
  LET class == [c \in DOMAIN owner |-> Classification(owner[c], p)] IN
  /\ Record(Discovery(i, class), {i} \X DOMAIN owner)
  /\ last' = [last EXCEPT ![i] = [c \in Servers |-> IF c \in DOMAIN owner THEN class[c] ELSE None]]
  /\ age' = [age EXCEPT ![i] = 0]
  /\ UNCHANGED util

\* _runtime: there is a peer to ask for, and the firewall answers.
Readable(w) == w # None /\ tunnel # "unreadable"

\* status: its endpoint is looked up in the discovery and then in the history.
ActiveKnown(i) == last[i][Active] # None \/ <<i, Active>> \in Known

\* A load found there becomes an observation.
SaveUtilization(i, w) ==
  util' = [util EXCEPT ![i] = IF Readable(w) /\ ActiveKnown(i) THEN @ \cup {Active} ELSE @]

\* _save_utilization_poll: the attempt is recorded, and what the provider's
\* catalogue said of the connected server, if it is in it.
SaveUtilizationPoll(i, found) ==
  /\ IF found
     THEN /\ util' = [util EXCEPT ![i] = @ \cup {Active}]
          /\ Record(IF <<i, Active>> \in Known THEN cands
                    ELSE [cands EXCEPT ![<<i, Active>>] = [class |-> "Unknown", valid |-> {}]],
                    {<<i, Active>>})
     ELSE UNCHANGED <<util, cands, newer>>
  /\ UNCHANGED <<last, age>>

----------------------------------------------------------------------------
\* Requests

\* The peers other profiles manage, as far as they have been read.
Taken(i) == {profiles[j].peer : j \in Configured \ {i}} \ {None}

Patches(old) ==
  {p \in Profile :
     \/ p.peer # None /\ p = [old EXCEPT !.peer = p.peer, !.enabled = p.enabled]
     \/ p = [old EXCEPT !.excluded = p.excluded] \/ p = [old EXCEPT !.preferred = p.preferred]
     \/ p = [old EXCEPT !.targets = p.targets]}

\* EXTERNAL: what the provider offers, with the owners RDAP finds.
Offers == UNION {[S -> Owners \cup {None}] : S \in SUBSET Servers}

\* configure, up to the transaction: the profile is read, patched and compared
\* with the others.
BeginConfigure(r, i) ==
  /\ Serves(r) /\ Op
  /\ \/ i \notin used /\ i = FreshId /\ Cardinality(Configured) < MAX_PROFILES
     \/ profiles[i] # None
     \/ i = LEGACY_PROFILE_ID /\ Configured = {}
  /\ LET old == IF profiles[i] = None THEN Blank ELSE profiles[i] IN
     \E p \in Patches(old) \ {old} :
       /\ p.enabled => p.peer # None
       /\ p.peer \notin Taken(i)
       /\ req' = [req EXCEPT ![r] = [op |-> "configure", id |-> i, profile |-> p,
                    create |-> i \notin used, removed |-> old.targets \ p.targets]]
  /\ used' = used \cup {i}
  /\ UNCHANGED <<profiles, history, alerts, pass, tunnel>>

\* Its transaction: the profile replaces the saved one, or is new.
MayCommit(q) ==
  IF q.create THEN Cardinality(Configured) < MAX_PROFILES
  ELSE profiles[q.id] # None \/ (q.id = LEGACY_PROFILE_ID /\ Configured = {})

CommitConfigure(r) ==
  /\ req[r].op = "configure"
  /\ IF MayCommit(req[r])
     THEN /\ profiles' = [profiles EXCEPT ![req[r].id] = req[r].profile]
          /\ cands' = [k \in Keys |-> IF k[1] = req[r].id /\ k \in Known
                                      THEN [cands[k] EXCEPT !.valid = @ \ req[r].removed] ELSE cands[k]]
     ELSE UNCHANGED <<profiles, cands>>
  /\ req' = [req EXCEPT ![r] = Idle]
  /\ UNCHANGED <<newer, last, age, util, alerts, pass, tunnel, used, bounds>>

\* Defect: the observations of a removed profile are kept.
ForgetKeepingUtilization(i) ==
  /\ cands' = [k \in Keys |-> IF k[1] = i THEN None ELSE cands[k]]
  /\ newer' = {e \in newer : e[1][1] # i /\ e[2][1] # i}
  /\ last' = [last EXCEPT ![i] = NoneSeen]
  /\ age' = [age EXCEPT ![i] = None]
  /\ UNCHANGED util

\* What remove_profile deletes with the profile; not the state of its alerts.
Forget(i) ==
  /\ cands' = [k \in Keys |-> IF k[1] = i THEN None ELSE cands[k]]
  /\ newer' = {e \in newer : e[1][1] # i /\ e[2][1] # i}
  /\ last' = [last EXCEPT ![i] = NoneSeen]
  /\ age' = [age EXCEPT ![i] = None]
  /\ util' = [util EXCEPT ![i] = {}]

RemoveProfile(i) ==
  /\ profiles[i] # None /\ Op
  /\ profiles' = [profiles EXCEPT ![i] = None]
  /\ Forget(i)
  /\ UNCHANGED <<alerts, req, pass, tunnel, used>>

\* set_validation: the target is looked up before the transaction, the
\* candidate in it.
BeginValidation(r, i, c, t) ==
  /\ Serves(r) /\ profiles[i] # None /\ t \in profiles[i].targets /\ <<i, c>> \in Known /\ Op
  /\ req' = [req EXCEPT ![r] = [op |-> "validate", id |-> i, cand |-> c, target |-> t]]
  /\ UNCHANGED <<profiles, history, alerts, pass, tunnel, used>>

CommitValidation(r) ==
  /\ req[r].op = "validate"
  /\ cands' = [k \in Keys |-> IF k = <<req[r].id, req[r].cand>> /\ k \in Known
                              THEN [cands[k] EXCEPT !.valid = @ \cup {req[r].target}] ELSE cands[k]]
  /\ req' = [req EXCEPT ![r] = Idle]
  /\ UNCHANGED <<profiles, newer, last, age, util, alerts, pass, tunnel, used, bounds>>

\* status(refresh): discover(force) first; without it the saved candidates do.
BeginStatus(r, i, refresh) ==
  /\ Serves(r) /\ profiles[i] # None /\ Op
  /\ req' = [req EXCEPT ![r] =
       IF refresh THEN [op |-> "discover", id |-> i, profile |-> profiles[i]]
       ELSE [op |-> "status", id |-> i, peer |-> profiles[i].peer]]
  /\ UNCHANGED <<profiles, history, alerts, pass, tunnel, used>>

\* discover: the provider and RDAP answer, or the provider fails.
Discovered(r) ==
  /\ req[r].op = "discover"
  /\ \/ \E owner \in Offers : SaveDiscovery(req[r].id, req[r].profile, owner)
     \/ UNCHANGED history
  /\ req' = [req EXCEPT ![r] = [op |-> "status", id |-> req[r].id, peer |-> req[r].profile.peer]]
  /\ UNCHANGED <<profiles, alerts, pass, tunnel, used, bounds>>

\* The runtime is read and the load of the active server recorded.
Status(r) ==
  /\ req[r].op = "status"
  /\ SaveUtilization(req[r].id, req[r].peer)
  /\ req' = [req EXCEPT ![r] = Idle]
  /\ UNCHANGED <<profiles, cands, newer, last, age, alerts, pass, tunnel, used, bounds>>

----------------------------------------------------------------------------
\* poll_enabled

Older(f) == [i \in Ids |-> IF f[i] = None \/ f[i] = Interval THEN f[i] ELSE f[i] + 1]
Expired(f, i) == f[i] = None \/ f[i] = Interval

\* The next pass: the enabled profiles are read.
StartPass ==
  /\ pass.stage = "next" /\ pass.todo = {}
  /\ pass' = [stage |-> "next", todo |-> {<<i, profiles[i]>> : i \in {j \in Configured : profiles[j].enabled}}]
  /\ age' = Older(age)
  /\ UNCHANGED <<profiles, cands, newer, last, util, alerts, req, tunnel, used, bounds>>

\* What the pass knows of a profile when discover has returned.
Polled(todo, i, snapshot, discovery) ==
  [stage |-> "status", todo |-> todo, id |-> i, snapshot |-> snapshot, discovery |-> discovery]

\* discover of the next profile of the pass.  An exception skips the profile.
PollDiscover ==
  /\ pass.stage = "next"
  /\ \E e \in pass.todo :
       LET i == e[1] IN
       pass' = CASE profiles[i] = None -> [pass EXCEPT !.todo = @ \ {e}]
                 [] profiles[i] # None /\ Expired(age, i) ->
                      [stage |-> "provider", todo |-> pass.todo \ {e}, id |-> i,
                       snapshot |-> e[2], profile |-> profiles[i]]
                 [] OTHER -> Polled(pass.todo \ {e}, i, e[2], "cached")
  /\ UNCHANGED <<profiles, history, alerts, req, tunnel, used, bounds>>

\* Defect: a provider error ends the poll of the profile.
PollProviderRaising ==
  /\ pass.stage = "provider"
  /\ \/ \E owner \in Offers :
          /\ SaveDiscovery(pass.id, pass.profile, owner)
          /\ pass' = Polled(pass.todo, pass.id, pass.snapshot, "ok")
     \/ UNCHANGED history /\ pass' = [stage |-> "next", todo |-> pass.todo]
  /\ UNCHANGED <<profiles, alerts, req, tunnel, used, bounds>>

PollProvider ==
  /\ pass.stage = "provider"
  /\ \/ \E owner \in Offers :
          /\ SaveDiscovery(pass.id, pass.profile, owner)
          /\ pass' = Polled(pass.todo, pass.id, pass.snapshot, "ok")
     \/ UNCHANGED history /\ pass' = Polled(pass.todo, pass.id, pass.snapshot, "error")
  /\ UNCHANGED <<profiles, alerts, req, tunnel, used, bounds>>

\* The conditions of the profile as the pass found it.  The two about owners
\* are looked at only when this poll made a discovery.
TunnelConditions(w) ==
  CASE ~Readable(w) -> {} [] tunnel = "down" -> {"server_down"} [] tunnel = "failed" -> {"handshake_failed"}
    [] tunnel = "stale" -> {"stale_handshake"} [] OTHER -> {}

OwnerConditions(p, i, w) ==
  {c \in {"owner_not_preferred"} : Readable(w) /\ last[i][Active] \in {"Excluded", "Unknown"}}
  \cup {c \in {"no_preferred_candidate"} :
          p.preferred # {} /\ \A c2 \in Servers : last[i][c2] # "Preferred"}

ConditionsOf(p, i, w, discovery) ==
  TunnelConditions(w) \cup (IF discovery = "ok" THEN OwnerConditions(p, i, w) ELSE {})

PollStatus ==
  /\ pass.stage = "status"
  /\ IF profiles[pass.id] = None
     THEN pass' = [stage |-> "next", todo |-> pass.todo] /\ UNCHANGED util
     ELSE /\ SaveUtilization(pass.id, profiles[pass.id].peer)
          /\ pass' = [stage |-> IF Readable(profiles[pass.id].peer) THEN "utilization" ELSE "alerts",
                       todo |-> pass.todo, id |-> pass.id,
                       conditions |-> ConditionsOf(pass.snapshot, pass.id, profiles[pass.id].peer, pass.discovery)]
  /\ UNCHANGED <<profiles, cands, newer, last, age, alerts, req, tunnel, used, bounds>>

\* _poll_connected_utilization, when it is due.
PollUtilization ==
  /\ pass.stage = "utilization"
  /\ (\E found \in BOOLEAN : SaveUtilizationPoll(pass.id, found)) \/ UNCHANGED history
  /\ pass' = [pass EXCEPT !.stage = "alerts"]
  /\ UNCHANGED <<profiles, alerts, req, tunnel, used, bounds>>

\* _update_alert_state: a condition is counted while it is seen, sent when it
\* is seen a second time, and forgotten when it is not.
Counted(counts, conditions) ==
  [c \in Conditions |-> IF c \notin conditions THEN 0 ELSE IF counts[c] = 2 THEN 2 ELSE counts[c] + 1]

PollAlerts ==
  /\ pass.stage = "alerts"
  /\ alerts' = [alerts EXCEPT ![pass.id] = Counted(@, pass.conditions)]
  /\ pass' = [stage |-> "next", todo |-> pass.todo]
  /\ UNCHANGED <<profiles, history, req, tunnel, used, bounds>>

\* EXTERNAL: the tunnels change, or the firewall stops answering.
Change ==
  /\ changes < MaxChanges /\ changes' = changes + 1
  /\ tunnel' \in TunnelStates \ {tunnel}
  /\ UNCHANGED <<profiles, history, alerts, req, pass, used, ops>>

Poll ==
  \/ StartPass \/ PollDiscover \/ PollProvider
  \/ PollStatus \/ PollUtilization \/ PollAlerts

ProfilesNext ==
  \/ Poll \/ Change
  \/ \E i \in Ids : RemoveProfile(i)
  \/ \E r \in Requests :
       \/ CommitConfigure(r) \/ CommitValidation(r) \/ Discovered(r) \/ Status(r)
       \/ \E i \in Ids :
            \/ BeginConfigure(r, i)
            \/ \E refresh \in BOOLEAN : BeginStatus(r, i, refresh)
            \/ \E c \in Servers, t \in Targets : BeginValidation(r, i, c, t)

\* The network job runs poll_enabled every POLL_INTERVAL; calls time out.
ProfilesSpec == ProfilesInit /\ [][ProfilesNext]_profilesVars /\ WF_profilesVars(Poll)

----------------------------------------------------------------------------
\* Properties

UnderWay(i) ==
  \/ \E r \in Requests : req[r].op # "idle" /\ req[r].id = i
  \/ pass.stage # "next" /\ pass.id = i

Forgotten(i) ==
  /\ \A k \in Known : k[1] # i
  /\ last[i] = NoneSeen /\ util[i] = {} /\ age[i] = None

\* "deletes only HomeLabHQ's profile and its bounded candidate/validation
\* history": remove_profile deletes all of it, and only a request or a poll
\* that read the profile before brings some of it back.
RemovedIsForgotten ==
  [][\A i \in Ids :
       /\ profiles[i] # None /\ profiles'[i] = None => Forgotten(i)'
       /\ profiles[i] = None /\ Forgotten(i) /\ ~UnderWay(i) => Forgotten(i)']_profilesVars

\* "deletes only HomeLabHQ's profile and its bounded candidate/validation
\* history": what a removed profile left behind stays deleted.  It does not: a
\* discovery or poll that read the profile before saves its candidates after.
RemovedStaysForgotten ==
  [][\A i \in Ids : profiles[i] = None /\ Forgotten(i) => Forgotten(i)']_profilesVars

\* A validation the user saved survives the discoveries, polls and other
\* requests that run at the same time, until its target or its profile is
\* removed or the history is full.
ValidationKept ==
  [][\A k \in Keys, t \in Targets :
       t \in Valid(k) =>
         \/ t \in Valid(k)'
         \/ profiles'[k[1]] = None \/ t \notin profiles'[k[1]].targets
         \/ Cardinality(Known') = MAX_HISTORY /\ k \notin Known']_profilesVars

\* "the selected WireGuard peer is already managed by another profile": no two
\* profiles manage one peer.  Two may: overlapping configure requests look for
\* the peer in the profiles they read before their transactions.
OnePeerPerProfile ==
  \A i, j \in Configured : i # j /\ profiles[i].peer = profiles[j].peer => profiles[i].peer = None

\* A profile that stays enabled over a tunnel that stays down is reported,
\* whether the provider answers or not.
OutageIsAlerted ==
  \A i \in Ids :
    (profiles[i] # None /\ profiles[i].enabled /\ tunnel = "down") ~>
      \/ profiles[i] = None \/ ~profiles[i].enabled \/ tunnel # "down"
      \/ alerts[i]["server_down"] = 2

\* "The background poller can report ... an active endpoint with excluded or
\* unknown ownership": when the provider always answers and its discoveries
\* keep finding the owner of the active endpoint excluded, that is sent.
ProviderAnswers == pass.stage = "status" => pass.discovery # "error"
OwnerIsAlerted ==
  []ProviderAnswers =>
    \A i \in Ids :
      (profiles[i] # None /\ profiles[i].enabled /\ last[i][Active] = "Excluded") ~>
        \/ profiles[i] = None \/ ~profiles[i].enabled \/ last[i][Active] # "Excluded"
        \/ alerts[i]["owner_not_preferred"] = 2
----------------------------------------------------------------------------
\* The inductive invariant of the proofs

\* "at most {MAX_PROFILES} VPN endpoint profiles are supported", and MAX_HISTORY
\* candidates are kept.
Limits == Cardinality(Configured) <= MAX_PROFILES /\ Cardinality(Known) <= MAX_HISTORY

\* A target that a request removes is none of those it saves.
RemovedApart ==
  \A r \in Requests : req[r].op = "configure" => req[r].removed \cap req[r].profile.targets = {}

ProfilesInv == ProfilesTypeOK /\ Limits /\ RemovedApart
=============================================================================
