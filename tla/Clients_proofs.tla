--------------------------- MODULE Clients_proofs ---------------------------
(***************************************************************************)
(* Proofs about Clients, for any number of clients, access points, scans,  *)
(* requests, moves and failures.  What every scan does to a record is one  *)
(* lemma (ObservedRecord); that a full scan has accounted for every source *)
(* that lists a client (Accounted) makes a departure it records real, and  *)
(* that a client counted as announced has a record that says so            *)
(* (AnnouncedIsNoted) keeps it from being announced again.                 *)
(***************************************************************************)
EXTENDS Clients, TLAPS

----------------------------------------------------------------------------
\* What a scan does to one record

\* The parts of a record.
LEMMA RecordFields ==
  ASSUME NEW r \in Record
  PROVE  /\ r.online \in BOOLEAN /\ r.seen \subseteq Sources /\ r.age \in 0..2 /\ r.ignored \in BOOLEAN
         /\ r.away \in BOOLEAN /\ r.notified \in BOOLEAN /\ r.approved \in BOOLEAN \cup {None}
  BY DEF Record

LEMMA BlankRecord == Blank \in Record /\ Blank.notified = FALSE /\ Blank.approved = None
  BY DEF Blank, Record

\* A client that was found: it is online, and nothing is said of its announcement or approval.
LEMMA FoundRecord ==
  ASSUME NEW r \in Record, NEW full \in BOOLEAN, NEW sources \in SUBSET Sources, NEW failed \in SUBSET Sources
  PROVE  /\ Found(r, full, sources, failed) \in Record
         /\ Found(r, full, sources, failed).online = TRUE
         /\ Found(r, full, sources, failed).notified = r.notified
         /\ Found(r, full, sources, failed).approved = r.approved
  <1> DEFINE ignored == r.ignored /\ ~r.away
             away == r.away /\ ~r.ignored
             seen == IF full \/ r.seen = {} THEN sources \cup (r.seen \cap failed) ELSE r.seen
             fresh == [r EXCEPT !.age = 0]
             up == [fresh EXCEPT !.online = TRUE]
             new == [up EXCEPT !.ignored = ignored, !.away = away, !.seen = seen]
  <1>1. ignored \in BOOLEAN /\ away \in BOOLEAN /\ seen \in SUBSET Sources
    BY RecordFields
  <1>2. Found(r, full, sources, failed) = new
    BY DEF Found
  <1> HIDE DEF ignored, away, seen
  <1>3. fresh \in Record /\ fresh.notified = r.notified /\ fresh.approved = r.approved
    BY DEF Record
  <1> HIDE DEF fresh
  <1>4. up \in Record /\ up.online = TRUE /\ up.notified = r.notified /\ up.approved = r.approved
    BY <1>3 DEF Record
  <1> HIDE DEF up
  <1>5. new \in Record /\ new.online = TRUE /\ new.notified = r.notified /\ new.approved = r.approved
    BY <1>1, <1>4 DEF Record
  <1> HIDE DEF new
  <1> QED
    BY <1>2, <1>5

\* A client that was not found: it is marked offline by a full scan only, and only when no
\* source that saw it last has failed.
LEMMA NotFoundRecord ==
  ASSUME NEW r \in Record, NEW full \in BOOLEAN, NEW failed \in SUBSET Sources, NotFound(r, full, failed) # None
  PROVE  /\ NotFound(r, full, failed) \in Record
         /\ NotFound(r, full, failed).notified = r.notified
         /\ NotFound(r, full, failed).approved = r.approved
         /\ r.online /\ ~NotFound(r, full, failed).online => full /\ r.seen \cap failed = {}
  <1> DEFINE away == r.away \/ r.ignored
             online == r.online /\ ~(full /\ Gone(r, failed))
             left == [r EXCEPT !.away = away, !.online = online]
  <1>1. away \in BOOLEAN /\ online \in BOOLEAN
    BY RecordFields
  <1>2. r.online /\ ~online => full /\ r.seen \cap failed = {}
    BY DEF Gone
  <1>3. NotFound(r, full, failed) = left
    BY DEF NotFound
  <1> HIDE DEF away, online
  <1>4. left \in Record /\ left.notified = r.notified /\ left.approved = r.approved /\ left.online = online
    BY <1>1 DEF Record
  <1> HIDE DEF left
  <1> QED
    BY <1>2, <1>3, <1>4

\* The allow-list, when it could be read, decides what a record says of approval, and
\* nothing else.
LEMMA ApprovedRecord ==
  ASSUME NEW m \in MACs, NEW r \in Record, NEW found, NEW approved \in (SUBSET MACs) \cup {None}
  PROVE  /\ Approved(m, r, found, approved) \in Record
         /\ Approved(m, r, found, approved).notified = r.notified
         /\ Approved(m, r, found, approved).online = r.online
         /\ approved = None => Approved(m, r, found, approved).approved = r.approved
         /\ approved # None => Approved(m, r, found, approved).approved = (m \in approved)
  <1>1. CASE approved = None
    BY <1>1 DEF Approved
  <1>2. CASE approved # None
    <2> DEFINE b == m \in approved
    <2>1. b \in BOOLEAN /\ r # None
      BY NoneAssumption
    <2>2. Approved(m, r, found, approved) = [r EXCEPT !.approved = b]
      BY <1>2, <2>1 DEF Approved
    <2> HIDE DEF b
    <2>3. /\ [r EXCEPT !.approved = b] \in Record /\ [r EXCEPT !.approved = b].notified = r.notified
          /\ [r EXCEPT !.approved = b].online = r.online /\ [r EXCEPT !.approved = b].approved = b
      BY <2>1 DEF Record
    <2> QED
      BY <1>2, <2>2, <2>3 DEF b
  <1> QED
    BY <1>1, <1>2

\* What a scan makes of the record of a client; it does not touch the mark of its
\* announcement, and a client that it marks offline was listed by no source that answered.
LEMMA ObservedRecord ==
  ASSUME TypeOK, NEW full \in BOOLEAN, NEW sightings \in [MACs -> SUBSET Sources],
         NEW failed \in SUBSET Sources, NEW approved \in (SUBSET MACs) \cup {None}
  PROVE  /\ Observed(full, sightings, failed, approved) \in [MACs -> Record \cup {None}]
         /\ \A m \in MACs : Observed(full, sightings, failed, approved)[m] # None =>
              LET new == Observed(full, sightings, failed, approved)[m] IN
              /\ roster[m] # None => new.notified = roster[m].notified
              /\ approved # None => new.approved = (m \in approved)
              /\ approved = None => new.approved = IF roster[m] = None THEN None ELSE roster[m].approved
              /\ roster[m] # None /\ roster[m].online /\ ~new.online =>
                   full /\ sightings[m] = {} /\ roster[m].seen \cap failed = {}
  <1> DEFINE result == Observed(full, sightings, failed, approved)
             old(m) == IF roster[m] = None THEN Blank ELSE roster[m]
             lost(m) == NotFound(roster[m], full, failed)
  <1>1. ASSUME NEW m \in MACs
        PROVE  /\ result[m] \in Record \cup {None}
               /\ result[m] # None =>
                    /\ roster[m] # None => result[m].notified = roster[m].notified
                    /\ approved # None => result[m].approved = (m \in approved)
                    /\ approved = None => result[m].approved = IF roster[m] = None THEN None ELSE roster[m].approved
                    /\ roster[m] # None /\ roster[m].online /\ ~result[m].online =>
                         full /\ sightings[m] = {} /\ roster[m].seen \cap failed = {}
    <2>1. old(m) \in Record /\ sightings[m] \in SUBSET Sources /\ (roster[m] # None => roster[m] \in Record)
      BY BlankRecord DEF TypeOK
    <2>2. CASE sightings[m] # {}
      <3> DEFINE o == old(m)
                 s == Found(o, full, sightings[m], failed)
      <3>1. result[m] = Approved(m, s, TRUE, approved)
        BY <2>2 DEF Observed, Approved
      <3>2. s \in Record /\ s.online = TRUE /\ s.notified = o.notified /\ s.approved = o.approved
        <4> DEFINE sources == sightings[m]
        <4>1. o \in Record /\ sources \in SUBSET Sources
          BY <2>1
        <4> HIDE DEF o, sources
        <4>2. LET f == Found(o, full, sources, failed) IN
              f \in Record /\ f.online = TRUE /\ f.notified = o.notified /\ f.approved = o.approved
          BY <4>1, FoundRecord, ZenonT(40)
        <4> QED
          BY <4>2 DEF sources
      <3> HIDE DEF s, result
      <3>3. /\ Approved(m, s, TRUE, approved) \in Record
            /\ Approved(m, s, TRUE, approved).notified = s.notified
            /\ Approved(m, s, TRUE, approved).online = s.online
            /\ approved = None => Approved(m, s, TRUE, approved).approved = s.approved
            /\ approved # None => Approved(m, s, TRUE, approved).approved = (m \in approved)
        BY <3>2, ApprovedRecord
      <3> QED
        BY <3>2, <3>1, <3>3, BlankRecord
    <2>3. CASE sightings[m] = {} /\ (roster[m] = None \/ lost(m) = None)
      <3>1. result[m] = None
        BY <2>3 DEF Observed, Approved
      <3> QED
        BY <3>1
    <2>4. CASE sightings[m] = {} /\ roster[m] # None /\ lost(m) # None
      <3> DEFINE s == lost(m)
      <3>1. /\ s \in Record /\ s.notified = roster[m].notified /\ s.approved = roster[m].approved
            /\ roster[m].online /\ ~s.online => full /\ roster[m].seen \cap failed = {}
        BY <2>1, <2>4, NotFoundRecord
      <3>2. result[m] = Approved(m, s, FALSE, approved)
        BY <2>4 DEF Observed, Approved
      <3> HIDE DEF s, result
      <3>3. /\ Approved(m, s, FALSE, approved) \in Record
            /\ Approved(m, s, FALSE, approved).notified = s.notified
            /\ Approved(m, s, FALSE, approved).online = s.online
            /\ approved = None => Approved(m, s, FALSE, approved).approved = s.approved
            /\ approved # None => Approved(m, s, FALSE, approved).approved = (m \in approved)
        BY <3>1, ApprovedRecord
      <3> QED
        BY <2>4, <3>1, <3>2, <3>3
    <2> QED
      BY <2>2, <2>3, <2>4
  <1>2. result = [m \in MACs |-> result[m]]
    BY DEF Observed
  <1> HIDE DEF result
  <1>3. result \in [MACs -> Record \cup {None}]
    BY <1>1, <1>2
  <1> QED
    BY <1>1, <1>3 DEF result

----------------------------------------------------------------------------
\* Types

\* What a scan, and the partial scan, has read at each stage.
LEMMA ScanFields ==
  ASSUME TypeOK, NEW s \in Scans
  PROVE  /\ scan[s].stage \in {"idle", "read", "record"}
         /\ scan[s].stage = "idle" <=> scan[s] = Idle
         /\ scan[s].stage = "read" =>
              /\ scan[s].left \subseteq Sources /\ scan[s].failed \subseteq Sources /\ scan[s].deaf \in BOOLEAN
              /\ scan[s].found \in [MACs -> SUBSET Sources] /\ scan[s].stayed \subseteq MACs /\ scan[s] \in Reading
         /\ scan[s].stage = "record" =>
              /\ scan[s].failed \subseteq Sources /\ scan[s].deaf \in BOOLEAN /\ scan[s] \in Recording
              /\ scan[s].found \in [MACs -> SUBSET Sources] /\ scan[s].stayed \subseteq MACs
              /\ scan[s].approved \in (SUBSET MACs) \cup {None}
  <1>1. CASE scan[s] = Idle
    BY <1>1 DEF Idle
  <1>2. CASE scan[s] \in Reading
    BY <1>2 DEF Reading, Idle
  <1>3. CASE scan[s] \in Recording
    BY <1>3 DEF Recording, Idle
  <1> QED
    BY <1>1, <1>2, <1>3 DEF TypeOK

LEMMA NacScanFields ==
  ASSUME TypeOK
  PROVE  /\ nacScan.stage \in {"idle", "before", "record", "mark"}
         /\ nacScan.stage \in {"before", "record", "mark"} =>
              nacScan.approved \subseteq MACs /\ nacScan.clients \subseteq MACs
         /\ nacScan.stage \in {"record", "mark"} => nacScan.firstRun \in BOOLEAN /\ nacScan \in NacRecording
  <1>1. CASE nacScan = Idle
    BY <1>1 DEF Idle
  <1>2. CASE nacScan \in NacReading
    BY <1>2 DEF NacReading
  <1>3. CASE nacScan \in NacRecording
    BY <1>3 DEF NacRecording
  <1> QED
    BY <1>1, <1>2, <1>3 DEF TypeOK

LEMMA RequestFields ==
  ASSUME TypeOK, NEW r \in Requests
  PROVE  req[r].stage \in {"member", "seed"} => req[r].members \subseteq MACs
  <1>1. CASE req[r] = Idle \/ req[r] = [stage |-> "setup"]
    BY <1>1 DEF Idle
  <1>2. CASE req[r] \in Writing
    BY <1>2 DEF Writing
  <1>3. CASE req[r] \in Switching
    BY <1>3 DEF Switching
  <1> QED
    BY <1>1, <1>2, <1>3 DEF TypeOK

\* The places of a client that list it are sources.
LEMMA VisibleSources == \A m : Visible(m) \subseteq Sources
  BY DEF Visible

\* What a full scan records.
LEMMA RecordScanEffect ==
  ASSUME TypeOK, NEW s \in Scans, RecordScan(s)
  PROVE  /\ roster' \in [MACs -> Record \cup {None}]
         /\ \A m \in MACs : roster'[m] # None =>
              /\ roster[m] # None => roster'[m].notified = roster[m].notified
              /\ scan[s].approved # None => roster'[m].approved = (m \in scan[s].approved)
              /\ scan[s].approved = None => roster'[m].approved = IF roster[m] = None THEN None ELSE roster[m].approved
              /\ roster[m] # None /\ roster[m].online /\ ~roster'[m].online =>
                   scan[s].found[m] = {} /\ roster[m].seen \cap scan[s].failed = {}
  <1> DEFINE found == scan[s].found
             failed == scan[s].failed
             approved == scan[s].approved
  <1>1. roster' = Observed(TRUE, found, failed, approved) /\ scan[s].stage = "record"
    BY DEF RecordScan
  <1>2. found \in [MACs -> SUBSET Sources] /\ failed \in SUBSET Sources /\ approved \in (SUBSET MACs) \cup {None}
    BY <1>1, ScanFields
  <1> HIDE DEF found, failed, approved
  <1>3. /\ Observed(TRUE, found, failed, approved) \in [MACs -> Record \cup {None}]
        /\ \A m \in MACs : Observed(TRUE, found, failed, approved)[m] # None =>
              LET new == Observed(TRUE, found, failed, approved)[m] IN
              /\ roster[m] # None => new.notified = roster[m].notified
              /\ approved # None => new.approved = (m \in approved)
              /\ approved = None => new.approved = IF roster[m] = None THEN None ELSE roster[m].approved
              /\ roster[m] # None /\ roster[m].online /\ ~new.online =>
                   TRUE /\ found[m] = {} /\ roster[m].seen \cap failed = {}
    BY <1>2, ObservedRecord, ZenonT(40)
  <1> QED
    BY <1>1, <1>3 DEF found, failed, approved

\* What the first transaction of the partial scan records; it marks no client offline.
LEMMA RecordNacScanEffect ==
  ASSUME TypeOK, RecordNacScan
  PROVE  /\ roster' \in [MACs -> Record \cup {None}]
         /\ \A m \in MACs : roster'[m] # None =>
              /\ roster[m] # None => roster'[m].notified = roster[m].notified
              /\ roster'[m].approved = (m \in nacScan.approved)
              /\ ~(roster[m] # None /\ roster[m].online /\ ~roster'[m].online)
  <1> DEFINE found == [m \in MACs |-> IF m \in nacScan.clients THEN {Firewall} ELSE {}]
             approved == nacScan.approved
             failed == {}
  <1>1. roster' = Observed(FALSE, found, failed, approved) /\ nacScan.stage = "record"
    BY DEF RecordNacScan
  <1>2. /\ found \in [MACs -> SUBSET Sources] /\ failed \in SUBSET Sources
        /\ approved \in (SUBSET MACs) \cup {None} /\ approved # None
    BY <1>1, NacScanFields, NoneAssumption DEF Sources
  <1> HIDE DEF found, failed, approved
  <1>3. /\ Observed(FALSE, found, failed, approved) \in [MACs -> Record \cup {None}]
        /\ \A m \in MACs : Observed(FALSE, found, failed, approved)[m] # None =>
              LET new == Observed(FALSE, found, failed, approved)[m] IN
              /\ roster[m] # None => new.notified = roster[m].notified
              /\ approved # None => new.approved = (m \in approved)
              /\ approved = None => new.approved = IF roster[m] = None THEN None ELSE roster[m].approved
              /\ roster[m] # None /\ roster[m].online /\ ~new.online =>
                   FALSE /\ found[m] = {} /\ roster[m].seen \cap failed = {}
    BY <1>2, ObservedRecord
  <1> QED
    BY <1>1, <1>2, <1>3 DEF approved

\* The full scans keep the types.
LEMMA ScanTypes ==
  ASSUME TypeOK, NEW s \in Scans,
         BeginScan(s) \/ ReadMembership(s) \/ RecordScan(s) \/ \E x \in Sources : ReadSource(s, x)
  PROVE  TypeOK'
  <1> USE DEF network, bounds
  <1>1. CASE BeginScan(s)
    <2> DEFINE new == [stage |-> "read", left |-> Sources, failed |-> {}, deaf |-> FALSE,
                       found |-> [m \in MACs |-> {}], stayed |-> {m \in MACs : at[m] # "away"}]
    <2>1. new \in Reading
      BY DEF Reading
    <2>2. scan' = [scan EXCEPT ![s] = new] /\ UNCHANGED <<network, roster, nacScan, nac, req, told, unsure, bounds>>
      BY <1>1 DEF BeginScan
    <2> HIDE DEF new
    <2>3. scan' \in [Scans -> {Idle} \cup Reading \cup Recording]
      BY <2>1, <2>2 DEF TypeOK
    <2> QED
      BY <2>2, <2>3 DEF TypeOK
  <1>2. CASE ReadMembership(s)
    <2>1. PICK approved \in IF nac = "none" THEN {None} ELSE Members \cup {None} :
            /\ scan' = [scan EXCEPT ![s] = [stage |-> "record", found |-> scan[s].found, failed |-> scan[s].failed,
                 deaf |-> scan[s].deaf, stayed |-> scan[s].stayed, approved |-> approved]]
            /\ IF nac = "none" \/ approved = allow THEN UNCHANGED bounds ELSE Event
      BY <1>2 DEF ReadMembership
    <2> DEFINE new == [stage |-> "record", found |-> scan[s].found, failed |-> scan[s].failed,
                       deaf |-> scan[s].deaf, stayed |-> scan[s].stayed, approved |-> approved]
    <2>2. approved \in (SUBSET MACs) \cup {None}
      BY <2>1 DEF Members, TypeOK
    <2>3. new \in Recording
      BY <1>2, <2>2, ScanFields DEF Recording, ReadMembership
    <2>4. scan' = [scan EXCEPT ![s] = new] /\ UNCHANGED <<network, roster, nacScan, nac, req, told, unsure>>
      BY <1>2, <2>1 DEF ReadMembership
    <2>5. moves' \in 0..MaxMoves /\ events' \in 0..MaxEvents
      BY <2>1, ConstantsAssumption DEF Event, TypeOK
    <2> HIDE DEF new
    <2>6. scan' \in [Scans -> {Idle} \cup Reading \cup Recording]
      BY <2>3, <2>4 DEF TypeOK
    <2> QED
      BY <2>4, <2>5, <2>6 DEF TypeOK
  <1>3. CASE RecordScan(s)
    <2>1. /\ UNCHANGED <<network, nacScan, nac, req, bounds>> /\ scan[s].stage = "record"
          /\ scan' = [scan EXCEPT ![s] = Idle]
          /\ roster' = Observed(TRUE, scan[s].found, scan[s].failed, scan[s].approved)
          /\ told' = Told(roster')
          /\ unsure' = IF scan[s].approved = None THEN unsure ELSE scan[s].approved # allow
      BY <1>3 DEF RecordScan
    <2>2. scan' \in [Scans -> {Idle} \cup Reading \cup Recording]
      BY <2>1 DEF TypeOK
    <2>3. roster' \in [MACs -> Record \cup {None}]
      BY <1>3, RecordScanEffect
    <2>4. told' \in [MACs -> {"no", "yes", "unrecorded", "twice"}]
      BY <2>1 DEF Told, TypeOK
    <2>5. unsure' \in BOOLEAN
      BY <2>1 DEF TypeOK
    <2> QED
      BY <2>1, <2>2, <2>3, <2>4, <2>5 DEF TypeOK
  <1>4. ASSUME NEW x \in Sources, ReadSource(s, x)
        PROVE  TypeOK'
    <2>1. /\ UNCHANGED <<network, roster, nacScan, nac, req, told, unsure>> /\ scan[s].stage = "read"
          /\ \/ UNCHANGED bounds /\ scan' = [scan EXCEPT ![s].left = @ \ {x}, ![s].found = Merged(@, x)]
             \/ Event /\ scan' = [scan EXCEPT ![s].left = @ \ {x}, ![s].failed = @ \cup {x}]
             \/ Event /\ scan' = [scan EXCEPT ![s].left = @ \ {x}, ![s].deaf = TRUE]
      BY <1>4 DEF ReadSource
    <2>2. moves' \in 0..MaxMoves /\ events' \in 0..MaxEvents
      BY <2>1, ConstantsAssumption DEF Event, TypeOK
    <2>3. scan[s] \in Reading /\ scan \in [Scans -> {Idle} \cup Reading \cup Recording]
      BY <2>1, ScanFields DEF TypeOK
    <2>4. \A found \in [MACs -> SUBSET Sources] : Merged(found, x) \in [MACs -> SUBSET Sources]
      BY DEF Merged
    <2>5. scan' \in [Scans -> {Idle} \cup Reading \cup Recording]
      <3> DEFINE rest == [scan[s] EXCEPT !.left = @ \ {x}]
      <3>1. rest \in Reading
        BY <2>3 DEF Reading
      <3>2. Merged(scan[s].found, x) \in [MACs -> SUBSET Sources]
        BY <2>3, <2>4 DEF Reading
      <3>3. \/ scan' = [scan EXCEPT ![s] = [rest EXCEPT !.found = Merged(scan[s].found, x)]]
            \/ scan' = [scan EXCEPT ![s] = [rest EXCEPT !.failed = scan[s].failed \cup {x}]]
            \/ scan' = [scan EXCEPT ![s] = [rest EXCEPT !.deaf = TRUE]]
        BY <2>1, <2>3 DEF Reading
      <3>4. scan[s].failed \cup {x} \in SUBSET Sources
        BY <2>3 DEF Reading
      <3> HIDE DEF rest
      <3>5. /\ [rest EXCEPT !.found = Merged(scan[s].found, x)] \in Reading
            /\ [rest EXCEPT !.failed = scan[s].failed \cup {x}] \in Reading
            /\ [rest EXCEPT !.deaf = TRUE] \in Reading
        BY <3>1, <3>2, <3>4 DEF Reading
      <3> QED
        BY <2>3, <3>3, <3>5
    <2> QED
      BY <2>1, <2>2, <2>5 DEF TypeOK
  <1> QED
    BY <1>1, <1>2, <1>3, <1>4

\* What the second transaction of the partial scan changes of a record.
LEMMA MarkEffect ==
  ASSUME TypeOK, Mark
  PROVE  /\ roster' \in [MACs -> Record \cup {None}]
         /\ \A m \in MACs :
              /\ roster[m] = None => roster'[m] = None
              /\ roster[m] # None =>
                   /\ roster'[m] # None
                   /\ roster'[m].approved = roster[m].approved /\ roster'[m].online = roster[m].online
                   /\ Announces(m) => roster'[m].notified
                   /\ roster[m].notified /\ m \notin nacScan.clients \cap nacScan.approved => roster'[m].notified
  <1> DEFINE b(m) == Announces(m) \/ (roster[m].notified /\ m \notin nacScan.clients \cap nacScan.approved)
  <1>1. roster' = [m \in MACs |-> IF roster[m] = None THEN None ELSE [roster[m] EXCEPT !.notified = b(m)]]
    <2>1. ASSUME NEW m \in MACs, roster[m] # None
          PROVE  [roster[m] EXCEPT !.notified = Announces(m) \/ (@ /\ m \notin nacScan.clients \cap nacScan.approved)]
                   = [roster[m] EXCEPT !.notified = b(m)]
      BY <2>1 DEF TypeOK, Record
    <2> QED
      BY <2>1 DEF Mark
  <1>2. ASSUME NEW m \in MACs, roster[m] # None
        PROVE  /\ [roster[m] EXCEPT !.notified = b(m)] \in Record
               /\ [roster[m] EXCEPT !.notified = b(m)].notified = b(m)
               /\ [roster[m] EXCEPT !.notified = b(m)].approved = roster[m].approved
               /\ [roster[m] EXCEPT !.notified = b(m)].online = roster[m].online
    <2> DEFINE c == b(m)
    <2>1. c \in BOOLEAN /\ roster[m] \in Record
      BY <1>2 DEF TypeOK
    <2> HIDE DEF c
    <2>2. /\ [roster[m] EXCEPT !.notified = c] \in Record
          /\ [roster[m] EXCEPT !.notified = c].notified = c
          /\ [roster[m] EXCEPT !.notified = c].approved = roster[m].approved
          /\ [roster[m] EXCEPT !.notified = c].online = roster[m].online
      BY <2>1 DEF Record
    <2> QED
      BY <2>2 DEF c
  <1>3. \A m \in MACs : (Announces(m) => b(m))
          /\ (roster[m].notified /\ m \notin nacScan.clients \cap nacScan.approved => b(m))
    OBVIOUS
  <1> HIDE DEF b
  <1> QED
    BY <1>1, <1>2, <1>3, NoneAssumption

\* The partial scan keeps the types.
LEMMA NacScanTypes ==
  ASSUME TypeOK, BeginNacScan \/ ReadFirstRun \/ RecordNacScan \/ Mark
  PROVE  TypeOK'
  <1> USE DEF network, bounds
  <1>1. CASE BeginNacScan
    <2>1. PICK approved \in Members, clients \in {{m \in MACs : at[m] # "away"}, {}} :
            /\ nacScan' = [stage |-> "before", approved |-> approved, clients |-> clients]
            /\ IF approved = allow /\ (clients = {} => \A m \in MACs : at[m] = "away") THEN UNCHANGED bounds ELSE Event
      BY <1>1 DEF BeginNacScan
    <2>2. nacScan' \in NacReading
      BY <2>1 DEF NacReading, Members, TypeOK
    <2>3. moves' \in 0..MaxMoves /\ events' \in 0..MaxEvents
      BY <2>1, ConstantsAssumption DEF Event, TypeOK
    <2>4. UNCHANGED <<network, roster, scan, nac, req, told, unsure>>
      BY <1>1 DEF BeginNacScan
    <2> QED
      BY <2>2, <2>3, <2>4 DEF TypeOK
  <1>2. CASE ReadFirstRun
    <2> DEFINE first == \A m \in MACs : roster[m] = None
    <2>1. nacScan' = [stage |-> "record", approved |-> nacScan.approved, clients |-> nacScan.clients, firstRun |-> first]
          /\ nacScan.stage = "before" /\ UNCHANGED <<network, roster, scan, nac, req, told, unsure, bounds>>
      BY <1>2 DEF ReadFirstRun
    <2>2. first \in BOOLEAN /\ nacScan.approved \subseteq MACs /\ nacScan.clients \subseteq MACs
      BY <2>1, NacScanFields
    <2> HIDE DEF first
    <2>3. nacScan' \in NacRecording
      BY <2>1, <2>2 DEF NacRecording
    <2> QED
      BY <2>1, <2>3 DEF TypeOK
  <1>3. CASE RecordNacScan
    <2>1. /\ told' = Told(roster') /\ unsure' = (nacScan.approved # allow) /\ nacScan.stage = "record"
          /\ nacScan' = [nacScan EXCEPT !.stage = "mark"] /\ UNCHANGED <<network, scan, nac, req, bounds>>
      BY <1>3 DEF RecordNacScan
    <2>2. nacScan' \in NacRecording
      BY <2>1, NacScanFields DEF NacRecording
    <2>3. told' \in [MACs -> {"no", "yes", "unrecorded", "twice"}] /\ unsure' \in BOOLEAN
      BY <2>1 DEF Told, TypeOK
    <2>4. roster' \in [MACs -> Record \cup {None}]
      BY <1>3, RecordNacScanEffect
    <2> QED
      BY <2>1, <2>2, <2>3, <2>4 DEF TypeOK
  <1>4. CASE Mark
    <2>1. nacScan' = Idle /\ UNCHANGED <<network, scan, nac, req, unsure, bounds>>
      BY <1>4 DEF Mark
    <2>2. told' \in [MACs -> {"no", "yes", "unrecorded", "twice"}]
      BY <1>4 DEF Mark, TypeOK
    <2>3. roster' \in [MACs -> Record \cup {None}]
      BY <1>4, MarkEffect
    <2> QED
      BY <2>1, <2>2, <2>3 DEF TypeOK
  <1> QED
    BY <1>1, <1>2, <1>3, <1>4

\* What a request about the roster, or time, changes of a record.
LEMMA RosterEffect ==
  ASSUME TypeOK, NEW m \in MACs, Forget(m) \/ Ignore(m) \/ SetMetadata(m) \/ Tick(m)
  PROVE  /\ roster' \in [MACs -> Record \cup {None}] /\ told' \in [MACs -> {"no", "yes", "unrecorded", "twice"}]
         /\ events' \in 0..MaxEvents /\ UNCHANGED <<network, scan, nacScan, nac, req, unsure, moves>>
         /\ \A q \in MACs \ {m} : roster'[q] = roster[q] /\ told'[q] = told[q]
         /\ \/ roster'[m] = None /\ told'[m] = "no"
            \/ /\ roster'[m] # None /\ told'[m] = told[m]
               /\ roster[m] # None => /\ roster'[m].notified = roster[m].notified
                                      /\ roster'[m].approved = roster[m].approved
                                      /\ roster'[m].online = roster[m].online
               /\ roster[m] = None => roster'[m].approved = None
  <1> DEFINE old == IF roster[m] = None THEN Blank ELSE roster[m]
  <1>0. /\ roster \in [MACs -> Record \cup {None}] /\ told \in [MACs -> {"no", "yes", "unrecorded", "twice"}]
        /\ events \in 0..MaxEvents /\ MaxEvents \in Nat /\ old \in Record /\ (roster[m] # None => roster[m] \in Record)
    BY ConstantsAssumption, BlankRecord DEF TypeOK
  <1>1. CASE Forget(m)
    BY <1>0, <1>1 DEF Forget, Event
  <1>2. CASE Ignore(m)
    <2>1. /\ roster' = [roster EXCEPT ![m] = [old EXCEPT !.ignored = TRUE, !.away = FALSE]] /\ events' \in 0..MaxEvents
          /\ UNCHANGED <<network, scan, nacScan, nac, req, told, unsure, moves>>
      BY <1>0, <1>2 DEF Ignore, Event
    <2>2. old.approved = IF roster[m] = None THEN None ELSE roster[m].approved
      BY BlankRecord
    <2>3. roster[m] # None => old = roster[m]
      OBVIOUS
    <2> HIDE DEF old
    <2> DEFINE hidden == [old EXCEPT !.ignored = TRUE]
               new == [hidden EXCEPT !.away = FALSE]
    <2>4. roster' = [roster EXCEPT ![m] = new]
      BY <2>1
    <2>5. /\ hidden \in Record /\ hidden.notified = old.notified /\ hidden.approved = old.approved
          /\ hidden.online = old.online
      BY <1>0 DEF Record
    <2> HIDE DEF hidden
    <2>6. new \in Record /\ new.notified = old.notified /\ new.approved = old.approved /\ new.online = old.online
      BY <2>5 DEF Record
    <2> HIDE DEF new
    <2> QED
      BY <1>0, <2>1, <2>2, <2>3, <2>4, <2>6, NoneAssumption
  <1>3. CASE SetMetadata(m)
    BY <1>0, <1>3, BlankRecord, NoneAssumption DEF SetMetadata, Event
  <1>4. CASE Tick(m)
    <2> DEFINE new == [roster[m] EXCEPT !.age = @ + 1]
    <2>1. /\ roster[m] \in Record /\ roster[m].age \in 0..2 /\ roster[m].age < 2 /\ roster[m] # None
          /\ UNCHANGED <<network, scan, nacScan, nac, req, told, unsure, bounds>>
      BY <1>0, <1>4, RecordFields DEF Tick
    <2>2. roster' = [roster EXCEPT ![m] = new]
      BY <1>4, <1>0 DEF Tick
    <2>3. /\ new \in Record /\ new.notified = roster[m].notified /\ new.approved = roster[m].approved
          /\ new.online = roster[m].online
      BY <2>1 DEF Record
    <2> HIDE DEF new
    <2> QED
      BY <1>0, <2>1, <2>2, <2>3, NoneAssumption DEF bounds
  <1> QED
    BY <1>1, <1>2, <1>3, <1>4

\* A client moves.
LEMMA MoveEffect ==
  ASSUME TypeOK, NEW m \in MACs, Move(m)
  PROVE  /\ at' \in [MACs -> Places] /\ moves' \in 0..MaxMoves /\ \A q \in MACs \ {m} : at'[q] = at[q]
         /\ UNCHANGED <<allow, deny, roster, nacScan, nac, req, told, unsure, events>>
         /\ scan' \in [Scans -> {Idle} \cup Reading \cup Recording]
         /\ \A s \in Scans : scan[s] # Idle => scan'[s] = [scan[s] EXCEPT !.stayed = @ \ {m}]
         /\ \A s \in Scans : scan[s] = Idle => scan'[s] = Idle
  <1>1. \A s \in Scans : scan[s] \in Reading => [scan[s] EXCEPT !.stayed = @ \ {m}] \in Reading
    BY DEF Reading
  <1>2. \A s \in Scans : scan[s] \in Recording => [scan[s] EXCEPT !.stayed = @ \ {m}] \in Recording
    BY DEF Recording
  <1>3. scan' = [s \in Scans |-> IF scan[s] = Idle THEN Idle ELSE [scan[s] EXCEPT !.stayed = @ \ {m}]]
    BY DEF Move
  <1>4. scan' \in [Scans -> {Idle} \cup Reading \cup Recording]
    BY <1>1, <1>2, <1>3 DEF TypeOK
  <1>5. at' \in [MACs -> Places] /\ moves' \in 0..MaxMoves /\ \A q \in MACs \ {m} : at'[q] = at[q]
    BY ConstantsAssumption DEF Move, TypeOK
  <1> QED
    BY <1>3, <1>4, <1>5 DEF Move

\* A step of an access-control request.
RequestStep(r) ==
  \/ WriteMembers(r) \/ SaveRule(r) \/ SaveSetup(r) \/ \E seeds \in SUBSET MACs : Setup(r, seeds)
  \/ \E b \in BOOLEAN : SwitchRule(r, b) \/ \E m \in MACs : BeginApprove(r, m, b)

\* An access-control request leaves the roster and the scans alone; when it writes the
\* allow-list, what the roster says of it is no longer sure.
LEMMA RequestEffect ==
  ASSUME TypeOK, NEW r \in Requests, RequestStep(r)
  PROVE  /\ UNCHANGED <<at, roster, scan, nacScan, told>> /\ (UNCHANGED <<allow, unsure>> \/ unsure')
         /\ TypeOK'
  <1> DEFINE States == {Idle} \cup Writing \cup Switching \cup {[stage |-> "setup"]}
  <1> USE DEF network, bounds
  <1>0. req \in [Requests -> States] /\ Idle \in States /\ [stage |-> "setup"] \in States
        /\ MaxEvents \in Nat /\ MaxMoves \in Nat
    BY ConstantsAssumption DEF TypeOK
  <1>a. WriteMembers(r) \/ SaveRule(r) \/ SaveSetup(r) =>
          UNCHANGED <<at, roster, scan, nacScan, told>> /\ (UNCHANGED <<allow, unsure>> \/ unsure')
    <2>1. WriteMembers(r) => UNCHANGED <<at, roster, scan, nacScan, told>>
      BY DEF WriteMembers
    <2>2. WriteMembers(r) => UNCHANGED <<allow, unsure>> \/ unsure'
      <3> SUFFICES ASSUME unsure' = (unsure \/ allow' # allow) PROVE UNCHANGED <<allow, unsure>> \/ unsure'
        BY DEF WriteMembers
      <3>1. CASE allow' = allow
        <4>1. unsure \in BOOLEAN
          BY DEF TypeOK
        <4> QED
          BY <3>1, <4>1
      <3>2. CASE allow' # allow
        BY <3>2
      <3> QED
        BY <3>1, <3>2
    <2> QED
      BY <2>1, <2>2 DEF SaveRule, SaveSetup
  <1>1. CASE WriteMembers(r)
    <2>1. /\ allow' \subseteq MACs /\ unsure' \in BOOLEAN /\ UNCHANGED <<at, deny, roster, scan, nacScan, nac, told>>
          /\ moves' = moves /\ events' \in 0..MaxEvents
      BY <1>0, <1>1, RequestFields DEF WriteMembers, Event, TypeOK
    <2>2. req' = [req EXCEPT ![r] = [stage |-> "setup"]] \/ req' = [req EXCEPT ![r] = Idle]
      BY <1>1 DEF WriteMembers
    <2> HIDE DEF States
    <2>3. req' \in [Requests -> States]
      BY <1>0, <2>2
    <2> QED
      BY <1>1, <1>a, <2>1, <2>3 DEF TypeOK, States
  <1>2. CASE SaveRule(r) \/ SaveSetup(r)
    <2>1. nac' \in {"none", "external", "off", "on"} /\ req' = [req EXCEPT ![r] = Idle]
          /\ UNCHANGED <<network, roster, scan, nacScan, told, unsure, bounds>>
      BY <1>2 DEF SaveRule, SaveSetup, TypeOK
    <2> HIDE DEF States
    <2>2. req' \in [Requests -> States]
      BY <1>0, <2>1
    <2> QED
      BY <2>1, <2>2 DEF TypeOK, States
  <1>3. ASSUME NEW seeds \in SUBSET MACs, Setup(r, seeds)
        PROVE  TypeOK' /\ UNCHANGED <<at, roster, scan, nacScan, told, allow, unsure>>
    <2>1. [stage |-> "seed", members |-> allow \cup seeds] \in Writing
      BY DEF TypeOK, Writing
    <2>2. /\ req' = [req EXCEPT ![r] = IF seeds = {} THEN [stage |-> "setup"]
                                       ELSE [stage |-> "seed", members |-> allow \cup seeds]]
          /\ UNCHANGED <<network, roster, scan, nacScan, nac, told, unsure, moves>> /\ events' \in 0..MaxEvents
      BY <1>0, <1>3 DEF Setup, Event, TypeOK
    <2>3. [stage |-> "seed", members |-> allow \cup seeds] \in States
      BY <2>1
    <2> HIDE DEF States
    <2>4. req' \in [Requests -> States]
      BY <1>0, <2>2, <2>3
    <2> QED
      BY <2>2, <2>4 DEF TypeOK, States
  <1>4. ASSUME NEW b \in BOOLEAN, SwitchRule(r, b)
        PROVE  TypeOK' /\ UNCHANGED <<at, roster, scan, nacScan, told, allow, unsure>>
    <2>1. [stage |-> "rule", enabled |-> b] \in States
      BY DEF Switching
    <2>2. /\ req' = [req EXCEPT ![r] = [stage |-> "rule", enabled |-> b]] \/ req' = req
          /\ deny' = b /\ events' \in 0..MaxEvents
          /\ UNCHANGED <<at, allow, roster, scan, nacScan, nac, told, unsure, moves>>
      BY <1>0, <1>4 DEF SwitchRule, Event, TypeOK
    <2> HIDE DEF States
    <2>3. req' \in [Requests -> States]
      BY <1>0, <2>1, <2>2
    <2> QED
      BY <2>2, <2>3 DEF TypeOK, States
  <1>5. ASSUME NEW b \in BOOLEAN, NEW m \in MACs, BeginApprove(r, m, b)
        PROVE  TypeOK' /\ UNCHANGED <<at, roster, scan, nacScan, told, allow, unsure>>
    <2> DEFINE new == [stage |-> "member", members |-> IF b THEN allow \cup {m} ELSE allow \ {m}]
    <2>1. new \in States
      BY DEF TypeOK, Writing
    <2>2. /\ req' = [req EXCEPT ![r] = new] /\ events' \in 0..MaxEvents
          /\ UNCHANGED <<network, roster, scan, nacScan, nac, told, unsure, moves>>
      BY <1>0, <1>5 DEF BeginApprove, Event, TypeOK
    <2> HIDE DEF States, new
    <2>3. req' \in [Requests -> States]
      BY <1>0, <2>1, <2>2
    <2> QED
      BY <2>2, <2>3 DEF TypeOK, States
  <1> QED
    BY <1>a, <1>1, <1>2, <1>3, <1>4, <1>5 DEF RequestStep

LEMMA SetupExistingEffect ==
  ASSUME TypeOK, SetupExisting
  PROVE  TypeOK' /\ UNCHANGED <<at, roster, scan, nacScan, told, allow, unsure>>
  BY ConstantsAssumption DEF SetupExisting, Event, TypeOK, network

\* Every step keeps the types.
LEMMA TypeStep == TypeOK /\ [Next]_vars => TypeOK'
  <1> SUFFICES ASSUME TypeOK, [Next]_vars PROVE TypeOK'
    OBVIOUS
  <1>1. ASSUME NEW m \in MACs, Forget(m) \/ Ignore(m) \/ SetMetadata(m) \/ Tick(m)
        PROVE  TypeOK'
    <2>1. /\ roster' \in [MACs -> Record \cup {None}] /\ told' \in [MACs -> {"no", "yes", "unrecorded", "twice"}]
          /\ events' \in 0..MaxEvents /\ UNCHANGED <<network, scan, nacScan, nac, req, unsure, moves>>
      BY <1>1, RosterEffect
    <2> QED
      BY <2>1 DEF TypeOK, network
  <1>2. ASSUME NEW m \in MACs, Move(m)
        PROVE  TypeOK'
    <2>1. /\ at' \in [MACs -> Places] /\ moves' \in 0..MaxMoves
          /\ UNCHANGED <<allow, deny, roster, nacScan, nac, req, told, unsure, events>>
          /\ scan' \in [Scans -> {Idle} \cup Reading \cup Recording]
      BY <1>2, MoveEffect
    <2> QED
      BY <2>1 DEF TypeOK
  <1>3. CASE UNCHANGED vars
    BY <1>3 DEF vars, network, bounds, TypeOK
  <1>4. ASSUME NEW r \in Requests, RequestStep(r)
        PROVE  TypeOK'
    BY <1>4, RequestEffect
  <1> QED
    BY <1>1, <1>2, <1>3, <1>4, ScanTypes, NacScanTypes, SetupExistingEffect DEF Next, RequestStep

----------------------------------------------------------------------------
\* Announcements and approvals

\* A step that leaves the roster alone; the allow-list changes only when the roster's
\* word on it is no longer sure.
LEMMA RosterUnchanged ==
  ASSUME IInv, UNCHANGED <<roster, told>>, UNCHANGED <<allow, unsure>> \/ unsure'
  PROVE  (AnnouncedOnce /\ AnnouncedIsNoted /\ ApprovalIsShown)'
  BY DEF IInv, AnnouncedOnce, AnnouncedIsNoted, ApprovalIsShown

\* Recording a scan keeps the marks, and compares every record with the allow-list.
LEMMA ScanRoster ==
  ASSUME IInv, (\E s \in Scans : RecordScan(s)) \/ RecordNacScan
  PROVE  (AnnouncedOnce /\ AnnouncedIsNoted /\ ApprovalIsShown)'
  <1>0. TypeOK /\ AnnouncedOnce /\ AnnouncedIsNoted /\ ApprovalIsShown
    BY DEF IInv
  <1>1. /\ told' = Told(roster') /\ UNCHANGED network
        /\ \A m \in MACs : roster[m] # None /\ roster'[m] # None => roster'[m].notified = roster[m].notified
    <2>1. ASSUME NEW s \in Scans, RecordScan(s)
          PROVE  /\ told' = Told(roster') /\ UNCHANGED network
                 /\ \A m \in MACs : roster[m] # None /\ roster'[m] # None => roster'[m].notified = roster[m].notified
      BY <1>0, <2>1, RecordScanEffect DEF RecordScan
    <2>2. CASE RecordNacScan
      BY <1>0, <2>2, RecordNacScanEffect DEF RecordNacScan
    <2> QED
      BY <2>1, <2>2
  <1>2. \A m \in MACs : told'[m] \in {"no", told[m]} /\ (roster[m] # None /\ roster'[m] = None => told'[m] = "no")
    BY <1>1 DEF Told
  <1>3. AnnouncedOnce' /\ AnnouncedIsNoted'
    BY <1>0, <1>1, <1>2 DEF AnnouncedOnce, AnnouncedIsNoted
  <1>4. ApprovalIsShown'
    <2> SUFFICES ASSUME ~unsure', NEW m \in MACs, roster'[m] # None
                 PROVE  roster'[m].approved = None \/ roster'[m].approved = (m \in allow)
      BY <1>1 DEF ApprovalIsShown, network
    <2>1. CASE RecordNacScan
      BY <1>0, <2>1, RecordNacScanEffect DEF RecordNacScan
    <2>2. ASSUME NEW s \in Scans, RecordScan(s)
          PROVE  roster'[m].approved = None \/ roster'[m].approved = (m \in allow)
      <3>1. /\ scan[s].approved # None => roster'[m].approved = (m \in scan[s].approved)
            /\ scan[s].approved = None => roster'[m].approved = IF roster[m] = None THEN None ELSE roster[m].approved
        BY <1>0, <2>2, RecordScanEffect
      <3>2. unsure' = IF scan[s].approved = None THEN unsure ELSE scan[s].approved # allow
        BY <2>2 DEF RecordScan
      <3>3. CASE scan[s].approved = None
        BY <1>0, <3>1, <3>2, <3>3 DEF ApprovalIsShown
      <3>4. CASE scan[s].approved # None
        BY <3>1, <3>2, <3>4
      <3> QED
        BY <3>3, <3>4
    <2> QED
      BY <2>1, <2>2
  <1> QED
    BY <1>3, <1>4

\* A client that was announced is announced again only when its record is gone.
LEMMA MarkRoster ==
  ASSUME IInv, Mark
  PROVE  (AnnouncedOnce /\ AnnouncedIsNoted /\ ApprovalIsShown)'
  <1>0. TypeOK /\ AnnouncedOnce /\ AnnouncedIsNoted /\ ApprovalIsShown
    BY DEF IInv
  <1>1. \A m \in MACs :
              /\ roster[m] = None => roster'[m] = None
              /\ roster[m] # None =>
                   /\ roster'[m] # None
                   /\ roster'[m].approved = roster[m].approved
                   /\ Announces(m) => roster'[m].notified
                   /\ roster[m].notified /\ m \notin nacScan.clients \cap nacScan.approved => roster'[m].notified
    BY <1>0, MarkEffect
  <1>2. /\ UNCHANGED <<allow, unsure>>
        /\ told' = [m \in MACs |->
             IF Announces(m) THEN (IF told[m] = "yes" THEN "twice" ELSE IF roster[m] = None THEN "unrecorded" ELSE "yes")
             ELSE IF m \in nacScan.clients \cap nacScan.approved THEN "no" ELSE told[m]]
    BY DEF Mark, network
  <1>3. \A m \in MACs : ~(Announces(m) /\ told[m] = "yes")
    BY <1>0 DEF Announces, AnnouncedIsNoted
  <1>4. AnnouncedOnce'
    BY <1>0, <1>2, <1>3 DEF AnnouncedOnce
  <1>5. AnnouncedIsNoted'
    <2> SUFFICES ASSUME NEW m \in MACs, told'[m] = "yes"
                 PROVE  roster'[m] # None /\ roster'[m].notified
      BY DEF AnnouncedIsNoted
    <2>1. CASE Announces(m)
      BY <1>1, <1>2, <2>1
    <2>2. CASE ~Announces(m)
      BY <1>0, <1>1, <1>2, <2>2 DEF AnnouncedIsNoted
    <2> QED
      BY <2>1, <2>2
  <1>6. ApprovalIsShown'
    BY <1>0, <1>1, <1>2 DEF ApprovalIsShown
  <1> QED
    BY <1>4, <1>5, <1>6

\* A request about the roster, or time, keeps the marks or removes the record.
LEMMA RequestRoster ==
  ASSUME IInv, NEW m \in MACs, Forget(m) \/ Ignore(m) \/ SetMetadata(m) \/ Tick(m)
  PROVE  (AnnouncedOnce /\ AnnouncedIsNoted /\ ApprovalIsShown)'
  <1>0. TypeOK /\ AnnouncedOnce /\ AnnouncedIsNoted /\ ApprovalIsShown
    BY DEF IInv
  <1>1. /\ UNCHANGED <<network, scan, nacScan, nac, req, unsure, moves>>
        /\ \A q \in MACs \ {m} : roster'[q] = roster[q] /\ told'[q] = told[q]
        /\ \/ roster'[m] = None /\ told'[m] = "no"
           \/ /\ roster'[m] # None /\ told'[m] = told[m]
              /\ roster[m] # None => /\ roster'[m].notified = roster[m].notified
                                     /\ roster'[m].approved = roster[m].approved
              /\ roster[m] = None => roster'[m].approved = None
    BY <1>0, RosterEffect
  <1>2. AnnouncedOnce' /\ AnnouncedIsNoted'
    BY <1>0, <1>1 DEF AnnouncedOnce, AnnouncedIsNoted
  <1>3. ApprovalIsShown'
    BY <1>0, <1>1 DEF ApprovalIsShown, network
  <1> QED
    BY <1>2, <1>3

----------------------------------------------------------------------------
\* Full scans

\* A step that leaves the scans and the clients where they are.
LEMMA ScanUnchanged ==
  ASSUME \A s \in Scans : Accounted(s), UNCHANGED <<at, scan>>
  PROVE  \A s \in Scans : Accounted(s)'
  BY DEF Accounted, Visible

\* A step of a full scan: what it reads is accounted for.
LEMMA ScanAccounts ==
  ASSUME TypeOK, \A s \in Scans : Accounted(s), NEW s \in Scans,
         BeginScan(s) \/ ReadMembership(s) \/ RecordScan(s) \/ \E x \in Sources : ReadSource(s, x)
  PROVE  \A q \in Scans : Accounted(q)'
  <1>1. UNCHANGED at /\ \A q \in Scans \ {s} : scan'[q] = scan[q]
    BY DEF BeginScan, ReadMembership, RecordScan, ReadSource, TypeOK, network
  <1>2. \A q \in Scans \ {s} : Accounted(q)'
    BY <1>1 DEF Accounted, Visible
  <1>3. \A m : Visible(m)' = Visible(m)
    BY <1>1 DEF Visible
  <1>4. Accounted(s)'
    <2>1. CASE BeginScan(s)
      <3>1. scan'[s].stage = "read" /\ scan'[s].left = Sources
        BY <2>1 DEF BeginScan, TypeOK
      <3> QED
        BY <3>1, VisibleSources, <1>3 DEF Accounted
    <2>2. CASE ReadMembership(s)
      <3>1. /\ scan'[s].stage = "record" /\ scan'[s].found = scan[s].found /\ scan'[s].failed = scan[s].failed
            /\ scan'[s].deaf = scan[s].deaf /\ scan'[s].stayed = scan[s].stayed
            /\ scan[s].stage = "read" /\ scan[s].left = {}
        BY <2>2 DEF ReadMembership, TypeOK
      <3> QED
        BY <1>3, <3>1 DEF Accounted
    <2>3. CASE RecordScan(s)
      <3>1. scan'[s].stage = "idle"
        BY <2>3 DEF RecordScan, TypeOK, Idle
      <3> QED
        BY <3>1 DEF Accounted
    <2>4. ASSUME NEW x \in Sources, ReadSource(s, x)
          PROVE  Accounted(s)'
      <3>1. scan[s].stage = "read" /\ scan[s] \in Reading /\ scan \in [Scans -> {Idle} \cup Reading \cup Recording]
        BY <2>4, ScanFields DEF ReadSource, TypeOK
      <3>2. \/ scan' = [scan EXCEPT ![s].left = @ \ {x}, ![s].found = Merged(@, x)]
            \/ scan' = [scan EXCEPT ![s].left = @ \ {x}, ![s].failed = @ \cup {x}]
            \/ scan' = [scan EXCEPT ![s].left = @ \ {x}, ![s].deaf = TRUE]
        BY <2>4 DEF ReadSource
      <3>3. /\ scan'[s].stage = "read" /\ scan'[s].left = scan[s].left \ {x} /\ scan'[s].stayed = scan[s].stayed
            /\ \/ /\ scan'[s].found = Merged(scan[s].found, x) /\ scan'[s].failed = scan[s].failed
                  /\ scan'[s].deaf = scan[s].deaf
               \/ /\ scan'[s].found = scan[s].found /\ scan'[s].failed = scan[s].failed \cup {x}
                  /\ scan'[s].deaf = scan[s].deaf
               \/ scan'[s].deaf = TRUE
        BY <3>1, <3>2 DEF Reading
      <3> SUFFICES ASSUME NEW m \in scan[s].stayed, ~scan'[s].deaf
                   PROVE  Visible(m) \subseteq scan'[s].left \cup scan'[s].found[m] \cup scan'[s].failed
        BY <1>3, <3>3 DEF Accounted
      <3>4. Visible(m) \subseteq scan[s].left \cup scan[s].found[m] \cup scan[s].failed
        BY <3>1, <3>3 DEF Accounted
      <3>5. m \in MACs
        BY <3>1 DEF Reading
      <3>6. /\ scan[s].found[m] \subseteq Merged(scan[s].found, x)[m]
            /\ x \in Visible(m) => x \in Merged(scan[s].found, x)[m]
        BY <3>5 DEF Merged
      <3> QED
        BY <3>3, <3>4, <3>6
    <2> QED
      BY <2>1, <2>2, <2>3, <2>4
  <1> QED
    BY <1>2, <1>4

\* A client that moves is no longer one that stayed.
LEMMA MoveAccounts ==
  ASSUME TypeOK, \A s \in Scans : Accounted(s), NEW m \in MACs, Move(m)
  PROVE  \A s \in Scans : Accounted(s)'
  <1> SUFFICES ASSUME NEW s \in Scans PROVE Accounted(s)'
    OBVIOUS
  <1>1. CASE scan[s] = Idle
    <2>1. scan'[s].stage = "idle"
      BY <1>1, MoveEffect DEF Idle
    <2> QED
      BY <2>1 DEF Accounted
  <1>2. CASE scan[s] # Idle
    <2>1. scan'[s] = [scan[s] EXCEPT !.stayed = @ \ {m}] /\ scan[s] \in Reading \cup Recording
          /\ \A q \in MACs \ {m} : at'[q] = at[q]
      BY <1>2, MoveEffect DEF TypeOK
    <2>2. /\ scan'[s].stage = scan[s].stage /\ scan'[s].found = scan[s].found /\ scan'[s].failed = scan[s].failed
          /\ scan'[s].deaf = scan[s].deaf /\ scan'[s].stayed = scan[s].stayed \ {m} /\ scan[s].stayed \subseteq MACs
          /\ scan[s].stage = "read" => scan'[s].left = scan[s].left
      <3>1. CASE scan[s] \in Reading
        BY <2>1, <3>1 DEF Reading
      <3>2. CASE scan[s] \in Recording
        BY <2>1, <3>2 DEF Recording
      <3> QED
        BY <2>1, <3>1, <3>2
    <2>3. \A q \in MACs \ {m} : Visible(q)' = Visible(q)
      BY <2>1 DEF Visible
    <2> QED
      BY <2>2, <2>3 DEF Accounted
  <1> QED
    BY <1>1, <1>2

----------------------------------------------------------------------------
\* The theorems

LEMMA InitInv == Init => IInv
  <1> SUFFICES ASSUME Init PROVE IInv
    OBVIOUS
  <1>1. TypeOK
    <2>1. at \in [MACs -> Places]
      BY DEF Init, Places
    <2>2. /\ scan \in [Scans -> {Idle} \cup Reading \cup Recording]
          /\ req \in [Requests -> {Idle} \cup Writing \cup Switching \cup {[stage |-> "setup"]}]
      BY DEF Init
    <2>3. moves \in 0..MaxMoves /\ events \in 0..MaxEvents
      BY ConstantsAssumption DEF Init
    <2>4. told \in [MACs -> {"no", "yes", "unrecorded", "twice"}] /\ roster \in [MACs -> Record \cup {None}]
      BY DEF Init
    <2> QED
      BY <2>1, <2>2, <2>3, <2>4 DEF Init, TypeOK
  <1>2. AnnouncedOnce /\ AnnouncedIsNoted /\ ApprovalIsShown
    BY DEF Init, AnnouncedOnce, AnnouncedIsNoted, ApprovalIsShown
  <1>3. \A s \in Scans : Accounted(s)
    BY DEF Init, Idle, Accounted
  <1> QED
    BY <1>1, <1>2, <1>3 DEF IInv

\* Every step preserves the invariant.
LEMMA Inductive == IInv /\ [Next]_vars => IInv'
  <1> SUFFICES ASSUME IInv, [Next]_vars PROVE IInv'
    OBVIOUS
  <1>0. TypeOK /\ TypeOK' /\ \A s \in Scans : Accounted(s)
    BY TypeStep DEF IInv
  <1> USE DEF network
  <1>1. ASSUME NEW s \in Scans,
               BeginScan(s) \/ ReadMembership(s) \/ RecordScan(s) \/ \E x \in Sources : ReadSource(s, x)
        PROVE  IInv'
    <2>1. \A q \in Scans : Accounted(q)'
      BY <1>0, <1>1, ScanAccounts
    <2>2. RecordScan(s) \/ (UNCHANGED <<roster, told>> /\ UNCHANGED <<allow, unsure>>)
      BY <1>1 DEF BeginScan, ReadMembership, ReadSource
    <2>3. (AnnouncedOnce /\ AnnouncedIsNoted /\ ApprovalIsShown)'
      BY <2>2, ScanRoster, RosterUnchanged
    <2> QED
      BY <1>0, <2>1, <2>3 DEF IInv
  <1>2. CASE BeginNacScan \/ ReadFirstRun \/ RecordNacScan \/ Mark
    <2>1. UNCHANGED <<at, scan>>
      BY <1>2 DEF BeginNacScan, ReadFirstRun, RecordNacScan, Mark
    <2>2. RecordNacScan \/ Mark \/ (UNCHANGED <<roster, told>> /\ UNCHANGED <<allow, unsure>>)
      BY <1>2 DEF BeginNacScan, ReadFirstRun
    <2>3. (AnnouncedOnce /\ AnnouncedIsNoted /\ ApprovalIsShown)'
      BY <2>2, ScanRoster, MarkRoster, RosterUnchanged
    <2> QED
      BY <1>0, <2>1, <2>3, ScanUnchanged DEF IInv
  <1>3. ASSUME NEW m \in MACs, Forget(m) \/ Ignore(m) \/ SetMetadata(m) \/ Tick(m)
        PROVE  IInv'
    <2>1. UNCHANGED <<at, scan>>
      BY <1>3 DEF Forget, Ignore, SetMetadata, Tick
    <2>2. (AnnouncedOnce /\ AnnouncedIsNoted /\ ApprovalIsShown)'
      BY <1>3, RequestRoster
    <2> QED
      BY <1>0, <2>1, <2>2, ScanUnchanged DEF IInv
  <1>4. ASSUME NEW m \in MACs, Move(m)
        PROVE  IInv'
    <2>1. \A q \in Scans : Accounted(q)'
      BY <1>0, <1>4, MoveAccounts
    <2>2. UNCHANGED <<roster, told>> /\ UNCHANGED <<allow, unsure>>
      BY <1>4 DEF Move
    <2> QED
      BY <1>0, <2>1, <2>2, RosterUnchanged DEF IInv
  <1>5. ASSUME NEW r \in Requests, RequestStep(r)
        PROVE  IInv'
    <2>1. UNCHANGED <<at, scan>> /\ UNCHANGED <<roster, told>> /\ (UNCHANGED <<allow, unsure>> \/ unsure')
      BY <1>0, <1>5, RequestEffect
    <2> QED
      BY <1>0, <2>1, RosterUnchanged, ScanUnchanged DEF IInv
  <1>6. CASE SetupExisting \/ UNCHANGED vars
    <2>1. UNCHANGED <<at, scan>> /\ UNCHANGED <<roster, told>> /\ UNCHANGED <<allow, unsure>>
      BY <1>6 DEF SetupExisting, vars
    <2> QED
      BY <1>0, <2>1, RosterUnchanged, ScanUnchanged DEF IInv
  <1> QED
    BY <1>1, <1>2, <1>3, <1>4, <1>5, <1>6 DEF Next, RequestStep

\* The invariant holds in every behaviour.
LEMMA Invariant == Spec => []IInv
  BY InitInv, Inductive, PTL DEF Spec

\* A step that records a client as gone records a full scan that did not find it.
LEMMA Departure ==
  ASSUME IInv, [Next]_vars, NEW m \in MACs, roster[m] # None, roster'[m] # None,
         roster[m].online, ~roster'[m].online
  PROVE  \E s \in Scans : /\ scan[s].stage = "record"
                          /\ m \in scan[s].stayed /\ ~scan[s].deaf => Visible(m) \cap roster[m].seen = {}
  <1>0. TypeOK /\ \A s \in Scans : Accounted(s)
    BY DEF IInv
  <1>1. \E s \in Scans : RecordScan(s)
    <2>1. roster' # roster
      OBVIOUS
    <2>2. ~RecordNacScan
      BY <1>0, RecordNacScanEffect
    <2>3. ~Mark
      BY <1>0, MarkEffect
    <2>4. ASSUME NEW q \in MACs, Forget(q) \/ Ignore(q) \/ SetMetadata(q) \/ Tick(q)
          PROVE  FALSE
      <3>1. /\ \A p \in MACs \ {q} : roster'[p] = roster[p]
            /\ \/ roster'[q] = None
               \/ roster[q] # None => roster'[q].online = roster[q].online
        BY <1>0, <2>4, RosterEffect
      <3> QED
        BY <3>1
    <2>5. ASSUME NEW r \in Requests, RequestStep(r)
          PROVE  roster' = roster
      BY <1>0, <2>5, RequestEffect
    <2> QED
      BY <2>1, <2>2, <2>3, <2>4, <2>5 DEF Next, RequestStep, vars, BeginScan, ReadMembership, ReadSource,
         BeginNacScan, ReadFirstRun, Move, SetupExisting
  <1>2. PICK s \in Scans : RecordScan(s)
    BY <1>1
  <1>3. scan[s].stage = "record" /\ scan[s].found[m] = {} /\ roster[m].seen \cap scan[s].failed = {}
    <2>1. scan[s].found[m] = {} /\ roster[m].seen \cap scan[s].failed = {}
      BY <1>0, <1>2, RecordScanEffect
    <2> QED
      BY <1>2, <2>1 DEF RecordScan
  <1>4. ASSUME m \in scan[s].stayed, ~scan[s].deaf
        PROVE  Visible(m) \cap roster[m].seen = {}
    <2>1. Visible(m) \subseteq scan[s].found[m] \cup scan[s].failed
      BY <1>0, <1>3, <1>4 DEF Accounted
    <2> QED
      BY <1>3, <2>1
  <1> QED
    BY <1>3, <1>4

\* Every variable keeps its type; what a scan or a request has read is complete for its stage.
THEOREM TypeCorrect == Spec => []TypeOK
  <1>1. IInv => TypeOK
    BY DEF IInv
  <1> QED
    BY <1>1, Invariant, PTL

\* notify_new_devices: a client is announced again only after it was forgotten, pruned or
\* approved, or when its record was gone as it was announced, however full scans, requests
\* and pruning come between the transactions of the partial scan.
THEOREM AnnouncedAtMostOnce == Spec => []AnnouncedOnce
  <1>1. IInv => AnnouncedOnce
    BY DEF IInv
  <1> QED
    BY <1>1, Invariant, PTL

\* record_observations: once a scan that read the allow-list as it is has been recorded,
\* every record agrees with it, whichever sources the scan missed.
THEOREM ApprovalShown == Spec => []ApprovalIsShown
  <1>1. IInv => ApprovalIsShown
    BY DEF IInv
  <1> QED
    BY <1>1, Invariant, PTL

\* record_observations: a client that stayed home while a scan ran is not recorded as gone by
\* it, whichever sources failed, unless no source that saw it last would list it or the
\* firewall answered with nothing.
THEOREM DeparturesAreReal == Spec => DepartureIsReal
  <1>1. IInv /\ [Next]_vars =>
          [\A m \in MACs :
             roster[m] # None /\ roster'[m] # None /\ roster[m].online /\ ~roster'[m].online =>
               \E s \in Scans : /\ scan[s].stage = "record"
                                /\ m \in scan[s].stayed /\ ~scan[s].deaf => Visible(m) \cap roster[m].seen = {}]_vars
    BY Departure
  <1> QED
    BY <1>1, Invariant, PTL DEF Spec, DepartureIsReal
=============================================================================
