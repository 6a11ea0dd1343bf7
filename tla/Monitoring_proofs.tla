------------------------- MODULE Monitoring_proofs -------------------------
(***************************************************************************)
(* Proofs about Monitoring: whatever the workers, the requests, failures   *)
(* and restarts do in between, what a poll commits of a Device is what its *)
(* history file and the notifications say once the poll is done with it.   *)
(*                                                                         *)
(* The second part is about Accounts, the users that notifications go to:  *)
(* a transaction on the document keeps an administrator (AccountsGrow says *)
(* why a new account replaces none), the key that browsers were given is   *)
(* the public one and stays it (KeysGiven), and only the limit of notes    *)
(* takes a note away.                                                      *)
(***************************************************************************)
EXTENDS Monitoring, Accounts, FiniteSetTheorems, TLAPS

----------------------------------------------------------------------------
\* The series

LEMMA EndsInFewer ==
  ASSUME NEW s \in Seq(BOOLEAN), NEW m \in Nat, NEW n \in Nat, m <= n, EndsInMisses(s, n)
  PROVE  EndsInMisses(s, m)
BY DEF EndsInMisses

LEMMA LesserType ==
  ASSUME NEW m \in Nat, NEW n \in Nat
  PROVE  /\ Lesser(m, n) \in Nat /\ Lesser(m, n) <= m /\ Lesser(m, n) <= n
         /\ m <= n => Lesser(m, n) = m
BY DEF Lesser

\* _append_history keeps the cap; the last point is the poll's, and the misses of
\* the series before it are one more when it is a miss.
LEMMA WithPointFacts ==
  ASSUME NEW s \in Seq(BOOLEAN), Len(s) <= ONLINE_MAX, NEW online \in BOOLEAN
  PROVE  LET w == WithPoint(s, online)
         IN /\ w \in Seq(BOOLEAN) /\ Len(w) <= ONLINE_MAX /\ Len(w) > 0 /\ w[Len(w)] = online
            /\ \A n \in Nat : ~online /\ n > 0 /\ EndsInMisses(s, Lesser(n - 1, ONLINE_MAX)) =>
                                EndsInMisses(w, Lesser(n, ONLINE_MAX))
<1> DEFINE longer == Append(s, online)
           w == WithPoint(s, online)
<1>0. ONLINE_MAX \in Nat /\ ONLINE_MAX > 0
  BY ConstantsAssumption
<1>1. /\ longer \in Seq(BOOLEAN) /\ Len(longer) = Len(s) + 1 /\ longer[Len(s) + 1] = online
      /\ \A i \in 1..Len(s) : longer[i] = s[i]
      /\ Len(s) \in Nat
  OBVIOUS
<1>2. CASE Len(longer) > ONLINE_MAX
  <2>1. w = Tail(longer)
    BY <1>2 DEF WithPoint
  <2>2. Len(s) = ONLINE_MAX
    BY <1>0, <1>1, <1>2
  <2> HIDE DEF longer, w
  <2>3. /\ w \in Seq(BOOLEAN) /\ Len(w) = ONLINE_MAX
        /\ \A i \in 1..ONLINE_MAX : w[i] = longer[i + 1]
    BY <1>0, <1>1, <2>1, <2>2
  <2>4. w[Len(w)] = online
    BY <1>0, <1>1, <2>2, <2>3
  <2>5. ASSUME NEW n \in Nat, ~online, n > 0, EndsInMisses(s, Lesser(n - 1, ONLINE_MAX))
        PROVE  EndsInMisses(w, Lesser(n, ONLINE_MAX))
    <3> DEFINE k == Lesser(n - 1, ONLINE_MAX)
               l == Lesser(n, ONLINE_MAX)
    <3>1. k \in Nat /\ l \in Nat /\ l <= ONLINE_MAX /\ l <= k + 1 /\ k <= ONLINE_MAX
      BY <1>0, <2>5 DEF Lesser
    <3> HIDE DEF k, l
    <3>2. \A i \in Len(s) - k + 1 .. Len(s) : ~s[i]
      BY <2>5 DEF EndsInMisses, k
    <3>3. ASSUME NEW i \in Len(w) - l + 1 .. Len(w) PROVE ~w[i]
      <4>1. i \in 1..ONLINE_MAX
        BY <1>0, <3>1, <2>3
      <4>2. w[i] = longer[i + 1]
        BY <2>3, <4>1
      <4>3. CASE i = ONLINE_MAX
        <5>1. w[i] = online
          BY <4>3, <2>3, <2>4
        <5> QED BY <5>1, <2>5, Zenon
      <4>4. CASE i # ONLINE_MAX
        <5>1. i + 1 \in 1..Len(s) /\ i + 1 \in Len(s) - k + 1 .. Len(s)
          BY <1>0, <4>1, <4>4, <2>2, <2>3, <3>1
        <5>2. longer[i + 1] = s[i + 1]
          BY <1>1, <5>1
        <5>3. ~s[i + 1]
          BY <3>2, <5>1
        <5> QED BY <4>2, <5>2, <5>3
      <4> QED BY <4>3, <4>4
    <3> QED BY <3>1, <3>3, <2>3 DEF EndsInMisses, l
  <2> QED BY <1>0, <2>3, <2>4, <2>5 DEF w
<1>3. CASE ~(Len(longer) > ONLINE_MAX)
  <2>1. w = longer
    BY <1>3 DEF WithPoint
  <2> HIDE DEF longer, w
  <2>5. ASSUME NEW n \in Nat, ~online, n > 0, EndsInMisses(s, Lesser(n - 1, ONLINE_MAX))
        PROVE  EndsInMisses(w, Lesser(n, ONLINE_MAX))
    <3> DEFINE k == Lesser(n - 1, ONLINE_MAX)
               l == Lesser(n, ONLINE_MAX)
    <3>1. k \in Nat /\ l \in Nat /\ l <= k + 1
      BY <1>0, <2>5 DEF Lesser
    <3> HIDE DEF k, l
    <3>2. k <= Len(s) /\ \A i \in Len(s) - k + 1 .. Len(s) : ~s[i]
      BY <2>5 DEF EndsInMisses, k
    <3>3. ASSUME NEW i \in Len(w) - l + 1 .. Len(w) PROVE ~w[i]
      <4>1. i \in 1..Len(s) + 1 /\ i >= Len(s) - k + 1
        BY <1>1, <2>1, <3>1, <3>2
      <4>2. CASE i = Len(s) + 1
        <5>1. w[i] = online
          BY <4>2, <1>1, <2>1
        <5> QED BY <5>1, <2>5, Zenon
      <4>3. CASE i # Len(s) + 1
        <5>1. i \in 1..Len(s) /\ i \in Len(s) - k + 1 .. Len(s)
          BY <1>1, <4>1, <4>3, <3>1
        <5>2. w[i] = s[i] /\ ~s[i]
          BY <1>1, <2>1, <3>2, <5>1
        <5> QED BY <5>2
      <4> QED BY <4>2, <4>3
    <3> QED BY <1>1, <2>1, <3>1, <3>2, <3>3 DEF EndsInMisses, l
  <2> QED BY <1>0, <1>1, <1>3, <2>1, <2>5 DEF w
<1> QED BY <1>2, <1>3

----------------------------------------------------------------------------
\* The record of a Device

Results == [stage : {"read"}, online : BOOLEAN, value : Levels \cup {None}]

LEMMA MissedFacts ==
  ASSUME NEW r \in Records, NEW online \in BOOLEAN
  PROVE  /\ Missed(r, online) \in 0..OFFLINE_AFTER /\ Missed(r, online) <= r.miss + 1
         /\ online => Missed(r, online) = 0
         /\ ~online => Missed(r, online) > 0
         /\ ~online /\ r.miss = OFFLINE_AFTER => Missed(r, online) = OFFLINE_AFTER
BY ConstantsAssumption DEF Missed, Records

LEMMA ConfirmedFacts ==
  ASSUME NEW r \in Records, RecordSound(r), NEW online \in BOOLEAN
  PROVE  /\ Confirmed(r, online) \in {"on", "off"}
         /\ online => Confirmed(r, online) = "on"
         /\ Confirmed(r, online) = "off" => Missed(r, online) = OFFLINE_AFTER
         /\ Confirmed(r, online) = "off" /\ r.confirmed = None => OFFLINE_AFTER = 1
<1>1. /\ Missed(r, online) \in 0..OFFLINE_AFTER /\ Missed(r, online) <= r.miss + 1
      /\ ~online /\ r.miss = OFFLINE_AFTER => Missed(r, online) = OFFLINE_AFTER
      /\ OFFLINE_AFTER \in Nat \ {0} /\ r.miss \in Nat
      /\ r.confirmed \in {"on", "off", None}
      /\ None \notin {"on", "off"}
  BY MissedFacts, ConstantsAssumption, NoneAssumption DEF Records
<1>2. r.confirmed = None => r.miss = 0
  BY DEF RecordSound
<1>3. r.confirmed = "off" => r.miss = OFFLINE_AFTER
  BY DEF RecordSound
<1>4. Confirmed(r, online) \in {"on", "off"}
  BY <1>1 DEF Confirmed
<1>5. online => Confirmed(r, online) = "on"
  BY DEF Confirmed
<1>6. Confirmed(r, online) = "off" => Missed(r, online) = OFFLINE_AFTER
  BY <1>1, <1>3 DEF Confirmed
<1>7. Confirmed(r, online) = "off" /\ r.confirmed = None => OFFLINE_AFTER = 1
  BY <1>1, <1>2, <1>6
<1> QED BY <1>4, <1>5, <1>6, <1>7

LEMMA AlertStateType ==
  ASSUME NEW r \in Records, NEW value \in Levels \cup {None}
  PROVE  AlertState(r, value) \in Alerts
<1>1. Breached(r.rule, value) \in BOOLEAN
  BY DEF Breached
<1>2. r.rule # None => [rule |-> r.rule, breached |-> Breached(r.rule, value)] \in Alerts
  BY <1>1 DEF Alerts, Records
<1>3. None \in Alerts /\ r.alertState \in Alerts
  BY DEF Alerts, Records
<1> QED BY <1>2, <1>3 DEF AlertState

LEMMA AppliedFacts ==
  ASSUME NEW r \in Records, RecordSound(r), NEW result \in Results
  PROVE  LET next == Applied(r, result)
         IN /\ next \in Records /\ RecordSound(next)
            /\ next.driver = r.driver /\ next.online = result.online /\ next.miss = Missed(r, result.online)
            /\ next.confirmed = Confirmed(r, result.online) /\ next.alertState = AlertState(r, result.value)
            /\ next.confirmed # None
<1> DEFINE next == Applied(r, result)
           online == result.online
<1>1. online \in BOOLEAN /\ result.value \in Levels \cup {None}
  BY DEF Results
<1>2. /\ Missed(r, online) \in 0..OFFLINE_AFTER /\ Confirmed(r, online) \in {"on", "off"}
      /\ AlertState(r, result.value) \in Alerts
  BY <1>1, MissedFacts, ConfirmedFacts, AlertStateType
<1> DEFINE one == [r EXCEPT !.online = online]
           two == [one EXCEPT !.miss = Missed(r, online)]
           three == [two EXCEPT !.confirmed = Confirmed(r, online)]
<1>3. next = [three EXCEPT !.alertState = AlertState(r, result.value)]
  BY DEF Applied, Records
<1>4. one \in Records /\ one.online = online /\ one.driver = r.driver
  BY <1>1 DEF Records
<1> HIDE DEF one
<1>5. two \in Records /\ two.online = online /\ two.driver = r.driver /\ two.miss = Missed(r, online)
  BY <1>2, <1>4 DEF Records
<1> HIDE DEF two
<1>6. /\ three \in Records /\ three.online = online /\ three.driver = r.driver /\ three.miss = Missed(r, online)
      /\ three.confirmed = Confirmed(r, online)
  BY <1>2, <1>5 DEF Records
<1> HIDE DEF three, next
<1>7. /\ next \in Records /\ next.online = online /\ next.driver = r.driver /\ next.miss = Missed(r, online)
      /\ next.confirmed = Confirmed(r, online) /\ next.alertState = AlertState(r, result.value)
  BY <1>2, <1>3, <1>6 DEF Records
<1>8. next.confirmed # None
  BY <1>2, <1>7, NoneAssumption
<1>9. RecordSound(next)
  <2>1. next.online => next.miss = 0
    BY <1>1, <1>7, MissedFacts
  <2>2. next.confirmed = "off" => next.miss = OFFLINE_AFTER
    BY <1>1, <1>7, ConfirmedFacts
  <2> QED BY <1>8, <2>1, <2>2 DEF RecordSound
<1> QED BY <1>7, <1>8, <1>9 DEF next

\* Once what a commit captured is pushed, the pushes are those its record calls for.
LEMMA HeardApplied ==
  ASSUME NEW r \in Records, RecordSound(r), NEW result \in Results, NEW t, NEW a, Heard(r, t, a)
  PROVE  LET c == Capture(r, result)
         IN Heard(Applied(r, result), IF c.transition = None THEN t ELSE c.transition,
                                      IF c.alert = None THEN a ELSE c.alert)
<1> DEFINE next == Applied(r, result)
           tr == Transition(r, result.online)
           al == AlertEvent(r, result.value)
<1>1. result.online \in BOOLEAN /\ result.value \in Levels \cup {None}
  BY DEF Results
<1>2. /\ next.confirmed = Confirmed(r, result.online) /\ next.confirmed # None
      /\ next.alertState = AlertState(r, result.value)
  BY AppliedFacts
<1>3. Capture(r, result).transition = tr /\ Capture(r, result).alert = al
  BY DEF Capture
<1>4. next.confirmed = "off" /\ r.confirmed = None => OFFLINE_AFTER = 1
  BY <1>1, <1>2, ConfirmedFacts
<1> HIDE DEF next
<1>5. \/ (IF tr = None THEN t ELSE tr) = next.confirmed
      \/ (IF tr = None THEN t ELSE tr) = None /\ (next.confirmed = "off" => OFFLINE_AFTER = 1)
  BY <1>2, <1>4 DEF Transition, Heard
<1>6. next.alertState # None => (IF al = None THEN a ELSE al) = next.alertState
  BY <1>2 DEF AlertEvent, Heard
<1> HIDE DEF tr, al
<1>7. Heard(next, IF tr = None THEN t ELSE tr, IF al = None THEN a ELSE al)
  BY <1>5, <1>6 DEF Heard
<1> QED BY <1>3, <1>7 DEF next

LEMMA CaptureType ==
  ASSUME NEW r \in Records, RecordSound(r), NEW result \in Results
  PROVE  LET c == Capture(r, result)
         IN c \in Items /\ c # None /\ c.stage = "append" /\ c.online = result.online
<1>1. result.online \in BOOLEAN /\ result.value \in Levels \cup {None}
  BY DEF Results
<1>2. Transition(r, result.online) \in {"on", "off", None}
  BY <1>1, ConfirmedFacts DEF Transition
<1>3. AlertEvent(r, result.value) \in Alerts
  BY <1>1, AlertStateType DEF AlertEvent, Alerts
<1>4. Capture(r, result) \in Items
  BY <1>1, <1>2, <1>3 DEF Capture, Items
<1> QED BY <1>4, NoneAssumption DEF Capture

----------------------------------------------------------------------------
\* Initial states, and what leaves the Devices alone

LEMMA BlankType == Blank \in Records /\ RecordSound(Blank)
<1>1. Blank \in Records
  BY ConstantsAssumption DEF Blank, Records, Drivers, Alerts
<1>2. RecordSound(Blank)
  BY NoneAssumption DEF Blank, RecordSound
<1> QED BY <1>1, <1>2

\* A record that was never polled agrees with any series and with no push.
LEMMA UnpolledAgrees ==
  ASSUME NEW r \in Records, r.confirmed = None, RecordSound(r), NEW s \in Seq(BOOLEAN)
  PROVE  Written(r, s)
<1>1. Lesser(r.miss, ONLINE_MAX) = 0
  BY ConstantsAssumption DEF RecordSound, Lesser
<1> QED BY <1>1 DEF Written, EndsInMisses

LEMMA InitIInv == Init => IInv
<1> SUFFICES ASSUME Init PROVE IInv
  OBVIOUS
<1>1. \A d \in Devices : rec[d] = Blank /\ series[d] = None /\ told[d] = None /\ toldAlert[d] = None
  BY DEF Init, Empty
<1>2. \A j \in Jobs : phase[j] = "idle" /\ \A d \in Devices : batch[j][d] = None
  BY DEF Init, Empty
<1>3. TypeOK
  <2>1. rec \in [Devices -> Records] /\ series \in [Devices -> {s \in Seq(BOOLEAN) : Len(s) <= ONLINE_MAX} \cup {None}]
    BY BlankType DEF Init, Empty
  <2>2. batch \in [Jobs -> [Devices -> Items \cup {None}]]
    BY DEF Init, Empty
  <2>3. phase \in [Jobs -> {"idle", "read", "commit", "after", "rest", "error", "released"}]
    BY DEF Init
  <2>4. told \in [Devices -> {"on", "off", None}] /\ toldAlert \in [Devices -> Alerts]
    BY DEF Init, Empty, Alerts
  <2>5. /\ exists \in [Devices -> {"no", "yes", "gone"}] /\ legacy \in [Devices -> {"none", "embedded", "moving", "lost"}]
        /\ actual \in [Devices -> Levels \cup {None}]
    BY DEF Init, Levels
  <2>6. changes \in 0..MaxChanges /\ edits \in 0..MaxEdits /\ faults \in 0..MaxFaults
    BY ConstantsAssumption DEF Init
  <2> QED BY <2>1, <2>2, <2>3, <2>4, <2>5, <2>6 DEF Init, TypeOK
<1>4. Lifecycle
  BY <1>1, <1>2 DEF Init, Lifecycle, Idle, Blank
<1>5. BatchFollowsPhase /\ PolledByItsJob
  BY <1>2 DEF BatchFollowsPhase, PolledByItsJob
<1>6. DevicesSound
  BY <1>1, BlankType DEF Init, DevicesSound
<1>7. ASSUME NEW d \in Devices PROVE Consistent(d)
  <2>1. rec[d] \in Records /\ rec[d].confirmed = None /\ rec[d].alertState = None /\ RecordSound(rec[d])
    BY <1>1, BlankType DEF Blank
  <2>2. Heard(rec[d], told[d], toldAlert[d])
    BY <1>1, <2>1 DEF Heard
  <2>3. Loaded(series[d]) = <<>> /\ Loaded(series[d]) \in Seq(BOOLEAN)
    <3>1. <<>> \in Seq(BOOLEAN)
      OBVIOUS
    <3> QED BY <1>1, <3>1 DEF Loaded
  <2>4. Written(rec[d], Loaded(series[d]))
    BY <2>1, <2>3, UnpolledAgrees
  <2> QED BY <1>2, <2>2, <2>4 DEF Consistent, Carries
<1> QED BY <1>3, <1>4, <1>5, <1>6, <1>7 DEF IInv

\* A step that leaves what is known of a Device, and what is carried of it, keeps
\* it consistent.
LEMMA ConsistentFrame ==
  ASSUME NEW d \in Devices, Consistent(d),
         exists'[d] = "yes" => exists[d] = "yes",
         d \in redriven \cup dropped => d \in redriven' \cup dropped',
         series'[d] = series[d], told'[d] = told[d], toldAlert'[d] = toldAlert[d],
         exists'[d] = "yes" =>
           /\ rec'[d].confirmed = rec[d].confirmed /\ rec'[d].online = rec[d].online
           /\ rec'[d].miss = rec[d].miss /\ rec'[d].alertState = rec[d].alertState,
         d \notin redriven' \cup dropped' =>
           \A j \in Jobs : (Carries(j, d)' <=> Carries(j, d)) /\ (Carries(j, d) => batch'[j][d] = batch[j][d])
  PROVE  Consistent(d)'
<1> SUFFICES ASSUME exists'[d] = "yes", d \notin redriven' \cup dropped'
             PROVE  /\ (\A j \in Jobs : ~Carries(j, d)') =>
                         (Heard(rec[d], told[d], toldAlert[d]) /\ Written(rec[d], Loaded(series[d])))'
                    /\ \A j \in Jobs : Carries(j, d)' => Carried(d, batch[j][d])'
  BY DEF Consistent
<1>1. exists[d] = "yes" /\ d \notin redriven \cup dropped
  OBVIOUS
<1>2. (\A j \in Jobs : ~Carries(j, d)) => Heard(rec[d], told[d], toldAlert[d]) /\ Written(rec[d], Loaded(series[d]))
  BY <1>1 DEF Consistent
<1>3. \A j \in Jobs : Carries(j, d) => Carried(d, batch[j][d])
  BY <1>1 DEF Consistent
<1>4. (\A j \in Jobs : ~Carries(j, d)') =>
        (Heard(rec[d], told[d], toldAlert[d]) /\ Written(rec[d], Loaded(series[d])))'
  BY <1>2 DEF Heard, Written
<1>5. ASSUME NEW j \in Jobs, Carries(j, d)' PROVE Carried(d, batch[j][d])'
  <2>1. Carried(d, batch[j][d]) /\ batch'[j][d] = batch[j][d]
    BY <1>3, <1>5
  <2> QED BY <2>1 DEF Carried, Heard, Written
<1> QED BY <1>4, <1>5

LEMMA StillFrame ==
  ASSUME IInv, UNCHANGED <<record, batch, news, redriven>>
  PROVE  PolledByItsJob' /\ DevicesSound' /\ \A d \in Devices : Consistent(d)'
<1>1. UNCHANGED <<exists, rec, series, legacy, deleting, batch, told, toldAlert, dropped, redriven>>
  BY DEF record, news
<1>2. PolledByItsJob' /\ DevicesSound'
  BY <1>1 DEF IInv, PolledByItsJob, DevicesSound, RecordSound
<1>3. ASSUME NEW d \in Devices PROVE Consistent(d)'
  <2>1. \A j \in Jobs : (Carries(j, d)' <=> Carries(j, d)) /\ batch'[j][d] = batch[j][d]
    BY <1>1 DEF Carries
  <2>2. Consistent(d)
    BY DEF IInv
  <2> QED BY <1>1, <2>1, <2>2, ConsistentFrame
<1> QED BY <1>2, <1>3

LEMMA StutterIInv ==
  ASSUME IInv, UNCHANGED vars
  PROVE  IInv'
<1>1. UNCHANGED <<exists, rec, series, legacy, deleting, actual, life, loop, phase, batch, told, toldAlert,
                  dropped, redriven, changes, edits, faults>>
  BY DEF vars, record, process, work, news, counts
<1>2. TypeOK' /\ Lifecycle' /\ BatchFollowsPhase'
  BY <1>1 DEF IInv, TypeOK, Lifecycle, BatchFollowsPhase, Idle
<1>3. UNCHANGED <<record, batch, news, redriven>>
  BY <1>1 DEF record, news
<1> QED BY <1>2, <1>3, StillFrame DEF IInv

\* The life of the process, while nothing is recorded.
LEMMA LifeIInv ==
  ASSUME IInv, Start \/ Stop \/ LoopEnds \/ StopReturns
  PROVE  IInv'
<1>1. UNCHANGED <<exists, rec, series, legacy, deleting, actual, phase, batch, told, toldAlert, dropped, redriven,
                  changes, edits, faults>>
  BY DEF Start, Stop, LoopEnds, StopReturns, record, work, news, counts
<1>2. TypeOK' /\ BatchFollowsPhase'
  BY <1>1 DEF IInv, TypeOK, BatchFollowsPhase, Start, Stop, LoopEnds, StopReturns
<1>3. UNCHANGED <<record, batch, news, redriven>>
  BY <1>1 DEF record, news
<1>4. Lifecycle'
  <2>1. CASE Start
    BY <1>1, <2>1 DEF IInv, Lifecycle, Start
  <2>2. CASE Stop \/ LoopEnds
    BY <1>1, <2>2 DEF IInv, Lifecycle, Stop, LoopEnds
  <2>3. CASE StopReturns
    BY <1>1, <2>3 DEF IInv, Lifecycle, StopReturns, Idle
  <2> QED BY <2>1, <2>2, <2>3
<1> QED BY <1>2, <1>3, <1>4, StillFrame DEF IInv

\* _execute and _finished of a worker that holds nothing any more.
LEMMA ReleaseIInv ==
  ASSUME IInv, NEW j \in Jobs, Release(j) \/ RecordResult(j)
  PROVE  IInv'
<1>1. UNCHANGED <<exists, rec, series, legacy, deleting, actual, life, loop, batch, told, toldAlert, dropped, redriven,
                  changes, edits, faults>>
  BY DEF Release, RecordResult, record, process, news, counts
<1>2. \/ phase[j] \in {"rest", "error"} /\ phase' = [phase EXCEPT ![j] = "released"]
      \/ phase[j] = "released" /\ phase' = [phase EXCEPT ![j] = "idle"]
  BY DEF Release, RecordResult
<1>3. TypeOK'
  BY <1>1, <1>2 DEF IInv, TypeOK
<1>4. phase \in [Jobs -> {"idle", "read", "commit", "after", "rest", "error", "released"}]
  BY DEF IInv, TypeOK
<1>5. BatchFollowsPhase'
  BY <1>1, <1>2, <1>4 DEF IInv, BatchFollowsPhase
<1>6. Lifecycle'
  BY <1>1, <1>2, <1>4 DEF IInv, Lifecycle, Idle
<1>7. UNCHANGED <<record, batch, news, redriven>>
  BY <1>1 DEF record, news
<1> QED BY <1>3, <1>5, <1>6, <1>7, StillFrame DEF IInv

LEMMA ChangeIInv ==
  ASSUME IInv, NEW d \in Devices, Change(d)
  PROVE  IInv'
<1>1. UNCHANGED <<exists, rec, series, legacy, deleting, life, loop, phase, batch, told, toldAlert, dropped, redriven,
                  edits, faults>>
  BY DEF Change, record, process, work, news
<1>2. actual' \in [Devices -> Levels \cup {None}] /\ changes' \in 0..MaxChanges
  BY ConstantsAssumption DEF Change, IInv, TypeOK
<1>3. TypeOK' /\ Lifecycle' /\ BatchFollowsPhase'
  BY <1>1, <1>2 DEF IInv, TypeOK, Lifecycle, BatchFollowsPhase, Idle
<1>4. UNCHANGED <<record, batch, news, redriven>>
  BY <1>1 DEF record, news
<1> QED BY <1>3, <1>4, StillFrame DEF IInv

----------------------------------------------------------------------------
\* A job up to its commit

\* A job that carries nothing, before and after, changes no Device.
LEMMA BatchFrame ==
  ASSUME IInv, NEW j \in Jobs,
         UNCHANGED <<exists, rec, series, deleting, told, toldAlert, dropped, redriven>>,
         \A d \in Devices : ~Carries(j, d) /\ ~Carries(j, d)',
         \A k \in Jobs \ {j} : batch'[k] = batch[k]
  PROVE  DevicesSound' /\ \A d \in Devices : Consistent(d)'
<1>1. DevicesSound'
  BY DEF IInv, DevicesSound, RecordSound
<1>2. ASSUME NEW d \in Devices PROVE Consistent(d)'
  <2>1. \A k \in Jobs : (Carries(k, d)' <=> Carries(k, d)) /\ (Carries(k, d) => batch'[k][d] = batch[k][d])
    BY DEF Carries
  <2>2. Consistent(d)
    BY DEF IInv
  <2> QED BY <2>1, <2>2, ConsistentFrame
<1> QED BY <1>1, <1>2

LEMMA CarriesInAfter ==
  ASSUME IInv, NEW j \in Jobs, NEW d \in Devices, Carries(j, d)
  PROVE  phase[j] = "after"
BY DEF IInv, BatchFollowsPhase, Carries

LEMMA DispatchIInv ==
  ASSUME IInv, NEW j \in Jobs, Dispatch(j)
  PROVE  IInv'
<1>1. UNCHANGED <<exists, rec, series, legacy, deleting, actual, life, loop, told, toldAlert, dropped, redriven,
                  changes, edits, faults>>
  BY DEF Dispatch, record, process, news, counts
<1> DEFINE taken == [d \in Devices |-> IF d \in Polled(j) THEN [stage |-> "todo"] ELSE None]
<1>2. /\ loop /\ phase[j] = "idle" /\ batch' = [batch EXCEPT ![j] = taken]
      /\ phase' = [phase EXCEPT ![j] = IF Polled(j) = {} THEN "rest" ELSE "read"]
  BY DEF Dispatch
<1>3. [stage |-> "todo"] \in Items /\ [stage |-> "todo"].stage = "todo"
  BY DEF Items
<1>4. taken \in [Devices -> Items \cup {None}]
  BY <1>3
<1>5. /\ phase \in [Jobs -> {"idle", "read", "commit", "after", "rest", "error", "released"}]
      /\ batch \in [Jobs -> [Devices -> Items \cup {None}]]
  BY DEF IInv, TypeOK
<1>6. \A d \in Devices : taken[d] # None => d \in Polled(j) /\ taken[d].stage = "todo"
  BY <1>3
<1> HIDE DEF taken
<1>7. /\ batch' \in [Jobs -> [Devices -> Items \cup {None}]] /\ batch'[j] = taken
      /\ \A k \in Jobs \ {j} : batch'[k] = batch[k] /\ phase'[k] = phase[k]
      /\ phase'[j] = IF Polled(j) = {} THEN "rest" ELSE "read"
      /\ phase' \in [Jobs -> {"idle", "read", "commit", "after", "rest", "error", "released"}]
  BY <1>2, <1>4, <1>5
<1>8. TypeOK'
  BY <1>1, <1>7 DEF IInv, TypeOK
<1>9. life \notin {"down", "migrating", "stopped"}
  BY <1>2 DEF IInv, Lifecycle
<1>10. Lifecycle'
  BY <1>1, <1>9 DEF IInv, Lifecycle
<1>11. BatchFollowsPhase'
  BY <1>6, <1>7 DEF IInv, BatchFollowsPhase
<1>12. PolledByItsJob'
  BY <1>1, <1>6, <1>7 DEF IInv, PolledByItsJob, Polled
<1>13. \A d \in Devices : ~Carries(j, d) /\ ~Carries(j, d)'
  BY <1>2, <1>6, <1>7, CarriesInAfter DEF Carries
<1> QED BY <1>1, <1>7, <1>8, <1>10, <1>11, <1>12, <1>13, BatchFrame DEF IInv

LEMMA ReadIInv ==
  ASSUME IInv, NEW j \in Jobs, NEW d \in Devices, Read(j, d)
  PROVE  IInv'
<1>1. UNCHANGED <<exists, rec, series, legacy, deleting, actual, life, loop, phase, told, toldAlert, dropped, redriven,
                  changes, edits, faults>>
  BY DEF Read, record, process, news, counts
<1>2. phase[j] = "read" /\ batch[j][d] = [stage |-> "todo"] /\ batch' = [batch EXCEPT ![j][d] = Answer(d)]
  BY DEF Read
<1>3. Answer(d) \in Items /\ Answer(d) # None /\ Answer(d).stage = "read"
  <2>1. actual[d] \in Levels \cup {None}
    BY DEF IInv, TypeOK
  <2>2. Answer(d) \in [stage : {"read"}, online : BOOLEAN, value : Levels \cup {None}]
    BY <2>1 DEF Answer
  <2>3. Answer(d) \in Items
    BY <2>2 DEF Items
  <2> QED BY <2>2, <2>3, NoneAssumption
<1>4. batch \in [Jobs -> [Devices -> Items \cup {None}]] /\ batch[j][d] # None
  BY <1>2, NoneAssumption DEF IInv, TypeOK, Items
<1>5. /\ batch' \in [Jobs -> [Devices -> Items \cup {None}]] /\ batch'[j][d] = Answer(d)
      /\ \A e \in Devices \ {d} : batch'[j][e] = batch[j][e]
      /\ \A k \in Jobs \ {j} : batch'[k] = batch[k]
  BY <1>2, <1>3, <1>4
<1>6. TypeOK' /\ Lifecycle'
  BY <1>1, <1>5 DEF IInv, TypeOK, Lifecycle, Idle
<1>7. BatchFollowsPhase'
  BY <1>1, <1>2, <1>3, <1>5 DEF IInv, BatchFollowsPhase
<1>8. PolledByItsJob'
  BY <1>1, <1>4, <1>5 DEF IInv, PolledByItsJob
<1>9. \A e \in Devices : ~Carries(j, e) /\ ~Carries(j, e)'
  <2>1. \A e \in Devices : ~Carries(j, e)
    BY <1>2, CarriesInAfter
  <2> QED BY <2>1, <1>3, <1>5 DEF Carries
<1> QED BY <1>1, <1>5, <1>6, <1>7, <1>8, <1>9, BatchFrame DEF IInv

\* A batch that is given up carries nothing.
LEMMA EmptyBatch ==
  ASSUME IInv, NEW j \in Jobs, batch' = [batch EXCEPT ![j] = Empty]
  PROVE  /\ batch' \in [Jobs -> [Devices -> Items \cup {None}]]
         /\ \A d \in Devices : batch'[j][d] = None
         /\ \A k \in Jobs \ {j} : batch'[k] = batch[k]
BY DEF IInv, TypeOK, Empty

LEMMA CheckStopIInv ==
  ASSUME IInv, NEW j \in Jobs, CheckStop(j)
  PROVE  IInv'
<1>1. UNCHANGED <<exists, rec, series, legacy, deleting, actual, life, loop, told, toldAlert, dropped, redriven,
                  changes, edits, faults>>
  BY DEF CheckStop, record, process, news, counts
<1>2. phase[j] = "read" /\ \A d \in Devices : batch[j][d] # [stage |-> "todo"]
  BY DEF CheckStop
<1>3. phase \in [Jobs -> {"idle", "read", "commit", "after", "rest", "error", "released"}]
  BY DEF IInv, TypeOK
<1>4. life \notin {"down", "migrating", "stopped"}
  BY <1>2 DEF IInv, Lifecycle, Idle
<1>5. Lifecycle'
  BY <1>1, <1>4 DEF IInv, Lifecycle
<1>6. \A d \in Devices : ~Carries(j, d)
  BY <1>2, CarriesInAfter
<1>7. CASE life = "stopping"
  <2>1. phase' = [phase EXCEPT ![j] = "rest"] /\ batch' = [batch EXCEPT ![j] = Empty]
    BY <1>7 DEF CheckStop
  <2>2. /\ batch' \in [Jobs -> [Devices -> Items \cup {None}]]
        /\ \A d \in Devices : batch'[j][d] = None
        /\ \A k \in Jobs \ {j} : batch'[k] = batch[k]
    BY <2>1, EmptyBatch
  <2>3. TypeOK'
    BY <1>1, <1>3, <2>1, <2>2 DEF IInv, TypeOK
  <2>4. BatchFollowsPhase'
    BY <1>3, <2>1, <2>2 DEF IInv, BatchFollowsPhase
  <2>5. PolledByItsJob'
    BY <1>1, <2>2 DEF IInv, PolledByItsJob
  <2>6. \A d \in Devices : ~Carries(j, d)'
    BY <2>2 DEF Carries
  <2> QED BY <1>1, <1>5, <1>6, <2>2, <2>3, <2>4, <2>5, <2>6, BatchFrame DEF IInv
<1>8. CASE life # "stopping"
  <2>1. phase' = [phase EXCEPT ![j] = "commit"] /\ batch' = batch
    BY <1>8 DEF CheckStop
  <2>2. TypeOK'
    BY <1>1, <1>3, <2>1 DEF IInv, TypeOK
  <2>3. ASSUME NEW d \in Devices, batch[j][d] # None PROVE batch[j][d].stage = "read"
    <3>1. batch[j][d] \in Items /\ batch[j][d].stage \in {"todo", "read"}
      BY <1>2, <2>3 DEF IInv, TypeOK, BatchFollowsPhase
    <3>2. batch[j][d].stage = "todo" => batch[j][d] = [stage |-> "todo"]
      BY <3>1 DEF Items
    <3> QED BY <1>2, <3>1, <3>2
  <2>4. BatchFollowsPhase'
    BY <1>3, <2>1, <2>3 DEF IInv, BatchFollowsPhase
  <2>5. UNCHANGED <<record, batch, news, redriven>>
    BY <1>1, <2>1 DEF record, news
  <2> QED BY <1>5, <2>2, <2>4, <2>5, StillFrame DEF IInv
<1> QED BY <1>7, <1>8

----------------------------------------------------------------------------
\* Migration and crashes

LEMMA LoadedType ==
  ASSUME NEW s \in {x \in Seq(BOOLEAN) : Len(x) <= ONLINE_MAX} \cup {None}
  PROVE  Loaded(s) \in Seq(BOOLEAN) /\ Len(Loaded(s)) <= ONLINE_MAX
<1>1. <<>> \in Seq(BOOLEAN) /\ Len(<<>>) <= ONLINE_MAX
  BY ConstantsAssumption
<1>2. CASE s = None
  <2>1. Loaded(s) = <<>>
    BY <1>2 DEF Loaded
  <2> QED BY <1>1, <2>1
<1>3. CASE s # None
  <2>1. Loaded(s) = s
    BY <1>3 DEF Loaded
  <2> QED BY <1>3, <2>1
<1> QED BY <1>2, <1>3

LEMMA IdleCarriesNothing ==
  ASSUME IInv, life \in {"down", "migrating", "stopped"}
  PROVE  \A j \in Jobs, d \in Devices : ~Carries(j, d) /\ batch[j][d] = None
<1>1. \A j \in Jobs : phase[j] = "idle"
  BY DEF IInv, Lifecycle, Idle
<1> QED BY <1>1 DEF IInv, BatchFollowsPhase, Carries

LEMMA MigrateStripIInv ==
  ASSUME IInv, MigrateStrip
  PROVE  IInv'
<1>1. UNCHANGED <<exists, rec, series, deleting, actual, loop, phase, batch, told, toldAlert, dropped, redriven,
                  changes, edits, faults>>
  BY DEF MigrateStrip, work, news, counts
<1>2. /\ life \in {"down", "stopped"} /\ life' = "migrating"
      /\ legacy' = [d \in Devices |->
           IF legacy[d] = "embedded" THEN IF series[d] = None THEN "moving" ELSE "none" ELSE legacy[d]]
  BY DEF MigrateStrip
<1>3. legacy \in [Devices -> {"none", "embedded", "moving", "lost"}]
  BY DEF IInv, TypeOK
<1>4. TypeOK'
  <2>1. legacy' \in [Devices -> {"none", "embedded", "moving", "lost"}]
    BY <1>2, <1>3
  <2> QED BY <1>1, <1>2, <2>1 DEF IInv, TypeOK
<1>5. Lifecycle'
  <2>1. ~loop' /\ Idle'
    BY <1>1, <1>2 DEF IInv, Lifecycle, Idle
  <2>2. ASSUME NEW d \in Devices
        PROVE  legacy'[d] # "embedded" /\ (legacy'[d] = "moving" => rec'[d].confirmed = None)
    BY <1>1, <1>2 DEF IInv, Lifecycle
  <2> QED BY <1>2, <2>1, <2>2 DEF Lifecycle
<1>6. BatchFollowsPhase' /\ PolledByItsJob' /\ DevicesSound'
  BY <1>1 DEF IInv, BatchFollowsPhase, PolledByItsJob, DevicesSound, RecordSound
<1>7. ASSUME NEW d \in Devices PROVE Consistent(d)'
  <2>1. \A j \in Jobs : (Carries(j, d)' <=> Carries(j, d)) /\ batch'[j][d] = batch[j][d]
    BY <1>1 DEF Carries
  <2>2. Consistent(d)
    BY DEF IInv
  <2> QED BY <1>1, <2>1, <2>2, ConsistentFrame
<1> QED BY <1>4, <1>5, <1>6, <1>7 DEF IInv

LEMMA MigrateSaveIInv ==
  ASSUME IInv, NEW d \in Devices, MigrateSave(d)
  PROVE  IInv'
<1>1. UNCHANGED <<exists, rec, deleting, actual, life, loop, phase, batch, told, toldAlert, dropped, redriven,
                  changes, edits, faults>>
  BY DEF MigrateSave, process, work, news, counts
<1>2. /\ life = "migrating" /\ legacy[d] = "moving"
      /\ legacy' = [legacy EXCEPT ![d] = "none"] /\ series' = [series EXCEPT ![d] = <<>>]
  BY DEF MigrateSave
<1>3. /\ legacy \in [Devices -> {"none", "embedded", "moving", "lost"}]
      /\ series \in [Devices -> {s \in Seq(BOOLEAN) : Len(s) <= ONLINE_MAX} \cup {None}]
  BY DEF IInv, TypeOK
<1>4. <<>> \in Seq(BOOLEAN) /\ Len(<<>>) <= ONLINE_MAX
  BY ConstantsAssumption
<1>5. /\ series' \in [Devices -> {s \in Seq(BOOLEAN) : Len(s) <= ONLINE_MAX} \cup {None}]
      /\ series'[d] = <<>> /\ \A e \in Devices \ {d} : series'[e] = series[e]
  BY <1>2, <1>3, <1>4
<1>6. TypeOK'
  BY <1>1, <1>2, <1>3, <1>5 DEF IInv, TypeOK
<1>7. Lifecycle'
  BY <1>1, <1>2, <1>3 DEF IInv, Lifecycle, Idle
<1>8. BatchFollowsPhase' /\ PolledByItsJob' /\ DevicesSound'
  BY <1>1 DEF IInv, BatchFollowsPhase, PolledByItsJob, DevicesSound, RecordSound
<1>9. ASSUME NEW e \in Devices PROVE Consistent(e)'
  <2>1. \A j \in Jobs : (Carries(j, e)' <=> Carries(j, e)) /\ batch'[j][e] = batch[j][e]
    BY <1>1 DEF Carries
  <2>2. Consistent(e)
    BY DEF IInv
  <2>3. CASE e # d
    BY <1>1, <1>5, <2>1, <2>2, <2>3, ConsistentFrame
  <2>4. CASE e = d
    <3>1. \A j \in Jobs : ~Carries(j, d)
      BY <1>2, IdleCarriesNothing
    <3>2. rec[d] \in Records /\ rec[d].confirmed = None /\ RecordSound(rec[d])
      BY <1>2 DEF IInv, TypeOK, Lifecycle, DevicesSound
    <3>3. Loaded(series[d])' \in Seq(BOOLEAN)
      BY <1>5, LoadedType
    <3>4. Written(rec[d], Loaded(series[d])')
      BY <3>2, <3>3, UnpolledAgrees
    <3>5. exists[d] = "yes" /\ d \notin redriven \cup dropped => Heard(rec[d], told[d], toldAlert[d])
      BY <3>1, <2>2, <2>4 DEF Consistent
    <3> QED BY <1>1, <2>1, <2>4, <3>1, <3>4, <3>5 DEF Consistent
  <2> QED BY <2>3, <2>4
<1> QED BY <1>6, <1>7, <1>8, <1>9 DEF IInv

\* What was in flight is dropped, and nothing else is lost.
LEMMA CrashIInv ==
  ASSUME IInv, Crash
  PROVE  IInv'
<1>1. UNCHANGED <<exists, rec, series, actual, told, toldAlert, redriven, changes, edits>>
  BY DEF Crash, Fault
<1>2. /\ life # "down" /\ life' = "down" /\ loop' = FALSE
      /\ phase' = [j \in Jobs |-> "idle"] /\ batch' = [j \in Jobs |-> Empty] /\ deleting' = {}
      /\ dropped' = dropped \cup {d \in Devices : InFlight(d)}
      /\ legacy' = [d \in Devices |-> IF legacy[d] = "moving" THEN "lost" ELSE legacy[d]]
      /\ faults < MaxFaults /\ faults' = faults + 1
  BY DEF Crash, Fault
<1>3. \A j \in Jobs : phase'[j] = "idle" /\ \A d \in Devices : batch'[j][d] = None
  BY <1>2 DEF Empty
<1>4. TypeOK'
  <2>1. legacy' \in [Devices -> {"none", "embedded", "moving", "lost"}]
    BY <1>2 DEF IInv, TypeOK
  <2>2. phase' \in [Jobs -> {"idle", "read", "commit", "after", "rest", "error", "released"}]
    BY <1>2
  <2>3. batch' \in [Jobs -> [Devices -> Items \cup {None}]]
    BY <1>2 DEF Empty
  <2>4. faults' \in 0..MaxFaults
    BY <1>2, ConstantsAssumption DEF IInv, TypeOK
  <2>5. dropped' \subseteq Devices /\ deleting' \subseteq Devices
    BY <1>2 DEF IInv, TypeOK
  <2> QED BY <1>1, <1>2, <2>1, <2>2, <2>3, <2>4, <2>5 DEF IInv, TypeOK
<1>5. Lifecycle'
  <2>1. \A d \in Devices : legacy'[d] \notin {"embedded", "moving"}
    BY <1>2 DEF IInv, Lifecycle
  <2> QED BY <1>2, <1>3, <2>1 DEF Lifecycle, Idle
<1>6. BatchFollowsPhase' /\ PolledByItsJob'
  BY <1>3 DEF BatchFollowsPhase, PolledByItsJob
<1>7. DevicesSound'
  BY <1>1, <1>2 DEF IInv, DevicesSound, RecordSound
<1>8. ASSUME NEW d \in Devices PROVE Consistent(d)'
  <2>1. \A j \in Jobs : ~Carries(j, d)'
    BY <1>3 DEF Carries
  <2>2. d \notin dropped' => \A j \in Jobs : ~Carries(j, d)
    BY <1>2 DEF InFlight, Carries
  <2>3. Consistent(d)
    BY DEF IInv
  <2> QED BY <1>1, <1>2, <2>1, <2>2, <2>3, ConsistentFrame
<1> QED BY <1>4, <1>5, <1>6, <1>7, <1>8 DEF IInv

----------------------------------------------------------------------------
\* Requests

LEMMA EditEffect ==
  ASSUME IInv, Edit
  PROVE  life = "running" /\ edits' \in 0..MaxEdits /\ UNCHANGED <<changes, faults>>
BY ConstantsAssumption DEF Edit, IInv, TypeOK

\* A request changes one Device's record; the others stay as consistent as they are.
LEMMA RequestFrame ==
  ASSUME IInv, NEW d \in Devices, NEW e \in Devices, e # d,
         exists'[e] = exists[e], rec'[e] = rec[e], series'[e] = series[e],
         redriven \subseteq redriven', UNCHANGED <<batch, told, toldAlert, dropped>>
  PROVE  Consistent(e)'
<1>1. \A j \in Jobs : (Carries(j, e)' <=> Carries(j, e)) /\ batch'[j][e] = batch[j][e]
  BY DEF Carries
<1>2. Consistent(e)
  BY DEF IInv
<1> QED BY <1>1, <1>2, ConsistentFrame

LEMMA CreateDeviceIInv ==
  ASSUME IInv, NEW d \in Devices, NEW driver \in Drivers, CreateDevice(d, driver)
  PROVE  IInv'
<1> DEFINE new == [Blank EXCEPT !.driver = driver]
<1>1. UNCHANGED <<series, legacy, deleting, actual, life, loop, phase, batch, told, toldAlert, dropped, redriven>>
  BY DEF CreateDevice, process, work, news
<1>2. life = "running" /\ edits' \in 0..MaxEdits /\ UNCHANGED <<changes, faults>>
  BY EditEffect DEF CreateDevice
<1>3. exists[d] = "no" /\ exists' = [exists EXCEPT ![d] = "yes"] /\ rec' = [rec EXCEPT ![d] = new]
  BY DEF CreateDevice
<1>4. new \in Records /\ RecordSound(new) /\ new.confirmed = None /\ new.alertState = None
  BY BlankType DEF Blank, Records, RecordSound
<1> HIDE DEF new
<1>5. rec \in [Devices -> Records] /\ exists \in [Devices -> {"no", "yes", "gone"}]
  BY DEF IInv, TypeOK
<1>6. /\ rec' \in [Devices -> Records] /\ exists' \in [Devices -> {"no", "yes", "gone"}]
      /\ rec'[d] = new /\ exists'[d] = "yes"
      /\ \A e \in Devices \ {d} : rec'[e] = rec[e] /\ exists'[e] = exists[e]
  BY <1>3, <1>4, <1>5
<1>7. TypeOK'
  BY <1>1, <1>2, <1>6 DEF IInv, TypeOK
<1>8. Lifecycle'
  BY <1>1, <1>2, <1>4, <1>6 DEF IInv, Lifecycle
<1>9. BatchFollowsPhase'
  BY <1>1 DEF IInv, BatchFollowsPhase
<1>10. \A j \in Jobs : batch[j][d] = None
  BY <1>3 DEF IInv, PolledByItsJob
<1>11. PolledByItsJob'
  BY <1>1, <1>6, <1>10 DEF IInv, PolledByItsJob
<1>12. DevicesSound'
  BY <1>1, <1>3, <1>4, <1>6 DEF IInv, DevicesSound
<1>13. Consistent(d)'
  <2>1. \A j \in Jobs : ~Carries(j, d)'
    BY <1>1, <1>10 DEF Carries
  <2>2. told'[d] = None
    BY <1>1, <1>3 DEF IInv, DevicesSound
  <2>3. Loaded(series[d])' \in Seq(BOOLEAN)
    <3>1. series'[d] \in {x \in Seq(BOOLEAN) : Len(x) <= ONLINE_MAX} \cup {None}
      BY <1>7 DEF TypeOK
    <3> QED BY <3>1, LoadedType
  <2>4. Written(new, Loaded(series[d])')
    BY <1>4, <2>3, UnpolledAgrees
  <2>5. Heard(new, told'[d], toldAlert'[d])
    BY <1>4, <2>2 DEF Heard
  <2> QED BY <1>6, <2>1, <2>4, <2>5 DEF Consistent
<1>14. \A e \in Devices : Consistent(e)'
  BY <1>1, <1>6, <1>13, RequestFrame
<1> QED BY <1>7, <1>8, <1>9, <1>11, <1>12, <1>14 DEF IInv

LEMMA UpdateDeviceIInv ==
  ASSUME IInv, NEW d \in Devices, UpdateDevice(d)
  PROVE  IInv'
<1>1. UNCHANGED <<exists, series, legacy, deleting, actual, life, loop, phase, batch, told, toldAlert, dropped>>
  BY DEF UpdateDevice, process, work, news
<1>2. life = "running" /\ edits' \in 0..MaxEdits /\ UNCHANGED <<changes, faults>>
  BY EditEffect DEF UpdateDevice
<1>3. rec \in [Devices -> Records] /\ rec[d] \in Records
  BY DEF IInv, TypeOK
<1>4. /\ rec' \in [Devices -> Records] /\ \A e \in Devices \ {d} : rec'[e] = rec[e]
      /\ rec'[d].confirmed = rec[d].confirmed /\ rec'[d].online = rec[d].online
      /\ rec'[d].miss = rec[d].miss /\ rec'[d].alertState = rec[d].alertState
      /\ redriven' \in {redriven, redriven \cup {d}}
      /\ redriven' = redriven => d \in redriven \/ rec'[d].driver = rec[d].driver
  <2>1. CASE \E driver \in Drivers : rec' = [rec EXCEPT ![d].driver = driver] /\ redriven' = redriven \cup {d}
    <3>1. PICK driver \in Drivers : rec' = [rec EXCEPT ![d].driver = driver] /\ redriven' = redriven \cup {d}
      BY <2>1
    <3> DEFINE new == [rec[d] EXCEPT !.driver = driver]
    <3>2. /\ new \in Records /\ new.confirmed = rec[d].confirmed /\ new.online = rec[d].online
          /\ new.miss = rec[d].miss /\ new.alertState = rec[d].alertState
      BY <1>3 DEF Records
    <3>3. rec' = [rec EXCEPT ![d] = new]
      BY <3>1, <1>3
    <3> HIDE DEF new
    <3> QED BY <1>3, <3>1, <3>2, <3>3
  <2>2. CASE \E rule \in Rules \cup {None} : rec' = [rec EXCEPT ![d].rule = rule] /\ redriven' = redriven
    <3>1. PICK rule \in Rules \cup {None} : rec' = [rec EXCEPT ![d].rule = rule] /\ redriven' = redriven
      BY <2>2
    <3> DEFINE new == [rec[d] EXCEPT !.rule = rule]
    <3>2. /\ new \in Records /\ new.confirmed = rec[d].confirmed /\ new.online = rec[d].online
          /\ new.miss = rec[d].miss /\ new.alertState = rec[d].alertState /\ new.driver = rec[d].driver
      BY <1>3 DEF Records
    <3>3. rec' = [rec EXCEPT ![d] = new]
      BY <3>1, <1>3
    <3> HIDE DEF new
    <3> QED BY <1>3, <3>1, <3>2, <3>3
  <2> QED BY <2>1, <2>2 DEF UpdateDevice
<1>5. redriven' \subseteq Devices /\ redriven \subseteq redriven'
  BY <1>4 DEF IInv, TypeOK
<1>6. TypeOK'
  BY <1>1, <1>2, <1>4, <1>5 DEF IInv, TypeOK
<1>7. Lifecycle'
  BY <1>1, <1>2, <1>4 DEF IInv, Lifecycle
<1>8. BatchFollowsPhase'
  BY <1>1 DEF IInv, BatchFollowsPhase
<1>9. PolledByItsJob'
  BY <1>1, <1>4, <1>5 DEF IInv, PolledByItsJob
<1>10. DevicesSound'
  BY <1>1, <1>4 DEF IInv, DevicesSound, RecordSound
<1>11. Consistent(d)'
  <2>1. \A j \in Jobs : (Carries(j, d)' <=> Carries(j, d)) /\ batch'[j][d] = batch[j][d]
    BY <1>1 DEF Carries
  <2>2. Consistent(d)
    BY DEF IInv
  <2> QED BY <1>1, <1>4, <1>5, <2>1, <2>2, ConsistentFrame
<1>12. \A e \in Devices : Consistent(e)'
  BY <1>1, <1>4, <1>5, <1>11, RequestFrame
<1> QED BY <1>6, <1>7, <1>8, <1>9, <1>10, <1>12 DEF IInv

LEMMA DeleteDeviceIInv ==
  ASSUME IInv, NEW d \in Devices, DeleteDevice(d)
  PROVE  IInv'
<1>1. UNCHANGED <<series, legacy, actual, life, loop, phase, batch, told, toldAlert, dropped, redriven>>
  BY DEF DeleteDevice, process, work, news
<1>2. life = "running" /\ edits' \in 0..MaxEdits /\ UNCHANGED <<changes, faults>>
  BY EditEffect DEF DeleteDevice
<1>3. /\ exists[d] = "yes" /\ exists' = [exists EXCEPT ![d] = "gone"] /\ rec' = [rec EXCEPT ![d] = Blank]
      /\ deleting' = deleting \cup {d}
  BY DEF DeleteDevice
<1>4. /\ rec' \in [Devices -> Records] /\ exists' \in [Devices -> {"no", "yes", "gone"}]
      /\ rec'[d] = Blank /\ exists'[d] = "gone"
      /\ \A e \in Devices \ {d} : rec'[e] = rec[e] /\ exists'[e] = exists[e]
  BY <1>3, BlankType DEF IInv, TypeOK
<1>5. TypeOK'
  BY <1>1, <1>2, <1>3, <1>4 DEF IInv, TypeOK
<1>6. Lifecycle'
  BY <1>1, <1>2, <1>4 DEF IInv, Lifecycle, Blank
<1>7. BatchFollowsPhase' /\ PolledByItsJob'
  BY <1>1, <1>4 DEF IInv, BatchFollowsPhase, PolledByItsJob
<1>8. DevicesSound'
  BY <1>1, <1>3, <1>4, BlankType DEF IInv, DevicesSound
<1>9. \A e \in Devices : Consistent(e)'
  <2>1. Consistent(d)'
    BY <1>4 DEF Consistent
  <2> QED BY <1>1, <1>4, <2>1, RequestFrame
<1> QED BY <1>5, <1>6, <1>7, <1>8, <1>9 DEF IInv

LEMMA DeleteHistoryIInv ==
  ASSUME IInv, NEW d \in Devices, DeleteHistory(d)
  PROVE  IInv'
<1>1. UNCHANGED <<exists, rec, legacy, actual, life, loop, phase, batch, told, toldAlert, dropped, redriven,
                  changes, edits, faults>>
  BY DEF DeleteHistory, process, work, news, counts
<1>2. d \in deleting /\ deleting' = deleting \ {d} /\ series' = [series EXCEPT ![d] = None]
  BY DEF DeleteHistory
<1>3. /\ series' \in [Devices -> {s \in Seq(BOOLEAN) : Len(s) <= ONLINE_MAX} \cup {None}]
      /\ \A e \in Devices \ {d} : series'[e] = series[e]
  BY <1>2 DEF IInv, TypeOK
<1>4. TypeOK'
  BY <1>1, <1>2, <1>3 DEF IInv, TypeOK
<1>5. Lifecycle' /\ BatchFollowsPhase' /\ PolledByItsJob' /\ DevicesSound'
  BY <1>1, <1>2 DEF IInv, Lifecycle, Idle, BatchFollowsPhase, PolledByItsJob, DevicesSound, RecordSound
<1>6. exists'[d] # "yes"
  BY <1>1, <1>2 DEF IInv, DevicesSound
<1>7. \A e \in Devices : Consistent(e)'
  <2>1. Consistent(d)'
    BY <1>6 DEF Consistent
  <2> QED BY <1>1, <1>3, <2>1, RequestFrame
<1> QED BY <1>4, <1>5, <1>7 DEF IInv

----------------------------------------------------------------------------
\* A job from its commit on

\* One job at a time polls a Device that is there and whose driver was not edited.
LEMMA OneCarrier ==
  ASSUME IInv, NEW j \in Jobs, NEW d \in Devices, batch[j][d] # None,
         exists[d] = "yes", d \notin redriven
  PROVE  \A k \in Jobs \ {j} : batch[k][d] = None /\ ~Carries(k, d)
BY DEF IInv, PolledByItsJob, Carries

LEMMA FaultEffect ==
  ASSUME IInv, Fault
  PROVE  faults' \in 0..MaxFaults /\ UNCHANGED <<changes, edits>>
BY ConstantsAssumption DEF Fault, IInv, TypeOK

\* What the commit of a result leaves of a Device is carried by the job.
LEMMA CommitCarries ==
  ASSUME IInv, NEW j \in Jobs, NEW d \in Devices,
         batch[j][d] \in Results, phase[j] = "commit", exists[d] = "yes",
         rec'[d] = Applied(rec[d], batch[j][d]), batch'[j][d] = Capture(rec[d], batch[j][d]),
         \A k \in Jobs \ {j} : batch'[k] = batch[k],
         UNCHANGED <<exists, series, told, toldAlert, dropped, redriven>>
  PROVE  Consistent(d)'
<1> DEFINE r == rec[d]
           result == batch[j][d]
           c == Capture(r, result)
           next == Applied(r, result)
<1> SUFFICES ASSUME d \notin redriven \cup dropped
             PROVE  Consistent(d)'
  BY DEF Consistent
<1>1. r \in Records /\ RecordSound(r)
  BY DEF IInv, TypeOK, DevicesSound
<1>2. result # None /\ result.online \in BOOLEAN
  BY NoneAssumption DEF Results, Items
<1>3. \A k \in Jobs : ~Carries(k, d)
  <2>1. ~Carries(j, d)
    BY CarriesInAfter
  <2> QED BY <1>2, <2>1, OneCarrier
<1>4. Heard(r, told[d], toldAlert[d]) /\ Written(r, Loaded(series[d]))
  BY <1>3 DEF IInv, Consistent
<1>5. Heard(next, IF c.transition = None THEN told[d] ELSE c.transition,
                  IF c.alert = None THEN toldAlert[d] ELSE c.alert)
  BY <1>1, <1>4, HeardApplied
<1>6. c.stage = "append" /\ c.online = result.online /\ c # None
  BY <1>1, CaptureType
<1>7. next.online = result.online /\ next.miss = Missed(r, result.online) /\ next.confirmed # None
  BY <1>1, AppliedFacts
<1>8. next.miss > 0 => EndsInMisses(Loaded(series[d]), Lesser(next.miss - 1, ONLINE_MAX))
  <2> SUFFICES ASSUME next.miss > 0 PROVE EndsInMisses(Loaded(series[d]), Lesser(next.miss - 1, ONLINE_MAX))
    OBVIOUS
  <2>1. EndsInMisses(Loaded(series[d]), Lesser(r.miss, ONLINE_MAX)) /\ Loaded(series[d]) \in Seq(BOOLEAN)
    <3>1. series[d] \in {x \in Seq(BOOLEAN) : Len(x) <= ONLINE_MAX} \cup {None}
      BY DEF IInv, TypeOK
    <3> QED BY <1>4, <3>1, LoadedType DEF Written
  <2>2. /\ r.miss \in Nat /\ next.miss \in Nat /\ next.miss <= r.miss + 1 /\ ONLINE_MAX \in Nat
    <3>1. next.miss \in 0..OFFLINE_AFTER /\ next.miss <= r.miss + 1
      BY <1>1, <1>2, <1>7, MissedFacts
    <3>2. r.miss \in 0..OFFLINE_AFTER
      BY <1>1 DEF Records
    <3> QED BY <3>1, <3>2, ConstantsAssumption
  <2> HIDE DEF next, r
  <2>3. /\ Lesser(next.miss - 1, ONLINE_MAX) \in Nat /\ Lesser(r.miss, ONLINE_MAX) \in Nat
        /\ Lesser(next.miss - 1, ONLINE_MAX) <= Lesser(r.miss, ONLINE_MAX)
    BY <2>2 DEF Lesser
  <2> QED BY <2>1, <2>3, EndsInFewer
<1>9. Carried(d, batch[j][d])'
  <2>1. rec'[d] = next /\ batch'[j][d] = c
    OBVIOUS
  <2> HIDE DEF next, c
  <2> QED BY <2>1, <1>5, <1>6, <1>7, <1>8 DEF Carried
<1>10. Carries(j, d)' /\ \A k \in Jobs \ {j} : ~Carries(k, d)'
  BY <1>3, <1>6 DEF Carries
<1> QED BY <1>9, <1>10 DEF Consistent

LEMMA CommitIInv ==
  ASSUME IInv, NEW j \in Jobs, Commit(j)
  PROVE  IInv'
<1> DEFINE live == {d \in Devices : batch[j][d] # None /\ exists[d] = "yes"}
<1>1. UNCHANGED <<exists, series, legacy, deleting, actual, life, loop, told, toldAlert, dropped, redriven>>
  BY DEF Commit, process, news
<1>2. phase[j] = "commit" /\ life \notin {"down", "migrating", "stopped"}
  BY DEF Commit, IInv, Lifecycle, Idle
<1>3. /\ phase \in [Jobs -> {"idle", "read", "commit", "after", "rest", "error", "released"}]
      /\ batch \in [Jobs -> [Devices -> Items \cup {None}]] /\ rec \in [Devices -> Records]
  BY DEF IInv, TypeOK
<1>4. \A d \in Devices : legacy[d] \notin {"embedded", "moving"}
  BY <1>2 DEF IInv, Lifecycle
<1>5. Lifecycle'
  BY <1>1, <1>2, <1>4 DEF Lifecycle
<1>6. \A d \in Devices : ~Carries(j, d)
  BY <1>2, CarriesInAfter
<1>7. CASE /\ rec' = [d \in Devices |-> IF d \in live THEN Applied(rec[d], batch[j][d]) ELSE rec[d]]
           /\ batch' = [batch EXCEPT ![j] = [d \in Devices |->
                IF d \in live THEN Capture(rec[d], batch[j][d]) ELSE None]]
           /\ phase' = [phase EXCEPT ![j] = IF live = {} THEN "rest" ELSE "after"]
           /\ UNCHANGED counts
  <2> DEFINE taken == [d \in Devices |-> IF d \in live THEN Capture(rec[d], batch[j][d]) ELSE None]
  <2>1. ASSUME NEW d \in live
        PROVE  batch[j][d] \in Results /\ rec[d] \in Records /\ RecordSound(rec[d])
    <3>1. batch[j][d] \in Items /\ batch[j][d].stage = "read"
      BY <1>2, <1>3 DEF IInv, BatchFollowsPhase
    <3> QED BY <3>1, <1>3 DEF Items, Results, IInv, DevicesSound
  <2>2. ASSUME NEW d \in live
        PROVE  /\ Capture(rec[d], batch[j][d]) \in Items /\ Capture(rec[d], batch[j][d]).stage = "append"
               /\ Applied(rec[d], batch[j][d]) \in Records /\ RecordSound(Applied(rec[d], batch[j][d]))
               /\ Applied(rec[d], batch[j][d]).driver = rec[d].driver
    BY <2>1, CaptureType, AppliedFacts
  <2>3. /\ taken \in [Devices -> Items \cup {None}]
        /\ \A d \in live : taken[d] = Capture(rec[d], batch[j][d]) /\ taken[d].stage = "append"
        /\ \A d \in Devices \ live : taken[d] = None
    BY <2>2
  <2>4. batch' = [batch EXCEPT ![j] = taken] /\ UNCHANGED <<changes, edits, faults>>
    BY <1>7 DEF counts
  <2> HIDE DEF taken
  <2>5. /\ batch' \in [Jobs -> [Devices -> Items \cup {None}]] /\ batch'[j] = taken
        /\ \A k \in Jobs \ {j} : batch'[k] = batch[k] /\ phase'[k] = phase[k]
        /\ phase' \in [Jobs -> {"idle", "read", "commit", "after", "rest", "error", "released"}]
        /\ phase'[j] = IF live = {} THEN "rest" ELSE "after"
    BY <1>3, <1>7, <2>3, <2>4
  <2>6. /\ rec' \in [Devices -> Records]
        /\ \A d \in live : rec'[d] = Applied(rec[d], batch[j][d])
        /\ \A d \in Devices \ live : rec'[d] = rec[d]
    BY <1>3, <1>7, <2>2
  <2>7. TypeOK'
    BY <1>1, <2>4, <2>5, <2>6 DEF IInv, TypeOK
  <2>8. BatchFollowsPhase'
    <3>1. ASSUME NEW d \in Devices, batch'[j][d] # None
          PROVE  phase'[j] = "after" /\ batch'[j][d].stage = "append"
      <4>1. d \in live
        BY <2>3, <2>5, <3>1
      <4> QED BY <4>1, <2>3, <2>5
    <3> QED BY <3>1, <2>5 DEF IInv, BatchFollowsPhase
  <2>9. PolledByItsJob'
    <3>1. \A d \in Devices : rec'[d].driver = rec[d].driver
      BY <2>2, <2>6
    <3>2. \A d \in Devices : batch'[j][d] # None => batch[j][d] # None
      BY <2>3, <2>5
    <3> QED BY <1>1, <2>5, <3>1, <3>2 DEF IInv, PolledByItsJob
  <2>10. DevicesSound'
    <3>1. \A d \in Devices : RecordSound(rec'[d])
      <4> TAKE d \in Devices
      <4>1. CASE d \in live
        BY <4>1, <2>2, <2>6
      <4>2. CASE d \notin live
        BY <4>2, <2>6 DEF IInv, DevicesSound
      <4> QED BY <4>1, <4>2
    <3> QED BY <1>1, <3>1 DEF IInv, DevicesSound
  <2>11. ASSUME NEW d \in Devices PROVE Consistent(d)'
    <3>1. CASE d \in live
      <4>1. batch[j][d] \in Results /\ exists[d] = "yes"
        BY <2>1, <3>1
      <4> QED BY <1>1, <1>2, <2>3, <2>5, <2>6, <3>1, <4>1, CommitCarries
    <3>2. CASE d \notin live
      <4>1. \A k \in Jobs : (Carries(k, d)' <=> Carries(k, d)) /\ (Carries(k, d) => batch'[k][d] = batch[k][d])
        BY <1>6, <2>3, <2>5, <3>2 DEF Carries
      <4>2. Consistent(d) /\ rec'[d] = rec[d]
        BY <2>6, <3>2 DEF IInv
      <4> QED BY <1>1, <4>1, <4>2, ConsistentFrame
    <3> QED BY <3>1, <3>2
  <2> QED BY <1>5, <2>7, <2>8, <2>9, <2>10, <2>11 DEF IInv
<1>8. CASE /\ Fault /\ phase' = [phase EXCEPT ![j] = "error"]
           /\ batch' = [batch EXCEPT ![j] = Empty]
           /\ UNCHANGED rec
  <2>1. faults' \in 0..MaxFaults /\ UNCHANGED <<changes, edits>>
    BY <1>8, FaultEffect
  <2>2. /\ batch' \in [Jobs -> [Devices -> Items \cup {None}]]
        /\ \A d \in Devices : batch'[j][d] = None
        /\ \A k \in Jobs \ {j} : batch'[k] = batch[k]
    BY <1>8, EmptyBatch
  <2>3. TypeOK'
    BY <1>1, <1>3, <1>8, <2>1, <2>2 DEF IInv, TypeOK
  <2>4. BatchFollowsPhase'
    BY <1>3, <1>8, <2>2 DEF IInv, BatchFollowsPhase
  <2>5. PolledByItsJob'
    BY <1>1, <1>8, <2>2 DEF IInv, PolledByItsJob
  <2>6. \A d \in Devices : ~Carries(j, d)'
    BY <2>2 DEF Carries
  <2> QED BY <1>1, <1>5, <1>6, <1>8, <2>2, <2>3, <2>4, <2>5, <2>6, BatchFrame DEF IInv
<1> QED BY <1>7, <1>8 DEF Commit

\* An exception after the commit: what the job still carries is dropped.
LEMMA AbandonIInv ==
  ASSUME IInv, NEW j \in Jobs, phase[j] = "after", Abandon(j),
         UNCHANGED <<record, actual, process, told, toldAlert, redriven>>
  PROVE  IInv'
<1>1. UNCHANGED <<exists, rec, series, legacy, deleting, actual, life, loop, told, toldAlert, redriven>>
  BY DEF record, process
<1>2. /\ faults' \in 0..MaxFaults /\ UNCHANGED <<changes, edits>>
      /\ batch' = [batch EXCEPT ![j] = Empty] /\ phase' = [phase EXCEPT ![j] = "error"]
      /\ dropped' = dropped \cup {d \in Devices : batch[j][d] # None}
  BY FaultEffect DEF Abandon
<1>3. /\ batch' \in [Jobs -> [Devices -> Items \cup {None}]]
      /\ \A d \in Devices : batch'[j][d] = None
      /\ \A k \in Jobs \ {j} : batch'[k] = batch[k]
  BY <1>2, EmptyBatch
<1>4. phase \in [Jobs -> {"idle", "read", "commit", "after", "rest", "error", "released"}]
  BY DEF IInv, TypeOK
<1>5. TypeOK'
  BY <1>1, <1>2, <1>3, <1>4 DEF IInv, TypeOK
<1>6. life \notin {"down", "migrating", "stopped"}
  BY DEF IInv, Lifecycle, Idle
<1>7. Lifecycle'
  BY <1>1, <1>6 DEF IInv, Lifecycle
<1>8. BatchFollowsPhase'
  BY <1>2, <1>3, <1>4 DEF IInv, BatchFollowsPhase
<1>9. PolledByItsJob' /\ DevicesSound'
  BY <1>1, <1>3 DEF IInv, PolledByItsJob, DevicesSound, RecordSound
<1>10. ASSUME NEW d \in Devices PROVE Consistent(d)'
  <2>1. d \notin dropped' =>
          \A k \in Jobs : (Carries(k, d)' <=> Carries(k, d)) /\ (Carries(k, d) => batch'[k][d] = batch[k][d])
    BY <1>2, <1>3 DEF Carries
  <2>2. Consistent(d)
    BY DEF IInv
  <2> QED BY <1>1, <1>2, <2>1, <2>2, ConsistentFrame
<1> QED BY <1>5, <1>7, <1>8, <1>9, <1>10 DEF IInv

Carriers == [stage : {"append", "tell"}, online : BOOLEAN, transition : {"on", "off", None}, alert : Alerts]

LEMMA CarrierType ==
  ASSUME IInv, NEW j \in Jobs, NEW d \in Devices, Carries(j, d)
  PROVE  batch[j][d] \in Carriers
<1>1. batch[j][d] \in Items /\ batch[j][d].stage \in {"append", "tell"}
  BY DEF IInv, TypeOK, Carries
<1> QED BY <1>1 DEF Items, Carriers

\* The series of the Device ends as its record says once the point is appended.
LEMMA AppendedIsWritten ==
  ASSUME IInv, NEW j \in Jobs, NEW d \in Devices, batch[j][d] # None, batch[j][d].stage = "append",
         exists[d] = "yes", d \notin redriven \cup dropped
  PROVE  Written(rec[d], WithPoint(Loaded(series[d]), batch[j][d].online))
<1> DEFINE c == batch[j][d]
           s == Loaded(series[d])
           w == WithPoint(s, c.online)
           r == rec[d]
<1>1. Carries(j, d) /\ c \in Carriers
  BY CarrierType DEF Carries
<1>2. c.online \in BOOLEAN
  BY <1>1 DEF Carriers
<1>3. Carried(d, c)
  BY <1>1 DEF IInv, Consistent
<1>4. /\ c.online = r.online
      /\ r.miss > 0 => EndsInMisses(s, Lesser(r.miss - 1, ONLINE_MAX))
  BY <1>3 DEF Carried
<1>5. s \in Seq(BOOLEAN) /\ Len(s) <= ONLINE_MAX
  <2>1. series[d] \in {x \in Seq(BOOLEAN) : Len(x) <= ONLINE_MAX} \cup {None}
    BY DEF IInv, TypeOK
  <2> QED BY <2>1, LoadedType
<1>6. r.miss \in Nat /\ r.online \in BOOLEAN /\ (r.online => r.miss = 0)
  BY ConstantsAssumption DEF IInv, TypeOK, Records, DevicesSound, RecordSound
<1> HIDE DEF s, r, c
<1>7. /\ w \in Seq(BOOLEAN) /\ Len(w) > 0 /\ w[Len(w)] = c.online
      /\ \A n \in Nat : ~c.online /\ n > 0 /\ EndsInMisses(s, Lesser(n - 1, ONLINE_MAX)) =>
                           EndsInMisses(w, Lesser(n, ONLINE_MAX))
  BY <1>2, <1>5, WithPointFacts
<1> HIDE DEF w
<1>8. EndsInMisses(w, Lesser(r.miss, ONLINE_MAX))
  <2>1. CASE r.miss = 0
    <3>1. Lesser(r.miss, ONLINE_MAX) = 0
      BY <2>1, ConstantsAssumption DEF Lesser
    <3> QED BY <3>1, <1>7 DEF EndsInMisses
  <2>2. CASE r.miss # 0
    <3>1. ~c.online
      BY <2>2, <1>4, <1>6
    <3> QED BY <2>2, <3>1, <1>4, <1>6, <1>7
  <2> QED BY <2>1, <2>2
<1> QED BY <1>4, <1>7, <1>8 DEF Written, w, s, c, r

LEMMA AppendHistoryIInv ==
  ASSUME IInv, NEW j \in Jobs, NEW d \in Devices, AppendHistory(j, d)
  PROVE  IInv'
<1>1. UNCHANGED <<exists, rec, legacy, deleting, actual, life, loop, told, toldAlert, redriven>>
  BY DEF AppendHistory, process
<1>2. phase[j] = "after" /\ batch[j][d] # None /\ batch[j][d].stage = "append"
  BY DEF AppendHistory
<1>3. CASE /\ series' = [series EXCEPT ![d] = WithPoint(Loaded(@), batch[j][d].online)]
           /\ batch' = [batch EXCEPT ![j][d].stage = "tell"]
           /\ UNCHANGED <<phase, dropped, counts>>
  <2> DEFINE c == batch[j][d]
             next == [c EXCEPT !.stage = "tell"]
             w == WithPoint(Loaded(series[d]), c.online)
  <2>1. Carries(j, d) /\ c \in Carriers
    BY <1>2, CarrierType DEF Carries
  <2>2. /\ next \in Items /\ next.stage = "tell" /\ next.transition = c.transition /\ next.alert = c.alert
    <3>1. next \in Carriers /\ next.stage = "tell" /\ next.transition = c.transition /\ next.alert = c.alert
      BY <2>1 DEF Carriers
    <3> HIDE DEF next
    <3> QED BY <3>1 DEF Carriers, Items
  <2>3. next # None
    BY <2>2, NoneAssumption
  <2>4. /\ batch \in [Jobs -> [Devices -> Items \cup {None}]]
        /\ series \in [Devices -> {x \in Seq(BOOLEAN) : Len(x) <= ONLINE_MAX} \cup {None}]
    BY DEF IInv, TypeOK
  <2>5. w \in {x \in Seq(BOOLEAN) : Len(x) <= ONLINE_MAX}
    <3>1. Loaded(series[d]) \in Seq(BOOLEAN) /\ Len(Loaded(series[d])) <= ONLINE_MAX /\ c.online \in BOOLEAN
      BY <2>1, <2>4, LoadedType DEF Carriers
    <3> QED BY <3>1, WithPointFacts
  <2>6. batch' = [batch EXCEPT ![j][d] = next] /\ series' = [series EXCEPT ![d] = w]
    BY <1>3, <2>4
  <2> HIDE DEF next
  <2>7. /\ batch' \in [Jobs -> [Devices -> Items \cup {None}]] /\ batch'[j][d] = next
        /\ \A e \in Devices \ {d} : batch'[j][e] = batch[j][e]
        /\ \A k \in Jobs \ {j} : batch'[k] = batch[k]
    BY <2>2, <2>4, <2>6
  <2>8. w # None
    BY <2>5, NoneAssumption
  <2>9. Written(rec[d], w) \/ exists[d] # "yes" \/ d \in redriven \cup dropped
    BY <1>2, AppendedIsWritten
  <2> HIDE DEF w
  <2>10. /\ series' \in [Devices -> {x \in Seq(BOOLEAN) : Len(x) <= ONLINE_MAX} \cup {None}] /\ series'[d] = w
         /\ \A e \in Devices \ {d} : series'[e] = series[e]
    BY <2>4, <2>5, <2>6
  <2>11. UNCHANGED <<phase, dropped, changes, edits, faults>>
    BY <1>3 DEF counts
  <2>12. TypeOK'
    BY <1>1, <2>7, <2>10, <2>11 DEF IInv, TypeOK
  <2>13. Lifecycle'
    BY <1>1, <2>11 DEF IInv, Lifecycle, Idle
  <2>14. BatchFollowsPhase'
    BY <1>2, <2>2, <2>7, <2>11 DEF IInv, BatchFollowsPhase
  <2>15. PolledByItsJob'
    BY <1>1, <1>2, <2>7 DEF IInv, PolledByItsJob
  <2>16. DevicesSound'
    BY <1>1 DEF IInv, DevicesSound, RecordSound
  <2>17. ASSUME NEW e \in Devices PROVE Consistent(e)'
    <3>1. CASE e # d
      <4>1. \A k \in Jobs : (Carries(k, e)' <=> Carries(k, e)) /\ (Carries(k, e) => batch'[k][e] = batch[k][e])
        BY <2>7, <3>1 DEF Carries
      <4>2. Consistent(e) /\ series'[e] = series[e]
        BY <2>10, <3>1 DEF IInv
      <4> QED BY <1>1, <2>11, <4>1, <4>2, ConsistentFrame
    <3>2. CASE e = d
      <4> SUFFICES ASSUME exists[d] = "yes", d \notin redriven \cup dropped
                   PROVE  Consistent(d)'
        BY <1>1, <2>11, <3>2 DEF Consistent
      <4>1. Carried(d, c)
        BY <2>1 DEF IInv, Consistent
      <4>2. Loaded(series[d])' = w
        BY <2>8, <2>10 DEF Loaded
      <4>3. Carried(d, batch[j][d])'
        BY <1>1, <2>2, <2>7, <2>9, <4>1, <4>2 DEF Carried
      <4>4. Carries(j, d)' /\ \A k \in Jobs \ {j} : ~Carries(k, d)'
        BY <1>2, <2>2, <2>3, <2>7, OneCarrier DEF Carries
      <4> QED BY <4>3, <4>4 DEF Consistent
    <3> QED BY <3>1, <3>2
  <2> QED BY <2>12, <2>13, <2>14, <2>15, <2>16, <2>17 DEF IInv
<1>4. CASE Abandon(j) /\ UNCHANGED series
  BY <1>1, <1>2, <1>4, AbandonIInv DEF record, process
<1> QED BY <1>3, <1>4 DEF AppendHistory

\* A Device that a job is done with, in the batch and the phase that follow.
LEMMA DoneWith ==
  ASSUME IInv, NEW j \in Jobs, NEW d \in Devices, phase[j] = "after",
         UNCHANGED <<exists, rec, legacy, life, loop, redriven>>,
         batch' = [batch EXCEPT ![j][d] = None],
         phase' = [phase EXCEPT ![j] = IF batch'[j] = Empty THEN "rest" ELSE "after"]
  PROVE  /\ batch' \in [Jobs -> [Devices -> Items \cup {None}]] /\ batch'[j][d] = None
         /\ phase' \in [Jobs -> {"idle", "read", "commit", "after", "rest", "error", "released"}]
         /\ \A e \in Devices \ {d} : batch'[j][e] = batch[j][e]
         /\ \A k \in Jobs \ {j} : batch'[k] = batch[k]
         /\ Lifecycle' /\ BatchFollowsPhase' /\ PolledByItsJob'
<1>1. /\ phase \in [Jobs -> {"idle", "read", "commit", "after", "rest", "error", "released"}]
      /\ batch \in [Jobs -> [Devices -> Items \cup {None}]]
  BY DEF IInv, TypeOK
<1>2. /\ batch' \in [Jobs -> [Devices -> Items \cup {None}]] /\ batch'[j][d] = None
      /\ \A e \in Devices \ {d} : batch'[j][e] = batch[j][e]
      /\ \A k \in Jobs \ {j} : batch'[k] = batch[k]
  BY <1>1
<1>3. /\ phase' \in [Jobs -> {"idle", "read", "commit", "after", "rest", "error", "released"}]
      /\ phase'[j] = IF batch'[j] = Empty THEN "rest" ELSE "after"
      /\ \A k \in Jobs \ {j} : phase'[k] = phase[k]
  BY <1>1
<1>4. life \notin {"down", "migrating", "stopped"}
  BY DEF IInv, Lifecycle, Idle
<1>5. Lifecycle'
  BY <1>4 DEF IInv, Lifecycle
<1>6. BatchFollowsPhase'
  <2>1. ASSUME NEW e \in Devices, batch'[j][e] # None
        PROVE  phase'[j] = "after" /\ batch'[j][e].stage \in {"append", "tell"}
    <3>1. batch'[j] # Empty
      BY <2>1 DEF Empty
    <3>2. batch'[j][e] = batch[j][e]
      BY <2>1, <1>2
    <3> QED BY <2>1, <3>1, <3>2, <1>3 DEF IInv, BatchFollowsPhase
  <2> QED BY <2>1, <1>2, <1>3 DEF IInv, BatchFollowsPhase
<1>7. PolledByItsJob'
  BY <1>2 DEF IInv, PolledByItsJob
<1> QED BY <1>2, <1>3, <1>5, <1>6, <1>7

\* The other Devices, when a job is done with one.
LEMMA DoneWithOthers ==
  ASSUME IInv, NEW j \in Jobs, NEW d \in Devices, NEW e \in Devices, e # d,
         exists'[e] = exists[e], rec'[e] = rec[e], series'[e] = series[e],
         told'[e] = told[e], toldAlert'[e] = toldAlert[e], redriven' = redriven, dropped \subseteq dropped',
         batch'[j][e] = batch[j][e], \A k \in Jobs \ {j} : batch'[k] = batch[k]
  PROVE  Consistent(e)'
<1>1. \A k \in Jobs : (Carries(k, e)' <=> Carries(k, e)) /\ batch'[k][e] = batch[k][e]
  BY DEF Carries
<1>2. Consistent(e)
  BY DEF IInv
<1> QED BY <1>1, <1>2, ConsistentFrame

LEMMA TellIInv ==
  ASSUME IInv, NEW j \in Jobs, NEW d \in Devices, Tell(j, d)
  PROVE  IInv'
<1> DEFINE c == batch[j][d]
           told1 == [batch EXCEPT ![j][d] = None]
           next == [phase EXCEPT ![j] = IF told1[j] = Empty THEN "rest" ELSE "after"]
<1>1. UNCHANGED <<exists, rec, series, legacy, deleting, actual, life, loop, redriven>>
  BY DEF Tell, record, process
<1>2. phase[j] = "after" /\ c # None /\ c.stage = "tell"
  BY DEF Tell
<1>3. Carries(j, d) /\ c \in Carriers
  BY <1>2, CarrierType DEF Carries
<1>4. exists[d] # "no"
  BY <1>2 DEF IInv, PolledByItsJob
<1>5. CASE /\ told' = [told EXCEPT ![d] = IF c.transition = None THEN @ ELSE c.transition]
           /\ toldAlert' = [toldAlert EXCEPT ![d] = IF c.alert = None THEN @ ELSE c.alert]
           /\ batch' = told1 /\ phase' = next
           /\ UNCHANGED <<dropped, counts>>
  <2>1. phase' = [phase EXCEPT ![j] = IF batch'[j] = Empty THEN "rest" ELSE "after"]
    BY <1>5
  <2>2. /\ batch' \in [Jobs -> [Devices -> Items \cup {None}]] /\ batch'[j][d] = None
        /\ phase' \in [Jobs -> {"idle", "read", "commit", "after", "rest", "error", "released"}]
        /\ \A e \in Devices \ {d} : batch'[j][e] = batch[j][e]
        /\ \A k \in Jobs \ {j} : batch'[k] = batch[k]
        /\ Lifecycle' /\ BatchFollowsPhase' /\ PolledByItsJob'
    BY <1>1, <1>2, <1>5, <2>1, DoneWith
  <2> DEFINE t == IF c.transition = None THEN told[d] ELSE c.transition
             a == IF c.alert = None THEN toldAlert[d] ELSE c.alert
  <2>3. told \in [Devices -> {"on", "off", None}] /\ toldAlert \in [Devices -> Alerts]
    BY DEF IInv, TypeOK
  <2>4. t \in {"on", "off", None} /\ a \in Alerts
    BY <1>3, <2>3 DEF Carriers
  <2>5. told' = [told EXCEPT ![d] = t] /\ toldAlert' = [toldAlert EXCEPT ![d] = a]
    BY <1>5, <2>3
  <2> HIDE DEF t, a
  <2>6. /\ told' \in [Devices -> {"on", "off", None}] /\ toldAlert' \in [Devices -> Alerts]
        /\ told'[d] = t /\ toldAlert'[d] = a
        /\ \A e \in Devices \ {d} : told'[e] = told[e] /\ toldAlert'[e] = toldAlert[e]
    BY <2>3, <2>4, <2>5
  <2>7. UNCHANGED <<dropped, changes, edits, faults>>
    BY <1>5 DEF counts
  <2>8. TypeOK'
    BY <1>1, <2>2, <2>6, <2>7 DEF IInv, TypeOK
  <2>9. DevicesSound'
    BY <1>1, <1>4, <2>6 DEF IInv, DevicesSound, RecordSound
  <2>10. Consistent(d)'
    <3> SUFFICES ASSUME exists[d] = "yes", d \notin redriven \cup dropped
                 PROVE  Consistent(d)'
      BY <1>1, <2>7 DEF Consistent
    <3>1. Carried(d, c)
      BY <1>3 DEF IInv, Consistent
    <3>2. Heard(rec[d], t, a) /\ Written(rec[d], Loaded(series[d]))
      BY <1>2, <3>1 DEF Carried, t, a
    <3>3. \A k \in Jobs : ~Carries(k, d)'
      BY <1>2, <2>2, OneCarrier DEF Carries
    <3> QED BY <1>1, <2>6, <3>2, <3>3 DEF Consistent
  <2>11. \A e \in Devices : Consistent(e)'
    BY <1>1, <2>2, <2>6, <2>7, <2>10, DoneWithOthers
  <2> QED BY <2>2, <2>8, <2>9, <2>11 DEF IInv
<1>6. CASE /\ Fault /\ dropped' = dropped \cup {d}
           /\ batch' = told1 /\ phase' = next
           /\ UNCHANGED <<told, toldAlert>>
  <2>1. phase' = [phase EXCEPT ![j] = IF batch'[j] = Empty THEN "rest" ELSE "after"]
    BY <1>6
  <2>2. /\ batch' \in [Jobs -> [Devices -> Items \cup {None}]] /\ batch'[j][d] = None
        /\ phase' \in [Jobs -> {"idle", "read", "commit", "after", "rest", "error", "released"}]
        /\ \A e \in Devices \ {d} : batch'[j][e] = batch[j][e]
        /\ \A k \in Jobs \ {j} : batch'[k] = batch[k]
        /\ Lifecycle' /\ BatchFollowsPhase' /\ PolledByItsJob'
    BY <1>1, <1>2, <1>6, <2>1, DoneWith
  <2>3. faults' \in 0..MaxFaults /\ UNCHANGED <<changes, edits>>
    BY <1>6, FaultEffect
  <2>4. TypeOK'
    BY <1>1, <1>6, <2>2, <2>3 DEF IInv, TypeOK
  <2>5. DevicesSound'
    BY <1>1, <1>6 DEF IInv, DevicesSound, RecordSound
  <2>6. Consistent(d)'
    BY <1>6 DEF Consistent
  <2>7. \A e \in Devices : Consistent(e)'
    BY <1>1, <1>6, <2>2, <2>6, DoneWithOthers
  <2> QED BY <2>2, <2>4, <2>5, <2>7 DEF IInv
<1>7. CASE Abandon(j) /\ UNCHANGED <<told, toldAlert>>
  BY <1>1, <1>2, <1>7, AbandonIInv DEF record, process
<1> QED BY <1>5, <1>6, <1>7 DEF Tell

----------------------------------------------------------------------------
\* Theorems

LEMMA NextIInv == IInv /\ [Next]_vars => IInv'
<1> SUFFICES ASSUME IInv, [Next]_vars PROVE IInv'
  OBVIOUS
<1>1. CASE UNCHANGED vars
  BY <1>1, StutterIInv
<1>2. CASE MigrateStrip \/ Start \/ Stop \/ LoopEnds \/ StopReturns \/ Crash
  BY <1>2, MigrateStripIInv, LifeIInv, CrashIInv
<1>3. CASE \E j \in Jobs : Dispatch(j) \/ Worker(j)
  <2>1. PICK j \in Jobs : Dispatch(j) \/ Worker(j)
    BY <1>3
  <2>2. CASE Dispatch(j)
    BY <2>2, DispatchIInv
  <2>3. CASE Release(j) \/ RecordResult(j)
    BY <2>3, ReleaseIInv
  <2>4. CASE CheckStop(j)
    BY <2>4, CheckStopIInv
  <2>5. CASE Commit(j)
    BY <2>5, CommitIInv
  <2>6. CASE \E d \in Devices : Read(j, d) \/ AppendHistory(j, d) \/ Tell(j, d)
    BY <2>6, ReadIInv, AppendHistoryIInv, TellIInv
  <2> QED BY <2>1, <2>2, <2>3, <2>4, <2>5, <2>6 DEF Worker
<1>4. CASE \E d \in Devices : MigrateSave(d) \/ UpdateDevice(d) \/ DeleteDevice(d) \/ DeleteHistory(d) \/ Change(d)
  BY <1>4, MigrateSaveIInv, UpdateDeviceIInv, DeleteDeviceIInv, DeleteHistoryIInv, ChangeIInv
<1>5. CASE \E d \in Devices, driver \in Drivers : CreateDevice(d, driver)
  BY <1>5, CreateDeviceIInv
<1> QED BY <1>1, <1>2, <1>3, <1>4, <1>5 DEF Next

\* The invariant holds in every reachable state, whatever is scheduled.
THEOREM Invariant == Spec => []IInv
BY InitIInv, NextIInv, PTL DEF Spec

\* The records, series, batches and notifications keep their types; a series never
\* outgrows ONLINE_MAX.
THEOREM TypeCorrect == Spec => []TypeOK
<1>1. IInv => TypeOK
  BY DEF IInv
<1> QED BY Invariant, <1>1, PTL

LEMMA QuietIsWritten ==
  ASSUME IInv, NEW d \in Devices \ (redriven \cup dropped), exists[d] = "yes", ~InFlight(d)
  PROVE  Heard(rec[d], told[d], toldAlert[d]) /\ Written(rec[d], Loaded(series[d]))
<1>1. \A j \in Jobs : ~Carries(j, d)
  BY DEF InFlight, Carries
<1> QED BY <1>1 DEF IInv, Consistent

LEMMA SourcesAgreeInv == IInv => SourcesAgree
<1> SUFFICES ASSUME IInv, NEW d \in Devices \ (redriven \cup dropped), exists[d] = "yes", ~InFlight(d)
             PROVE  /\ rec[d].confirmed # None =>
                         series[d] \notin {None, <<>>} /\ series[d][Len(series[d])] = rec[d].online
                    /\ \/ told[d] = rec[d].confirmed
                       \/ told[d] = None /\ (rec[d].confirmed = "off" => OFFLINE_AFTER = 1)
                    /\ rec[d].alertState # None => toldAlert[d] = rec[d].alertState
  BY DEF SourcesAgree
<1>1. Heard(rec[d], told[d], toldAlert[d]) /\ Written(rec[d], Loaded(series[d]))
  BY QuietIsWritten
<1>2. ASSUME rec[d].confirmed # None
      PROVE  series[d] \notin {None, <<>>} /\ series[d][Len(series[d])] = rec[d].online
  <2>1. Len(Loaded(series[d])) > 0 /\ Loaded(series[d])[Len(Loaded(series[d]))] = rec[d].online
    BY <1>1, <1>2 DEF Written
  <2>2. ~(Len(<<>>) > 0)
    OBVIOUS
  <2>3. series[d] # None
    BY <2>1, <2>2 DEF Loaded
  <2>4. Loaded(series[d]) = series[d]
    BY <2>3 DEF Loaded
  <2> QED BY <2>1, <2>2, <2>3, <2>4
<1> QED BY <1>1, <1>2 DEF Heard

LEMMA OfflineIsDebouncedInv == IInv => OfflineIsDebounced
<1> SUFFICES ASSUME IInv, NEW d \in Devices \ (redriven \cup dropped), exists[d] = "yes", ~InFlight(d),
                    rec[d].confirmed = "off"
             PROVE  EndsInMisses(series[d], Lesser(OFFLINE_AFTER, ONLINE_MAX))
  BY DEF OfflineIsDebounced
<1>1. Written(rec[d], Loaded(series[d])) /\ rec[d].miss = OFFLINE_AFTER
  BY QuietIsWritten DEF IInv, DevicesSound, RecordSound
<1>2. series[d] # None
  <2>1. rec[d].confirmed # None
    BY NoneAssumption
  <2> QED BY <2>1, <1>1, SourcesAgreeInv DEF SourcesAgree
<1>3. Loaded(series[d]) = series[d]
  BY <1>2 DEF Loaded
<1> QED BY <1>1, <1>3 DEF Written

\* The document, the history file and the notifications agree on every Device of
\* which nothing is in flight or was dropped, for any number of Devices, edits,
\* restarts and failures between the commit of a poll and what follows it.
THEOREM Agreement == Spec => []SourcesAgree
BY Invariant, SourcesAgreeInv, PTL

\* A Device is confirmed offline only behind OFFLINE_AFTER misses in a row.
THEOREM Debounced == Spec => []OfflineIsDebounced
BY Invariant, OfflineIsDebouncedInv, PTL

----------------------------------------------------------------------------
\* The accounts that notifications go to (module Accounts)

\* What the document is, one part at a time.
DocOK(d) ==
  /\ d \in [users : {d.users}, sessions : SUBSET Sessions, subs : SUBSET Subscriptions,
            notes : SUBSET Notes, owners : SUBSET Nat]
  /\ d.users \in [Users(d) -> UserRecords] /\ Users(d) \subseteq Nat

\* A transaction that writes one of the other parts leaves the users alone.
LEMMA SessionsWritten ==
  ASSUME NEW d, DocOK(d), NEW S \in SUBSET Sessions
  PROVE  LET w == [d EXCEPT !.sessions = S]
         IN  DocOK(w) /\ w.users = d.users /\ w.subs = d.subs /\ w.notes = d.notes
BY DEF DocOK, Users

LEMMA SubsWritten ==
  ASSUME NEW d, DocOK(d), NEW S \in SUBSET Subscriptions
  PROVE  LET w == [d EXCEPT !.subs = S]
         IN  DocOK(w) /\ w.users = d.users /\ w.subs = S /\ w.notes = d.notes
BY DEF DocOK, Users

LEMMA NotesWritten ==
  ASSUME NEW d, DocOK(d), NEW S \in SUBSET Notes
  PROVE  LET w == [d EXCEPT !.notes = S]
         IN  DocOK(w) /\ w.users = d.users /\ w.subs = d.subs /\ w.notes = S
BY DEF DocOK, Users

LEMMA OwnersWritten ==
  ASSUME NEW d, DocOK(d), NEW S \in SUBSET Nat
  PROVE  LET w == [d EXCEPT !.owners = S]
         IN  DocOK(w) /\ w.users = d.users /\ w.subs = d.subs /\ w.notes = d.notes
BY DEF DocOK, Users

LEMMA UsersWritten ==
  ASSUME NEW d, DocOK(d), NEW U \in SUBSET Nat, NEW f \in [U -> UserRecords]
  PROVE  LET w == [d EXCEPT !.users = f]
         IN  DocOK(w) /\ w.users = f /\ Users(w) = U /\ w.subs = d.subs /\ w.notes = d.notes
BY DEF DocOK, Users

\* A step that writes the document and the requests, and leaves the keys alone.
LEMMA DocStep ==
  ASSUME AccountsInv, DocOK(doc'), UNCHANGED <<browser, vapid>>,
         IsFiniteSet(Users(doc')), \A u \in Users(doc') : u <= ids', AdminRemains',
         Users(doc) # {} => Users(doc') # {},
         \A s \in doc'.subs : s.key = vapid.pub /\ s.key # None,
         IsFiniteSet(doc'.notes),
         reqs' \subseteq HttpRequests,
         \A r \in reqs' : r.op = "create_user" => Users(doc') # {},
         \A r \in reqs' : r.op = "subscribe" => browser[r.endpoint] # None,
         ids' \in Nat, clock' \in Nat, events' \in 0..MaxEvents, crashes' \in 0..MaxCrashes
  PROVE  AccountsInv'
  <1>1. AccountsTypeOK'
    BY DEF AccountsInv, AccountsTypeOK, DocOK
  <1>2. AccountsGrow'
    BY DEF AccountsGrow
  <1>3. KeysGiven'
    BY DEF AccountsInv, KeysGiven
  <1> QED
    BY <1>1, <1>2, <1>3 DEF AccountsInv

\* The same when the users keep their roles, no subscription is added, and what is asked
\* is asked by a user, and to subscribe only by a browser that has a key.
LEMMA QuietStep ==
  ASSUME AccountsInv, DocOK(doc'), UNCHANGED <<browser, vapid>>,
         Users(doc') = Users(doc), Admins(doc') = Admins(doc), doc'.subs \subseteq doc.subs,
         IsFiniteSet(doc'.notes), ids' \in Nat, ids' >= ids,
         \A r \in reqs' : \/ r \in reqs
                          \/ /\ r \in HttpRequests /\ (r.op = "create_user" => Users(doc) # {})
                             /\ r.op = "subscribe" => browser[r.endpoint] # None,
         clock' \in Nat, events' \in 0..MaxEvents, crashes' \in 0..MaxCrashes
  PROVE  AccountsInv'
  <1>1. /\ AccountsTypeOK /\ IsFiniteSet(Users(doc)) /\ \A u \in Users(doc) : u <= ids
        /\ \A r \in reqs : r.op = "create_user" => Users(doc) # {}
        /\ \A r \in reqs : r.op = "subscribe" => browser[r.endpoint] # None
        /\ \A s \in doc.subs : s.key = vapid.pub /\ s.key # None
        /\ AdminRemains
    BY DEF AccountsInv, AccountsGrow, KeysGiven
  <1>2. reqs \subseteq HttpRequests /\ ids \in Nat /\ Users(doc) \subseteq Nat
    BY <1>1 DEF AccountsTypeOK
  <1>3. \A u \in Users(doc') : u <= ids'
    BY <1>1, <1>2
  <1>4. AdminRemains'
    BY <1>1 DEF AdminRemains
  <1>5. reqs' \subseteq HttpRequests
    BY <1>2
  <1>6. \A r \in reqs' : r.op = "create_user" => Users(doc') # {}
    BY <1>1
  <1>7. \A r \in reqs' : r.op = "subscribe" => browser[r.endpoint] # None
    BY <1>1
  <1> QED
    BY <1>1, <1>3, <1>4, <1>5, <1>6, <1>7, DocStep

\* What the invariant says of the document and of the counters.
LEMMA InvFacts ==
  ASSUME AccountsInv
  PROVE  /\ DocOK(doc) /\ IsFiniteSet(doc.notes) /\ IsFiniteSet(Users(doc)) /\ reqs \subseteq HttpRequests
         /\ ids \in Nat /\ clock \in Nat /\ events \in 0..MaxEvents /\ crashes \in 0..MaxCrashes
         /\ browser \in [Endpoints -> Keys]
BY DEF AccountsInv, AccountsTypeOK, AccountsGrow, DocOK

\* A request that is accepted is one event more.
LEMMA AcceptEffect ==
  ASSUME AccountsInv, NEW r, Accept(r)
  PROVE  events' \in 0..MaxEvents /\ reqs' = reqs \cup {r}
  <1>1. events \in 0..MaxEvents /\ events < MaxEvents /\ events' = events + 1 /\ MaxEvents \in Nat
    BY InvFacts, AccountsAssumption DEF Accept
  <1> QED
    BY <1>1 DEF Accept

\* The fields of requests, by what is asked.
LEMMA RequestFields ==
  ASSUME NEW r \in HttpRequests
  PROVE  /\ r.op \in {"session", "own", "disown", "read_all", "set_password", "logout", "subscribe", "unsubscribe",
                      "key", "read", "dismiss"} => r.user \in Nat
         /\ r.op = "set_password" => r.current \in {0, 1}
         /\ r.op \in {"subscribe", "unsubscribe", "key"} => r.endpoint \in Endpoints
         /\ r.op = "create_user" => r.name \in Names /\ r.role \in Roles
         /\ r.op \in {"persist", "push"} => r.to \subseteq Nat
         /\ r.op = "prune" => r.endpoints \subseteq Endpoints
BY DEF HttpRequests, UserRequests, NoticeRequests

\* Logins and requests change no more than what waits to be done.
LEMMA LoginStep ==
  ASSUME AccountsInv, Login \/ News
  PROVE  AccountsInv'
  <1>1. PICK r : Accept(r) /\ r \in HttpRequests /\ r.op \in {"session", "persist"}
    <2>1. CASE Login
      <3>1. PICK u \in Users(doc) : Accept([op |-> "session", user |-> u])
        BY <2>1 DEF Login
      <3>2. [op |-> "session", user |-> u] \in HttpRequests
        BY InvFacts DEF HttpRequests, UserRequests, DocOK
      <3> QED
        BY <3>1, <3>2
    <2>2. CASE News
      <3>1. PICK owner \in doc.owners : Accept([op |-> "persist", to |-> {owner} \cup Admins(doc)])
        BY <2>2 DEF News
      <3>2. {owner} \cup Admins(doc) \subseteq Nat
        BY InvFacts DEF DocOK, Admins
      <3>3. [op |-> "persist", to |-> {owner} \cup Admins(doc)] \in HttpRequests
        BY <3>2 DEF HttpRequests, NoticeRequests
      <3> QED
        BY <3>1, <3>3
    <2> QED
      BY <2>1, <2>2
  <1>2. UNCHANGED <<doc, browser, vapid, clock, ids, crashes>>
    BY DEF Login, News
  <1>3. events' \in 0..MaxEvents /\ reqs' = reqs \cup {r}
    BY <1>1, AcceptEffect
  <1>4. /\ DocOK(doc') /\ Users(doc') = Users(doc) /\ Admins(doc') = Admins(doc)
        /\ doc'.subs \subseteq doc.subs /\ IsFiniteSet(doc'.notes)
    BY <1>2, InvFacts
  <1> QED
    BY <1>1, <1>2, <1>3, <1>4, InvFacts, QuietStep

\* What an authenticated request may ask for is well formed.
LEMMA AskedTyped ==
  ASSUME AccountsInv, NEW u \in Users(doc), NEW session \in Nat, NEW r \in Asked(u, session)
  PROVE  /\ r \in HttpRequests
         /\ r.op = "create_user" => Users(doc) # {}
         /\ r.op = "subscribe" => browser[r.endpoint] # None
  <1>1. u \in Nat /\ Users(doc) \subseteq Nat
    BY InvFacts DEF DocOK
  <1>2. \A n \in doc.notes : n.id \in Nat
    BY InvFacts DEF DocOK, Notes
  <1>3. CASE r \in [op : {"set_password"}, user : {u}, session : {session}, current : {0, 1}]
    BY <1>1, <1>3 DEF HttpRequests, UserRequests
  <1>4. CASE r \in [op : {"logout"}, user : {u}, session : {session}]
    BY <1>1, <1>4 DEF HttpRequests, UserRequests
  <1>5. CASE r \in [op : {"own", "disown", "read_all"}, user : {u}]
    BY <1>1, <1>5 DEF HttpRequests, UserRequests
  <1>6. CASE r \in [op : {"subscribe"}, user : {u}, endpoint : {e \in Endpoints : browser[e] # None}]
    BY <1>1, <1>6 DEF HttpRequests, UserRequests
  <1>7. CASE r \in [op : {"unsubscribe", "key"}, user : {u}, endpoint : Endpoints]
    BY <1>1, <1>7 DEF HttpRequests, UserRequests
  <1>8. CASE r \in [op : {"read", "dismiss"}, user : {u}, note : {n.id : n \in {m \in doc.notes : m.user = u}}]
    BY <1>1, <1>2, <1>8 DEF HttpRequests, UserRequests
  <1>9. CASE r \in [op : {"persist"}, to : {{u}}]
    BY <1>1, <1>9 DEF HttpRequests, NoticeRequests
  <1>10. CASE r \in [op : {"create_user"}, name : Names, role : {"admin", "member"}]
    BY <1>10 DEF HttpRequests, UserRequests, Roles
  <1>11. CASE r \in [op : {"delete_user"}, target : Users(doc) \ {u}]
    BY <1>1, <1>11 DEF HttpRequests, UserRequests
  <1> QED
    BY <1>3, <1>4, <1>5, <1>6, <1>7, <1>8, <1>9, <1>10, <1>11 DEF Asked

LEMMA AuthenticateStep ==
  ASSUME AccountsInv, Authenticate
  PROVE  AccountsInv'
  <1>1. PICK s \in doc.sessions : s.user \in Users(doc) /\ \E r \in Asked(s.user, s.id) : Accept(r)
    BY DEF Authenticate
  <1>2. PICK r \in Asked(s.user, s.id) : Accept(r)
    BY <1>1
  <1>3. s.id \in Nat
    BY InvFacts DEF DocOK, Sessions
  <1>4. r \in HttpRequests /\ (r.op = "create_user" => Users(doc) # {})
        /\ (r.op = "subscribe" => browser[r.endpoint] # None)
    BY <1>1, <1>3, AskedTyped
  <1>5. UNCHANGED <<doc, browser, vapid, clock, ids, crashes>>
    BY DEF Authenticate
  <1>6. events' \in 0..MaxEvents /\ reqs' = reqs \cup {r}
    BY <1>2, AcceptEffect
  <1>7. /\ DocOK(doc') /\ Users(doc') = Users(doc) /\ Admins(doc') = Admins(doc)
        /\ doc'.subs \subseteq doc.subs /\ IsFiniteSet(doc'.notes)
    BY <1>5, InvFacts
  <1> QED
    BY <1>4, <1>5, <1>6, <1>7, InvFacts, QuietStep

\* The document keeps its users, its notes and what it has of subscriptions.
KeepsUsers(d) == d.users = doc.users /\ d.subs \subseteq doc.subs /\ IsFiniteSet(d.notes)

\* A transaction of a request that keeps the users keeps the invariant.
LEMMA TransactionStep ==
  ASSUME AccountsInv, DocOK(doc'), KeepsUsers(doc'), reqs' \subseteq reqs, ids' \in {ids, ids + 1},
         events' \in 0..MaxEvents, UNCHANGED <<browser, vapid, clock, crashes>>
  PROVE  AccountsInv'
  <1>1. Users(doc') = Users(doc) /\ Admins(doc') = Admins(doc)
    BY DEF KeepsUsers, Users, Admins
  <1>2. ids' \in Nat /\ ids' >= ids
    BY InvFacts
  <1> QED
    BY <1>1, <1>2, InvFacts, QuietStep DEF KeepsUsers

\* Sessions come and go.
LEMMA SessionStep ==
  ASSUME AccountsInv, StoreSession \/ Expire \/ PresentExpired \/ Logout
  PROVE  AccountsInv'
  <1>1. DocOK(doc) /\ doc.sessions \subseteq Sessions /\ IsFiniteSet(doc.notes) /\ ids \in Nat /\ events \in 0..MaxEvents
        /\ MaxEvents \in Nat
    BY InvFacts, AccountsAssumption DEF DocOK
  <1>2. CASE StoreSession
    <2>1. PICK r \in reqs : /\ r.op = "session" /\ doc' = LoggedIn(doc, r.user, ids + 1) /\ reqs' = reqs \ {r}
                            /\ UNCHANGED <<browser, vapid, clock, events, crashes>> /\ ids' = ids + 1
      BY <1>2 DEF StoreSession, On
    <2> DEFINE S == {s \in doc.sessions : ~s.expired} \cup {[id |-> ids + 1, user |-> r.user, expired |-> FALSE]}
    <2>2. r.user \in Nat
      BY <2>1, InvFacts, RequestFields
    <2>3. Newest(S, MaxSessions) \in SUBSET Sessions
      <3>1. S \subseteq Sessions
        <4>1. [id |-> ids + 1, user |-> r.user, expired |-> FALSE] \in Sessions
          BY <1>1, <2>2 DEF Sessions
        <4> QED
          BY <1>1, <4>1
      <3> QED
        BY <3>1 DEF Newest
    <2>4. doc' = [doc EXCEPT !.sessions = Newest(S, MaxSessions)]
      BY <2>1 DEF LoggedIn
    <2> HIDE DEF S
    <2>5. DocOK(doc') /\ KeepsUsers(doc')
      BY <1>1, <2>3, <2>4, SessionsWritten DEF KeepsUsers
    <2> QED
      BY <1>1, <2>1, <2>5, TransactionStep
  <1>3. CASE Expire
    <2>1. PICK s \in doc.sessions : doc' = [doc EXCEPT !.sessions = (@ \ {s}) \cup {[s EXCEPT !.expired = TRUE]}]
      BY <1>3 DEF Expire
    <2>2. (doc.sessions \ {s}) \cup {[s EXCEPT !.expired = TRUE]} \in SUBSET Sessions
      BY <1>1 DEF Sessions
    <2>3. DocOK(doc') /\ KeepsUsers(doc')
      BY <1>1, <2>1, <2>2, SessionsWritten DEF KeepsUsers
    <2>4. reqs' = reqs /\ ids' = ids /\ events' \in 0..MaxEvents /\ UNCHANGED <<browser, vapid, clock, crashes>>
      BY <1>1, <1>3 DEF Expire
    <2> QED
      BY <2>3, <2>4, TransactionStep
  <1>4. CASE PresentExpired
    <2>1. PICK s \in doc.sessions : doc' = [doc EXCEPT !.sessions = {q \in @ : q.id # s.id}]
      BY <1>4 DEF PresentExpired, LoggedOut
    <2>2. DocOK(doc') /\ KeepsUsers(doc')
      <3> DEFINE S == {q \in doc.sessions : q.id # s.id}
      <3>1. S \in SUBSET Sessions /\ doc' = [doc EXCEPT !.sessions = S]
        BY <1>1, <2>1
      <3> HIDE DEF S
      <3> QED
        BY <1>1, <3>1, SessionsWritten DEF KeepsUsers
    <2>3. UNCHANGED <<reqs, browser, vapid, clock, ids, events, crashes>>
      BY <1>4 DEF PresentExpired
    <2> QED
      BY <1>1, <2>2, <2>3, TransactionStep
  <1>5. CASE Logout
    <2>1. PICK r \in reqs : /\ doc' = [doc EXCEPT !.sessions = {s \in @ : s.id # r.session}] /\ reqs' = reqs \ {r}
                            /\ UNCHANGED <<browser, vapid, clock, events, crashes, ids>>
      BY <1>5 DEF Logout, On, LoggedOut
    <2>2. DocOK(doc') /\ KeepsUsers(doc')
      <3> DEFINE S == {q \in doc.sessions : q.id # r.session}
      <3>1. S \in SUBSET Sessions /\ doc' = [doc EXCEPT !.sessions = S]
        BY <1>1, <2>1
      <3> HIDE DEF S
      <3> QED
        BY <1>1, <3>1, SessionsWritten DEF KeepsUsers
    <2> QED
      BY <1>1, <2>1, <2>2, TransactionStep
  <1> QED
    BY <1>2, <1>3, <1>4, <1>5

\* Devices and dashboards change hands, and endpoints go.
LEMMA OwnStep ==
  ASSUME AccountsInv, Own \/ Disown \/ Unsubscribe \/ Prune
  PROVE  AccountsInv'
  <1>1. DocOK(doc) /\ doc.owners \subseteq Nat /\ doc.subs \subseteq Subscriptions /\ IsFiniteSet(doc.notes)
        /\ events \in 0..MaxEvents
    BY InvFacts DEF DocOK
  <1>2. CASE Own
    <2>1. PICK r \in reqs : /\ r.op = "own" /\ doc' = [doc EXCEPT !.owners = @ \cup {r.user}] /\ reqs' = reqs \ {r}
                            /\ UNCHANGED <<browser, vapid, clock, events, crashes, ids>>
      BY <1>2 DEF Own, On
    <2>2. doc.owners \cup {r.user} \in SUBSET Nat
      BY <1>1, <2>1, InvFacts, RequestFields
    <2>3. DocOK(doc') /\ KeepsUsers(doc')
      BY <1>1, <2>1, <2>2, OwnersWritten DEF KeepsUsers
    <2> QED
      BY <1>1, <2>1, <2>3, TransactionStep
  <1>3. CASE Disown
    <2>1. PICK r \in reqs : /\ doc' = [doc EXCEPT !.owners = @ \ {r.user}] /\ reqs' = reqs \ {r}
                            /\ UNCHANGED <<browser, vapid, clock, events, crashes, ids>>
      BY <1>3 DEF Disown, On
    <2>2. DocOK(doc') /\ KeepsUsers(doc')
      BY <1>1, <2>1, OwnersWritten DEF KeepsUsers
    <2> QED
      BY <1>1, <2>1, <2>2, TransactionStep
  <1>4. CASE Unsubscribe \/ Prune
    <2>1. PICK r \in reqs, S \in SUBSET doc.subs :
            doc' = [doc EXCEPT !.subs = S] /\ reqs' = reqs \ {r}
            /\ UNCHANGED <<browser, vapid, clock, events, crashes, ids>>
      <3>1. CASE Unsubscribe
        <4>1. PICK r \in reqs : /\ doc' = [doc EXCEPT !.subs = {s \in @ : ~(s.endpoint = r.endpoint /\ s.user = r.user)}]
                                /\ reqs' = reqs \ {r} /\ UNCHANGED <<browser, vapid, clock, events, crashes, ids>>
          BY <3>1 DEF Unsubscribe, On, Unsubscribed
        <4> WITNESS r \in reqs, {s \in doc.subs : ~(s.endpoint = r.endpoint /\ s.user = r.user)} \in SUBSET doc.subs
        <4> QED
          BY <4>1
      <3>2. CASE Prune
        <4>1. PICK r \in reqs : /\ doc' = [doc EXCEPT !.subs = {s \in @ : s.endpoint \notin r.endpoints}]
                                /\ reqs' = reqs \ {r} /\ UNCHANGED <<browser, vapid, clock, events, crashes, ids>>
          BY <3>2 DEF Prune, On, Removed
        <4> WITNESS r \in reqs, {s \in doc.subs : s.endpoint \notin r.endpoints} \in SUBSET doc.subs
        <4> QED
          BY <4>1
      <3> QED
        BY <1>4, <3>1, <3>2
    <2>2. S \in SUBSET Subscriptions
      BY <1>1
    <2>3. DocOK(doc') /\ KeepsUsers(doc')
      BY <1>1, <2>1, <2>2, SubsWritten DEF KeepsUsers
    <2> QED
      BY <1>1, <2>1, <2>3, TransactionStep
  <1> QED
    BY <1>2, <1>3, <1>4

\* The notes after some were marked.
MarkedNotes(N, chosen, status) == {IF n \in chosen THEN [n EXCEPT !.status = status] ELSE n : n \in N}

\* A note that is marked keeps its id, and there are no more notes than before.
LEMMA MarkedFacts ==
  ASSUME NEW N \in SUBSET Notes, IsFiniteSet(N), NEW chosen, NEW status \in {"read", "dismissed"}
  PROVE  LET M == MarkedNotes(N, chosen, status)
         IN  M \in SUBSET Notes /\ IsFiniteSet(M) /\ {n.id : n \in N} \subseteq {m.id : m \in M}
  <1> DEFINE f(n) == IF n \in chosen THEN [n EXCEPT !.status = status] ELSE n
             M == {f(n) : n \in N}
  <1>1. \A n \in N : f(n) \in Notes /\ f(n).id = n.id
    BY DEF Notes
  <1>2. M \in SUBSET Notes /\ {n.id : n \in N} \subseteq {m.id : m \in M}
    BY <1>1
  <1>3. IsFiniteSet(M)
    <2> DEFINE g == [n \in N |-> f(n)]
    <2>1. g \in Surjection(N, M)
      BY DEF Surjection
    <2> HIDE DEF M, g
    <2> QED
      BY <2>1, FS_Surjection
  <1>4. MarkedNotes(N, chosen, status) = M
    BY DEF MarkedNotes
  <1> QED
    BY <1>2, <1>3, <1>4

\* What is left to show of a step that marks notes.
NotesMarked(M) ==
  /\ doc' = [doc EXCEPT !.notes = M] /\ IsFiniteSet(M) /\ {n.id : n \in doc.notes} \subseteq {m.id : m \in M}
  /\ reqs' \subseteq reqs /\ UNCHANGED <<browser, vapid, clock, events, crashes, ids>>

LEMMA MarkedEffect ==
  ASSUME AccountsInv, NEW chosen, NEW status \in {"read", "dismissed"}, doc' = Marked(doc, chosen, status),
         reqs' \subseteq reqs, UNCHANGED <<browser, vapid, clock, events, crashes, ids>>
  PROVE  \E M \in SUBSET Notes : NotesMarked(M)
  <1>1. doc.notes \in SUBSET Notes /\ IsFiniteSet(doc.notes)
    BY InvFacts DEF DocOK
  <1>2. doc' = [doc EXCEPT !.notes = MarkedNotes(doc.notes, chosen, status)]
    BY DEF Marked, MarkedNotes
  <1> QED
    BY <1>1, <1>2, MarkedFacts DEF NotesMarked

\* Marking is one transaction on the notes.
LEMMA MarkingEffect ==
  ASSUME AccountsInv, MarkRead \/ Dismiss \/ MarkAllRead
  PROVE  \E M \in SUBSET Notes : NotesMarked(M)
  <1>1. CASE MarkRead
    <2>1. PICK r \in reqs : /\ doc' = Marked(doc, {n \in Unread(r.user) : n.id = r.note}, "read")
                            /\ reqs' \subseteq reqs /\ UNCHANGED <<browser, vapid, clock, events, crashes, ids>>
      BY <1>1 DEF MarkRead, On
    <2> QED
      BY <2>1, MarkedEffect
  <1>2. CASE Dismiss
    <2>1. PICK r \in reqs : /\ doc' = Marked(doc, {n \in doc.notes : n.user = r.user /\ n.id = r.note}, "dismissed")
                            /\ reqs' \subseteq reqs /\ UNCHANGED <<browser, vapid, clock, events, crashes, ids>>
      BY <1>2 DEF Dismiss, On
    <2> QED
      BY <2>1, MarkedEffect
  <1>3. CASE MarkAllRead
    <2>1. PICK r \in reqs : /\ doc' = Marked(doc, Unread(r.user), "read")
                            /\ reqs' \subseteq reqs /\ UNCHANGED <<browser, vapid, clock, events, crashes, ids>>
      BY <1>3 DEF MarkAllRead, On
    <2> QED
      BY <2>1, MarkedEffect
  <1> QED
    BY <1>1, <1>2, <1>3

LEMMA MarkingStep ==
  ASSUME AccountsInv, MarkRead \/ Dismiss \/ MarkAllRead
  PROVE  AccountsInv'
  <1>1. PICK M \in SUBSET Notes :
          /\ doc' = [doc EXCEPT !.notes = M] /\ IsFiniteSet(M)
          /\ reqs' \subseteq reqs /\ UNCHANGED <<browser, vapid, clock, events, crashes, ids>>
    BY MarkingEffect DEF NotesMarked
  <1>2. DocOK(doc') /\ KeepsUsers(doc')
    BY <1>1, InvFacts, NotesWritten DEF KeepsUsers
  <1>3. events' \in 0..MaxEvents
    BY <1>1, InvFacts
  <1> QED
    BY <1>1, <1>2, <1>3, TransactionStep

\* A new password leaves the account and its role.
LEMMA PasswordStep ==
  ASSUME AccountsInv, SetPassword
  PROVE  AccountsInv'
  <1>1. PICK r \in reqs : /\ r.op = "set_password" /\ doc' = PasswordSet(doc, r.user, r.current, r.session)
                          /\ reqs' = reqs \ {r} /\ UNCHANGED <<browser, vapid, clock, events, crashes, ids>>
    BY DEF SetPassword, On
  <1>2. DocOK(doc) /\ events \in 0..MaxEvents /\ r.current \in {0, 1}
    BY <1>1, InvFacts, RequestFields
  <1>3. CASE doc' = doc
    <2>1. DocOK(doc') /\ KeepsUsers(doc')
      BY <1>2, <1>3, InvFacts DEF KeepsUsers
    <2> QED
      BY <1>1, <1>2, <2>1, TransactionStep
  <1>4. CASE doc' # doc
    <2> DEFINE f == [doc.users EXCEPT ![r.user].pass = 1 - r.current]
               S == {s \in doc.sessions : s.user # r.user \/ s.id = r.session}
               d == [doc EXCEPT !.users = f]
    <2>1. r.user \in Users(doc) /\ doc' = [d EXCEPT !.sessions = S]
      BY <1>1, <1>4 DEF PasswordSet
    <2>2. doc.users \in [Users(doc) -> UserRecords] /\ Users(doc) \in SUBSET Nat /\ doc.sessions \subseteq Sessions
      BY <1>2 DEF DocOK
    <2>3. 1 - r.current \in {0, 1}
      BY <1>2
    <2>4. f \in [Users(doc) -> UserRecords] /\ \A u \in Users(doc) : f[u].role = doc.users[u].role
      BY <2>2, <2>3 DEF UserRecords
    <2>5. S \in SUBSET Sessions
      BY <2>2
    <2> HIDE DEF f, S
    <2>6. DocOK(d) /\ d.users = f /\ Users(d) = Users(doc) /\ d.subs = doc.subs /\ d.notes = doc.notes
      BY <1>2, <2>2, <2>4, UsersWritten
    <2> HIDE DEF d
    <2>7. DocOK(doc') /\ doc'.users = f /\ Users(doc') = Users(doc) /\ doc'.subs = doc.subs /\ doc'.notes = doc.notes
      BY <2>1, <2>5, <2>6, SessionsWritten DEF Users
    <2>8. Admins(doc') = Admins(doc)
      BY <2>4, <2>7 DEF Admins
    <2>9. IsFiniteSet(doc'.notes) /\ ids' \in Nat /\ ids' >= ids /\ clock' \in Nat /\ crashes' \in 0..MaxCrashes
          /\ events' \in 0..MaxEvents
      BY <1>1, <2>7, InvFacts
    <2> QED
      BY <1>1, <2>7, <2>8, <2>9, QuietStep
  <1> QED
    BY <1>3, <1>4

\* What create_user makes: nothing, or an account with a new id.
LEMMA CreatedFacts ==
  ASSUME AccountsInv, NEW name \in Names, NEW role \in Roles
  PROVE  LET w == Created(doc, name, role)
         IN  /\ DocOK(w) /\ w.subs = doc.subs /\ w.notes = doc.notes /\ IsFiniteSet(Users(w))
             /\ \A u \in Users(w) : u <= ids + 1
             /\ Admins(doc) \subseteq Admins(w) /\ Users(doc) \subseteq Users(w)
             /\ (Users(doc) = {} => Users(w) # {} /\ (role = "admin" => Admins(w) # {}))
  <1> DEFINE w == Created(doc, name, role)
  <1>1. DocOK(doc) /\ ids \in Nat /\ IsFiniteSet(Users(doc)) /\ Users(doc) \subseteq Nat
        /\ \A u \in Users(doc) : u <= ids
    BY InvFacts DEF AccountsInv, AccountsGrow, DocOK
  <1>2. CASE \E u \in Users(doc) : doc.users[u].name = name
    <2>1. w = doc
      BY <1>2 DEF Created
    <2>2. \A u \in Users(doc) : u <= ids + 1
      BY <1>1
    <2> QED
      BY <1>1, <1>2, <2>1, <2>2
  <1>3. CASE ~\E u \in Users(doc) : doc.users[u].name = name
    <2> DEFINE U == Users(doc) \cup {ids + 1}
               f == [u \in U |-> IF u = ids + 1 THEN [name |-> name, role |-> role, pass |-> 0] ELSE doc.users[u]]
    <2>1. w = [doc EXCEPT !.users = f]
      BY <1>3 DEF Created
    <2>2. U \in SUBSET Nat /\ IsFiniteSet(U) /\ \A u \in U : u <= ids + 1
      BY <1>1, FS_AddElement
    <2>3. ids + 1 \notin Users(doc)
      BY <1>1
    <2>4. f \in [U -> UserRecords]
      <3>1. [name |-> name, role |-> role, pass |-> 0] \in UserRecords
        BY DEF UserRecords
      <3>2. \A u \in Users(doc) : doc.users[u] \in UserRecords
        BY <1>1 DEF DocOK
      <3> QED
        BY <3>1, <3>2
    <2>5. (\A u \in Users(doc) : f[u] = doc.users[u]) /\ f[ids + 1].role = role
      BY <2>3
    <2>6. Users(doc) \subseteq U /\ ids + 1 \in U
      OBVIOUS
    <2> HIDE DEF U, f
    <2>7. DocOK(w) /\ w.users = f /\ Users(w) = U /\ w.subs = doc.subs /\ w.notes = doc.notes
      BY <1>1, <2>1, <2>2, <2>4, UsersWritten
    <2>8. Admins(doc) \subseteq Admins(w) /\ (role = "admin" => ids + 1 \in Admins(w))
      BY <2>5, <2>6, <2>7 DEF Admins
    <2> QED
      BY <2>2, <2>6, <2>7, <2>8
  <1> QED
    BY <1>2, <1>3

\* What the invariant says of requests and subscriptions.
LEMMA InvRequests ==
  ASSUME AccountsInv
  PROVE  /\ \A r \in reqs : r.op = "create_user" => Users(doc) # {}
         /\ \A r \in reqs : r.op = "subscribe" => browser[r.endpoint] # None
         /\ \A s \in doc.subs : s.key = vapid.pub /\ s.key # None
         /\ AdminRemains /\ \A u \in Users(doc) : u <= ids
BY DEF AccountsInv, AccountsGrow, KeysGiven

\* The first account is an administrator.
LEMMA SetupStep ==
  ASSUME AccountsInv, Setup
  PROVE  AccountsInv'
  <1>1. PICK name \in Names :
          /\ Users(doc) = {} /\ doc' = Created(doc, name, "admin") /\ ids' = ids + 1
          /\ Accept([op |-> "session", user |-> ids + 1]) /\ UNCHANGED <<browser, vapid, clock, crashes>>
    BY DEF Setup
  <1>2. ids \in Nat /\ ids' \in Nat /\ clock' \in Nat /\ crashes' \in 0..MaxCrashes /\ reqs \subseteq HttpRequests
    BY <1>1, InvFacts
  <1> DEFINE r == [op |-> "session", user |-> ids + 1]
  <1>3. r \in HttpRequests /\ r.op = "session"
    BY <1>2 DEF HttpRequests, UserRequests
  <1>4. events' \in 0..MaxEvents /\ reqs' = reqs \cup {r}
    BY <1>1, AcceptEffect
  <1> HIDE DEF r
  <1>5. "admin" \in Roles
    BY DEF Roles
  <1>6. /\ DocOK(doc') /\ doc'.subs = doc.subs /\ doc'.notes = doc.notes /\ IsFiniteSet(Users(doc'))
        /\ (\A u \in Users(doc') : u <= ids') /\ Users(doc') # {} /\ Admins(doc') # {}
    BY <1>1, <1>5, CreatedFacts
  <1>7. AdminRemains'
    BY <1>6 DEF AdminRemains
  <1>8. IsFiniteSet(doc'.notes) /\ \A s \in doc'.subs : s.key = vapid.pub /\ s.key # None
    BY <1>6, InvFacts, InvRequests
  <1>9. reqs' \subseteq HttpRequests /\ (\A q \in reqs' : q.op = "subscribe" => browser[q.endpoint] # None)
    BY <1>2, <1>3, <1>4, InvRequests
  <1> QED
    BY <1>1, <1>2, <1>4, <1>6, <1>7, <1>8, <1>9, DocStep

LEMMA CreateUserStep ==
  ASSUME AccountsInv, CreateUser
  PROVE  AccountsInv'
  <1>1. PICK r \in reqs : /\ r.op = "create_user" /\ doc' = Created(doc, r.name, r.role) /\ reqs' = reqs \ {r}
                          /\ UNCHANGED <<browser, vapid, clock, events, crashes>> /\ ids' = ids + 1
    BY DEF CreateUser, On
  <1>2. r.name \in Names /\ r.role \in Roles
    BY <1>1, InvFacts, RequestFields
  <1>3. Users(doc) # {} /\ Admins(doc) # {}
    BY <1>1, InvRequests DEF AdminRemains
  <1>4. /\ DocOK(doc') /\ doc'.subs = doc.subs /\ doc'.notes = doc.notes /\ IsFiniteSet(Users(doc'))
        /\ (\A u \in Users(doc') : u <= ids') /\ Users(doc') # {} /\ Admins(doc') # {}
    BY <1>1, <1>2, <1>3, CreatedFacts
  <1>5. AdminRemains'
    BY <1>4 DEF AdminRemains
  <1>6. IsFiniteSet(doc'.notes) /\ \A s \in doc'.subs : s.key = vapid.pub /\ s.key # None
    BY <1>4, InvFacts, InvRequests
  <1>7. reqs' \subseteq HttpRequests /\ (\A q \in reqs' : q.op = "subscribe" => browser[q.endpoint] # None)
    BY <1>1, InvFacts, InvRequests
  <1>8. ids' \in Nat /\ clock' \in Nat /\ events' \in 0..MaxEvents /\ crashes' \in 0..MaxCrashes
    BY <1>1, InvFacts
  <1> QED
    BY <1>1, <1>4, <1>5, <1>6, <1>7, <1>8, DocStep

\* What delete_user leaves: all but the account, or the account when it owns something,
\* and always an administrator.
LEMMA DeletedFacts ==
  ASSUME AccountsInv, NEW uid
  PROVE  LET w == Deleted(doc, uid)
         IN  /\ DocOK(w) /\ w.subs \subseteq doc.subs /\ w.notes = doc.notes /\ Users(w) \subseteq Users(doc)
             /\ (Users(doc) # {} => Admins(w) # {}) /\ Admins(w) \subseteq Users(w)
  <1> DEFINE w == Deleted(doc, uid)
  <1>1. DocOK(doc) /\ (Users(doc) # {} => Admins(doc) # {}) /\ Admins(doc) \subseteq Users(doc)
    BY InvFacts, InvRequests DEF AdminRemains, Admins
  <1>2. CASE uid \notin Users(doc) \/ Admins(doc) = {uid}
    BY <1>1, <1>2 DEF Deleted
  <1>3. CASE uid \in Users(doc) /\ Admins(doc) # {uid}
    <2> DEFINE S == {s \in doc.sessions : s.user # uid}
               B == {s \in doc.subs : s.user # uid}
               d1 == [doc EXCEPT !.sessions = S]
               d2 == [d1 EXCEPT !.subs = B]
               U == Users(doc) \ {uid}
               f == [u \in U |-> doc.users[u]]
    <2>1. w = IF uid \in doc.owners THEN d2 ELSE [d2 EXCEPT !.users = f]
      BY <1>3 DEF Deleted
    <2>2. S \in SUBSET Sessions /\ B \in SUBSET Subscriptions /\ B \subseteq doc.subs /\ U \in SUBSET Nat /\ U \subseteq Users(doc)
      BY <1>1 DEF DocOK
    <2>3. f \in [U -> UserRecords] /\ \A u \in U : f[u] = doc.users[u]
      BY <1>1 DEF DocOK
    <2>4. PICK a \in Admins(doc) : a # uid
      BY <1>1, <1>3
    <2>5. a \in U /\ doc.users[a].role = "admin"
      BY <2>4 DEF Admins
    <2> HIDE DEF S, B, U, f
    <2>6. DocOK(d1) /\ d1.users = doc.users /\ d1.subs = doc.subs /\ d1.notes = doc.notes
      BY <1>1, <2>2, SessionsWritten
    <2> HIDE DEF d1
    <2>7. DocOK(d2) /\ d2.users = doc.users /\ d2.subs = B /\ d2.notes = doc.notes
      BY <2>2, <2>6, SubsWritten
    <2> HIDE DEF d2
    <2>8. CASE uid \in doc.owners
      <3>1. w = d2
        BY <2>1, <2>8
      <3>2. Users(w) = Users(doc) /\ Admins(w) = Admins(doc)
        BY <2>7, <3>1 DEF Users, Admins
      <3> QED
        BY <1>1, <2>2, <2>4, <2>7, <3>1, <3>2
    <2>9. CASE uid \notin doc.owners
      <3>1. w = [d2 EXCEPT !.users = f]
        BY <2>1, <2>9
      <3>2. DocOK(w) /\ w.users = f /\ Users(w) = U /\ w.subs = B /\ w.notes = doc.notes
        BY <2>2, <2>3, <2>7, <3>1, UsersWritten
      <3>3. a \in Admins(w) /\ Admins(w) \subseteq Users(w)
        BY <2>3, <2>5, <3>2 DEF Admins
      <3> QED
        BY <2>2, <3>2, <3>3
    <2> QED
      BY <2>8, <2>9
  <1> QED
    BY <1>2, <1>3

LEMMA DeleteUserStep ==
  ASSUME AccountsInv, DeleteUser
  PROVE  AccountsInv'
  <1>1. PICK r \in reqs : /\ doc' = Deleted(doc, r.target) /\ reqs' = reqs \ {r}
                          /\ UNCHANGED <<browser, vapid, clock, events, crashes, ids>>
    BY DEF DeleteUser, On
  <1>2. /\ DocOK(doc') /\ doc'.subs \subseteq doc.subs /\ doc'.notes = doc.notes /\ Users(doc') \subseteq Users(doc)
        /\ (Users(doc) # {} => Admins(doc') # {}) /\ Admins(doc') \subseteq Users(doc')
    BY <1>1, DeletedFacts
  <1>3. IsFiniteSet(Users(doc')) /\ \A u \in Users(doc') : u <= ids'
    BY <1>1, <1>2, InvFacts, InvRequests, FS_Subset
  <1>4. AdminRemains'
    BY <1>2 DEF AdminRemains
  <1>5. IsFiniteSet(doc'.notes) /\ \A s \in doc'.subs : s.key = vapid.pub /\ s.key # None
    BY <1>2, InvFacts, InvRequests
  <1>6. /\ reqs' \subseteq HttpRequests /\ (\A q \in reqs' : q.op = "subscribe" => browser[q.endpoint] # None)
        /\ (\A q \in reqs' : q.op = "create_user" => Users(doc') # {})
    BY <1>1, <1>2, InvFacts, InvRequests
  <1>7. ids' \in Nat /\ clock' \in Nat /\ events' \in 0..MaxEvents /\ crashes' \in 0..MaxCrashes
    BY <1>1, InvFacts
  <1>8. Users(doc) # {} => Users(doc') # {}
    BY <1>2
  <1> QED
    BY <1>1, <1>2, <1>3, <1>4, <1>5, <1>6, <1>7, <1>8, DocStep

\* A subscription is made with the key that the browser was given.
LEMMA SubscribeStep ==
  ASSUME AccountsInv, Subscribe
  PROVE  AccountsInv'
  <1>1. PICK r \in reqs :
          /\ r.op = "subscribe" /\ doc' = Subscribed(doc, r.user, r.endpoint, browser[r.endpoint], ids + 1)
          /\ reqs' = reqs \ {r} /\ UNCHANGED <<browser, vapid, clock, events, crashes>> /\ ids' = ids + 1
    BY DEF Subscribe, On
  <1>2. DocOK(doc) /\ ids \in Nat /\ r.user \in Nat /\ r.endpoint \in Endpoints
    BY <1>1, InvFacts, RequestFields
  <1>3. browser[r.endpoint] \in Keys /\ browser[r.endpoint] # None /\ browser[r.endpoint] = vapid.pub
    BY <1>1, <1>2, InvFacts, InvRequests DEF AccountsInv, KeysGiven
  <1> DEFINE others == {s \in doc.subs : s.endpoint # r.endpoint}
             owned == {s \in others : s.user = r.user}
             new == [id |-> ids + 1, endpoint |-> r.endpoint, user |-> r.user, key |-> browser[r.endpoint]]
             S == (others \ owned) \cup Newest(owned, MaxSubs - 1) \cup {new}
  <1>4. doc' = [doc EXCEPT !.subs = S]
    BY <1>1 DEF Subscribed
  <1>5. new \in Subscriptions /\ new.key = browser[r.endpoint]
    BY <1>2, <1>3 DEF Subscriptions
  <1>6. Newest(owned, MaxSubs - 1) \subseteq doc.subs
    BY DEF Newest
  <1>7. S \subseteq doc.subs \cup {new}
    <2> HIDE DEF new
    <2> QED
      BY <1>6
  <1> HIDE DEF S, new
  <1>8. S \in SUBSET Subscriptions
    BY <1>2, <1>5, <1>7 DEF DocOK
  <1>9. DocOK(doc') /\ doc'.users = doc.users /\ doc'.subs = S /\ doc'.notes = doc.notes
    BY <1>2, <1>4, <1>8, SubsWritten
  <1>10. Users(doc') = Users(doc) /\ Admins(doc') = Admins(doc)
    BY <1>9 DEF Users, Admins
  <1>11. AdminRemains'
    BY <1>10, InvRequests DEF AdminRemains
  <1>12. \A s \in doc'.subs : s.key = vapid.pub /\ s.key # None
    BY <1>3, <1>5, <1>7, <1>9, InvRequests
  <1>13. IsFiniteSet(Users(doc')) /\ IsFiniteSet(doc'.notes) /\ ids' \in Nat
    BY <1>1, <1>2, <1>9, <1>10, InvFacts
  <1>14. \A u \in Users(doc') : u <= ids'
    BY <1>1, <1>2, <1>10, InvRequests DEF DocOK
  <1>15. /\ reqs' \subseteq HttpRequests /\ (\A q \in reqs' : q.op = "subscribe" => browser[q.endpoint] # None)
         /\ (\A q \in reqs' : q.op = "create_user" => Users(doc') # {})
    BY <1>1, <1>10, InvFacts, InvRequests
  <1>16. clock' \in Nat /\ events' \in 0..MaxEvents /\ crashes' \in 0..MaxCrashes
    BY <1>1, InvFacts
  <1> QED
    BY <1>1, <1>9, <1>10, <1>11, <1>12, <1>13, <1>14, <1>15, <1>16, DocStep

\* The notes that notify makes are notes, and as few as their recipients.
LEMMA NewNotesFacts ==
  ASSUME NEW to \in SUBSET Nat, IsFiniteSet(to), NEW now \in Nat, ids \in Nat
  PROVE  NewNotes(to, now) \in SUBSET Notes /\ IsFiniteSet(NewNotes(to, now))
  <1> DEFINE f(u) == [id |-> ids + u, user |-> u, at |-> now, status |-> "unread"]
             g == [u \in to |-> f(u)]
             N == {f(u) : u \in to}
  <1>1. NewNotes(to, now) = N
    BY DEF NewNotes
  <1>2. N \in SUBSET Notes
    BY DEF Notes
  <1>3. g \in Surjection(to, N)
    BY DEF Surjection
  <1> HIDE DEF g, N
  <1> QED
    BY <1>1, <1>2, <1>3, FS_Surjection

\* notify writes the notes, and then the messages are to be pushed.
LEMMA PersistEffect ==
  ASSUME AccountsInv, Persist
  PROVE  /\ \E to \in SUBSET Users(doc), now \in Nat : \E gone : Noted(to, now, gone)
         /\ clock' \in Nat /\ ids' \in Nat /\ ids' >= ids
         /\ \A q \in reqs' : q \in reqs \/ (q \in HttpRequests /\ q.op = "push")
         /\ UNCHANGED <<browser, vapid, events, crashes>>
  <1>1. PICK r \in reqs, now \in {clock, clock + 1} :
          /\ r.op = "persist"
          /\ LET to == Recipients(doc, r.to)
             IN \E gone \in [to -> SUBSET (doc.notes \cup NewNotes(to, now))] : Noted(to, now, gone)
          /\ clock' = now
          /\ \E top \in Users(doc) \cup {0} : (\A u \in Users(doc) : u <= top) /\ ids' = ids + top
          /\ reqs' = (reqs \ {r}) \cup {[op |-> "push", to |-> r.to]}
          /\ UNCHANGED <<browser, vapid, events, crashes>>
    BY DEF Persist
  <1>2. clock \in Nat /\ ids \in Nat /\ Users(doc) \subseteq Nat /\ r.to \subseteq Nat /\ now \in Nat
    BY <1>1, InvFacts, RequestFields DEF DocOK
  <1>3. ids' \in Nat /\ ids' >= ids /\ clock' \in Nat
    BY <1>1, <1>2
  <1>4. [op |-> "push", to |-> r.to] \in HttpRequests
    BY <1>2 DEF HttpRequests, NoticeRequests
  <1>5. \E to \in SUBSET Users(doc), m \in Nat : \E gone : Noted(to, m, gone)
    <2> DEFINE to == Recipients(doc, r.to)
    <2>1. to \in SUBSET Users(doc)
      BY DEF Recipients
    <2>2. \E gone : Noted(to, now, gone)
      BY <1>1
    <2> HIDE DEF to
    <2> QED
      BY <1>2, <2>1, <2>2
  <1> QED
    BY <1>1, <1>3, <1>4, <1>5

LEMMA PersistStep ==
  ASSUME AccountsInv, Persist
  PROVE  AccountsInv'
  <1>0. PICK to \in SUBSET Users(doc), now \in Nat : \E gone : Noted(to, now, gone)
    BY PersistEffect
  <1>1. PICK gone : Noted(to, now, gone)
    BY <1>0
  <1>2. DocOK(doc) /\ ids \in Nat /\ to \in SUBSET Nat /\ IsFiniteSet(to)
    BY InvFacts, FS_Subset DEF DocOK
  <1> DEFINE notes == doc.notes \cup NewNotes(to, now)
             S == notes \ UNION {gone[u] : u \in to}
  <1>3. NewNotes(to, now) \in SUBSET Notes /\ IsFiniteSet(NewNotes(to, now))
    BY <1>2, NewNotesFacts
  <1>4. notes \in SUBSET Notes /\ IsFiniteSet(notes)
    BY <1>2, <1>3, InvFacts, FS_Union DEF DocOK
  <1>5. doc' = [doc EXCEPT !.notes = S]
    BY <1>1 DEF Noted
  <1>6. S \subseteq notes
    OBVIOUS
  <1> HIDE DEF S, notes
  <1>7. S \in SUBSET Notes /\ IsFiniteSet(S)
    BY <1>4, <1>6, FS_Subset
  <1>8. DocOK(doc') /\ doc'.users = doc.users /\ doc'.subs = doc.subs /\ doc'.notes = S
    BY <1>2, <1>5, <1>7, NotesWritten
  <1>9. Users(doc') = Users(doc) /\ Admins(doc') = Admins(doc)
    BY <1>8 DEF Users, Admins
  <1>10. UNCHANGED <<browser, vapid>> /\ ids' \in Nat /\ ids' >= ids /\ clock' \in Nat
         /\ events' \in 0..MaxEvents /\ crashes' \in 0..MaxCrashes
    BY PersistEffect, InvFacts
  <1>11. \A q \in reqs' : \/ q \in reqs
                          \/ /\ q \in HttpRequests /\ (q.op = "create_user" => Users(doc) # {})
                             /\ q.op = "subscribe" => browser[q.endpoint] # None
    BY PersistEffect
  <1> QED
    BY <1>7, <1>8, <1>9, <1>10, <1>11, QuietStep

\* The messages go out, or the pair is not whole.
LEMMA PushStep ==
  ASSUME AccountsInv, Push \/ Incomplete
  PROVE  AccountsInv'
  <1>1. UNCHANGED <<doc, browser, vapid, clock, ids, events, crashes>>
    BY DEF Push, Incomplete
  <1>2. \A q \in reqs' : q \in reqs \/ (q \in HttpRequests /\ q.op = "prune")
    <2>1. CASE Push
      <3>1. PICK r \in reqs : \E dead \in SUBSET {s.endpoint : s \in {q \in doc.subs : q.user \in r.to}} :
               reqs' = (reqs \ {r}) \cup IF dead = {} THEN {} ELSE {[op |-> "prune", endpoints |-> dead]}
        BY <2>1 DEF Push
      <3>2. PICK dead \in SUBSET {s.endpoint : s \in {q \in doc.subs : q.user \in r.to}} :
               reqs' = (reqs \ {r}) \cup IF dead = {} THEN {} ELSE {[op |-> "prune", endpoints |-> dead]}
        BY <3>1
      <3>3. \A s \in doc.subs : s.endpoint \in Endpoints
        BY InvFacts DEF DocOK, Subscriptions
      <3>4. dead \in SUBSET Endpoints
        BY <3>3
      <3>5. [op |-> "prune", endpoints |-> dead] \in HttpRequests
        BY <3>4 DEF HttpRequests, NoticeRequests
      <3> QED
        BY <3>2, <3>5
    <2>2. CASE Incomplete
      BY <2>2 DEF Incomplete
    <2> QED
      BY <2>1, <2>2
  <1>3. /\ DocOK(doc') /\ Users(doc') = Users(doc) /\ Admins(doc') = Admins(doc)
        /\ doc'.subs \subseteq doc.subs /\ IsFiniteSet(doc'.notes)
    BY <1>1, InvFacts
  <1>4. ids' \in Nat /\ ids' >= ids /\ clock' \in Nat /\ events' \in 0..MaxEvents /\ crashes' \in 0..MaxCrashes
    BY <1>1, InvFacts
  <1> QED
    BY <1>1, <1>2, <1>3, <1>4, QuietStep

\* A step that leaves the document: what it must keep of the keys and the requests.
LEMMA KeyStep ==
  ASSUME AccountsInv, UNCHANGED <<doc, clock, ids, events>>, reqs' \subseteq reqs, crashes' \in 0..MaxCrashes,
         browser' \in [Endpoints -> Keys],
         vapid' \in [priv : Keys, pub : Keys, keys : 0..MaxKeys, by : HttpRequests \cup {None}],
         KeysGiven'
  PROVE  AccountsInv'
  <1>1. AccountsTypeOK'
    BY DEF AccountsInv, AccountsTypeOK, Users
  <1>2. AccountsGrow' /\ AdminRemains' /\ IsFiniteSet(doc'.notes)
    BY DEF AccountsInv, AccountsGrow, AdminRemains, Users, Admins
  <1> QED
    BY <1>1, <1>2 DEF AccountsInv

\* The pair is published, one file after the other, when no browser has a key.
LEMMA PublishStep ==
  ASSUME AccountsInv, PublishPrivate \/ PublishPublic
  PROVE  AccountsInv'
  <1>1. /\ vapid \in [priv : Keys, pub : Keys, keys : 0..MaxKeys, by : HttpRequests \cup {None}]
        /\ browser \in [Endpoints -> Keys] /\ MaxKeys \in Nat /\ reqs \subseteq HttpRequests /\ crashes \in 0..MaxCrashes
    BY AccountsAssumption DEF AccountsInv, AccountsTypeOK
  <1>2. KeysGiven
    BY DEF AccountsInv
  <1>3. CASE PublishPrivate
    <2>1. PICK r \in reqs : /\ vapid.by = None /\ vapid.priv = None /\ vapid.pub = None /\ vapid.keys < MaxKeys
                            /\ vapid' = [vapid EXCEPT !.priv = vapid.keys + 1, !.keys = @ + 1, !.by = r]
                            /\ UNCHANGED <<doc, reqs, browser, clock, ids, events, crashes>>
      BY <1>3 DEF PublishPrivate, Needs
    <2>2. vapid.keys + 1 \in 1..MaxKeys /\ vapid.keys + 1 \in 0..MaxKeys /\ vapid.keys + 1 \in Keys
      BY <1>1, <2>1 DEF Keys
    <2>3. vapid' \in [priv : Keys, pub : Keys, keys : 0..MaxKeys, by : HttpRequests \cup {None}] /\ vapid'.pub = None
      BY <1>1, <2>1, <2>2
    <2>4. KeysGiven'
      BY <1>2, <2>1, <2>3 DEF KeysGiven
    <2> QED
      BY <1>1, <2>1, <2>3, <2>4, KeyStep
  <1>4. CASE PublishPublic
    <2>1. vapid.by # None /\ UNCHANGED <<doc, browser, clock, ids, events, crashes>>
      BY <1>4 DEF PublishPublic
    <2>2. /\ vapid.pub = None /\ (\A e \in Endpoints : browser[e] = None) /\ doc.subs = {}
          /\ \A r \in reqs : r.op # "subscribe" \/ browser[r.endpoint] # None
      BY <1>2, <2>1 DEF KeysGiven
    <2>3. None \in Keys
      BY DEF Keys
    <2>4. CASE vapid' = [vapid EXCEPT !.pub = vapid.priv, !.by = None] /\ UNCHANGED reqs
      <3>1. vapid' \in [priv : Keys, pub : Keys, keys : 0..MaxKeys, by : HttpRequests \cup {None}]
            /\ vapid'.pub = vapid'.priv /\ vapid'.by = None
        BY <1>1, <2>4
      <3>2. KeysGiven'
        BY <1>2, <2>1, <2>2, <2>4, <3>1 DEF KeysGiven
      <3> QED
        BY <1>1, <2>1, <2>4, <3>1, <3>2, KeyStep
    <2>5. CASE vapid' = [vapid EXCEPT !.priv = None, !.by = None] /\ reqs' = reqs \ {vapid.by}
      <3>1. vapid' \in [priv : Keys, pub : Keys, keys : 0..MaxKeys, by : HttpRequests \cup {None}]
            /\ vapid'.pub = None /\ vapid'.by = None
        BY <1>1, <2>2, <2>3, <2>5
      <3>2. KeysGiven'
        BY <1>2, <2>1, <2>2, <2>5, <3>1 DEF KeysGiven
      <3> QED
        BY <1>1, <2>1, <2>5, <3>1, <3>2, KeyStep
    <2> QED
      BY <1>4, <2>4, <2>5 DEF PublishPublic
  <1> QED
    BY <1>3, <1>4

\* public_key hands out the public key of a whole pair.
LEMMA GiveKeyStep ==
  ASSUME AccountsInv, GiveKey
  PROVE  AccountsInv'
  <1>1. PICK r \in reqs : r.op = "key" /\ browser' = [browser EXCEPT ![r.endpoint] = vapid.pub] /\ reqs' = reqs \ {r}
    BY DEF GiveKey
  <1>2. Whole /\ UNCHANGED <<doc, vapid, clock, ids, events, crashes>>
    BY DEF GiveKey
  <1>3. /\ vapid \in [priv : Keys, pub : Keys, keys : 0..MaxKeys, by : HttpRequests \cup {None}]
        /\ browser \in [Endpoints -> Keys] /\ reqs \subseteq HttpRequests /\ crashes \in 0..MaxCrashes /\ KeysGiven
    BY DEF AccountsInv, AccountsTypeOK
  <1>4. r.endpoint \in Endpoints
    BY <1>1, <1>3, RequestFields
  <1>5. browser' \in [Endpoints -> Keys] /\ vapid.pub # None
    BY <1>1, <1>2, <1>3, <1>4 DEF Whole
  <1>6. \A e \in Endpoints : browser'[e] = vapid.pub \/ browser'[e] = browser[e]
    BY <1>1, <1>3, <1>4
  <1>7. KeysGiven'
    <2>1. \A e \in Endpoints : browser'[e] # None => browser'[e] = vapid.pub
      BY <1>3, <1>6 DEF KeysGiven
    <2>2. \A q \in reqs : q.op = "subscribe" => q.endpoint \in Endpoints
      BY <1>3, RequestFields
    <2>3. \A q \in reqs' : q.op = "subscribe" => browser'[q.endpoint] # None
      BY <1>1, <1>3, <1>5, <1>6, <2>2 DEF KeysGiven
    <2> QED
      BY <1>2, <1>3, <2>1, <2>3 DEF KeysGiven
  <1> QED
    BY <1>1, <1>2, <1>3, <1>5, <1>7, KeyStep

LEMMA ProcessStopsStep ==
  ASSUME AccountsInv, ProcessStops
  PROVE  AccountsInv'
  <1>1. /\ crashes < MaxCrashes /\ crashes' = crashes + 1 /\ reqs' = {} /\ vapid' = [vapid EXCEPT !.by = None]
        /\ UNCHANGED <<doc, browser, clock, ids, events>>
    BY DEF ProcessStops
  <1>2. /\ vapid \in [priv : Keys, pub : Keys, keys : 0..MaxKeys, by : HttpRequests \cup {None}]
        /\ browser \in [Endpoints -> Keys] /\ crashes \in 0..MaxCrashes /\ KeysGiven /\ MaxCrashes \in Nat
    BY AccountsAssumption DEF AccountsInv, AccountsTypeOK
  <1>3. crashes' \in 0..MaxCrashes
    BY <1>1, <1>2
  <1>4. vapid' \in [priv : Keys, pub : Keys, keys : 0..MaxKeys, by : HttpRequests \cup {None}]
        /\ vapid'.pub = vapid.pub /\ vapid'.priv = vapid.priv /\ vapid'.by = None
    BY <1>1, <1>2
  <1>5. KeysGiven'
    BY <1>1, <1>2, <1>4 DEF KeysGiven
  <1> QED
    BY <1>1, <1>2, <1>3, <1>4, <1>5, KeyStep

LEMMA AccountsInitInv == AccountsInit => AccountsInv
  <1> SUFFICES ASSUME AccountsInit PROVE AccountsInv
    OBVIOUS
  <1>1. /\ reqs = {} /\ browser = [e \in Endpoints |-> None] /\ ids = Cardinality(Users(doc))
        /\ vapid = [priv |-> None, pub |-> None, keys |-> 0, by |-> None]
        /\ clock = 0 /\ events = 0 /\ crashes = 0
    BY DEF AccountsInit
  <1>2. MaxEvents \in Nat /\ MaxCrashes \in Nat /\ MaxKeys \in Nat /\ First \in Names /\ Second \in Names
    BY AccountsAssumption DEF First, Second
  <1>3. /\ DocOK(doc) /\ IsFiniteSet(Users(doc)) /\ (\A u \in Users(doc) : u <= ids) /\ ids \in Nat
        /\ AdminRemains /\ doc.subs = {} /\ doc.notes = {}
    <2>1. CASE doc = DefaultDoc
      <3>1. Users(doc) = {} /\ doc.subs = {} /\ doc.notes = {}
        BY <2>1 DEF DefaultDoc, Users
      <3>2. ids = 0 /\ IsFiniteSet(Users(doc))
        BY <1>1, <3>1, FS_EmptySet
      <3>3. DocOK(doc)
        BY <2>1, <3>1 DEF DocOK, DefaultDoc, Users
      <3> QED
        BY <3>1, <3>2, <3>3 DEF AdminRemains
    <2>2. ASSUME NEW role \in {"admin", "member"}, doc = Used(role)
          PROVE  /\ DocOK(doc) /\ IsFiniteSet(Users(doc)) /\ (\A u \in Users(doc) : u <= ids) /\ ids \in Nat
                 /\ AdminRemains /\ doc.subs = {} /\ doc.notes = {}
      <3> DEFINE f == [u \in 1..2 |-> IF u = 1 THEN [name |-> First, role |-> "admin", pass |-> 0]
                                      ELSE [name |-> Second, role |-> role, pass |-> 0]]
                 S == {[id |-> u, user |-> u, expired |-> FALSE] : u \in 1..2}
      <3>1. doc = [users |-> f, sessions |-> S, subs |-> {}, notes |-> {}, owners |-> {}]
        BY <2>2 DEF Used, DefaultDoc
      <3>2. f \in [1..2 -> UserRecords] /\ f[1].role = "admin"
        BY <1>2 DEF UserRecords, Roles
      <3>3. S \subseteq Sessions
        <4>1. \A u \in 1..2 : [id |-> u, user |-> u, expired |-> FALSE] \in Sessions
          BY DEF Sessions
        <4> QED
          BY <4>1
      <3> HIDE DEF f, S
      <3>4. doc.users = f /\ Users(doc) = 1..2 /\ doc.subs = {} /\ doc.notes = {}
        BY <3>1, <3>2 DEF Users
      <3>5. IsFiniteSet(1..2) /\ ids = 2
        <4>1. IsFiniteSet({1}) /\ Cardinality({1}) = 1
          BY FS_Singleton
        <4>2. IsFiniteSet({1} \cup {2}) /\ Cardinality({1} \cup {2}) = 2
          BY <4>1, FS_AddElement
        <4>3. 1..2 = {1} \cup {2}
          OBVIOUS
        <4> QED
          BY <1>1, <3>4, <4>2, <4>3
      <3>6. DocOK(doc)
        BY <3>1, <3>2, <3>3, <3>4 DEF DocOK
      <3>7. 1 \in Admins(doc)
        BY <3>2, <3>4 DEF Admins
      <3> QED
        BY <3>4, <3>5, <3>6, <3>7 DEF AdminRemains
    <2> QED
      BY <2>1, <2>2 DEF AccountsInit
  <1>4. None \in Keys /\ browser \in [Endpoints -> Keys]
    BY <1>1 DEF Keys
  <1>5. AccountsTypeOK
    BY <1>1, <1>2, <1>3, <1>4 DEF AccountsTypeOK, DocOK
  <1>6. AccountsGrow
    BY <1>1, <1>3 DEF AccountsGrow
  <1>7. KeysGiven
    BY <1>1, <1>3 DEF KeysGiven
  <1>8. IsFiniteSet(doc.notes)
    BY <1>3, FS_EmptySet
  <1> QED
    BY <1>3, <1>5, <1>6, <1>7, <1>8 DEF AccountsInv

\* The invariant holds in every behaviour of the accounts.
LEMMA AccountsInvariant == AccountsSpec => []AccountsInv
  <1>1. AccountsInv /\ [AccountsNext]_accountsVars => AccountsInv'
    <2> SUFFICES ASSUME AccountsInv, [AccountsNext]_accountsVars PROVE AccountsInv'
      OBVIOUS
    <2>1. CASE UNCHANGED accountsVars
      BY <2>1 DEF accountsVars, AccountsInv, AccountsTypeOK, AccountsGrow, AdminRemains, KeysGiven, Users, Admins
    <2>2. CASE AccountsNext
      BY <2>2, SetupStep, LoginStep, SessionStep, AuthenticateStep, CreateUserStep, DeleteUserStep, PasswordStep,
         OwnStep, SubscribeStep, MarkingStep, PersistStep, PublishStep, PushStep, GiveKeyStep, ProcessStopsStep
         DEF AccountsNext
    <2> QED
      BY <2>1, <2>2
  <1> QED
    BY <1>1, AccountsInitInv, PTL DEF AccountsSpec

\* The document, the requests under way, the files of the key pair and the counters keep
\* their types.
THEOREM AccountsTypeCorrect == AccountsSpec => []AccountsTypeOK
  <1>1. AccountsInv => AccountsTypeOK
    BY DEF AccountsInv
  <1> QED
    BY <1>1, AccountsInvariant, PTL

\* delete_user and create_initial_admin: whatever requests overlap, an instance that has
\* been set up has an administrator.
THEOREM AdminStays == AccountsSpec => []AdminRemains
  <1>1. AccountsInv => AdminRemains
    BY DEF AccountsInv
  <1> QED
    BY <1>1, AccountsInvariant, PTL

\* _publish_vapid_pair, public_key and subscribe: every subscription was made with the
\* key of the pair that signs, however the publication of the pair ended.
THEOREM SubscriptionsStayValid == AccountsSpec => []SubscriptionsWork
  <1>1. AccountsInv => SubscriptionsWork
    BY DEF AccountsInv, KeysGiven, SubscriptionsWork
  <1> QED
    BY <1>1, AccountsInvariant, PTL

\* Only notify removes notes.
LEMMA NotesStay ==
  ASSUME AccountsInv, AccountsNext, ~Persist
  PROVE  {n.id : n \in doc.notes} \subseteq {m.id : m \in doc'.notes}
  <1>1. DocOK(doc)
    BY InvFacts
  <1>2. CASE MarkRead \/ Dismiss \/ MarkAllRead
    <2>1. PICK M \in SUBSET Notes : doc' = [doc EXCEPT !.notes = M] /\ {n.id : n \in doc.notes} \subseteq {m.id : m \in M}
      BY <1>2, MarkingEffect DEF NotesMarked
    <2>2. doc'.notes = M
      BY <1>1, <2>1, NotesWritten
    <2> QED
      BY <2>1, <2>2
  <1>3. CASE Login \/ Authenticate \/ News \/ PublishPrivate \/ PublishPublic \/ Incomplete \/ GiveKey \/ Push \/ ProcessStops
    BY <1>3 DEF Login, Authenticate, News, PublishPrivate, PublishPublic, Incomplete, GiveKey, Push, ProcessStops
  <1>4. CASE Setup
    BY <1>1, <1>4 DEF Setup, Created, DocOK
  <1>5. CASE CreateUser
    BY <1>1, <1>5 DEF CreateUser, On, Created, DocOK
  <1>6. CASE DeleteUser
    BY <1>1, <1>6 DEF DeleteUser, On, Deleted, DocOK
  <1>7. CASE SetPassword
    BY <1>1, <1>7 DEF SetPassword, On, PasswordSet, DocOK
  <1>8. CASE StoreSession
    BY <1>1, <1>8 DEF StoreSession, On, LoggedIn, DocOK
  <1>9. CASE Expire
    BY <1>1, <1>9 DEF Expire, DocOK
  <1>10. CASE PresentExpired
    BY <1>1, <1>10 DEF PresentExpired, LoggedOut, DocOK
  <1>11. CASE Logout
    BY <1>1, <1>11 DEF Logout, On, LoggedOut, DocOK
  <1>12. CASE Own \/ Disown
    BY <1>1, <1>12 DEF Own, Disown, On, DocOK
  <1>13. CASE Subscribe
    BY <1>1, <1>13 DEF Subscribe, On, Subscribed, DocOK
  <1>14. CASE Unsubscribe
    BY <1>1, <1>14 DEF Unsubscribe, On, Unsubscribed, DocOK
  <1>15. CASE Prune
    BY <1>1, <1>15 DEF Prune, On, Removed, DocOK
  <1> QED
    BY <1>2, <1>3, <1>4, <1>5, <1>6, <1>7, <1>8, <1>9, <1>10, <1>11, <1>12, <1>13, <1>14, <1>15 DEF AccountsNext

\* Where an unread note has to go, what stays of its user is as many unread ones that are
\* not older as the limit allows.
LEMMA OverflowFacts ==
  ASSUME NEW notes \in SUBSET Notes, IsFiniteSet(notes), NEW u, NEW gone \in Overflow(notes, u),
         NEW n \in gone, n.status = "unread"
  PROVE  LET left == {m \in notes : m.user = u} \ gone
         IN  /\ gone \subseteq {m \in notes : m.user = u} /\ Cardinality(left) = MaxNotes
             /\ \A m \in left : m.status = "unread" /\ m.at >= n.at
  <1> DEFINE owned == {m \in notes : m.user = u}
             left == owned \ gone
  <1>1. /\ gone \subseteq owned
        /\ Cardinality(gone) = (IF Cardinality(owned) > MaxNotes THEN Cardinality(owned) - MaxNotes ELSE 0)
        /\ \A m \in gone, k \in left : ~Older(k, m)
    BY DEF Overflow
  <1>2. MaxNotes \in Nat
    BY AccountsAssumption
  <1>3. IsFiniteSet(owned) /\ IsFiniteSet(gone) /\ Cardinality(owned) \in Nat /\ Cardinality(gone) \in Nat
    BY <1>1, FS_Subset, FS_CardinalityType
  <1>4. Cardinality(gone) # 0
    BY <1>3, FS_EmptySet
  <1>5. Cardinality(left) = Cardinality(owned) - Cardinality(gone)
    <2>1. owned \cap gone = gone
      BY <1>1
    <2> HIDE DEF owned
    <2> QED
      BY <1>3, <2>1, FS_Difference
  <1>6. Cardinality(left) = MaxNotes
    BY <1>1, <1>2, <1>3, <1>4, <1>5
  <1>7. \A m \in left : m.status = "unread" /\ m.at >= n.at
    <2> SUFFICES ASSUME NEW m \in left PROVE m.status = "unread" /\ m.at >= n.at
      OBVIOUS
    <2>1. m \in Notes /\ n \in Notes
      BY <1>1
    <2>2. ~Older(m, n)
      BY <1>1
    <2>3. m.status = "unread"
      BY <2>2 DEF Older
    <2>4. ~(m.at < n.at)
      BY <2>2, <2>3 DEF Older
    <2> QED
      BY <2>1, <2>3, <2>4 DEF Notes
  <1> QED
    BY <1>1, <1>6, <1>7

\* _persist_notifications: a note nobody has read disappears only when its user has as
\* many unread ones that are not older as the limit allows, whatever is marked or sent
\* meanwhile.
THEOREM UnreadKept == AccountsSpec => UnreadIsKept
  <1>1. AccountsInv /\ [AccountsNext]_accountsVars =>
          [\A n \in doc.notes :
             (n.status = "unread" /\ n.id \notin {m.id : m \in doc'.notes}) =>
               Cardinality({m \in doc'.notes : m.user = n.user /\ m.status = "unread" /\ m.at >= n.at}) >= MaxNotes]_accountsVars
    <2> SUFFICES ASSUME AccountsInv, AccountsNext, NEW n \in doc.notes, n.status = "unread",
                        n.id \notin {m.id : m \in doc'.notes}
                 PROVE  Cardinality({m \in doc'.notes : m.user = n.user /\ m.status = "unread" /\ m.at >= n.at}) >= MaxNotes
      BY DEF accountsVars
    <2>1. Persist
      BY NotesStay
    <2>0. PICK to \in SUBSET Users(doc), now \in Nat : \E gone : Noted(to, now, gone)
      BY <2>1, PersistEffect
    <2>2. PICK gone : Noted(to, now, gone)
      BY <2>0
    <2>3. DocOK(doc) /\ ids \in Nat /\ to \in SUBSET Nat /\ IsFiniteSet(to)
      BY InvFacts, FS_Subset DEF DocOK
    <2> DEFINE notes == doc.notes \cup NewNotes(to, now)
    <2>4. NewNotes(to, now) \in SUBSET Notes /\ IsFiniteSet(NewNotes(to, now))
      BY <2>3, NewNotesFacts
    <2>5. notes \in SUBSET Notes /\ IsFiniteSet(notes) /\ n \in notes
      BY <2>3, <2>4, InvFacts, FS_Union DEF DocOK
    <2>6. /\ \A u \in to : gone[u] \in Overflow(notes, u)
          /\ doc' = [doc EXCEPT !.notes = notes \ UNION {gone[u] : u \in to}]
      BY <2>2 DEF Noted
    <2> HIDE DEF notes
    <2>7. doc'.notes = notes \ UNION {gone[u] : u \in to}
      BY <2>3, <2>5, <2>6, NotesWritten
    <2>8. PICK u \in to : n \in gone[u]
      <3>1. n \notin doc'.notes
        OBVIOUS
      <3> QED
        BY <2>5, <2>7, <3>1
    <2> DEFINE left == {m \in notes : m.user = u} \ gone[u]
               newer == {m \in doc'.notes : m.user = n.user /\ m.status = "unread" /\ m.at >= n.at}
    <2>9. /\ gone[u] \subseteq {m \in notes : m.user = u} /\ Cardinality(left) = MaxNotes
          /\ \A m \in left : m.status = "unread" /\ m.at >= n.at
      <3>1. gone[u] \in Overflow(notes, u)
        BY <2>6, <2>8
      <3> QED
        BY <2>5, <2>8, <3>1, OverflowFacts
    <2>10. \A v \in to : gone[v] \subseteq {m \in notes : m.user = v}
      BY <2>6 DEF Overflow
    <2>11. left \subseteq newer
      BY <2>7, <2>8, <2>9, <2>10
    <2>12. newer \subseteq notes
      BY <2>7
    <2> HIDE DEF left, newer
    <2>13. IsFiniteSet(newer)
      BY <2>5, <2>12, FS_Subset
    <2>14. Cardinality(left) <= Cardinality(newer) /\ Cardinality(newer) \in Nat
      BY <2>11, <2>13, FS_Subset, FS_CardinalityType
    <2>15. MaxNotes \in Nat
      BY AccountsAssumption
    <2>16. Cardinality(newer) >= MaxNotes
      BY <2>9, <2>14, <2>15
    <2> QED
      BY <2>16 DEF newer
  <1> QED
    BY <1>1, AccountsInvariant, PTL DEF AccountsSpec, UnreadIsKept
=============================================================================
