-------------------------- MODULE VpnSwitch_proofs --------------------------
(***************************************************************************)
(* Proofs about VpnSwitch, for any number of requests, candidates and      *)
(* faults.  Two arguments carry them.  A request that is alone is the only *)
(* one that writes, so Progress(s) says at each of its labels what the     *)
(* firewall holds.  However requests overlap, a difference between saved,  *)
(* generated and active configuration has somebody who will remove it, or  *)
(* somebody who said that it failed (Pending).                             *)
(*                                                                         *)
(* The second part is about VpnProfiles, the profiles and the history they *)
(* share: each step that writes either saves something of one profile that *)
(* is under way (Saved), commits a configuration or removes a profile.     *)
(***************************************************************************)
EXTENDS VpnSwitch, VpnProfiles, TLAPS, SequenceTheorems, FiniteSetTheorems

USE DEF Goto, Tell, NoFault

\* The event list keeps its type and its bound.
LEMMA AppendBoundedType ==
  ASSUME NEW S, NEW q \in Seq(S), Len(q) <= MaxHistory, NEW e \in S
  PROVE  AppendBounded(q, e) \in Seq(S) /\ Len(AppendBounded(q, e)) <= MaxHistory
  <1> DEFINE all == Append(q, e)
  <1>1. all \in Seq(S) /\ Len(all) = Len(q) + 1 /\ Len(q) \in Nat
    BY AppendProperties, LenProperties
  <1>2. MaxHistory \in Nat \ {0}
    BY ConstantsAssumption
  <1>3. CASE Len(all) > MaxHistory
    <2> DEFINE m == Len(all) - MaxHistory + 1
    <2>1. m \in 1..Len(all) + 1 /\ Len(all) \in m-1..Len(all) /\ m = 2 /\ Len(all) = MaxHistory + 1
      BY <1>1, <1>2, <1>3
    <2>2. \A i \in m..Len(all) : all[i] \in S
      BY <1>1, <2>1, ElementOfSeq
    <2>3. SubSeq(all, m, Len(all)) \in Seq(S) /\ Len(SubSeq(all, m, Len(all))) = Len(all) - m + 1
      BY <1>1, <2>1, <2>2, SubSeqProperties
    <2> QED
      BY <1>1, <1>2, <1>3, <2>1, <2>3 DEF AppendBounded
  <1>4. CASE ~(Len(all) > MaxHistory)
    BY <1>1, <1>2, <1>4 DEF AppendBounded
  <1> QED
    BY <1>3, <1>4

\* Marking requests keeps the type of the marks and never removes one.
LEMMA MarkType ==
  ASSUME TypeOK, NEW T, NEW w \in {"overlapped", "blind", "unaudited", "crashed"}, Mark(T, w)
  PROVE  /\ mark' \in [Switches -> SUBSET {"overlapped", "blind", "unaudited", "crashed"}]
         /\ \A s \in Switches : mark[s] \subseteq mark'[s]
         /\ \A s \in Switches \ T : mark'[s] = mark[s]
         /\ \A s \in Switches \cap T : w \in mark'[s]
  BY DEF TypeOK, Mark

\* What a step of one request leaves alone of the others.
LEMMA Frame ==
  ASSUME TypeOK, NEW t \in Switches, Switch(t)
  PROVE  /\ pc[t] \in Busy
         /\ \A s \in Switches \ {t} :
              /\ pc'[s] = pc[s] /\ outcome'[s] = outcome[s] /\ changed'[s] = changed[s]
              /\ mark'[s] = mark[s]
         /\ mark[t] \subseteq mark'[t]
         /\ "overlapped" \in mark'[t] => "overlapped" \in mark[t]
  <1> USE DEF TypeOK, Busy, Writes, Rollback, locals
  <1>1. CASE SavePeer(t)
    BY <1>1 DEF SavePeer, Mark
  <1>2. CASE Audit(t)
    BY <1>2 DEF Audit, Mark
  <1>3. CASE ReadPeer(t) \/ ReadGateway(t) \/ Verify(t) \/ Except(t)
    BY <1>3 DEF ReadPeer, ReadGateway, Verify, Except
  <1>4. CASE SaveGateway(t) \/ Reconfigure(t) \/ Restart(t)
    BY <1>4 DEF SaveGateway, Reconfigure, Restart, Remote
  <1>5. CASE RollbackPeer(t) \/ RollbackGateway(t)
    BY <1>5 DEF RollbackPeer, RollbackGateway, Restore
  <1>6. CASE RollbackReconfigure(t) \/ RollbackRestart(t)
    BY <1>6 DEF RollbackReconfigure, RollbackRestart, Restore
  <1> QED
    BY <1>1, <1>2, <1>3, <1>4, <1>5, <1>6 DEF Switch

----------------------------------------------------------------------------
\* Types

\* The calls of one request keep the types and what it knows of its locals.
LEMMA SwitchTypes ==
  ASSUME TypeOK, LocalsKnown, NEW s \in Switches, Switch(s)
  PROVE  TypeOK' /\ LocalsKnown'
  <1> USE ConstantsAssumption DEF TypeOK, LocalsKnown, Fault, Busy, Writes, Rollback, locals, firewall
  <1>1. CASE ReadPeer(s)
    BY <1>1 DEF ReadPeer
  <1>2. CASE ReadGateway(s)
    BY <1>2, SMTT(30) DEF ReadGateway
  <1>3. CASE SavePeer(s)
    <2>1. mark' \in [Switches -> SUBSET {"overlapped", "blind", "unaudited", "crashed"}]
      BY <1>3 DEF SavePeer, Mark
    <2>2. peer' \in Endpoints
      BY <1>3 DEF SavePeer, Endpoints
    <2>3. /\ changed' \in [Switches -> BOOLEAN]
          /\ pc' \in [Switches -> Busy \cup {"none", "ended"}]
          /\ \A t \in Switches \ {s} : pc'[t] = pc[t] /\ changed'[t] = changed[t]
          /\ changed'[s] <=> pc'[s] # "except"
          /\ pc'[s] \in {"except", "saveGateway", "reconfigure"}
      BY <1>3, ZenonT(40) DEF SavePeer
    <2>4. TypeOK'
      <3>1. UNCHANGED <<gateway, generated, active, target, before, gwBefore, outcome, events>>
            /\ faults' \in 0..MaxFaults
        BY <1>3 DEF SavePeer
      <3> QED
        BY <2>1, <2>2, <2>3, <3>1
    <2>5. LocalsKnown'
      BY <1>3, <2>3 DEF SavePeer
    <2> QED
      BY <2>4, <2>5
  <1>4. CASE SaveGateway(s)
    BY <1>4 DEF SaveGateway, Remote, Endpoints
  <1>5. CASE Reconfigure(s)
    BY <1>5, SMTT(30) DEF Reconfigure, Remote
  <1>6. CASE Restart(s)
    BY <1>6, SMTT(30) DEF Restart, Remote
  <1>7. CASE Verify(s)
    BY <1>7 DEF Verify
  <1>8. CASE Except(s)
    BY <1>8 DEF Except
  <1>9. CASE RollbackPeer(s)
    BY <1>9 DEF RollbackPeer, Restore
  <1>10. CASE RollbackGateway(s)
    BY <1>10 DEF RollbackGateway, Restore
  <1>11. CASE RollbackReconfigure(s)
    <2>1. TypeOK'
      <3>1. generated' \in Endpoints /\ faults' \in 0..MaxFaults
            /\ UNCHANGED <<peer, gateway, active, target, before, gwBefore, changed, events, mark>>
        BY <1>11 DEF RollbackReconfigure, Restore
      <3>2. /\ pc' \in [Switches -> Busy \cup {"none", "ended"}]
            /\ outcome' \in [Switches -> {"none", "ok", "unchanged", "restored", "failed"}]
        BY <1>11 DEF RollbackReconfigure, Restore
      <3> QED
        BY <3>1, <3>2
    <2>2. LocalsKnown'
      BY <1>11 DEF RollbackReconfigure, Restore
    <2> QED
      BY <2>1, <2>2
  <1>12. CASE RollbackRestart(s)
    BY <1>12 DEF RollbackRestart, Restore
  <1>13. CASE Audit(s)
    <2>1. Event(s) \in [candidate : Candidates, result : {"success", "failed"}]
      BY <1>13 DEF Audit, Event
    <2>2. /\ events' \in Seq([candidate : Candidates, result : {"success", "failed"}])
          /\ Len(events') <= MaxHistory
      <3> DEFINE E == [candidate : Candidates, result : {"success", "failed"}]
      <3>1. events' = events \/ events' = AppendBounded(events, Event(s))
        BY <1>13 DEF Audit
      <3>2. events \in Seq(E) /\ Len(events) <= MaxHistory /\ Event(s) \in E
        BY <2>1
      <3> HIDE DEF TypeOK, E
      <3>3. AppendBounded(events, Event(s)) \in Seq(E) /\ Len(AppendBounded(events, Event(s))) <= MaxHistory
        BY <3>2, AppendBoundedType
      <3>4. events' \in Seq(E) /\ Len(events') <= MaxHistory
        BY <3>1, <3>2, <3>3, Zenon
      <3> QED
        BY <3>4 DEF E
    <2>3. mark' \in [Switches -> SUBSET {"overlapped", "blind", "unaudited", "crashed"}]
      BY <1>13 DEF Audit, Mark
    <2>4. TypeOK'
      <3>1. UNCHANGED <<firewall, locals>> /\ faults' \in 0..MaxFaults
            /\ pc' \in [Switches -> Busy \cup {"none", "ended"}]
        BY <1>13 DEF Audit
      <3> QED
        BY <2>2, <2>3, <3>1
    <2>5. LocalsKnown'
      BY <1>13 DEF Audit
    <2> QED
      BY <2>4, <2>5
  <1> QED
    BY <1>1, <1>2, <1>3, <1>4, <1>5, <1>6, <1>7, <1>8, <1>9, <1>10, <1>11, <1>12, <1>13
    DEF Switch

\* Every step does.
LEMMA TypeStep ==
  ASSUME TypeOK, LocalsKnown, [Next]_vars
  PROVE  TypeOK' /\ LocalsKnown'
  <1> USE ConstantsAssumption
  <1>0. CASE UNCHANGED vars
    BY <1>0 DEF TypeOK, LocalsKnown, vars, firewall, locals
  <1>1. ASSUME NEW s \in Switches, NEW c \in Candidates, Begin(s, c)
        PROVE  TypeOK' /\ LocalsKnown'
    <2>1. mark' \in [Switches -> SUBSET {"overlapped", "blind", "unaudited", "crashed"}]
      BY <1>1, MarkType DEF Begin
    <2> QED
      BY <1>1, <2>1 DEF Begin, TypeOK, LocalsKnown, Busy, Writes, Rollback, firewall
  <1>2. CASE Crash
    <2>1. mark' \in [Switches -> SUBSET {"overlapped", "blind", "unaudited", "crashed"}]
      BY <1>2, MarkType DEF Crash
    <2> QED
      BY <1>2, <2>1 DEF Crash, TypeOK, LocalsKnown, Fault, InFlight, firewall, locals, Busy, Writes, Rollback
  <1> QED
    BY <1>0, <1>1, <1>2, SwitchTypes DEF Next

\* In the beginning no request is known.
LEMMA InitTypes == Init => TypeOK /\ LocalsKnown
  <1> SUFFICES ASSUME Init PROVE TypeOK /\ LocalsKnown
    OBVIOUS
  <1>1. events \in Seq([candidate : Candidates, result : {"success", "failed"}]) /\ Len(events) = 0
    BY EmptySeq DEF Init
  <1> QED
    BY <1>1, ConstantsAssumption
    DEF Init, TypeOK, LocalsKnown, Endpoints, Busy, Writes, Rollback

\* The firewall, the requests' locals and the bounded event history keep
\* their types under every interleaving and fault.
THEOREM TypeCorrect == Spec => []TypeOK
  <1>1. TypeOK /\ LocalsKnown /\ [Next]_vars => (TypeOK /\ LocalsKnown)'
    BY TypeStep
  <1> QED
    BY <1>1, InitTypes, PTL DEF Spec

----------------------------------------------------------------------------
\* Requests that overlap, and requests that are alone

\* Busy, as the provers see it.
LEMMA NotBusy == "none" \notin Busy /\ "ended" \notin Busy
  BY DEF Busy, Writes, Rollback

\* Requests that share time know it, after every step.
LEMMA OverlapStep ==
  ASSUME TypeOK, OverlapsMarked, [Next]_vars
  PROVE  OverlapsMarked'
  <1>0. CASE UNCHANGED vars
    BY <1>0 DEF OverlapsMarked, InFlight, vars
  <1>1. ASSUME NEW b \in Switches, NEW c \in Candidates, Begin(b, c)
        PROVE  OverlapsMarked'
    <2>1. InFlight' \subseteq InFlight \cup {b}
      BY <1>1 DEF Begin, InFlight, TypeOK
    <2>2. CASE InFlight = {}
      BY <2>1, <2>2 DEF OverlapsMarked
    <2>3. CASE InFlight # {}
      <3>1. Mark(InFlight \cup {b}, "overlapped")
        BY <1>1, <2>3 DEF Begin
      <3>2. \A s \in Switches \cap (InFlight \cup {b}) : "overlapped" \in mark'[s]
        BY <3>1, MarkType
      <3> QED
        BY <2>1, <3>2 DEF OverlapsMarked, InFlight
    <2> QED
      BY <2>2, <2>3
  <1>2. ASSUME NEW t \in Switches, Switch(t)
        PROVE  OverlapsMarked'
    <2>1. InFlight' \subseteq InFlight
      BY <1>2, Frame DEF InFlight
    <2>2. \A s \in Switches : mark[s] \subseteq mark'[s]
      BY <1>2, Frame
    <2>3. \A s \in InFlight' : s \in Switches
      BY DEF InFlight
    <2> HIDE DEF InFlight
    <2> QED
      BY <2>1, <2>2, <2>3 DEF OverlapsMarked
  <1>3. CASE Crash
    BY <1>3, NotBusy DEF Crash, OverlapsMarked, InFlight, TypeOK
  <1> QED
    BY <1>0, <1>1, <1>2, <1>3 DEF Next

\* A request that is alone stands still while another one moves.
LEMMA OthersIdle ==
  ASSUME TypeOK, OverlapsMarked, NEW t \in Switches, Switch(t),
         NEW s \in Switches \ {t}, Alone(s)'
  PROVE  pc'[s] \notin Busy
  <1>1. pc[t] \in Busy /\ pc'[s] = pc[s] /\ mark'[s] = mark[s]
    BY Frame
  <1> QED
    BY <1>1 DEF OverlapsMarked, InFlight, Alone

\* What a request that is alone may claim of the firewall.
Claims(s) ==
  /\ Progress(s)
  /\ pc[s] = "audit" /\ outcome[s] = "ok" =>
       /\ Applied(target[s])
       /\ gateway = IF gwBefore[s] = before[s] THEN target[s] ELSE gwBefore[s]
  /\ pc[s] = "audit" /\ outcome[s] = "restored" => Applied(before[s]) /\ gateway = gwBefore[s]

\* Each call of a request that is alone moves its claims on: the try block.
LEMMA TryClaims ==
  ASSUME TypeOK, LocalsKnown, NEW s \in Switches, Progress(s),
         ReadPeer(s) \/ ReadGateway(s) \/ SavePeer(s) \/ SaveGateway(s) \/ Reconfigure(s) \/ Restart(s)
  PROVE  Claims(s)'
  <1> USE DEF TypeOK, Claims, Progress, ChangesGateway, Gateways, Applied, locals, firewall
  <1>1. CASE ReadPeer(s)
    BY <1>1 DEF ReadPeer, LocalsKnown
  <1>2. CASE ReadGateway(s)
    BY <1>2 DEF ReadGateway, LocalsKnown
  <1>3. CASE SavePeer(s)
    BY <1>3 DEF SavePeer, LocalsKnown
  <1>4. CASE SaveGateway(s)
    BY <1>4 DEF SaveGateway, Remote
  <1>5. CASE Reconfigure(s)
    BY <1>5 DEF Reconfigure, Remote
  <1>6. CASE Restart(s)
    BY <1>6 DEF Restart, Remote
  <1> QED
    BY <1>1, <1>2, <1>3, <1>4, <1>5, <1>6

\* ... and the verification, the except clause and the audit.
LEMMA ExceptClaims ==
  ASSUME TypeOK, LocalsKnown, NEW s \in Switches, Progress(s),
         \/ Verify(s) \/ Except(s) \/ RollbackPeer(s) \/ RollbackGateway(s)
         \/ RollbackReconfigure(s) \/ RollbackRestart(s) \/ Audit(s)
  PROVE  Claims(s)'
  <1> USE DEF TypeOK, Claims, Progress, ChangesGateway, Gateways, Applied, locals, firewall
  <1>1. CASE Verify(s)
    BY <1>1 DEF Verify
  <1>2. CASE Except(s)
    BY <1>2 DEF Except
  <1>3. CASE RollbackPeer(s)
    BY <1>3 DEF RollbackPeer, Restore
  <1>4. CASE RollbackGateway(s)
    BY <1>4 DEF RollbackGateway, Restore
  <1>5. CASE RollbackReconfigure(s)
    BY <1>5 DEF RollbackReconfigure, Restore
  <1>6. CASE RollbackRestart(s)
    BY <1>6 DEF RollbackRestart, Restore
  <1>7. CASE Audit(s)
    BY <1>7 DEF Audit
  <1> QED
    BY <1>1, <1>2, <1>3, <1>4, <1>5, <1>6, <1>7

\* Every step keeps the claims of every request that is alone.
LEMMA ClaimsStep ==
  ASSUME TypeOK, LocalsKnown, OverlapsMarked, [Next]_vars,
         \A s \in Switches : Alone(s) => Claims(s)
  PROVE  \A s \in Switches : Alone(s)' => Claims(s)'
  <1> SUFFICES ASSUME NEW s \in Switches, Alone(s)' PROVE Claims(s)'
    OBVIOUS
  <1>0. CASE UNCHANGED vars
    BY <1>0 DEF Claims, Progress, ChangesGateway, Gateways, Applied, Alone, vars, firewall, locals
  <1>1. ASSUME NEW b \in Switches, NEW c \in Candidates, Begin(b, c)
        PROVE  Claims(s)'
    <2>1. CASE s = b
      <3>1. pc'[s] = "readPeer"
        BY <1>1, <2>1 DEF Begin, TypeOK
      <3> QED
        BY <3>1 DEF Claims, Progress
    <2>2. CASE s # b
      <3>1. s \notin InFlight
        <4>1. CASE InFlight = {}
          BY <4>1
        <4>2. CASE InFlight # {}
          <5>1. Mark(InFlight \cup {b}, "overlapped")
            BY <1>1, <4>2 DEF Begin
          <5> QED
            BY <5>1, MarkType DEF Alone
        <4> QED
          BY <4>1, <4>2
      <3>2. pc'[s] = pc[s]
        BY <1>1, <2>2 DEF Begin, TypeOK
      <3>3. pc'[s] \notin Busy
        BY <3>1, <3>2 DEF InFlight
      <3> QED
        BY <3>3 DEF Claims, Progress, Busy, Writes, Rollback
    <2> QED
      BY <2>1, <2>2
  <1>2. ASSUME NEW t \in Switches, Switch(t)
        PROVE  Claims(s)'
    <2>1. CASE s # t
      <3>1. pc'[s] \notin Busy
        BY <1>2, <2>1, OthersIdle
      <3> QED
        BY <3>1 DEF Claims, Progress, Busy, Writes, Rollback
    <2>2. CASE s = t
      <3>1. Alone(s)
        BY <1>2, <2>2, Frame DEF Alone
      <3>2. Progress(s)
        BY <3>1 DEF Claims
      <3> QED
        BY <1>2, <2>2, <3>2, TryClaims, ExceptClaims DEF Switch
    <2> QED
      BY <2>1, <2>2
  <1>3. CASE Crash
    <2>1. pc'[s] \notin Busy
      BY <1>3, NotBusy DEF Crash, InFlight
    <2> QED
      BY <2>1 DEF Claims, Progress, Busy, Writes, Rollback
  <1> QED
    BY <1>0, <1>1, <1>2, <1>3 DEF Next

----------------------------------------------------------------------------
\* Whoever leaves the configurations apart

\* Once excused, always: no step takes back a failed rollback or a mark.
LEMMA ExcusedStays ==
  ASSUME TypeOK, FailedAtEnd, NEW t \in Switches, Switch(t)
  PROVE  FailedAtEnd' /\ \A s \in Switches : Excused(s) => Excused(s)'
  <1>1. \A s \in Switches : mark[s] \subseteq mark'[s]
    BY Frame
  <1>2. \A s \in Switches \ {t} : outcome'[s] = outcome[s] /\ pc'[s] = pc[s]
    BY Frame
  <1>3. /\ outcome[t] = "failed" => outcome'[t] = "failed"
        /\ outcome'[t] = "failed" => pc'[t] \in {"audit", "ended"}
    <2> USE DEF TypeOK, FailedAtEnd, locals
    <2>1. CASE ReadPeer(t) \/ ReadGateway(t) \/ SavePeer(t) \/ Verify(t) \/ Except(t) \/ Audit(t)
      BY <2>1 DEF ReadPeer, ReadGateway, SavePeer, Verify, Except, Audit
    <2>2. CASE SaveGateway(t) \/ Reconfigure(t) \/ Restart(t)
      BY <2>2 DEF SaveGateway, Reconfigure, Restart, Remote
    <2>3. CASE RollbackPeer(t) \/ RollbackGateway(t) \/ RollbackReconfigure(t) \/ RollbackRestart(t)
      BY <2>3 DEF RollbackPeer, RollbackGateway, RollbackReconfigure, RollbackRestart, Restore
    <2> QED
      BY <2>1, <2>2, <2>3 DEF Switch
  <1>4. FailedAtEnd'
    BY <1>2, <1>3 DEF FailedAtEnd
  <1>5. ASSUME NEW s \in Switches, Excused(s)
        PROVE  Excused(s)'
    <2>1. outcome[s] = "failed" => outcome'[s] = "failed"
      BY <1>2, <1>3
    <2> QED
      BY <1>1, <1>5, <2>1 DEF Excused
  <1> QED
    BY <1>4, <1>5

\* The request that moves answers for what it leaves apart.
LEMMA OwnPending ==
  ASSUME TypeOK, LocalsKnown, NEW t \in Switches, Switch(t)
  PROVE  /\ peer' # generated' =>
              WillGenerate(t)' \/ Excused(t)' \/ (peer # generated /\ ~WillGenerate(t))
         /\ generated' # active' =>
              WillRestart(t)' \/ Excused(t)' \/ (generated # active /\ ~WillRestart(t))
  <1> USE DEF TypeOK, LocalsKnown, WillGenerate, WillRestart, Excused, locals, firewall
  <1>1. CASE ReadPeer(t)
    BY <1>1 DEF ReadPeer
  <1>2. CASE ReadGateway(t)
    BY <1>2 DEF ReadGateway
  <1>3. CASE SavePeer(t)
    BY <1>3 DEF SavePeer, Mark
  <1>4. CASE SaveGateway(t)
    BY <1>4 DEF SaveGateway, Remote
  <1>5. CASE Reconfigure(t)
    BY <1>5 DEF Reconfigure, Remote
  <1>6. CASE Restart(t)
    BY <1>6 DEF Restart, Remote
  <1>7. CASE Verify(t)
    BY <1>7 DEF Verify, Writes
  <1>8. CASE Except(t)
    BY <1>8 DEF Except
  <1>9. CASE RollbackPeer(t)
    BY <1>9 DEF RollbackPeer, Restore, Rollback
  <1>10. CASE RollbackGateway(t)
    BY <1>10 DEF RollbackGateway, Restore, Rollback
  <1>11. CASE RollbackReconfigure(t)
    BY <1>11 DEF RollbackReconfigure, Restore, Rollback
  <1>12. CASE RollbackRestart(t)
    BY <1>12 DEF RollbackRestart, Restore, Rollback
  <1>13. CASE Audit(t)
    BY <1>13 DEF Audit
  <1> QED
    BY <1>1, <1>2, <1>3, <1>4, <1>5, <1>6, <1>7, <1>8, <1>9, <1>10, <1>11, <1>12, <1>13
    DEF Switch

\* Every step keeps somebody to answer for a difference.
LEMMA PendingStep ==
  ASSUME TypeOK, LocalsKnown, FailedAtEnd, Pending, [Next]_vars
  PROVE  Pending' /\ FailedAtEnd'
  <1>0. CASE UNCHANGED vars
    BY <1>0 DEF Pending, FailedAtEnd, WillGenerate, WillRestart, Excused, vars, firewall, locals
  <1>1. ASSUME NEW b \in Switches, NEW c \in Candidates, Begin(b, c)
        PROVE  Pending' /\ FailedAtEnd'
    <2>1. /\ pc[b] = "none" /\ UNCHANGED <<firewall, changed, outcome>>
          /\ \A s \in Switches \ {b} : pc'[s] = pc[s]
          /\ \A s \in Switches : mark[s] \subseteq mark'[s]
      BY <1>1, MarkType DEF Begin, TypeOK
    <2>2. FailedAtEnd'
      BY <2>1 DEF FailedAtEnd
    <2>3. \A s \in Switches : Excused(s) => Excused(s)'
      BY <2>1 DEF Excused
    <2>4. \A s \in Switches : WillGenerate(s) => WillGenerate(s)'
      BY <2>1 DEF WillGenerate
    <2>5. \A s \in Switches : WillRestart(s) => WillRestart(s)'
      BY <2>1, <2>4 DEF WillRestart
    <2> QED
      BY <2>1, <2>2, <2>3, <2>4, <2>5 DEF Pending, firewall
  <1>2. ASSUME NEW t \in Switches, Switch(t)
        PROVE  Pending' /\ FailedAtEnd'
    <2>1. FailedAtEnd' /\ \A s \in Switches : Excused(s) => Excused(s)'
      BY <1>2, ExcusedStays
    <2>2. \A s \in Switches \ {t} : pc'[s] = pc[s] /\ changed'[s] = changed[s]
      BY <1>2, Frame
    <2>3. \A s \in Switches \ {t} : WillGenerate(s) => WillGenerate(s)'
      BY <2>2 DEF WillGenerate
    <2>4. \A s \in Switches \ {t} : WillRestart(s) => WillRestart(s)'
      BY <2>2, <2>3 DEF WillRestart
    <2>5. peer' # generated' => \E s \in Switches : WillGenerate(s)' \/ Excused(s)'
      BY <1>2, <2>1, <2>3, OwnPending DEF Pending
    <2>6. generated' # active' => \E s \in Switches : WillRestart(s)' \/ Excused(s)'
      BY <1>2, <2>1, <2>4, OwnPending DEF Pending
    <2> QED
      BY <2>1, <2>5, <2>6 DEF Pending
  <1>3. CASE Crash
    <2>1. /\ UNCHANGED <<firewall, outcome>>
          /\ \A s \in Switches : mark[s] \subseteq mark'[s]
          /\ \A s \in InFlight : "crashed" \in mark'[s]
          /\ \A s \in Switches : pc'[s] = pc[s] \/ pc'[s] = "ended"
      BY <1>3, MarkType DEF Crash, InFlight, locals
    <2>2. FailedAtEnd'
      BY <2>1 DEF FailedAtEnd
    <2>3. \A s \in Switches : Excused(s) => Excused(s)'
      BY <2>1 DEF Excused
    <2>4. \A s \in Switches : WillRestart(s) => s \in InFlight
      BY DEF WillRestart, WillGenerate, InFlight, Busy, Writes, Rollback
    <2>5. \A s \in Switches : WillRestart(s) \/ WillGenerate(s) => Excused(s)'
      BY <2>1, <2>4 DEF Excused, WillRestart
    <2> QED
      BY <2>1, <2>2, <2>3, <2>5 DEF Pending, firewall
  <1> QED
    BY <1>0, <1>1, <1>2, <1>3 DEF Next

----------------------------------------------------------------------------
\* The invariant and its consequences

\* Claims of every request that is alone are the claims of IInv.
LEMMA ClaimsAre ==
  (\A s \in Switches : Alone(s) => Claims(s)) <=> AloneProgress /\ SuccessMeansActive /\ RollbackRestores
  BY DEF Claims, AloneProgress, SuccessMeansActive, RollbackRestores

\* Every step keeps the invariant.
LEMMA IInvStep == IInv /\ [Next]_vars => IInv'
  <1> SUFFICES ASSUME IInv, [Next]_vars PROVE IInv'
    OBVIOUS
  <1>1. /\ TypeOK /\ OverlapsMarked /\ LocalsKnown /\ FailedAtEnd /\ Pending
        /\ \A s \in Switches : Alone(s) => Claims(s)
    BY ClaimsAre DEF IInv
  <1>2. TypeOK' /\ LocalsKnown'
    BY <1>1, TypeStep
  <1>3. OverlapsMarked'
    BY <1>1, OverlapStep
  <1>4. AloneProgress' /\ SuccessMeansActive' /\ RollbackRestores'
    <2>1. \A s \in Switches : Alone(s)' => Claims(s)'
      BY <1>1, ClaimsStep
    <2> QED
      BY <2>1 DEF Claims, AloneProgress, SuccessMeansActive, RollbackRestores
  <1>5. Pending' /\ FailedAtEnd'
    BY <1>1, PendingStep
  <1> QED
    BY <1>2, <1>3, <1>4, <1>5 DEF IInv

\* It holds in the beginning.
LEMMA IInvInit == Init => IInv
  <1> SUFFICES ASSUME Init PROVE IInv
    OBVIOUS
  <1>1. \A s \in Switches : pc[s] = "none" /\ outcome[s] = "none"
    BY DEF Init
  <1>2. TypeOK /\ LocalsKnown
    BY InitTypes
  <1>3. OverlapsMarked
    BY <1>1, NotBusy DEF OverlapsMarked, InFlight
  <1>4. FailedAtEnd
    BY <1>1 DEF FailedAtEnd
  <1>5. AloneProgress /\ SuccessMeansActive /\ RollbackRestores
    BY <1>1 DEF AloneProgress, Progress, SuccessMeansActive, RollbackRestores
  <1>6. Pending
    BY DEF Init, Pending
  <1> QED
    BY <1>2, <1>3, <1>4, <1>5, <1>6 DEF IInv

\* The inductive invariant of the switch.
THEOREM Inductive == Spec => []IInv
  BY IInvInit, IInvStep, PTL DEF Spec

\* "Endpoint switched and authenticated handshake verified." is true of the
\* saved peer, the generated and the active configuration and the gateway, for
\* a switch that shared its time with no other.
THEOREM Success == Spec => []SuccessMeansActive
  <1>1. IInv => SuccessMeansActive
    BY DEF IInv
  <1> QED
    BY <1>1, Inductive, PTL

\* A rollback that is reported as done restored the peer, the gateway and the
\* active configuration, whichever call of the switch failed.
THEOREM Restored == Spec => []RollbackRestores
  <1>1. IInv => RollbackRestores
    BY DEF IInv
  <1> QED
    BY <1>1, Inductive, PTL

\* However many switches overlapped: when none is under way and none was
\* excused, the instance runs what is saved.
THEOREM NothingHalfApplied == Spec => []Settled
  <1>1. IInv => Settled
    <2> SUFFICES ASSUME Pending, InFlight = {}, \A s \in Switches : ~Excused(s)
                 PROVE  Applied(peer)
      BY DEF IInv, Settled, Excused
    <2>1. \A s \in Switches : pc[s] \notin Busy
      BY DEF InFlight
    <2>2. \A s \in Switches : ~WillGenerate(s) /\ ~WillRestart(s)
      BY <2>1 DEF WillGenerate, WillRestart, Busy, Writes, Rollback
    <2> QED
      BY <2>2 DEF Pending, Applied
  <1> QED
    BY <1>1, Inductive, PTL

----------------------------------------------------------------------------
\* The profiles and the history they share (module VpnProfiles)

\* A key of the history is a profile id and a server.
LEMMA KeyFacts ==
  /\ \A k \in Keys : k[1] \in Ids /\ k[2] \in Servers /\ k = <<k[1], k[2]>>
  /\ \A i \in Ids, c \in Servers : <<i, c>> \in Keys /\ <<i, c>>[1] = i /\ <<i, c>>[2] = c
  BY DEF Keys

\* Sets of keys and of ids are finite, and smaller with fewer members.
LEMMA FiniteFacts ==
  /\ IsFiniteSet(Keys) /\ IsFiniteSet(Ids)
  /\ \A S \in SUBSET Keys : IsFiniteSet(S) /\ Cardinality(S) \in Nat
                            /\ \A T \in SUBSET S : Cardinality(T) <= Cardinality(S)
  /\ \A S \in SUBSET Ids : IsFiniteSet(S) /\ Cardinality(S) \in Nat
                           /\ \A T \in SUBSET S : Cardinality(T) <= Cardinality(S)
  <1>1. IsFiniteSet(Keys) /\ IsFiniteSet(Ids)
    BY ProfilesAssumption, FS_Product DEF Keys
  <1>2. ASSUME NEW F, IsFiniteSet(F), NEW S \in SUBSET F
        PROVE  IsFiniteSet(S) /\ Cardinality(S) \in Nat /\ \A T \in SUBSET S : Cardinality(T) <= Cardinality(S)
    <2>1. IsFiniteSet(S)
      BY <1>2, FS_Subset
    <2> QED
      BY <2>1, FS_Subset, FS_CardinalityType
  <1> QED
    BY <1>1, <1>2

\* The types of the history.
HistoryType ==
  /\ cands \in [Keys -> Entry \cup {None}] /\ newer \in SUBSET (Keys \X Keys)
  /\ last \in [Ids -> [Servers -> Classes \cup {None}]]
  /\ age \in [Ids -> 0..Interval \cup {None}]
  /\ util \in [Ids -> SUBSET Servers]

\* What a step does to the history when it saves something about profile i: the bound
\* holds, validations are kept where there is room, the other profiles lose and gain nothing.
Saved(i) ==
  /\ HistoryType' /\ Cardinality(Known') <= MAX_HISTORY
  /\ \A k \in Keys : Valid(k) \subseteq Valid(k)' \/ (k \notin Known' /\ Cardinality(Known') = MAX_HISTORY)
  /\ \A j \in Ids : j # i /\ Forgotten(j) => Forgotten(j)'

\* What is left of the candidates when they are sorted and cut.
LEMMA RecordFacts ==
  ASSUME NEW all \in [Keys -> Entry \cup {None}], NEW fresh \in SUBSET Keys,
         newer \in SUBSET (Keys \X Keys), Record(all, fresh)
  PROVE  /\ cands' \in [Keys -> Entry \cup {None}] /\ newer' \in SUBSET (Keys \X Keys)
         /\ Cardinality(Known') <= MAX_HISTORY
         /\ \A k \in Keys : cands'[k] = all[k] \/ (cands'[k] = None /\ Cardinality(Known') = MAX_HISTORY)
  <1> DEFINE known == {k \in Keys : all[k] # None}
             order == (fresh \X (known \ fresh)) \cup {e \in newer : e[1] \notin fresh /\ e[2] \notin fresh}
  <1>1. PICK kept \in SUBSET known :
          /\ Cardinality(kept) <= MAX_HISTORY /\ (kept = known \/ Cardinality(kept) = MAX_HISTORY)
          /\ cands' = [k \in Keys |-> IF k \in kept THEN all[k] ELSE None]
          /\ newer' = order \cap (kept \X kept)
    BY DEF Record
  <1>2. Known' = kept
    BY <1>1 DEF Known
  <1>3. newer' \in SUBSET (Keys \X Keys)
    <2>1. kept \subseteq Keys
      BY <1>1
    <2> HIDE DEF known, order
    <2> QED
      BY <1>1, <2>1
  <1>4. cands' \in [Keys -> Entry \cup {None}]
    BY <1>1
  <1>5. ASSUME NEW k \in Keys
        PROVE  cands'[k] = all[k] \/ (cands'[k] = None /\ Cardinality(Known') = MAX_HISTORY)
    <2>1. CASE k \in kept
      BY <1>1, <2>1
    <2>2. CASE k \notin kept
      <3>1. cands'[k] = None
        BY <1>1, <2>2
      <3>2. kept = known => all[k] = None
        BY <2>2
      <3> QED
        BY <1>1, <1>2, <3>1, <3>2
    <2> QED
      BY <2>1, <2>2
  <1> QED
    BY <1>1, <1>2, <1>3, <1>4, <1>5

\* ... and so when every entry of all keeps the validations and those of the other
\* profiles are as they were.
LEMMA RecordSaves ==
  ASSUME HistoryType, NEW i \in Ids, NEW all \in [Keys -> Entry \cup {None}], NEW fresh \in SUBSET Keys,
         Record(all, fresh),
         \A k \in Keys : cands[k] # None => all[k] # None /\ all[k].valid = cands[k].valid,
         \A k \in Keys : k[1] # i => all[k] = cands[k],
         last' \in [Ids -> [Servers -> Classes \cup {None}]], age' \in [Ids -> 0..Interval \cup {None}],
         util' \in [Ids -> SUBSET Servers],
         \A j \in Ids : j # i => last'[j] = last[j] /\ age'[j] = age[j] /\ util'[j] = util[j]
  PROVE  Saved(i)
  <1>1. /\ cands' \in [Keys -> Entry \cup {None}] /\ newer' \in SUBSET (Keys \X Keys)
        /\ Cardinality(Known') <= MAX_HISTORY
        /\ \A k \in Keys : cands'[k] = all[k] \/ (cands'[k] = None /\ Cardinality(Known') = MAX_HISTORY)
    BY RecordFacts DEF HistoryType
  <1>2. HistoryType'
    BY <1>1 DEF HistoryType
  <1>3. ASSUME NEW k \in Keys
        PROVE  Valid(k) \subseteq Valid(k)' \/ (k \notin Known' /\ Cardinality(Known') = MAX_HISTORY)
    <2>1. CASE cands'[k] = all[k]
      BY <2>1 DEF Valid
    <2>2. CASE cands'[k] = None /\ Cardinality(Known') = MAX_HISTORY
      BY <2>2 DEF Known
    <2> QED
      BY <1>1, <2>1, <2>2
  <1>4. ASSUME NEW j \in Ids, j # i, Forgotten(j)
        PROVE  Forgotten(j)'
    <2>1. \A k \in Keys : k[1] = j => cands'[k] = None
      BY <1>1, <1>4 DEF Forgotten, Known
    <2> QED
      BY <1>4, <2>1 DEF Forgotten, Known
  <1> QED
    BY <1>1, <1>2, <1>3, <1>4 DEF Saved

\* What the provider offers is known of some of the servers.
LEMMA OfferFacts ==
  ASSUME NEW owner \in Offers
  PROVE  DOMAIN owner \in SUBSET Servers /\ \A c \in DOMAIN owner : owner[c] \in Owners \cup {None}
  <1>1. PICK S \in SUBSET Servers : owner \in [S -> Owners \cup {None}]
    BY DEF Offers
  <1> QED
    BY <1>1

LEMMA ClassTyped ==
  ASSUME NEW p, NEW owner
  PROVE  Classification(owner, p) \in Classes
  BY DEF Classification, Classes

\* The discovery of a profile, before the cut: its candidates keep what was validated.
LEMMA DiscoveryFacts ==
  ASSUME HistoryType, NEW i \in Ids, NEW class, DOMAIN class \in SUBSET Servers,
         \A c \in DOMAIN class : class[c] \in Classes, NEW all, all = Discovery(i, class)
  PROVE  /\ all \in [Keys -> Entry \cup {None}]
         /\ \A k \in Keys : cands[k] # None => all[k] # None /\ all[k].valid = cands[k].valid
         /\ \A k \in Keys : k[1] # i => all[k] = cands[k]
  <1> DEFINE entry(k) == IF k[1] # i THEN cands[k]
                         ELSE IF k[2] \in DOMAIN class THEN Seen(k, class[k[2]])
                         ELSE IF cands[k] = None THEN None ELSE [class |-> "Stale", valid |-> cands[k].valid]
  <1>1. all = [k \in Keys |-> entry(k)]
    BY DEF Discovery
  <1>2. ASSUME NEW k \in Keys
        PROVE  /\ entry(k) \in Entry \cup {None}
               /\ cands[k] # None => entry(k) # None /\ entry(k).valid = cands[k].valid
               /\ k[1] # i => entry(k) = cands[k]
    <2>1. cands[k] \in Entry \cup {None}
      BY DEF HistoryType
    <2>2. Valid(k) \in SUBSET Targets /\ (cands[k] # None => Valid(k) = cands[k].valid)
      BY <2>1 DEF Valid, Entry
    <2>3. "Stale" \in Classes
      BY DEF Classes
    <2>4. CASE k[1] # i
      BY <2>1, <2>4
    <2>5. CASE k[1] = i /\ k[2] \in DOMAIN class
      <3>1. entry(k) = [class |-> class[k[2]], valid |-> Valid(k)]
        BY <2>5 DEF Seen
      <3>2. entry(k) \in Entry /\ entry(k).valid = Valid(k)
        BY <2>2, <2>5, <3>1 DEF Entry
      <3> HIDE DEF entry
      <3> QED
        BY <2>2, <2>5, <3>2, NoProfile
    <2>6. CASE k[1] = i /\ k[2] \notin DOMAIN class /\ cands[k] # None
      <3>1. entry(k) = [class |-> "Stale", valid |-> cands[k].valid]
        BY <2>6
      <3>2. entry(k) \in Entry /\ entry(k).valid = cands[k].valid
        BY <2>1, <2>3, <2>6, <3>1 DEF Entry
      <3> HIDE DEF entry
      <3> QED
        BY <2>6, <3>2, NoProfile
    <2>7. CASE k[1] = i /\ k[2] \notin DOMAIN class /\ cands[k] = None
      BY <2>7
    <2> QED
      BY <2>4, <2>5, <2>6, <2>7
  <1> HIDE DEF entry
  <1> QED
    BY <1>1, <1>2

\* _save_discovery
LEMMA DiscoverySaves ==
  ASSUME HistoryType, NEW i \in Ids, NEW p, NEW owner \in Offers, SaveDiscovery(i, p, owner)
  PROVE  Saved(i)
  <1> DEFINE class == [c \in DOMAIN owner |-> Classification(owner[c], p)]
             fresh == {i} \X DOMAIN owner
             found == [c \in Servers |-> IF c \in DOMAIN owner THEN class[c] ELSE None]
  <1>1. /\ Record(Discovery(i, class), fresh) /\ last' = [last EXCEPT ![i] = found]
        /\ age' = [age EXCEPT ![i] = 0] /\ util' = util
    BY DEF SaveDiscovery
  <1>2. DOMAIN owner \in SUBSET Servers
    BY OfferFacts
  <1>3. DOMAIN class = DOMAIN owner /\ \A c \in DOMAIN class : class[c] \in Classes
    BY ClassTyped
  <1>4. fresh \in SUBSET Keys
    BY <1>2 DEF Keys
  <1>5. found \in [Servers -> Classes \cup {None}]
    BY <1>2, <1>3
  <1> HIDE DEF class, found, fresh
  <1>6. /\ last' \in [Ids -> [Servers -> Classes \cup {None}]]
        /\ \A j \in Ids : j # i => last'[j] = last[j]
    BY <1>1, <1>5 DEF HistoryType
  <1>7. /\ age' \in [Ids -> 0..Interval \cup {None}] /\ util' \in [Ids -> SUBSET Servers]
        /\ \A j \in Ids : j # i => age'[j] = age[j] /\ util'[j] = util[j]
    <2>1. 0 \in 0..Interval
      BY ProfilesAssumption
    <2> QED
      BY <1>1, <2>1 DEF HistoryType
  <1>8. PICK all : all = Discovery(i, class)
    OBVIOUS
  <1>9. /\ all \in [Keys -> Entry \cup {None}]
        /\ \A k \in Keys : cands[k] # None => all[k] # None /\ all[k].valid = cands[k].valid
        /\ \A k \in Keys : k[1] # i => all[k] = cands[k]
    BY <1>2, <1>3, <1>8, DiscoveryFacts
  <1>10. Record(all, fresh)
    BY <1>1, <1>8
  <1> QED
    BY <1>4, <1>6, <1>7, <1>9, <1>10, RecordSaves

\* _save_utilization
LEMMA UtilizationSaves ==
  ASSUME HistoryType, Cardinality(Known) <= MAX_HISTORY, NEW i \in Ids, NEW w, SaveUtilization(i, w),
         UNCHANGED <<cands, newer, last, age>>
  PROVE  Saved(i)
  <1>1. util' \in [Ids -> SUBSET Servers] /\ \A j \in Ids : j # i => util'[j] = util[j]
    BY ProfilesAssumption DEF SaveUtilization, HistoryType
  <1>2. HistoryType' /\ Known' = Known /\ \A k \in Keys : Valid(k)' = Valid(k)
    BY <1>1 DEF HistoryType, Known, Valid
  <1>3. ASSUME NEW j \in Ids, j # i, Forgotten(j)
        PROVE  Forgotten(j)'
    BY <1>1, <1>2, <1>3 DEF Forgotten
  <1> QED
    BY <1>2, <1>3 DEF Saved

\* Nothing is saved.
LEMMA NothingSaved ==
  ASSUME HistoryType, Cardinality(Known) <= MAX_HISTORY, UNCHANGED history, NEW i
  PROVE  Saved(i)
  <1>1. HistoryType' /\ Known' = Known /\ (\A k \in Keys : Valid(k)' = Valid(k)) /\ \A j \in Ids : Forgotten(j)' = Forgotten(j)
    BY DEF HistoryType, Known, Valid, Forgotten, history
  <1> QED
    BY <1>1 DEF Saved

\* _save_utilization_poll
LEMMA UtilizationPollSaves ==
  ASSUME HistoryType, Cardinality(Known) <= MAX_HISTORY, NEW i \in Ids, NEW found \in BOOLEAN,
         SaveUtilizationPoll(i, found)
  PROVE  Saved(i)
  <1>1. CASE ~found
    BY <1>1, NothingSaved DEF SaveUtilizationPoll, history
  <1>2. CASE found
    <2> DEFINE new == IF <<i, Active>> \in Known THEN cands
                      ELSE [cands EXCEPT ![<<i, Active>>] = [class |-> "Unknown", valid |-> {}]]
               fresh == {<<i, Active>>}
    <2>1. Record(new, fresh) /\ util' = [util EXCEPT ![i] = @ \cup {Active}] /\ UNCHANGED <<last, age>>
      BY <1>2 DEF SaveUtilizationPoll
    <2>2. <<i, Active>> \in Keys /\ <<i, Active>>[1] = i /\ fresh \in SUBSET Keys
      BY ProfilesAssumption, KeyFacts
    <2>3. [class |-> "Unknown", valid |-> {}] \in Entry
      BY DEF Entry, Classes
    <2>4. /\ new \in [Keys -> Entry \cup {None}]
          /\ \A k \in Keys : cands[k] # None => new[k] = cands[k]
          /\ \A k \in Keys : k[1] # i => new[k] = cands[k]
      BY <2>2, <2>3 DEF HistoryType, Known
    <2>5. util' \in [Ids -> SUBSET Servers] /\ \A j \in Ids : j # i => util'[j] = util[j]
      BY <2>1, ProfilesAssumption DEF HistoryType
    <2> HIDE DEF new, fresh
    <2>6. PICK all : all = new
      OBVIOUS
    <2>7. /\ Record(all, fresh) /\ all \in [Keys -> Entry \cup {None}]
          /\ \A k \in Keys : cands[k] # None => all[k] # None /\ all[k].valid = cands[k].valid
          /\ \A k \in Keys : k[1] # i => all[k] = cands[k]
      BY <2>1, <2>4, <2>6
    <2>8. /\ last' \in [Ids -> [Servers -> Classes \cup {None}]] /\ age' \in [Ids -> 0..Interval \cup {None}]
          /\ last' = last /\ age' = age
      BY <2>1 DEF HistoryType
    <2> QED
      BY <2>2, <2>5, <2>7, <2>8, RecordSaves
  <1> QED
    BY <1>1, <1>2

\* What the invariant says, in parts.
LEMMA InvFacts ==
  ASSUME ProfilesInv
  PROVE  /\ HistoryType /\ Cardinality(Known) <= MAX_HISTORY /\ Cardinality(Configured) <= MAX_PROFILES
         /\ profiles \in [Ids -> Profile \cup {None}] /\ alerts \in [Ids -> [Conditions -> 0..2]]
         /\ req \in [Requests -> Tasks] /\ pass \in Passes /\ tunnel \in TunnelStates /\ used \in SUBSET Ids
         /\ ops \in 0..MaxOps /\ changes \in 0..MaxChanges /\ RemovedApart
  BY DEF ProfilesInv, ProfilesTypeOK, HistoryType, Limits

\* A step that leaves the profiles alone and saves something of one that is under way, if of any.
Saves == UNCHANGED profiles /\ \E i \in Ids \cup {None} : Saved(i) /\ (i = None \/ UnderWay(i))

\* ... keeps the invariant if the rest is well typed.
LEMMA SavesKeep ==
  ASSUME ProfilesInv, Saves, req' \in [Requests -> Tasks], RemovedApart', pass' \in Passes,
         alerts' \in [Ids -> [Conditions -> 0..2]], tunnel' \in TunnelStates, used' \in SUBSET Ids,
         ops' \in 0..MaxOps, changes' \in 0..MaxChanges
  PROVE  ProfilesInv'
  <1>1. profiles' = profiles /\ HistoryType' /\ Cardinality(Known') <= MAX_HISTORY
    BY DEF Saves, Saved
  <1>2. Configured' = Configured
    BY <1>1 DEF Configured
  <1> QED
    BY <1>1, <1>2, InvFacts DEF ProfilesInv, ProfilesTypeOK, HistoryType, Limits

\* One request goes on to q.
LEMMA RequestMoves ==
  ASSUME ProfilesInv, NEW r \in Requests, NEW q \in Tasks, req' = [req EXCEPT ![r] = q],
         q.op = "configure" => q.removed \cap q.profile.targets = {}
  PROVE  req' \in [Requests -> Tasks] /\ RemovedApart'
  <1>1. req \in [Requests -> Tasks] /\ RemovedApart
    BY InvFacts
  <1>2. req' \in [Requests -> Tasks]
    BY <1>1
  <1>3. \A s \in Requests : req'[s] = IF s = r THEN q ELSE req[s]
    BY <1>1
  <1>4. ASSUME NEW s \in Requests, req'[s].op = "configure"
        PROVE  req'[s].removed \cap req'[s].profile.targets = {}
    <2>1. CASE s = r
      BY <1>3, <1>4, <2>1
    <2>2. CASE s # r
      <3>1. req'[s] = req[s]
        BY <1>3, <2>2
      <3> QED
        BY <1>1, <1>4, <3>1 DEF RemovedApart
    <2> QED
      BY <2>1, <2>2
  <1> QED
    BY <1>2, <1>4 DEF RemovedApart

LEMMA OpTyped == ASSUME ProfilesInv, Op PROVE ops' \in 0..MaxOps /\ changes' \in 0..MaxChanges
  <1>1. ops \in 0..MaxOps /\ changes \in 0..MaxChanges /\ MaxOps \in Nat
    BY InvFacts, ProfilesAssumption
  <1> QED
    BY <1>1 DEF Op

LEMMA IdleTask == Idle \in Tasks /\ Idle.op = "idle"
  BY DEF Idle, Tasks

LEMMA ServesTyped == ASSUME NEW r, Serves(r) PROVE r \in Requests /\ req[r] = Idle
  BY DEF Serves, Thread

\* configure, up to its transaction
LEMMA BeginConfigureStep ==
  ASSUME ProfilesInv, NEW r \in Requests, NEW i \in Ids, BeginConfigure(r, i)
  PROVE  ProfilesInv' /\ Saves
  <1> DEFINE old == IF profiles[i] = None THEN Blank ELSE profiles[i]
  <1>1. old \in Profile
    BY InvFacts DEF Blank, Profile
  <1>2. PICK p \in Patches(old) :
          req' = [req EXCEPT ![r] = [op |-> "configure", id |-> i, profile |-> p,
                    create |-> i \notin used, removed |-> old.targets \ p.targets]]
    BY DEF BeginConfigure
  <1>3. Op /\ used' = used \cup {i} /\ UNCHANGED <<profiles, history, alerts, pass, tunnel>>
    BY DEF BeginConfigure
  <1>4. PICK prior, create : prior = old /\ create = (i \notin used)
    OBVIOUS
  <1> HIDE DEF old
  <1>5. prior \in Profile /\ p \in Profile /\ create \in BOOLEAN
    BY <1>1, <1>2, <1>4 DEF Patches
  <1> DEFINE q == [op |-> "configure", id |-> i, profile |-> p, create |-> create, removed |-> prior.targets \ p.targets]
  <1>6. q \in Tasks
    BY <1>5 DEF Tasks, Profile
  <1>7. req' = [req EXCEPT ![r] = q] /\ q.removed \cap q.profile.targets = {}
    BY <1>2, <1>4
  <1> HIDE DEF q
  <1>8. req' \in [Requests -> Tasks] /\ RemovedApart'
    BY <1>6, <1>7, RequestMoves
  <1>9. Saves
    BY <1>3, InvFacts, NothingSaved DEF Saves
  <1> QED
    BY <1>3, <1>8, <1>9, InvFacts, OpTyped, SavesKeep

\* set_validation, up to its transaction
LEMMA BeginValidationStep ==
  ASSUME ProfilesInv, NEW r \in Requests, NEW i \in Ids, NEW c \in Servers, NEW t \in Targets, BeginValidation(r, i, c, t)
  PROVE  ProfilesInv' /\ Saves
  <1> DEFINE q == [op |-> "validate", id |-> i, cand |-> c, target |-> t]
  <1>1. req' = [req EXCEPT ![r] = q] /\ Op /\ UNCHANGED <<profiles, history, alerts, pass, tunnel, used>>
    BY DEF BeginValidation
  <1>2. q \in Tasks /\ q.op = "validate"
    BY DEF Tasks
  <1> HIDE DEF q
  <1>3. req' \in [Requests -> Tasks] /\ RemovedApart'
    BY <1>1, <1>2, RequestMoves
  <1>4. Saves
    BY <1>1, InvFacts, NothingSaved DEF Saves
  <1> QED
    BY <1>1, <1>3, <1>4, InvFacts, OpTyped, SavesKeep

\* status, up to its first save
LEMMA BeginStatusStep ==
  ASSUME ProfilesInv, NEW r \in Requests, NEW i \in Ids, NEW refresh \in BOOLEAN, BeginStatus(r, i, refresh)
  PROVE  ProfilesInv' /\ Saves
  <1>1. Op /\ profiles[i] # None /\ UNCHANGED <<profiles, history, alerts, pass, tunnel, used>>
    BY DEF BeginStatus
  <1>2. PICK p : p = profiles[i]
    OBVIOUS
  <1>3. p \in Profile /\ p.peer \in Peers \cup {None}
    BY <1>1, <1>2, InvFacts DEF Profile
  <1> DEFINE q == IF refresh THEN [op |-> "discover", id |-> i, profile |-> p] ELSE [op |-> "status", id |-> i, peer |-> p.peer]
  <1>4. req' = [req EXCEPT ![r] = q]
    BY <1>2 DEF BeginStatus
  <1>5. q \in Tasks /\ q.op # "configure"
    BY <1>3 DEF Tasks
  <1> HIDE DEF q
  <1>6. req' \in [Requests -> Tasks] /\ RemovedApart'
    BY <1>4, <1>5, RequestMoves
  <1>7. Saves
    BY <1>1, InvFacts, NothingSaved DEF Saves
  <1> QED
    BY <1>1, <1>6, <1>7, InvFacts, OpTyped, SavesKeep

\* The transaction of set_validation
LEMMA CommitValidationStep ==
  ASSUME ProfilesInv, NEW r \in Requests, CommitValidation(r)
  PROVE  ProfilesInv' /\ Saves
  <1>1. /\ req[r].op = "validate" /\ req' = [req EXCEPT ![r] = Idle]
        /\ UNCHANGED <<profiles, newer, last, age, util, alerts, pass, tunnel, used, bounds>>
    BY DEF CommitValidation
  <1>2. req[r].id \in Ids /\ req[r].cand \in Servers /\ req[r].target \in Targets
    BY <1>1, InvFacts DEF Tasks
  <1>3. PICK i \in Ids, c \in Servers, t \in Targets : i = req[r].id /\ c = req[r].cand /\ t = req[r].target
    BY <1>2
  <1>4. cands' = [k \in Keys |-> IF k = <<i, c>> /\ k \in Known
                                 THEN [cands[k] EXCEPT !.valid = @ \cup {t}] ELSE cands[k]]
    BY <1>3 DEF CommitValidation
  <1>5. cands \in [Keys -> Entry \cup {None}]
    BY InvFacts DEF HistoryType
  <1>6. ASSUME NEW k \in Keys
        PROVE  /\ cands'[k] \in Entry \cup {None} /\ (cands'[k] = None <=> cands[k] = None)
               /\ cands[k] # None => cands[k].valid \subseteq cands'[k].valid
    <2>1. CASE k = <<i, c>> /\ k \in Known
      <3>1. cands'[k] = [cands[k] EXCEPT !.valid = @ \cup {t}] /\ cands[k] \in Entry
        BY <1>4, <1>5, <2>1 DEF Known
      <3>2. cands'[k] \in Entry /\ cands[k].valid \subseteq cands'[k].valid
        BY <3>1 DEF Entry
      <3> QED
        BY <3>1, <3>2, NoProfile
    <2>2. CASE ~(k = <<i, c>> /\ k \in Known)
      BY <1>4, <1>5, <2>2
    <2> QED
      BY <2>1, <2>2
  <1>7. cands' \in [Keys -> Entry \cup {None}] /\ Known' = Known
    <2>1. cands' \in [Keys -> Entry \cup {None}]
      BY <1>4, <1>6
    <2> QED
      BY <1>6, <2>1 DEF Known
  <1>8. HistoryType'
    BY <1>1, <1>7, InvFacts DEF HistoryType
  <1>9. \A k \in Keys : Valid(k) \subseteq Valid(k)'
    BY <1>6 DEF Valid
  <1>10. \A j \in Ids : Forgotten(j) => Forgotten(j)'
    BY <1>1, <1>7 DEF Forgotten
  <1>11. Saved(None)
    BY <1>7, <1>8, <1>9, <1>10, InvFacts DEF Saved
  <1>12. Saves
    BY <1>1, <1>11 DEF Saves
  <1>13. req' \in [Requests -> Tasks] /\ RemovedApart'
    BY <1>1, IdleTask, RequestMoves
  <1> QED
    BY <1>1, <1>12, <1>13, InvFacts, SavesKeep DEF bounds

\* discover of a request
LEMMA DiscoveredStep ==
  ASSUME ProfilesInv, NEW r \in Requests, Discovered(r)
  PROVE  ProfilesInv' /\ Saves
  <1>1. /\ req[r].op = "discover" /\ UNCHANGED <<profiles, alerts, pass, tunnel, used, bounds>>
        /\ (\E owner \in Offers : SaveDiscovery(req[r].id, req[r].profile, owner)) \/ UNCHANGED history
        /\ req' = [req EXCEPT ![r] = [op |-> "status", id |-> req[r].id, peer |-> req[r].profile.peer]]
    BY DEF Discovered
  <1>2. req[r].id \in Ids /\ req[r].profile \in Profile
    BY <1>1, InvFacts DEF Tasks
  <1>3. PICK i \in Ids, p \in Profile : i = req[r].id /\ p = req[r].profile
    BY <1>2
  <1>4. p.peer \in Peers \cup {None}
    BY DEF Profile
  <1>5. Saved(i)
    <2>1. CASE UNCHANGED history
      BY <2>1, InvFacts, NothingSaved
    <2>2. CASE \E owner \in Offers : SaveDiscovery(i, p, owner)
      BY <2>2, InvFacts, DiscoverySaves
    <2> QED
      BY <1>1, <1>3, <2>1, <2>2
  <1>6. UnderWay(i)
    BY <1>1, <1>3 DEF UnderWay
  <1>7. Saves
    BY <1>1, <1>5, <1>6 DEF Saves
  <1> DEFINE q == [op |-> "status", id |-> i, peer |-> p.peer]
  <1>8. q \in Tasks /\ q.op = "status" /\ req' = [req EXCEPT ![r] = q]
    BY <1>1, <1>3, <1>4 DEF Tasks
  <1> HIDE DEF q
  <1>9. req' \in [Requests -> Tasks] /\ RemovedApart'
    BY <1>8, RequestMoves
  <1> QED
    BY <1>1, <1>7, <1>9, InvFacts, SavesKeep DEF bounds

\* The rest of status
LEMMA StatusStep ==
  ASSUME ProfilesInv, NEW r \in Requests, Status(r)
  PROVE  ProfilesInv' /\ Saves
  <1>1. /\ req[r].op = "status" /\ req' = [req EXCEPT ![r] = Idle]
        /\ UNCHANGED <<profiles, cands, newer, last, age, alerts, pass, tunnel, used, bounds>>
        /\ SaveUtilization(req[r].id, req[r].peer)
    BY DEF Status
  <1>2. req[r].id \in Ids
    BY <1>1, InvFacts DEF Tasks
  <1>3. PICK i \in Ids : i = req[r].id
    BY <1>2
  <1>4. PICK w : w = req[r].peer
    OBVIOUS
  <1>5. SaveUtilization(i, w)
    BY <1>1, <1>3, <1>4
  <1>6. Saved(i) /\ UnderWay(i)
    BY <1>1, <1>3, <1>5, InvFacts, UtilizationSaves DEF UnderWay
  <1>7. Saves
    BY <1>1, <1>6 DEF Saves
  <1>8. req' \in [Requests -> Tasks] /\ RemovedApart'
    BY <1>1, IdleTask, RequestMoves
  <1> QED
    BY <1>1, <1>7, <1>8, InvFacts, SavesKeep DEF bounds

\* The pass goes on: its step leaves the requests and the bounds alone.
LEMMA PassKeeps ==
  ASSUME ProfilesInv, Saves, pass' \in Passes, alerts' \in [Ids -> [Conditions -> 0..2]], UNCHANGED <<req, tunnel, used, bounds>>
  PROVE  ProfilesInv'
  <1>1. RemovedApart'
    BY InvFacts DEF RemovedApart
  <1> QED
    BY <1>1, InvFacts, SavesKeep DEF bounds

LEMMA StartPassStep ==
  ASSUME ProfilesInv, StartPass
  PROVE  ProfilesInv' /\ Saves
  <1> DEFINE todo == {<<i, profiles[i]>> : i \in {j \in Configured : profiles[j].enabled}}
  <1>1. /\ pass' = [stage |-> "next", todo |-> todo] /\ age' = Older(age)
        /\ UNCHANGED <<profiles, cands, newer, last, util, alerts, req, tunnel, used, bounds>>
    BY DEF StartPass
  <1>2. todo \in Todo
    <2>1. \A i \in Configured : i \in Ids /\ profiles[i] \in Profile
      BY InvFacts DEF Configured
    <2> QED
      BY <2>1 DEF Todo
  <1> HIDE DEF todo
  <1>3. pass' \in Passes
    BY <1>1, <1>2 DEF Passes
  <1>4. /\ age' \in [Ids -> 0..Interval \cup {None}]
        /\ \A i \in Ids : age[i] = None => age'[i] = None
    <2>1. Interval \in Nat /\ age \in [Ids -> 0..Interval \cup {None}]
      BY ProfilesAssumption, InvFacts DEF HistoryType
    <2>2. ASSUME NEW i \in Ids
          PROVE  (IF age[i] = None \/ age[i] = Interval THEN age[i] ELSE age[i] + 1) \in 0..Interval \cup {None}
      <3>1. CASE age[i] = None \/ age[i] = Interval
        BY <2>1, <3>1
      <3>2. CASE age[i] # None /\ age[i] # Interval
        <4>1. age[i] \in 0..Interval
          BY <2>1, <3>2
        <4>2. PICK n \in 0..Interval : n = age[i]
          BY <4>1
        <4>3. n + 1 \in 0..Interval
          BY <2>1, <3>2, <4>2
        <4> QED
          BY <3>2, <4>2, <4>3
      <3> QED
        BY <3>1, <3>2
    <2> QED
      BY <1>1, <2>1, <2>2 DEF Older
  <1>5. HistoryType' /\ Known' = Known /\ \A k \in Keys : Valid(k)' = Valid(k)
    BY <1>1, <1>4, InvFacts DEF HistoryType, Known, Valid
  <1>6. \A j \in Ids : Forgotten(j) => Forgotten(j)'
    BY <1>1, <1>4, <1>5 DEF Forgotten
  <1>7. Saved(None)
    BY <1>5, <1>6, InvFacts DEF Saved
  <1>8. Saves
    BY <1>1, <1>7 DEF Saves
  <1> QED
    BY <1>1, <1>3, <1>8, InvFacts, PassKeeps

LEMMA PollDiscoverStep ==
  ASSUME ProfilesInv, PollDiscover
  PROVE  ProfilesInv' /\ Saves
  <1>1. /\ pass.stage = "next" /\ UNCHANGED <<profiles, history, alerts, req, tunnel, used, bounds>>
    BY DEF PollDiscover
  <1>2. pass.todo \in Todo /\ pass = [stage |-> "next", todo |-> pass.todo]
    BY <1>1, InvFacts DEF Passes
  <1>3. PICK e \in pass.todo :
          pass' = CASE profiles[e[1]] = None -> [pass EXCEPT !.todo = @ \ {e}]
                    [] profiles[e[1]] # None /\ Expired(age, e[1]) ->
                         [stage |-> "provider", todo |-> pass.todo \ {e}, id |-> e[1],
                          snapshot |-> e[2], profile |-> profiles[e[1]]]
                    [] OTHER -> Polled(pass.todo \ {e}, e[1], e[2], "cached")
    BY DEF PollDiscover
  <1>4. PICK todo : todo = pass.todo \ {e}
    OBVIOUS
  <1>5. todo \in Todo /\ e[1] \in Ids /\ e[2] \in Profile
    BY <1>2, <1>4 DEF Todo
  <1>6. pass' \in Passes
    <2>1. CASE profiles[e[1]] = None
      <3>1. pass' = [stage |-> "next", todo |-> todo]
        BY <1>2, <1>3, <1>4, <2>1
      <3> QED
        BY <1>5, <3>1 DEF Passes
    <2>2. CASE profiles[e[1]] # None /\ Expired(age, e[1])
      <3>1. pass' = [stage |-> "provider", todo |-> todo, id |-> e[1], snapshot |-> e[2], profile |-> profiles[e[1]]]
        BY <1>3, <1>4, <2>2
      <3>2. profiles[e[1]] \in Profile
        BY <1>5, <2>2, InvFacts
      <3> QED
        BY <1>5, <3>1, <3>2 DEF Passes
    <2>3. CASE profiles[e[1]] # None /\ ~Expired(age, e[1])
      <3>1. pass' = [stage |-> "status", todo |-> todo, id |-> e[1], snapshot |-> e[2], discovery |-> "cached"]
        BY <1>3, <1>4, <2>3 DEF Polled
      <3> QED
        BY <1>5, <3>1 DEF Passes
    <2> QED
      BY <2>1, <2>2, <2>3
  <1>7. Saves
    BY <1>1, InvFacts, NothingSaved DEF Saves
  <1> QED
    BY <1>1, <1>6, <1>7, InvFacts, PassKeeps

LEMMA PollProviderStep ==
  ASSUME ProfilesInv, PollProvider
  PROVE  ProfilesInv' /\ Saves
  <1>1. /\ pass.stage = "provider" /\ UNCHANGED <<profiles, alerts, req, tunnel, used, bounds>>
        /\ (\E owner \in Offers : SaveDiscovery(pass.id, pass.profile, owner)) \/ UNCHANGED history
        /\ \E discovery \in {"ok", "error"} : pass' = Polled(pass.todo, pass.id, pass.snapshot, discovery)
    BY DEF PollProvider
  <1>2. pass.id \in Ids /\ pass.profile \in Profile /\ pass.snapshot \in Profile /\ pass.todo \in Todo
    BY <1>1, InvFacts DEF Passes
  <1>3. PICK i \in Ids, p \in Profile, snapshot \in Profile, todo \in Todo :
          i = pass.id /\ p = pass.profile /\ snapshot = pass.snapshot /\ todo = pass.todo
    BY <1>2
  <1>4. pass' \in Passes
    <2>1. PICK discovery \in {"ok", "error"} : pass' = Polled(todo, i, snapshot, discovery)
      BY <1>1, <1>3
    <2>2. pass' = [stage |-> "status", todo |-> todo, id |-> i, snapshot |-> snapshot, discovery |-> discovery]
      BY <2>1 DEF Polled
    <2> QED
      BY <2>2 DEF Passes
  <1>5. Saved(i)
    <2>1. CASE UNCHANGED history
      BY <2>1, InvFacts, NothingSaved
    <2>2. CASE \E owner \in Offers : SaveDiscovery(i, p, owner)
      BY <2>2, InvFacts, DiscoverySaves
    <2> QED
      BY <1>1, <1>3, <2>1, <2>2
  <1>6. UnderWay(i)
    BY <1>1, <1>3 DEF UnderWay
  <1>7. Saves
    BY <1>1, <1>5, <1>6 DEF Saves
  <1> QED
    BY <1>1, <1>4, <1>7, InvFacts, PassKeeps

\* The conditions that are counted.
LEMMA ConditionsTyped ==
  ASSUME NEW p, NEW i, NEW w, NEW discovery, NEW conditions, conditions = ConditionsOf(p, i, w, discovery)
  PROVE  conditions \in SUBSET Conditions
  <1>1. TunnelConditions(w) \in SUBSET Conditions
    BY DEF TunnelConditions, Conditions
  <1>2. OwnerConditions(p, i, w) \in SUBSET Conditions
    <2>1. OwnerConditions(p, i, w) \subseteq {"owner_not_preferred", "no_preferred_candidate"}
      BY DEF OwnerConditions
    <2> QED
      BY <2>1 DEF Conditions
  <1> QED
    BY <1>1, <1>2 DEF ConditionsOf

LEMMA PollStatusStep ==
  ASSUME ProfilesInv, PollStatus
  PROVE  ProfilesInv' /\ Saves
  <1>1. /\ pass.stage = "status"
        /\ UNCHANGED <<profiles, cands, newer, last, age, alerts, req, tunnel, used, bounds>>
    BY DEF PollStatus
  <1>2. pass.id \in Ids /\ pass.todo \in Todo
    BY <1>1, InvFacts DEF Passes
  <1>3. PICK i \in Ids, todo \in Todo : i = pass.id /\ todo = pass.todo
    BY <1>2
  <1>4. CASE profiles[pass.id] = None
    <2>1. pass' = [stage |-> "next", todo |-> todo] /\ UNCHANGED util
      BY <1>3, <1>4 DEF PollStatus
    <2>2. pass' \in Passes
      BY <2>1 DEF Passes
    <2>3. Saves
      BY <1>1, <2>1, InvFacts, NothingSaved DEF Saves, history
    <2> QED
      BY <1>1, <2>2, <2>3, InvFacts, PassKeeps
  <1>5. CASE profiles[pass.id] # None
    <2>1. PICK w, stage, conditions :
            /\ w = profiles[pass.id].peer /\ stage = IF Readable(w) THEN "utilization" ELSE "alerts"
            /\ conditions = ConditionsOf(pass.snapshot, pass.id, w, pass.discovery)
      OBVIOUS
    <2>2. SaveUtilization(i, w) /\ pass' = [stage |-> stage, todo |-> todo, id |-> i, conditions |-> conditions]
      BY <1>3, <1>5, <2>1 DEF PollStatus
    <2>3. conditions \in SUBSET Conditions
      <3>1. PICK p, discovery : p = pass.snapshot /\ discovery = pass.discovery
        OBVIOUS
      <3>2. conditions = ConditionsOf(p, i, w, discovery)
        BY <1>3, <2>1, <3>1
      <3> QED
        BY <3>2, ConditionsTyped
    <2>4. stage \in {"utilization", "alerts"}
      BY <2>1
    <2>5. pass' \in Passes
      BY <2>2, <2>3, <2>4 DEF Passes
    <2>6. Saved(i) /\ UnderWay(i)
      BY <1>1, <1>3, <2>2, InvFacts, UtilizationSaves DEF UnderWay
    <2>7. Saves
      BY <1>1, <2>6 DEF Saves
    <2> QED
      BY <1>1, <2>5, <2>7, InvFacts, PassKeeps
  <1> QED
    BY <1>4, <1>5

LEMMA PollUtilizationStep ==
  ASSUME ProfilesInv, PollUtilization
  PROVE  ProfilesInv' /\ Saves
  <1>1. /\ pass.stage = "utilization" /\ pass' = [pass EXCEPT !.stage = "alerts"]
        /\ (\E found \in BOOLEAN : SaveUtilizationPoll(pass.id, found)) \/ UNCHANGED history
        /\ UNCHANGED <<profiles, alerts, req, tunnel, used, bounds>>
    BY DEF PollUtilization
  <1>2. pass \in [stage : {"utilization", "alerts"}, todo : Todo, id : Ids, conditions : SUBSET Conditions]
    BY <1>1, InvFacts DEF Passes
  <1>3. PICK i \in Ids : i = pass.id
    BY <1>2
  <1>4. pass' \in Passes
    BY <1>1, <1>2 DEF Passes
  <1>5. Saved(i)
    <2>1. CASE UNCHANGED history
      BY <2>1, InvFacts, NothingSaved
    <2>2. CASE \E found \in BOOLEAN : SaveUtilizationPoll(i, found)
      BY <2>2, InvFacts, UtilizationPollSaves
    <2> QED
      BY <1>1, <1>3, <2>1, <2>2
  <1>6. UnderWay(i)
    BY <1>1, <1>3 DEF UnderWay
  <1>7. Saves
    BY <1>1, <1>5, <1>6 DEF Saves
  <1> QED
    BY <1>1, <1>4, <1>7, InvFacts, PassKeeps

LEMMA PollAlertsStep ==
  ASSUME ProfilesInv, PollAlerts
  PROVE  ProfilesInv' /\ Saves
  <1>1. /\ pass.stage = "alerts" /\ alerts' = [alerts EXCEPT ![pass.id] = Counted(@, pass.conditions)]
        /\ pass' = [stage |-> "next", todo |-> pass.todo]
        /\ UNCHANGED <<profiles, history, req, tunnel, used, bounds>>
    BY DEF PollAlerts
  <1>2. pass.id \in Ids /\ pass.todo \in Todo
    BY <1>1, InvFacts DEF Passes
  <1>3. pass' \in Passes
    BY <1>1, <1>2 DEF Passes
  <1>4. Counted(alerts[pass.id], pass.conditions) \in [Conditions -> 0..2]
    <2>1. alerts[pass.id] \in [Conditions -> 0..2]
      BY <1>2, InvFacts
    <2>2. PICK counts \in [Conditions -> 0..2] : counts = alerts[pass.id]
      BY <2>1
    <2>3. \A c \in Conditions : counts[c] \in 0..2
      OBVIOUS
    <2>4. \A c \in Conditions : (IF c \notin pass.conditions THEN 0 ELSE IF counts[c] = 2 THEN 2 ELSE counts[c] + 1) \in 0..2
      BY <2>3
    <2> QED
      BY <2>2, <2>4 DEF Counted
  <1>5. alerts' \in [Ids -> [Conditions -> 0..2]]
    BY <1>1, <1>2, <1>4, InvFacts
  <1>6. Saves
    BY <1>1, InvFacts, NothingSaved DEF Saves
  <1> QED
    BY <1>1, <1>3, <1>5, <1>6, PassKeeps

LEMMA ChangeStep ==
  ASSUME ProfilesInv, Change
  PROVE  ProfilesInv' /\ Saves
  <1>1. /\ changes' \in 0..MaxChanges /\ tunnel' \in TunnelStates
        /\ UNCHANGED <<profiles, history, alerts, req, pass, used, ops>>
    BY InvFacts, ProfilesAssumption DEF Change
  <1>2. Saves
    BY <1>1, InvFacts, NothingSaved DEF Saves
  <1>3. RemovedApart'
    BY <1>1, InvFacts DEF RemovedApart
  <1> QED
    BY <1>1, <1>2, <1>3, InvFacts, SavesKeep

\* The transaction of configure: what it does to the profiles and to their validations.
LEMMA CommitConfigureStep ==
  ASSUME ProfilesInv, NEW r \in Requests, CommitConfigure(r)
  PROVE  /\ ProfilesInv'
         /\ \A j \in Ids : (profiles[j] # None => profiles'[j] # None) /\ (Forgotten(j) => Forgotten(j)')
         /\ \A k \in Keys, t \in Targets : t \in Valid(k) =>
              t \in Valid(k)' \/ (profiles'[k[1]] # None /\ t \notin profiles'[k[1]].targets)
  <1>1. /\ req[r].op = "configure" /\ req' = [req EXCEPT ![r] = Idle]
        /\ UNCHANGED <<newer, last, age, util, alerts, pass, tunnel, used, bounds>>
    BY DEF CommitConfigure
  <1>2. req' \in [Requests -> Tasks] /\ RemovedApart'
    BY <1>1, IdleTask, RequestMoves
  <1>3. /\ req[r].id \in Ids /\ req[r].profile \in Profile /\ req[r].removed \in SUBSET Targets
        /\ req[r].removed \cap req[r].profile.targets = {}
    BY <1>1, InvFacts DEF Tasks, RemovedApart
  <1>4. PICK i \in Ids, p \in Profile, removed \in SUBSET Targets : i = req[r].id /\ p = req[r].profile /\ removed = req[r].removed
    BY <1>3
  <1>5. removed \cap p.targets = {}
    BY <1>3, <1>4
  <1>6. CASE ~MayCommit(req[r])
    <2>1. UNCHANGED <<profiles, cands>>
      BY <1>6 DEF CommitConfigure
    <2>2. Saves /\ \A k \in Keys : Valid(k)' = Valid(k)
      BY <1>1, <2>1, InvFacts, NothingSaved DEF Saves, history, Valid
    <2>3. ProfilesInv'
      BY <1>1, <1>2, <2>2, InvFacts, SavesKeep DEF bounds
    <2>4. \A j \in Ids : Forgotten(j) => Forgotten(j)'
      BY <1>1, <2>1 DEF Forgotten, Known
    <2> QED
      BY <2>1, <2>2, <2>3, <2>4
  <1>7. CASE MayCommit(req[r])
    <2>1. /\ profiles' = [profiles EXCEPT ![i] = p]
          /\ cands' = [k \in Keys |-> IF k[1] = i /\ k \in Known
                                      THEN [cands[k] EXCEPT !.valid = @ \ removed] ELSE cands[k]]
      BY <1>4, <1>7 DEF CommitConfigure
    <2>2. /\ profiles' \in [Ids -> Profile \cup {None}] /\ profiles'[i] = p /\ p # None
          /\ \A j \in Ids : j # i => profiles'[j] = profiles[j]
      BY <2>1, InvFacts, NoProfile
    <2>3. cands \in [Keys -> Entry \cup {None}]
      BY InvFacts DEF HistoryType
    <2>4. ASSUME NEW k \in Keys
          PROVE  /\ cands'[k] \in Entry \cup {None} /\ (cands'[k] = None <=> cands[k] = None)
                 /\ cands[k] # None => cands'[k].valid = IF k[1] = i THEN cands[k].valid \ removed ELSE cands[k].valid
      <3>1. CASE k[1] = i /\ k \in Known
        <4>1. cands'[k] = [cands[k] EXCEPT !.valid = @ \ removed] /\ cands[k] \in Entry
          BY <2>1, <2>3, <3>1 DEF Known
        <4>2. cands'[k] \in Entry /\ cands'[k].valid = cands[k].valid \ removed
          BY <4>1 DEF Entry
        <4> QED
          BY <3>1, <4>1, <4>2, NoProfile
      <3>2. CASE ~(k[1] = i /\ k \in Known)
        BY <2>1, <2>3, <3>2 DEF Known
      <3> QED
        BY <3>1, <3>2
    <2>5. cands' \in [Keys -> Entry \cup {None}] /\ Known' = Known
      <3>1. cands' \in [Keys -> Entry \cup {None}]
        BY <2>1, <2>4
      <3> QED
        BY <2>4, <3>1 DEF Known
    <2>6. HistoryType'
      BY <1>1, <2>5, InvFacts DEF HistoryType
    <2>7. \A j \in Ids : Forgotten(j) => Forgotten(j)'
      BY <1>1, <2>5 DEF Forgotten
    <2>8. ASSUME NEW k \in Keys, NEW t \in Targets, t \in Valid(k)
          PROVE  t \in Valid(k)' \/ (profiles'[k[1]] # None /\ t \notin profiles'[k[1]].targets)
      <3>1. cands[k] # None /\ t \in cands[k].valid
        BY <2>8 DEF Valid
      <3>2. cands'[k] # None /\ cands'[k].valid = IF k[1] = i THEN cands[k].valid \ removed ELSE cands[k].valid
        BY <2>4, <3>1
      <3>3. CASE k[1] = i /\ t \in removed
        BY <1>5, <2>2, <3>3
      <3>4. CASE ~(k[1] = i /\ t \in removed)
        BY <3>1, <3>2, <3>4 DEF Valid
      <3> QED
        BY <3>3, <3>4
    <2>9. Cardinality(Configured') <= MAX_PROFILES
      <3>1. Configured' = Configured \cup {i}
        BY <2>2 DEF Configured
      <3>2. /\ Configured \in SUBSET Ids /\ IsFiniteSet(Configured) /\ Cardinality(Configured) \in Nat
            /\ Cardinality(Configured) <= MAX_PROFILES /\ MAX_PROFILES \in Nat \ {0}
        BY FiniteFacts, InvFacts, ProfilesAssumption DEF Configured
      <3>3. PICK S : S = Configured
        OBVIOUS
      <3>4. Cardinality(S \cup {i}) = IF i \in S THEN Cardinality(S) ELSE Cardinality(S) + 1
        BY <3>2, <3>3, FS_AddElement
      <3>5. i \in S \/ S = {} \/ Cardinality(S) < MAX_PROFILES
        BY <1>4, <1>7, <3>3 DEF MayCommit, Configured
      <3>6. S = {} => Cardinality(S) = 0
        BY FS_EmptySet
      <3>7. Cardinality(S \cup {i}) <= MAX_PROFILES
        BY <3>2, <3>3, <3>4, <3>5, <3>6
      <3> QED
        BY <3>1, <3>3, <3>7
    <2>10. ProfilesInv'
      BY <1>1, <1>2, <2>2, <2>5, <2>6, <2>9, InvFacts DEF ProfilesInv, ProfilesTypeOK, Limits, HistoryType, bounds
    <2>11. \A j \in Ids : profiles[j] # None => profiles'[j] # None
      BY <2>2
    <2> QED
      BY <2>7, <2>8, <2>10, <2>11
  <1> QED
    BY <1>6, <1>7

\* remove_profile: the profile, and all the history has of it.
LEMMA RemoveProfileStep ==
  ASSUME ProfilesInv, NEW i \in Ids, RemoveProfile(i)
  PROVE  /\ ProfilesInv' /\ profiles'[i] = None /\ Forgotten(i)'
         /\ \A j \in Ids : j # i => profiles'[j] = profiles[j] /\ (Forgotten(j) => Forgotten(j)')
         /\ \A k \in Keys : k[1] # i => Valid(k)' = Valid(k)
  <1>1. /\ Op /\ profiles' = [profiles EXCEPT ![i] = None] /\ UNCHANGED <<alerts, req, pass, tunnel, used>>
        /\ cands' = [k \in Keys |-> IF k[1] = i THEN None ELSE cands[k]]
        /\ newer' \subseteq newer
        /\ last' = [last EXCEPT ![i] = NoneSeen]
        /\ age' = [age EXCEPT ![i] = None] /\ util' = [util EXCEPT ![i] = {}]
    BY DEF RemoveProfile, Forget
  <1>2. /\ profiles' \in [Ids -> Profile \cup {None}] /\ profiles'[i] = None
        /\ \A j \in Ids : j # i => profiles'[j] = profiles[j]
    BY <1>1, InvFacts
  <1>3. NoneSeen \in [Servers -> Classes \cup {None}]
    BY DEF NoneSeen
  <1>4. /\ cands' \in [Keys -> Entry \cup {None}] /\ \A k \in Keys : cands'[k] = IF k[1] = i THEN None ELSE cands[k]
    BY <1>1, InvFacts DEF HistoryType
  <1>5. /\ last' \in [Ids -> [Servers -> Classes \cup {None}]] /\ age' \in [Ids -> 0..Interval \cup {None}]
        /\ util' \in [Ids -> SUBSET Servers]
        /\ last'[i] = NoneSeen /\ age'[i] = None /\ util'[i] = {}
        /\ \A j \in Ids : j # i => last'[j] = last[j] /\ age'[j] = age[j] /\ util'[j] = util[j]
    BY <1>1, <1>3, InvFacts DEF HistoryType
  <1>6. newer' \in SUBSET (Keys \X Keys)
    BY <1>1, InvFacts DEF HistoryType
  <1>7. HistoryType'
    BY <1>4, <1>5, <1>6 DEF HistoryType
  <1>8. Known' \subseteq Known /\ \A k \in Known' : k[1] # i
    BY <1>4 DEF Known
  <1>9. Forgotten(i)' /\ \A j \in Ids : j # i /\ Forgotten(j) => Forgotten(j)'
    BY <1>5, <1>8 DEF Forgotten
  <1>10. \A k \in Keys : k[1] # i => Valid(k)' = Valid(k)
    BY <1>4 DEF Valid
  <1>11. Cardinality(Known') <= MAX_HISTORY
    <2>1. PICK S, T : S = Known /\ T = Known'
      OBVIOUS
    <2>2. S \in SUBSET Keys /\ T \in SUBSET S /\ Cardinality(S) <= MAX_HISTORY
      BY <1>8, <2>1, InvFacts DEF Known
    <2>3. T \in SUBSET Keys /\ Cardinality(S) \in Nat /\ Cardinality(T) \in Nat /\ Cardinality(T) <= Cardinality(S)
      BY <2>2, FiniteFacts
    <2> QED
      BY <2>1, <2>2, <2>3, ProfilesAssumption
  <1>12. Cardinality(Configured') <= MAX_PROFILES
    <2>1. PICK S, T : S = Configured /\ T = Configured'
      OBVIOUS
    <2>2. S \in SUBSET Ids /\ T \in SUBSET S /\ Cardinality(S) <= MAX_PROFILES
      BY <1>2, <2>1, InvFacts DEF Configured
    <2>3. T \in SUBSET Ids /\ Cardinality(S) \in Nat /\ Cardinality(T) \in Nat /\ Cardinality(T) <= Cardinality(S)
      BY <2>2, FiniteFacts
    <2> QED
      BY <2>1, <2>2, <2>3, ProfilesAssumption
  <1>13. RemovedApart'
    BY <1>1, InvFacts DEF RemovedApart
  <1>14. ProfilesInv'
    BY <1>1, <1>2, <1>7, <1>11, <1>12, <1>13, InvFacts, OpTyped DEF ProfilesInv, ProfilesTypeOK, Limits, HistoryType
  <1> QED
    BY <1>2, <1>9, <1>10, <1>14

\* Every step keeps the invariant, and saves what it saves of a profile that is under
\* way, commits a configuration, or removes a profile.
LEMMA ProfilesSteps ==
  ASSUME ProfilesInv, ProfilesNext
  PROVE  ProfilesInv' /\ (Saves \/ (\E r \in Requests : CommitConfigure(r)) \/ \E i \in Ids : RemoveProfile(i))
  <1>1. CASE Poll \/ Change
    BY <1>1, StartPassStep, PollDiscoverStep, PollProviderStep, PollStatusStep, PollUtilizationStep, PollAlertsStep,
       ChangeStep DEF Poll
  <1>2. CASE \E i \in Ids : RemoveProfile(i)
    BY <1>2, RemoveProfileStep
  <1>3. ASSUME NEW r \in Requests, CommitConfigure(r) \/ CommitValidation(r) \/ Discovered(r) \/ Status(r)
        PROVE  ProfilesInv' /\ (Saves \/ CommitConfigure(r))
    BY <1>3, CommitConfigureStep, CommitValidationStep, DiscoveredStep, StatusStep
  <1>4. ASSUME NEW r \in Requests, NEW i \in Ids,
               \/ BeginConfigure(r, i)
               \/ \E refresh \in BOOLEAN : BeginStatus(r, i, refresh)
               \/ \E c \in Servers, t \in Targets : BeginValidation(r, i, c, t)
        PROVE  ProfilesInv' /\ Saves
    BY <1>4, BeginConfigureStep, BeginStatusStep, BeginValidationStep
  <1> QED
    BY <1>1, <1>2, <1>3, <1>4 DEF ProfilesNext

LEMMA ProfilesInitInv == ProfilesInit => ProfilesInv
  <1> SUFFICES ASSUME ProfilesInit PROVE ProfilesInv
    OBVIOUS
  <1>1. PICK p \in [peer : Peers, enabled : {TRUE}, preferred : {{}}, excluded : {Owners}, targets : {Targets}] \cup {None} :
          profiles = [i \in Ids |-> IF i = LEGACY_PROFILE_ID THEN p ELSE None]
    BY DEF ProfilesInit
  <1>2. p \in Profile \cup {None}
    BY DEF Profile
  <1>3. /\ cands = [k \in Keys |-> None] /\ newer = {} /\ last = [i \in Ids |-> NoneSeen]
        /\ age = [i \in Ids |-> None] /\ util = [i \in Ids |-> {}] /\ alerts = [i \in Ids |-> [c \in Conditions |-> 0]]
        /\ req = [r \in Requests |-> Idle] /\ pass = [stage |-> "next", todo |-> {}]
        /\ tunnel = "healthy" /\ used = {LEGACY_PROFILE_ID} /\ ops = 0 /\ changes = 0
    BY DEF ProfilesInit
  <1>4. profiles \in [Ids -> Profile \cup {None}]
    BY <1>1, <1>2
  <1>5. NoneSeen \in [Servers -> Classes \cup {None}] /\ [c \in Conditions |-> 0] \in [Conditions -> 0..2]
    BY DEF NoneSeen
  <1>6. HistoryType
    BY <1>3, <1>5 DEF HistoryType
  <1>7. req \in [Requests -> Tasks] /\ RemovedApart
    BY <1>3, IdleTask DEF RemovedApart
  <1>8. pass \in Passes
    BY <1>3 DEF Passes, Todo
  <1>9. ProfilesTypeOK
    BY <1>3, <1>4, <1>5, <1>6, <1>7, <1>8, ProfilesAssumption DEF ProfilesTypeOK, HistoryType
  <1>10. Known = {} /\ Cardinality(Known) <= MAX_HISTORY
    <2>1. Known = {}
      BY <1>3 DEF Known
    <2> QED
      BY <2>1, FS_EmptySet, ProfilesAssumption
  <1>11. Cardinality(Configured) <= MAX_PROFILES
    <2>1. PICK S, T : S = Configured /\ T = {LEGACY_PROFILE_ID}
      OBVIOUS
    <2>2. S \in SUBSET T
      BY <1>1, <2>1 DEF Configured
    <2>3. IsFiniteSet(T) /\ Cardinality(T) = 1
      BY <2>1, FS_Singleton
    <2>4. Cardinality(S) <= 1 /\ Cardinality(S) \in Nat
      BY <2>2, <2>3, FS_Subset, FS_CardinalityType
    <2> QED
      BY <2>1, <2>4, ProfilesAssumption
  <1> QED
    BY <1>7, <1>9, <1>10, <1>11 DEF ProfilesInv, Limits

\* The invariant holds in every behaviour of the endpoint manager.
LEMMA ProfilesInvariant == ProfilesSpec => []ProfilesInv
  <1>1. ProfilesInv /\ [ProfilesNext]_profilesVars => ProfilesInv'
    <2> SUFFICES ASSUME ProfilesInv, [ProfilesNext]_profilesVars PROVE ProfilesInv'
      OBVIOUS
    <2>1. CASE ProfilesNext
      BY <2>1, ProfilesSteps
    <2>2. CASE UNCHANGED profilesVars
      BY <2>2 DEF profilesVars, history, bounds, ProfilesInv, ProfilesTypeOK, Limits, RemovedApart, Known, Configured
    <2> QED
      BY <2>1, <2>2
  <1> QED
    BY <1>1, ProfilesInitInv, PTL DEF ProfilesSpec

\* The profiles, their history, the requests and the background pass keep their types.
THEOREM ProfilesTypeCorrect == ProfilesSpec => []ProfilesTypeOK
  <1>1. ProfilesInv => ProfilesTypeOK
    BY DEF ProfilesInv
  <1> QED
    BY <1>1, ProfilesInvariant, PTL

\* configure looks at MAX_PROFILES again in its transaction, and every save cuts the
\* history at MAX_HISTORY: neither limit is passed however requests and the pass overlap.
THEOREM ProfilesBounded == ProfilesSpec => []Limits
  <1>1. ProfilesInv => Limits
    BY DEF ProfilesInv
  <1> QED
    BY <1>1, ProfilesInvariant, PTL

\* remove_profile deletes the profile's candidates, discovery and observations, and only a
\* request or a poll that had read the profile before brings some of it back.
THEOREM RemovalForgets == ProfilesSpec => RemovedIsForgotten
  <1> DEFINE Forgets == \A i \in Ids :
               /\ profiles[i] # None /\ profiles'[i] = None => Forgotten(i)'
               /\ profiles[i] = None /\ Forgotten(i) /\ ~UnderWay(i) => Forgotten(i)'
  <1>1. ProfilesInv /\ ProfilesNext => Forgets
    <2> SUFFICES ASSUME ProfilesInv, ProfilesNext, NEW i \in Ids
                 PROVE  /\ profiles[i] # None /\ profiles'[i] = None => Forgotten(i)'
                        /\ profiles[i] = None /\ Forgotten(i) /\ ~UnderWay(i) => Forgotten(i)'
      OBVIOUS
    <2>1. CASE Saves
      <3>1. PICK j \in Ids \cup {None} : Saved(j) /\ (j = None \/ UnderWay(j))
        BY <2>1 DEF Saves
      <3>2. profiles' = profiles
        BY <2>1 DEF Saves
      <3>3. i # None
        BY ProfilesAssumption
      <3>4. i # j /\ Forgotten(i) => Forgotten(i)'
        BY <3>1 DEF Saved
      <3> QED
        BY <3>1, <3>2, <3>3, <3>4
    <2>2. CASE \E r \in Requests : CommitConfigure(r)
      BY <2>2, CommitConfigureStep
    <2>3. CASE \E j \in Ids : RemoveProfile(j)
      <3>1. PICK j \in Ids : RemoveProfile(j)
        BY <2>3
      <3>2. /\ Forgotten(j)'
            /\ i # j => profiles'[i] = profiles[i] /\ (Forgotten(i) => Forgotten(i)')
        BY <3>1, RemoveProfileStep
      <3>3. CASE i = j
        BY <3>2, <3>3
      <3>4. CASE i # j
        BY <3>2, <3>4
      <3> QED
        BY <3>3, <3>4
    <2> QED
      BY <2>1, <2>2, <2>3, ProfilesSteps
  <1>2. ProfilesInv /\ [ProfilesNext]_profilesVars => [Forgets]_profilesVars
    BY <1>1
  <1> QED
    BY <1>2, ProfilesInvariant, PTL DEF ProfilesSpec, RemovedIsForgotten

\* A validation that set_validation saved survives _save_discovery, the polls and other
\* requests until its target or its profile is removed or the history is full.
THEOREM ValidationsStay == ProfilesSpec => ValidationKept
  <1> DEFINE Kept == \A k \in Keys, t \in Targets :
               t \in Valid(k) =>
                 \/ t \in Valid(k)'
                 \/ profiles'[k[1]] = None \/ t \notin profiles'[k[1]].targets
                 \/ Cardinality(Known') = MAX_HISTORY /\ k \notin Known'
  <1>1. ProfilesInv /\ ProfilesNext => Kept
    <2> SUFFICES ASSUME ProfilesInv, ProfilesNext, NEW k \in Keys, NEW t \in Targets, t \in Valid(k)
                 PROVE  \/ t \in Valid(k)'
                        \/ profiles'[k[1]] = None \/ t \notin profiles'[k[1]].targets
                        \/ Cardinality(Known') = MAX_HISTORY /\ k \notin Known'
      OBVIOUS
    <2>1. CASE Saves
      <3>1. PICK j : Saved(j)
        BY <2>1 DEF Saves
      <3>2. Valid(k) \subseteq Valid(k)' \/ (k \notin Known' /\ Cardinality(Known') = MAX_HISTORY)
        BY <3>1 DEF Saved
      <3> QED
        BY <3>2
    <2>2. CASE \E r \in Requests : CommitConfigure(r)
      BY <2>2, CommitConfigureStep
    <2>3. CASE \E j \in Ids : RemoveProfile(j)
      <3>1. PICK j \in Ids : RemoveProfile(j)
        BY <2>3
      <3>2. profiles'[j] = None /\ (k[1] # j => Valid(k)' = Valid(k))
        BY <3>1, RemoveProfileStep
      <3> QED
        BY <3>2
    <2> QED
      BY <2>1, <2>2, <2>3, ProfilesSteps
  <1>2. ProfilesInv /\ [ProfilesNext]_profilesVars => [Kept]_profilesVars
    BY <1>1
  <1> QED
    BY <1>2, ProfilesInvariant, PTL DEF ProfilesSpec, ValidationKept
=============================================================================
