----------------------------- MODULE VpnSwitch -----------------------------
(***************************************************************************)
(* Assisted replacement of the endpoint of one managed WireGuard peer      *)
(* (backend/vpn_endpoint_service.py, switch): the request thread snapshots *)
(* the peer and its gateway on the OPNsense firewall, writes the           *)
(* replacement, regenerates and restarts, waits for a handshake, rolls     *)
(* back when anything fails, and records the result.  No lock keeps two    *)
(* requests apart.  The firewall is external: what is saved, what is       *)
(* generated from it and what the instance runs are three things.          *)
(***************************************************************************)
EXTENDS Naturals, Sequences, Optional

CONSTANTS
  Candidates,     \* current preferred or eligible candidates
  Original,       \* the endpoint before the first switch
  MaxSwitches,    \* bound: switches requested
  MaxHistory,     \* MAX_HISTORY
  MaxFaults       \* bound: failed calls, lost replies, failed audits, crashes

ASSUME ConstantsAssumption ==
  /\ Original \notin Candidates /\ None \notin Candidates \cup {Original}
  /\ MaxSwitches \in Nat /\ MaxHistory \in Nat \ {0} /\ MaxFaults \in Nat

Switches == 1..MaxSwitches
Endpoints == Candidates \cup {Original}

VARIABLES
  peer,        \* EXTERNAL: endpoint and key saved for the peer
  gateway,     \* EXTERNAL: address of the gateway, None: no endpoint's
  generated,   \* EXTERNAL: the peer in the generated configuration
  active,      \* EXTERNAL: the peer the instance runs with
  pc,          \* where a request is
  target,      \* its candidate
  before,      \* its snapshot of the peer
  gwBefore,    \* its snapshot of the gateway
  changed,     \* its configuration_changed
  outcome,     \* what it tells the user
  events,      \* the switch events of the profile's history
  mark,        \* what befell a request, for the properties
  faults

firewall == <<peer, gateway, generated, active>>
locals == <<target, before, gwBefore, changed, outcome>>
vars == <<firewall, pc, locals, events, mark, faults>>

Writes == {"savePeer", "saveGateway", "reconfigure", "restart", "verify"}
Rollback == {"rollbackPeer", "rollbackGateway", "rollbackReconfigure", "rollbackRestart"}
Busy == Writes \cup Rollback \cup {"readPeer", "readGateway", "except", "audit"}

TypeOK ==
  /\ peer \in Endpoints /\ generated \in Endpoints /\ active \in Endpoints
  /\ gateway \in Endpoints \cup {None}
  /\ pc \in [Switches -> Busy \cup {"none", "ended"}]
  /\ target \in [Switches -> Candidates \cup {None}]
  /\ before \in [Switches -> Endpoints \cup {None}]
  /\ gwBefore \in [Switches -> Endpoints \cup {None}]
  /\ changed \in [Switches -> BOOLEAN]
  /\ outcome \in [Switches -> {"none", "ok", "unchanged", "restored", "failed"}]
  /\ events \in Seq([candidate : Candidates, result : {"success", "failed"}])
  /\ Len(events) <= MaxHistory
  /\ mark \in [Switches -> SUBSET {"overlapped", "blind", "unaudited", "crashed"}]
  /\ faults \in 0..MaxFaults

Init ==
  /\ peer = Original /\ generated = Original /\ active = Original
  /\ gateway \in {Original, None}
  /\ pc = [s \in Switches |-> "none"]
  /\ target = [s \in Switches |-> None]
  /\ before = [s \in Switches |-> None]
  /\ gwBefore = [s \in Switches |-> None]
  /\ changed = [s \in Switches |-> FALSE]
  /\ outcome = [s \in Switches |-> "none"]
  /\ events = <<>>
  /\ mark = [s \in Switches |-> {}]
  /\ faults = 0

Goto(s, label) == pc' = [pc EXCEPT ![s] = label]
Tell(s, what) == outcome' = [outcome EXCEPT ![s] = what]
Fault == faults < MaxFaults /\ faults' = faults + 1
NoFault == faults' = faults
Mark(S, what) == mark' = [s \in Switches |-> IF s \in S THEN mark[s] \cup {what} ELSE mark[s]]
InFlight == {s \in Switches : pc[s] \in Busy}

\* A call that succeeds, fails without effect, or takes effect without a reply.
Remote(s, effect, none, next, onError) ==
  \/ effect /\ Goto(s, next) /\ NoFault
  \/ (effect \/ none) /\ Goto(s, onError) /\ Fault

----------------------------------------------------------------------------
\* switch: the try block

\* Validation of the request; a second request may come while one is under way.
Begin(s, c) ==
  /\ pc[s] = "none" /\ \A t \in Switches : t < s => pc[t] # "none"
  /\ target' = [target EXCEPT ![s] = c]
  /\ Goto(s, "readPeer")
  /\ Mark(IF InFlight = {} THEN {} ELSE InFlight \cup {s}, "overlapped")
  /\ UNCHANGED <<firewall, before, gwBefore, changed, outcome, events, faults>>

\* The peer is read and belongs to the instance; or connecting, reading or
\* the association fails.
ReadPeer(s) ==
  /\ pc[s] = "readPeer"
  /\ \/ before' = [before EXCEPT ![s] = peer] /\ Goto(s, "readGateway") /\ NoFault
     \/ before' = before /\ Goto(s, "except") /\ Fault
  /\ UNCHANGED <<firewall, target, gwBefore, changed, outcome, events, mark>>

ReadGateway(s) ==
  /\ pc[s] = "readGateway"
  /\ \/ gwBefore' = [gwBefore EXCEPT ![s] = gateway] /\ Goto(s, "savePeer") /\ NoFault
     \/ gwBefore' = gwBefore /\ Goto(s, "except") /\ Fault
  /\ UNCHANGED <<firewall, target, before, changed, outcome, events, mark>>

\* Defect: the gateway is compared with the replacement.
ChangesGatewayNew(s) == gwBefore[s] = target[s]

\* changed_gateway: its fields are exactly the old endpoint.
ChangesGateway(s) == gwBefore[s] = before[s]

\* configuration_changed is set when the reply is there, not before.
SavePeer(s) ==
  /\ pc[s] = "savePeer"
  /\ \/ /\ peer' = target[s]
        /\ changed' = [changed EXCEPT ![s] = TRUE]
        /\ Goto(s, IF ChangesGateway(s) THEN "saveGateway" ELSE "reconfigure")
        /\ NoFault /\ UNCHANGED mark
     \/ /\ peer' = peer /\ Goto(s, "except") /\ Fault
        /\ UNCHANGED <<changed, mark>>
     \/ /\ peer' = target[s] /\ Goto(s, "except") /\ Fault
        /\ Mark({s}, "blind")
        /\ UNCHANGED changed
  /\ UNCHANGED <<gateway, generated, active, target, before, gwBefore, outcome, events>>

SaveGateway(s) ==
  /\ pc[s] = "saveGateway"
  /\ Remote(s, gateway' = target[s], gateway' = gateway, "reconfigure", "except")
  /\ UNCHANGED <<peer, generated, active, locals, events, mark>>

Reconfigure(s) ==
  /\ pc[s] = "reconfigure"
  /\ Remote(s, generated' = peer, generated' = generated, "restart", "except")
  /\ UNCHANGED <<peer, gateway, active, locals, events, mark>>

Restart(s) ==
  /\ pc[s] = "restart"
  /\ Remote(s, active' = generated, active' = active, "verify", "except")
  /\ UNCHANGED <<peer, gateway, generated, locals, events, mark>>

\* A new handshake under the replacement's key needs the replacement active,
\* and traffic within 12 s.
Verify(s) ==
  /\ pc[s] = "verify"
  /\ \/ active = target[s] /\ Tell(s, "ok") /\ Goto(s, "audit")
     \/ outcome' = outcome /\ Goto(s, "except")
  /\ UNCHANGED <<firewall, target, before, gwBefore, changed, events, mark, faults>>

----------------------------------------------------------------------------
\* The except clause and the audit

Except(s) ==
  /\ pc[s] = "except"
  /\ IF changed[s]
     THEN Goto(s, "rollbackPeer") /\ UNCHANGED outcome
     ELSE Goto(s, "audit") /\ Tell(s, "unchanged")
  /\ UNCHANGED <<firewall, target, before, gwBefore, changed, events, mark, faults>>

\* One call of the rollback: a failure ends it as failed.
Restore(s, effect, none, next, done) ==
  \/ effect /\ Goto(s, next) /\ NoFault /\ outcome' = [outcome EXCEPT ![s] = done]
  \/ (effect \/ none) /\ Goto(s, "audit") /\ Fault /\ Tell(s, "failed")

\* Defect: the gateway is forgotten.
RollbackPeerOnly(s) ==
  /\ pc[s] = "rollbackPeer"
  /\ Restore(s, peer' = before[s], peer' = peer, "rollbackReconfigure", "none")
  /\ UNCHANGED <<gateway, generated, active, target, before, gwBefore, changed, events, mark>>

RollbackPeer(s) ==
  /\ pc[s] = "rollbackPeer"
  /\ Restore(s, peer' = before[s], peer' = peer,
             IF ChangesGateway(s) THEN "rollbackGateway" ELSE "rollbackReconfigure", "none")
  /\ UNCHANGED <<gateway, generated, active, target, before, gwBefore, changed, events, mark>>

RollbackGateway(s) ==
  /\ pc[s] = "rollbackGateway"
  /\ Restore(s, gateway' = gwBefore[s], gateway' = gateway, "rollbackReconfigure", "none")
  /\ UNCHANGED <<peer, generated, active, target, before, gwBefore, changed, events, mark>>

\* Defect: regenerating is taken for applying.
RollbackReconfigureLast(s) ==
  /\ pc[s] = "rollbackReconfigure"
  /\ Restore(s, generated' = peer, generated' = generated, "audit", "restored")
  /\ UNCHANGED <<peer, gateway, active, target, before, gwBefore, changed, events, mark>>

RollbackReconfigure(s) ==
  /\ pc[s] = "rollbackReconfigure"
  /\ Restore(s, generated' = peer, generated' = generated, "rollbackRestart", "none")
  /\ UNCHANGED <<peer, gateway, active, target, before, gwBefore, changed, events, mark>>

\* rollback_ok, whether or not a handshake is observed.
RollbackRestart(s) ==
  /\ pc[s] = "rollbackRestart"
  /\ Restore(s, active' = generated, active' = active, "audit", "restored")
  /\ UNCHANGED <<peer, gateway, generated, target, before, gwBefore, changed, events, mark>>

\* The newest MAX_HISTORY events.
AppendBounded(s, e) ==
  LET all == Append(s, e)
  IN  IF Len(all) > MaxHistory THEN SubSeq(all, Len(all) - MaxHistory + 1, Len(all)) ELSE all

Event(s) == [candidate |-> target[s], result |-> IF outcome[s] = "ok" THEN "success" ELSE "failed"]

\* When the store fails the request fails and no event is kept.
Audit(s) ==
  /\ pc[s] = "audit"
  /\ \/ events' = AppendBounded(events, Event(s)) /\ NoFault /\ UNCHANGED mark
     \/ events' = events /\ Fault /\ Mark({s}, "unaudited")
  /\ Goto(s, "ended")
  /\ UNCHANGED <<firewall, locals>>

\* The process ends and starts again; nothing resumes a switch.
Crash ==
  /\ InFlight # {}
  /\ Fault
  /\ Mark(InFlight, "crashed")
  /\ pc' = [s \in Switches |-> IF s \in InFlight THEN "ended" ELSE pc[s]]
  /\ UNCHANGED <<firewall, locals, events>>

Switch(s) ==
  \/ ReadPeer(s) \/ ReadGateway(s) \/ SavePeer(s) \/ SaveGateway(s) \/ Reconfigure(s)
  \/ Restart(s) \/ Verify(s) \/ Except(s) \/ RollbackPeer(s) \/ RollbackGateway(s)
  \/ RollbackReconfigure(s) \/ RollbackRestart(s) \/ Audit(s)

Next ==
  \/ \E s \in Switches, c \in Candidates : Begin(s, c)
  \/ \E s \in Switches : Switch(s)
  \/ Crash

Spec == Init /\ [][Next]_vars

----------------------------------------------------------------------------
\* Properties

Applied(e) == peer = e /\ generated = e /\ active = e
Alone(s) == "overlapped" \notin mark[s]

\* "Endpoint switched and authenticated handshake verified.": the replacement
\* is saved, generated and active, and a gateway that named the old endpoint
\* names the new one; every other gateway is untouched.
SuccessMeansActive ==
  \A s \in Switches :
    pc[s] = "audit" /\ outcome[s] = "ok" /\ Alone(s) =>
      /\ Applied(target[s])
      /\ gateway = IF gwBefore[s] = before[s] THEN target[s] ELSE gwBefore[s]

\* docs/vpn-endpoints.md: "restores the complete peer and any changed gateway
\* snapshot, regenerates the configuration and restarts", whichever call of
\* the switch failed and whether or not it had taken effect.
RollbackRestores ==
  \A s \in Switches :
    pc[s] = "audit" /\ outcome[s] = "restored" /\ Alone(s) =>
      Applied(before[s]) /\ gateway = gwBefore[s]

\* "Both actions are required": once no switch is under way the instance runs
\* what is saved, however switches overlapped, unless one said its rollback
\* failed, lost the reply to its first write, or was killed.
Settled ==
  InFlight = {} /\ (\A s \in Switches : outcome[s] # "failed" /\ mark[s] \cap {"blind", "crashed"} = {})
    => Applied(peer)

\* "Endpoint change was not applied, so the existing OPNsense configuration
\* was left unchanged."
UnchangedMeansUnchanged ==
  \A s \in Switches :
    pc[s] = "audit" /\ outcome[s] = "unchanged" /\ Alone(s) /\ before[s] # None => peer = before[s]

----------------------------------------------------------------------------
\* The inductive invariant behind the safety properties

\* Requests that share time know it.
OverlapsMarked ==
  \A s, t \in InFlight : s # t => "overlapped" \in mark[s]

\* A request knows its candidate, its snapshot once it read the peer, and
\* configuration_changed from the first write to the end of the rollback.
LocalsKnown ==
  \A s \in Switches :
    /\ pc[s] \in Busy => target[s] \in Candidates
    /\ pc[s] \in {"readGateway", "savePeer"} \/ changed[s] => before[s] \in Endpoints
    /\ pc[s] \in {"saveGateway", "reconfigure", "restart", "verify"} \cup Rollback => changed[s]
    /\ pc[s] \in {"none", "readPeer", "readGateway", "savePeer"} => ~changed[s]

\* A failed rollback is the end of a request.
FailedAtEnd == \A s \in Switches : outcome[s] = "failed" => pc[s] \in {"audit", "ended"}

\* What a request that is alone has made of the firewall.
Gateways(s) == IF ChangesGateway(s) THEN {gwBefore[s], target[s]} ELSE {gwBefore[s]}
Progress(s) ==
  /\ pc[s] \in {"readGateway", "savePeer"} => peer = before[s]
  /\ pc[s] \in {"savePeer", "saveGateway"} => gateway = gwBefore[s]
  /\ pc[s] \in {"saveGateway", "reconfigure", "restart", "verify"} => peer = target[s]
  /\ pc[s] \in {"saveGateway", "rollbackGateway"} => ChangesGateway(s)
  /\ pc[s] \in {"reconfigure", "restart", "verify"} =>
       gateway = IF ChangesGateway(s) THEN target[s] ELSE gwBefore[s]
  /\ pc[s] \in {"restart", "verify"} => generated = target[s]
  /\ pc[s] = "verify" => active = target[s]
  /\ (pc[s] = "except" /\ changed[s]) \/ pc[s] \in {"rollbackPeer", "rollbackGateway"} =>
       gateway \in Gateways(s)
  /\ pc[s] \in {"rollbackGateway", "rollbackReconfigure", "rollbackRestart"} => peer = before[s]
  /\ pc[s] \in {"rollbackReconfigure", "rollbackRestart"} => gateway = gwBefore[s]
  /\ pc[s] = "rollbackRestart" => generated = before[s]
AloneProgress == \A s \in Switches : Alone(s) => Progress(s)

\* A request that will still regenerate, or still restart.
WillGenerate(s) ==
  \/ pc[s] \in {"saveGateway", "reconfigure", "rollbackPeer", "rollbackGateway", "rollbackReconfigure"}
  \/ pc[s] = "except" /\ changed[s]
WillRestart(s) == WillGenerate(s) \/ pc[s] \in {"restart", "rollbackRestart"}
Excused(s) == outcome[s] = "failed" \/ mark[s] \cap {"blind", "crashed"} # {}
Pending ==
  /\ peer # generated => \E s \in Switches : WillGenerate(s) \/ Excused(s)
  /\ generated # active => \E s \in Switches : WillRestart(s) \/ Excused(s)

IInv ==
  /\ TypeOK /\ OverlapsMarked /\ LocalsKnown /\ FailedAtEnd /\ AloneProgress /\ Pending
  /\ SuccessMeansActive /\ RollbackRestores

=============================================================================
