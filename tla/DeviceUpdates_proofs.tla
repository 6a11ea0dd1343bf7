------------------------ MODULE DeviceUpdates_proofs ------------------------
(***************************************************************************)
(* Proofs about DeviceUpdates, for any number of nodes, operations,        *)
(* checkers and faults.  The argument is about the holder of the slot: a   *)
(* thread runs only while the slot names its operation and says "running"  *)
(* (ThreadHasSlot), so a claim that finds the slot free finds no thread.   *)
(* What a thread has done with its nodes is NodesProgress; it makes the    *)
(* terminal state true when it is written, and the terminal state is the   *)
(* last thing written (TerminalIsDone), so a snapshot taken later says it  *)
(* too.                                                                    *)
(*                                                                         *)
(* The second part is about Playbooks, the configuration that decides what *)
(* a maintenance job may launch: where no request overwrote a change it    *)
(* had not read, an approval on record is of the file that was granted     *)
(* (ApprovalsGranted), and the command is built from the record of then.   *)
(***************************************************************************)
EXTENDS DeviceUpdates, Playbooks, FiniteSetTheorems, TLAPS

USE DEF Goto, Save, StoreWorks

\* The initial state satisfies the invariant.
LEMMA InitInv == Init => IInv
  <1> USE ConstantsAssumption
  <1>1. Init => TypeOK
    BY DEF Init, TypeOK, NoNodes, Checkers, Labels, Stages, NodeStates, Ops
  <1>2. Init => SnapshotAgrees
    BY DEF Init, SnapshotAgrees
  <1> QED
    BY <1>1, <1>2 DEF Init, IInv, ThreadHasSlot, TerminalIsDone, Unborn, CheckAwaited, NodesProgress,
                      SnapshotTrue, Threads, NoNodes, Ops, Checkers

\* Requests and the slot keep the types.
LEMMA RequestTypes ==
  ASSUME TypeOK, NEW o \in Ops,
         \/ \E r \in Requests : Request(o, r[1], r[2])
         \/ Validate(o) \/ Insert(o) \/ InsertConflict(o)
  PROVE  TypeOK'
  <1> USE ConstantsAssumption DEF history, TypeOK, Labels, Threads, NodeStates, checking, reading, outside, faults
  <1>1. CASE \E r \in Requests : Request(o, r[1], r[2])
    BY <1>1 DEF Request
  <1>2. CASE Validate(o)
    BY <1>2 DEF Validate
  <1>3. CASE Insert(o)
    BY <1>3 DEF Insert
  <1>4. CASE InsertConflict(o)
    BY <1>4 DEF InsertConflict
  <1> QED
    BY <1>1, <1>2, <1>3, <1>4

\* The thread keeps the types, because it is at a node while it works.
LEMMA ThreadTypes ==
  ASSUME TypeOK, NEW o \in Ops, NodesProgress(o), RunOperation(o)
  PROVE  TypeOK'
  <1> USE ConstantsAssumption DEF history, TypeOK, Labels, Threads, NodeStates, Stages, checking, reading, outside, faults
  <1>1. CASE Persist(o)
    BY <1>1 DEF Persist, StoreFails
  <1>2. CASE BeginNode(o)
    BY <1>2 DEF BeginNode, Working
  <1>3. CASE AdvanceStage(o)
    <2>1. current[o] \in Nodes /\ saving' \in [Ops -> {"yes", "no"}] /\ stage' \in [Ops -> Stages]
      BY <1>3 DEF AdvanceStage, Working, NodesProgress
    <2>2. CASE stage[o] = "installing"
      <3>1. PICK k \in {kernel[current[o]], "stale"} : kernel' = [kernel EXCEPT ![current[o]] = k]
        BY <1>3, <2>2 DEF AdvanceStage
      <3>2. k \in {"current", "stale"}
        BY <2>1
      <3>3. kernel' \in [Nodes -> {"current", "stale"}]
        BY <2>1, <3>1, <3>2
      <3>4. updates' = [updates EXCEPT ![current[o]] = "installed"]
        BY <1>3, <2>2 DEF AdvanceStage
      <3>5. updates' \in [Nodes -> {"available", "installed"}]
        BY <2>1, <3>4
      <3> QED
        BY <1>3, <2>1, <3>3, <3>5 DEF AdvanceStage
    <2>3. CASE stage[o] # "installing"
      BY <1>3, <2>1, <2>3 DEF AdvanceStage
    <2> QED
      BY <2>2, <2>3
  <1>4. CASE SendReboot(o)
    BY <1>4 DEF SendReboot, Working, NodesProgress
  <1>5. CASE NodeFails(o)
    <2>1. current[o] \in Nodes /\ saving' \in [Ops -> {"yes", "no"}] /\ pc' \in [Ops -> Labels]
      BY <1>5 DEF NodeFails, Working, NodesProgress
    <2>2. updates' \in [Nodes -> {"available", "installed"}] /\ kernel' \in [Nodes -> {"current", "stale"}]
      <3>1. CASE UNCHANGED outside
        BY <3>1
      <3>2. CASE updates' = [updates EXCEPT ![current[o]] = "installed"] /\ UNCHANGED kernel
        BY <2>1, <3>2
      <3>3. CASE kernel' = [kernel EXCEPT ![current[o]] = "current"] /\ UNCHANGED updates
        BY <2>1, <3>3
      <3> QED
        BY <1>5, <3>1, <3>2, <3>3 DEF NodeFails
    <2>3. nodes' \in [Ops -> [Nodes -> NodeStates]]
      BY <1>5, <2>1 DEF NodeFails
    <2> QED
      BY <1>5, <2>1, <2>2, <2>3 DEF NodeFails
  <1>6. CASE CompleteNode(o)
    BY <1>6 DEF CompleteNode, Working, NodesProgress
  <1>7. CASE NodesDone(o)
    BY <1>7 DEF NodesDone, Working
  <1>8. CASE Conclude(o)
    BY <1>8 DEF Conclude, Working
  <1> QED
    BY <1>1, <1>2, <1>3, <1>4, <1>5, <1>6, <1>7, <1>8 DEF RunOperation

\* What follows a check.
LEMMA AfterCheckTypes ==
  ASSUME TypeOK, NEW c \in Checkers, NEW ok \in BOOLEAN, AfterCheck(c, ok)
  PROVE  pc' \in [Ops -> Labels] /\ todo' \in [Ops -> SUBSET Nodes]
  <1> USE DEF TypeOK, Labels, Threads
  <1>1. CASE c \in Pollers
    BY <1>1 DEF AfterCheck
  <1>2. CASE c \notin Pollers
    <2>1. c \in Ops
      BY <1>2 DEF Checkers
    <2>2. pc' \in [Ops -> Labels]
      <3>1. pc \in [Ops -> Labels] /\ {"conclude", "insert", "gone"} \subseteq Labels
        OBVIOUS
      <3>2. \E l \in {"conclude", "insert", "gone"} : pc' = [pc EXCEPT ![c] = l]
        BY <1>2, <2>1 DEF AfterCheck, Goto
      <3> QED
        BY <2>1, <3>1, <3>2
    <2>3. todo' = todo \/ todo' = [todo EXCEPT ![c] = {}]
      BY <1>2 DEF AfterCheck
    <2>4. todo' \in [Ops -> SUBSET Nodes]
      <3>1. todo \in [Ops -> SUBSET Nodes] /\ {} \in SUBSET Nodes
        OBVIOUS
      <3> QED
        BY <2>1, <2>3, <3>1
    <2> QED
      BY <2>2, <2>4
  <1> QED
    BY <1>1, <1>2

\* Checks keep the types.
LEMMA CheckTypes ==
  ASSUME TypeOK, NEW c \in Checkers,
         AcquireCheck(c) \/ RefuseCheck(c) \/ Inspect(c) \/ ReleaseCheck(c)
  PROVE  TypeOK'
  <1> USE ConstantsAssumption DEF history, TypeOK, checking, reading, outside, faults, runtime, StoreFails
  <1>1. CASE AcquireCheck(c)
    BY <1>1 DEF AcquireCheck
  <1>2. CASE RefuseCheck(c)
    <2>1. pc' \in [Ops -> Labels] /\ todo' \in [Ops -> SUBSET Nodes]
      BY <1>2, AfterCheckTypes DEF RefuseCheck
    <2> QED
      BY <1>2, <2>1 DEF RefuseCheck
  <1>3. CASE Inspect(c)
    <2>1. check' \in [Checkers -> {"idle", "inspect", "confirmed", "release"}]
      <3>1. check' = [check EXCEPT ![c] = "confirmed"] \/ check' = [check EXCEPT ![c] = "release"]
        BY <1>3 DEF Inspect
      <3>2. check \in [Checkers -> {"idle", "inspect", "confirmed", "release"}]
        OBVIOUS
      <3> HIDE DEF TypeOK
      <3> QED
        BY <3>1, <3>2
    <2>2. storeErrors' \in Nat
      BY <1>3 DEF Inspect
    <2> QED
      BY <1>3, <2>1, <2>2 DEF Inspect
  <1>4. CASE ReleaseCheck(c)
    <2>1. AfterCheck(c, check[c] = "confirmed") \/ AfterCheck(c, FALSE)
      BY <1>4 DEF ReleaseCheck
    <2>2. pc' \in [Ops -> Labels] /\ todo' \in [Ops -> SUBSET Nodes]
      BY <2>1, AfterCheckTypes
    <2>3. lock' \in {lock, None} /\ (StoreWorks \/ StoreFails)
      BY <1>4, Zenon DEF ReleaseCheck
    <2> QED
      BY <1>4, <2>2, <2>3 DEF ReleaseCheck
  <1> QED
    BY <1>1, <1>2, <1>3, <1>4

\* The other steps keep the types.
LEMMA OtherTypes ==
  ASSUME TypeOK,
         LeaseExpires \/ StatusLook \/ StatusLoad \/ StatusConvert \/ Crash \/ Restart \/ UNCHANGED vars
  PROVE  TypeOK'
  <1> USE ConstantsAssumption
      DEF history, TypeOK, checking, reading, outside, faults, runtime, StoreFails, Labels, Threads, NodeStates, Stages
  <1>1. CASE LeaseExpires
    BY <1>1 DEF LeaseExpires
  <1>2. CASE StatusLook
    BY <1>2 DEF StatusLook
  <1>3. CASE StatusLoad
    BY <1>3 DEF StatusLoad
  <1>4. CASE StatusConvert
    BY <1>4 DEF StatusConvert, Interrupted
  <1>5. CASE Crash
    <2>1. pc' \in [Ops -> Labels] /\ saving' \in [Ops -> {"yes", "no"}] /\ todo' \in [Ops -> SUBSET Nodes]
          /\ state' \in [Ops -> {"running", "completed", "failed"}]
      BY <1>5 DEF Crash
    <2>2. nodes' \in [Ops -> [Nodes -> NodeStates]] /\ stage' \in [Ops -> Stages]
          /\ current' \in [Ops -> Nodes \cup {None}]
      BY <1>5 DEF Crash, NoNodes
    <2>3. check' \in [Checkers -> {"idle", "inspect", "confirmed", "release"}]
      BY <1>5 DEF Crash
    <2> QED
      BY <1>5, <2>1, <2>2, <2>3 DEF Crash
  <1>6. CASE Restart
    BY <1>6 DEF Restart
  <1>7. CASE UNCHANGED vars
    BY <1>7 DEF vars
  <1> QED
    BY <1>1, <1>2, <1>3, <1>4, <1>5, <1>6, <1>7

----------------------------------------------------------------------------
\* The slot and the thread

\* Requests keep the invariant.  A claim finds the slot free, so nobody runs a thread.
LEMMA RequestInv ==
  ASSUME IInv, NEW o \in Ops,
         \/ \E r \in Requests : Request(o, r[1], r[2])
         \/ Validate(o) \/ Insert(o) \/ InsertConflict(o)
  PROVE  IInv'
  <1>0. TypeOK /\ TypeOK'
    BY RequestTypes DEF IInv
  <1> USE <1>0 DEF Threads, checking, reading, outside, faults
  <1>1. CASE \E r \in Requests : Request(o, r[1], r[2])
    <2>1. PICK r \in Requests : Request(o, r[1], r[2])
      BY <1>1
    <2>2. /\ pc[o] = "none" /\ pc' = [pc EXCEPT ![o] = "validate"]
          /\ \A p \in Ops \ {o} : kind'[p] = kind[p] /\ todo'[p] = todo[p]
          /\ UNCHANGED <<slot, state, nodes, current, stage, saving, persisted, outside, storeErrors>>
      BY <2>1 DEF Request, TypeOK
    <2>3. ThreadHasSlot' /\ TerminalIsDone' /\ Unborn' /\ SnapshotAgrees'
      BY <2>2 DEF IInv, ThreadHasSlot, TerminalIsDone, Unborn, SnapshotAgrees, TypeOK
    <2>4. \A p \in Ops : NodesProgress(p)'
      BY <2>2 DEF IInv, NodesProgress, TypeOK
    <2>5. SnapshotTrue'
      <3>1. persisted.state = "completed" => persisted.id \in Ops \ {o}
        BY <2>2 DEF IInv, Unborn, TypeOK
      <3> QED
        BY <2>2, <3>1 DEF IInv, SnapshotTrue
    <2>6. CheckAwaited'
      BY <2>1, <2>2 DEF IInv, CheckAwaited, Request
    <2> QED
      BY <2>3, <2>4, <2>5, <2>6 DEF IInv
  <1>2. CASE Validate(o) \/ InsertConflict(o)
    <2>1. /\ pc[o] \in {"validate", "insert"} /\ pc'[o] \in {"insert", "gone"}
          /\ \A p \in Ops \ {o} : pc'[p] = pc[p] /\ todo'[p] = todo[p]
          /\ UNCHANGED <<slot, kind, state, nodes, current, stage, saving, persisted, outside, storeErrors>>
      BY <1>2 DEF Validate, InsertConflict, TypeOK
    <2>2. ThreadHasSlot' /\ TerminalIsDone' /\ Unborn' /\ SnapshotAgrees'
      BY <2>1 DEF IInv, ThreadHasSlot, TerminalIsDone, Unborn, SnapshotAgrees, TypeOK
    <2>3. \A p \in Ops : NodesProgress(p)'
      BY <2>1 DEF IInv, NodesProgress, TypeOK
    <2>4. SnapshotTrue'
      BY <2>1 DEF IInv, SnapshotTrue
    <2>5. CheckAwaited'
      BY <1>2, <2>1 DEF IInv, CheckAwaited, Validate, InsertConflict
    <2> QED
      BY <2>2, <2>3, <2>4, <2>5 DEF IInv
  <1>3. CASE Insert(o)
    <2>1. /\ pc[o] = "insert" /\ pc'[o] = "next" /\ slot' = o /\ state'[o] = "running"
          /\ nodes'[o] = [n \in Nodes |-> IF n \in todo[o] THEN "pending" ELSE "absent"]
          /\ saving'[o] = "yes"
          /\ \A p \in Ops \ {o} : pc'[p] = pc[p] /\ state'[p] = state[p] /\ nodes'[p] = nodes[p]
                                  /\ saving'[p] = saving[p]
          /\ UNCHANGED <<kind, todo, current, stage, persisted, outside, storeErrors>>
      BY <1>3 DEF Insert, TypeOK
    <2>2. \A p \in Ops : pc[p] \notin Threads
      BY <1>3, ConstantsAssumption DEF Insert, SlotFree, IInv, ThreadHasSlot, Ops
    <2>3. ThreadHasSlot' /\ TerminalIsDone' /\ Unborn' /\ SnapshotAgrees'
      <3>1. ThreadHasSlot'
        BY <2>1, <2>2 DEF ThreadHasSlot
      <3>2. TerminalIsDone'
        BY <2>1 DEF IInv, TerminalIsDone
      <3>3. Unborn'
        <4>1. \A p \in Ops : pc'[p] # "none" <=> p = o \/ pc[p] # "none"
          BY <2>1
        <4>2. persisted' = persisted /\ persisted.id \in Ops \cup {0}
          BY <2>1 DEF TypeOK
        <4> QED
          BY <2>1, <4>1, <4>2 DEF IInv, Unborn
      <3>4. SnapshotAgrees'
        BY <2>1 DEF IInv, SnapshotAgrees
      <3> QED
        BY <3>1, <3>2, <3>3, <3>4
    <2>4. \A p \in Ops : NodesProgress(p)'
      BY <2>1 DEF IInv, NodesProgress, TypeOK
    <2>5. SnapshotTrue'
      BY <2>1 DEF IInv, SnapshotTrue
    <2>6. CheckAwaited'
      BY <1>3, <2>1 DEF IInv, CheckAwaited, Insert
    <2> QED
      BY <2>3, <2>4, <2>5, <2>6 DEF IInv
  <1> QED
    BY <1>1, <1>2, <1>3

\* What a step of one thread leaves alone of the other operations.
LEMMA Frame ==
  ASSUME TypeOK, NEW o \in Ops, RunOperation(o)
  PROVE  /\ \A p \in Ops \ {o} :
              /\ pc'[p] = pc[p] /\ state'[p] = state[p] /\ nodes'[p] = nodes[p] /\ todo'[p] = todo[p]
              /\ current'[p] = current[p] /\ stage'[p] = stage[p] /\ saving'[p] = saving[p]
         /\ UNCHANGED <<slot, kind>>
         /\ \A n \in Nodes : updates[n] = "installed" => updates'[n] = "installed"
  <1> USE DEF TypeOK, Working, outside
  <1>1. CASE Persist(o) \/ BeginNode(o) \/ SendReboot(o) \/ CompleteNode(o) \/ NodesDone(o) \/ Conclude(o)
    BY <1>1 DEF Persist, BeginNode, SendReboot, CompleteNode, NodesDone, Conclude
  <1>2. CASE AdvanceStage(o)
    BY <1>2 DEF AdvanceStage
  <1>3. CASE NodeFails(o)
    BY <1>3 DEF NodeFails
  <1> QED
    BY <1>1, <1>2, <1>3 DEF RunOperation

\* The thread keeps the invariant of the operations it does not run.
LEMMA OthersProgress ==
  ASSUME IInv, TypeOK', NEW o \in Ops, RunOperation(o), NEW p \in Ops \ {o}
  PROVE  NodesProgress(p)'
  BY Frame DEF IInv, TypeOK, NodesProgress, Threads

\* The nodes of an operation that says it completed.
LEMMA CompletedNodes ==
  ASSUME IInv, NEW o \in Ops, state[o] = "completed", NEW n \in Nodes
  PROVE  nodes[o][n] \in {"absent", "completed"} /\ (kind[o] = "update" /\ nodes[o][n] # "absent" => updates[n] = "installed")
  <1>1. pc[o] = "done" /\ nodes[o][n] \in NodeStates
    BY DEF IInv, TerminalIsDone, TypeOK
  <1>2. NodesProgress(o)
    BY DEF IInv
  <1>3. nodes[o][n] \notin {"pending", "running", "failed"}
    BY <1>1, <1>2 DEF NodesProgress
  <1>4. nodes[o][n] = "completed" /\ kind[o] = "update" => updates[n] = "installed"
    BY <1>1, <1>2 DEF NodesProgress
  <1> QED
    BY <1>1, <1>3, <1>4 DEF NodeStates

\* _persist_operation keeps the invariant.
LEMMA PersistInv ==
  ASSUME IInv, NEW o \in Ops, Persist(o)
  PROVE  IInv'
  <1>1. TypeOK /\ TypeOK'
    BY ThreadTypes DEF IInv, RunOperation
  <1>2. /\ UNCHANGED <<slot, kind, state, nodes, todo, current, stage, pc, outside>>
        /\ saving[o] = "yes" /\ saving'[o] = "no" /\ \A p \in Ops \ {o} : saving'[p] = saving[p]
        /\ \/ persisted' = [id |-> o, state |-> state[o], nodes |-> nodes[o]] /\ storeErrors' = storeErrors
           \/ persisted' = persisted /\ storeErrors' = storeErrors + 1
    BY <1>1 DEF Persist, StoreFails, TypeOK
  <1>3. ThreadHasSlot' /\ TerminalIsDone' /\ \A p \in Ops : NodesProgress(p)'
    BY <1>2 DEF IInv, ThreadHasSlot, TerminalIsDone, NodesProgress, outside
  <1>4. Unborn'
    BY <1>1, <1>2, ConstantsAssumption DEF IInv, Unborn, Ops
  <1>5. SnapshotTrue'
    <2> QED
      BY <1>2, CompletedNodes DEF IInv, SnapshotTrue, outside
  <1>6. SnapshotAgrees'
    BY <1>1, <1>2 DEF IInv, SnapshotAgrees, TypeOK
  <1>7. CheckAwaited'
    BY <1>2 DEF IInv, CheckAwaited, Persist, checking
  <1> QED
    BY <1>1, <1>3, <1>4, <1>5, <1>6, <1>7 DEF IInv

\* The steps of the thread that write to _JOBS: what they have in common.
LEMMA ThreadInv ==
  ASSUME IInv, NEW o \in Ops, RunOperation(o), ~Persist(o)
  PROVE  /\ TypeOK' /\ Unborn' /\ SnapshotTrue'
         /\ pc[o] \in Threads /\ saving[o] = "no" /\ UNCHANGED <<persisted, storeErrors>>
         /\ (Conclude(o) \/ (pc'[o] \in Threads /\ state' = state))
  <1> USE DEF IInv
  <1>1. TypeOK' /\ TypeOK
    BY ThreadTypes
  <1>2. /\ pc[o] \in Threads /\ saving[o] = "no" /\ UNCHANGED <<persisted, storeErrors>>
        /\ (Conclude(o) \/ (pc'[o] \in Threads /\ state' = state))
    BY <1>1 DEF RunOperation, BeginNode, SendReboot, CompleteNode, NodesDone, Conclude, AdvanceStage,
                NodeFails, Working, Threads, TypeOK, faults
  <1>3. Unborn'
    <2>1. \A p \in Ops : pc[p] # "none" => pc'[p] # "none"
      BY <1>1, <1>2, Frame DEF Conclude, Threads, TypeOK
    <2>2. \A p \in Ops : pc'[p] = "none" => pc[p] = "none" /\ p # o
      BY <1>2, <2>1 DEF Threads
    <2> QED
      BY <1>1, <1>2, <2>1, <2>2, Frame DEF Unborn, TypeOK
  <1>4. SnapshotTrue'
    BY <1>1, <1>2, Frame DEF SnapshotTrue, TypeOK
  <1> QED
    BY <1>1, <1>2, <1>3, <1>4

\* The thread keeps what it knows of its nodes.
LEMMA OwnProgress ==
  ASSUME IInv, TypeOK', NEW o \in Ops, RunOperation(o), ~Persist(o)
  PROVE  NodesProgress(o)'
  <1>0. TypeOK /\ NodesProgress(o) /\ (pc[o] \in Threads => state[o] = "running")
    BY DEF IInv, ThreadHasSlot
  <1> USE <1>0 DEF TypeOK, Threads, Working, outside
  <1>1. CASE BeginNode(o)
    BY <1>1 DEF BeginNode, NodesProgress
  <1>2. CASE AdvanceStage(o)
    <2>1. /\ pc[o] = "working" /\ current[o] \in Nodes /\ UNCHANGED <<pc, kind, state, nodes, todo, current>>
          /\ stage'[o] = IF stage[o] = "preparing" THEN "installing" ELSE "checking_reboot_status"
          /\ stage[o] = "installing" => updates' = [updates EXCEPT ![current[o]] = "installed"]
      BY <1>2 DEF AdvanceStage, NodesProgress
    <2>2. \A n \in Nodes : updates[n] = "installed" => updates'[n] = "installed"
      BY Frame
    <2>3. stage'[o] = "checking_reboot_status" => updates'[current[o]] = "installed"
      <3>1. stage[o] \in {"preparing", "installing"}
        BY <1>2 DEF AdvanceStage, NodesProgress
      <3> QED
        BY <2>1, <3>1
    <2> QED
      BY <2>1, <2>2, <2>3 DEF NodesProgress
  <1>3. CASE SendReboot(o)
    BY <1>3 DEF SendReboot, NodesProgress
  <1>4. CASE NodeFails(o)
    <2>1. /\ pc[o] = "working" /\ current[o] \in Nodes /\ UNCHANGED <<kind, state, todo, current>>
          /\ pc'[o] = "next" /\ nodes'[o] = [nodes[o] EXCEPT ![current[o]] = "failed"]
      BY <1>4 DEF NodeFails, NodesProgress
    <2>2. \A n \in Nodes : updates[n] = "installed" => updates'[n] = "installed"
      BY Frame
    <2> QED
      BY <2>1, <2>2 DEF NodesProgress
  <1>5. CASE CompleteNode(o)
    <2>1. /\ pc[o] \in {"working", "sent"} /\ current[o] \in Nodes /\ UNCHANGED <<kind, state, todo, current, updates>>
          /\ pc'[o] = "next" /\ nodes'[o] = [nodes[o] EXCEPT ![current[o]] = "completed"]
      BY <1>5 DEF CompleteNode, NodesProgress
    <2>2. kind[o] = "update" => updates[current[o]] = "installed"
      BY <1>5 DEF CompleteNode, NodesProgress
    <2> QED
      BY <2>1, <2>2 DEF NodesProgress
  <1>6. CASE NodesDone(o)
    BY <1>6 DEF NodesDone, NodesProgress
  <1>7. CASE Conclude(o)
    BY <1>7 DEF Conclude, NodesProgress
  <1> QED
    BY <1>1, <1>2, <1>3, <1>4, <1>5, <1>6, <1>7 DEF RunOperation

\* Every step of a thread keeps the invariant.
LEMMA RunOperationInv ==
  ASSUME IInv, NEW o \in Ops, RunOperation(o)
  PROVE  IInv'
  <1>1. CASE Persist(o)
    BY <1>1, PersistInv
  <1>2. CASE ~Persist(o)
    <2>0. TypeOK /\ TypeOK'
      BY <1>2, ThreadInv DEF IInv
    <2>1. \A p \in Ops : NodesProgress(p)'
      BY <1>2, <2>0, OwnProgress, OthersProgress
    <2>2. slot = o /\ slot' = o /\ state[o] = "running"
      BY <1>2, ThreadInv, Frame DEF IInv, ThreadHasSlot
    <2>3. Conclude(o) => pc'[o] = "done" /\ state'[o] # "running" /\ saving'[o] = "yes"
      BY <2>0 DEF Conclude, TypeOK
    <2>4. ThreadHasSlot'
      BY <1>2, <2>2, <2>3, ThreadInv, Frame DEF IInv, ThreadHasSlot, Threads
    <2>5. TerminalIsDone'
      BY <1>2, <2>2, <2>3, ThreadInv, Frame DEF IInv, TerminalIsDone, Threads
    <2>6. SnapshotAgrees'
      BY <1>2, <2>3, ThreadInv, Frame DEF IInv, SnapshotAgrees, Threads
    <2>7. CheckAwaited'
      <3>1. check' = check /\ kind' = kind
        BY <1>2, Frame DEF RunOperation, BeginNode, SendReboot, CompleteNode, NodesDone, Conclude, AdvanceStage,
                           NodeFails, checking
      <3>2. pc[o] \notin {"validate", "refresh"}
        BY <1>2 DEF RunOperation, BeginNode, SendReboot, CompleteNode, NodesDone, Conclude, AdvanceStage,
                    NodeFails, Working
      <3> QED
        BY <3>1, <3>2, Frame, <2>0 DEF IInv, CheckAwaited
    <2> QED
      BY <1>2, <2>1, <2>4, <2>5, <2>6, <2>7, ThreadInv DEF IInv
  <1> QED
    BY <1>1, <1>2

----------------------------------------------------------------------------
\* Checks, status reads, crash and restart

\* Checks keep the invariant: they move requests and threads whose nodes are done.
LEMMA CheckInv ==
  ASSUME IInv, NEW c \in Checkers,
         AcquireCheck(c) \/ RefuseCheck(c) \/ Inspect(c) \/ ReleaseCheck(c)
  PROVE  IInv'
  <1>0. TypeOK /\ TypeOK'
    BY CheckTypes DEF IInv
  <1>1. /\ UNCHANGED <<slot, kind, state, nodes, current, stage, saving, persisted, updates>>
        /\ storeErrors' \in {storeErrors, storeErrors + 1}
    BY DEF AcquireCheck, RefuseCheck, Inspect, ReleaseCheck, runtime, StoreFails, outside, faults
  <1>2. \/ UNCHANGED <<pc, todo>>
        \/ /\ c \in Ops \ Pollers
           /\ AfterCheck(c, TRUE) \/ AfterCheck(c, FALSE)
           /\ pc[c] \in {"validate", "refresh"}
           /\ check'[c] = "idle"
    <2>1. CASE AcquireCheck(c) \/ Inspect(c)
      BY <2>1 DEF AcquireCheck, Inspect, runtime
    <2>2. CASE RefuseCheck(c)
      <3>1. AfterCheck(c, FALSE) /\ CheckDue(c) /\ UNCHANGED check
        BY <2>2 DEF RefuseCheck, checking
      <3> QED
        BY <3>1 DEF AfterCheck, CheckDue, Working, Checkers
    <2>3. CASE ReleaseCheck(c)
      <3>1. AfterCheck(c, check[c] = "confirmed") \/ AfterCheck(c, FALSE)
        BY <2>3 DEF ReleaseCheck
      <3>2. AfterCheck(c, TRUE) \/ AfterCheck(c, FALSE)
        <4>1. CASE check[c] = "confirmed"
          BY <3>1, <4>1 DEF AfterCheck
        <4>2. CASE check[c] # "confirmed"
          BY <3>1, <4>2 DEF AfterCheck
        <4> QED
          BY <4>1, <4>2
      <3>3. check'[c] = "idle" /\ check[c] # "idle"
        BY <1>0, <2>3 DEF ReleaseCheck, TypeOK
      <3> QED
        BY <3>2, <3>3 DEF AfterCheck, IInv, CheckAwaited, Checkers
    <2> QED
      BY <2>1, <2>2, <2>3
  <1>3. \/ UNCHANGED <<pc, todo>>
        \/ /\ c \in Ops
           /\ \/ pc[c] = "refresh" /\ pc'[c] = "conclude" /\ todo'[c] = {}
              \/ pc[c] = "validate" /\ pc'[c] \in {"insert", "gone"}
           /\ \A p \in Ops \ {c} : pc'[p] = pc[p] /\ todo'[p] = todo[p]
           /\ check'[c] = "idle"
    <2>1. SUFFICES ASSUME c \in Ops \ Pollers,
                          AfterCheck(c, TRUE) \/ AfterCheck(c, FALSE),
                          pc[c] \in {"validate", "refresh"},
                          check'[c] = "idle"
                   PROVE  /\ \/ pc[c] = "refresh" /\ pc'[c] = "conclude" /\ todo'[c] = {}
                             \/ pc[c] = "validate" /\ pc'[c] \in {"insert", "gone"}
                          /\ \A p \in Ops \ {c} : pc'[p] = pc[p] /\ todo'[p] = todo[p]
      BY <1>2
    <2>2. pc[c] = "refresh" => todo[c] = {}
      BY <2>1 DEF IInv, NodesProgress
    <2> QED
      BY <1>0, <2>1, <2>2 DEF AfterCheck, TypeOK
  <1>4. \A p \in Ops : check'[p] # "idle" => check[p] # "idle" \/ (CheckDue(p) /\ p = c)
    <2>1. CASE AcquireCheck(c)
      BY <1>0, <2>1 DEF AcquireCheck, TypeOK, Checkers
    <2>2. CASE RefuseCheck(c)
      BY <2>2 DEF RefuseCheck, checking
    <2>3. CASE Inspect(c)
      <3>1. check[c] = "inspect" /\ \A p \in Ops \ {c} : check'[p] = check[p]
        BY <1>0, <2>3 DEF Inspect, TypeOK, Checkers
      <3> QED
        BY <3>1
    <2>4. CASE ReleaseCheck(c)
      BY <1>0, <2>4 DEF ReleaseCheck, TypeOK, Checkers
    <2> QED
      BY <2>1, <2>2, <2>3, <2>4
  <1>5. ThreadHasSlot' /\ TerminalIsDone' /\ Unborn'
    BY <1>0, <1>1, <1>3 DEF IInv, ThreadHasSlot, TerminalIsDone, Unborn, Threads, TypeOK
  <1>6. \A p \in Ops : NodesProgress(p)'
    BY <1>0, <1>1, <1>3 DEF IInv, NodesProgress, Threads, TypeOK
  <1>7. SnapshotTrue' /\ SnapshotAgrees'
    BY <1>0, <1>1, <1>3 DEF IInv, SnapshotTrue, SnapshotAgrees, TypeOK
  <1>8. CheckAwaited'
    <2>1. UNCHANGED <<pc, todo>> \/ check'[c] = "idle"
      BY <1>3
    <2> QED
      BY <1>0, <1>1, <1>3, <1>4, <2>1 DEF IInv, CheckAwaited, CheckDue, Working
  <1> QED
    BY <1>0, <1>5, <1>6, <1>7, <1>8 DEF IInv

\* A status read that found nothing in memory changes "running" to "interrupted" and
\* nothing else: not a result.
LEMMA StatusInv ==
  ASSUME IInv, LeaseExpires \/ StatusLook \/ StatusLoad \/ StatusConvert \/ Restart \/ UNCHANGED vars
  PROVE  IInv'
  <1>0. TypeOK /\ TypeOK'
    BY OtherTypes DEF IInv
  <1>1. /\ UNCHANGED <<slot, kind, state, nodes, todo, current, stage, pc, saving, check, updates>>
        /\ storeErrors' \in {storeErrors, storeErrors + 1}
        /\ \/ persisted' = persisted
           \/ persisted.state = "running" /\ persisted' = Interrupted(persisted)
    BY DEF LeaseExpires, StatusLook, StatusLoad, StatusConvert, Restart, vars, runtime, checking, outside, faults,
           StoreFails
  <1>2. ThreadHasSlot' /\ TerminalIsDone' /\ CheckAwaited' /\ \A o \in Ops : NodesProgress(o)'
    BY <1>1 DEF IInv, ThreadHasSlot, TerminalIsDone, CheckAwaited, NodesProgress
  <1>3. Unborn' /\ SnapshotTrue'
    BY <1>0, <1>1 DEF IInv, Unborn, SnapshotTrue, Interrupted
  <1>4. SnapshotAgrees'
    <2> SUFFICES ASSUME NEW o \in Ops, pc[o] = "done", saving[o] = "no", persisted'.id = o, storeErrors' = 0
                 PROVE  persisted'.state = state[o] /\ persisted'.nodes = nodes[o]
      BY <1>1 DEF SnapshotAgrees
    <2>1. persisted.id = o /\ storeErrors = 0
      BY <1>0, <1>1 DEF Interrupted, TypeOK
    <2>2. persisted.state = state[o] /\ persisted.nodes = nodes[o] /\ state[o] # "running"
      BY <2>1 DEF IInv, SnapshotAgrees, TerminalIsDone
    <2> QED
      BY <1>1, <2>2
  <1> QED
    BY <1>0, <1>2, <1>3, <1>4 DEF IInv

\* A crash ends every thread; what it does not cut short had been written.
LEMMA CrashInv ==
  ASSUME IInv, Crash
  PROVE  IInv'
  <1>0. TypeOK /\ TypeOK'
    BY OtherTypes DEF IInv
  <1>1. \A o \in Ops :
          /\ saving'[o] = "no" /\ check'[o] = "idle" /\ todo'[o] = {}
          /\ Cut(o) => pc'[o] = "gone" /\ state'[o] = "running"
          /\ ~Cut(o) => pc'[o] = pc[o] /\ pc[o] \notin Threads /\ state'[o] = state[o] /\ nodes'[o] = nodes[o]
                        /\ saving[o] = "no"
    BY <1>0 DEF Crash, Cut, Checkers, TypeOK
  <1>2. UNCHANGED <<persisted, storeErrors, kind, updates>>
    BY DEF Crash, outside
  <1>3. ThreadHasSlot' /\ TerminalIsDone' /\ CheckAwaited'
    BY <1>1 DEF IInv, ThreadHasSlot, TerminalIsDone, CheckAwaited, Threads
  <1>4. Unborn'
    BY <1>0, <1>1, <1>2 DEF IInv, Unborn, TypeOK
  <1>5. \A o \in Ops : NodesProgress(o)'
    BY <1>1, <1>2 DEF IInv, NodesProgress, Threads
  <1>6. SnapshotTrue' /\ SnapshotAgrees'
    BY <1>1, <1>2 DEF IInv, SnapshotTrue, SnapshotAgrees
  <1> QED
    BY <1>0, <1>3, <1>4, <1>5, <1>6 DEF IInv

\* IInv is an invariant of every behaviour.
LEMMA Inductive == Spec => []IInv
  <1>1. IInv /\ [Next]_vars => IInv'
    <2> SUFFICES ASSUME IInv, [Next]_vars
                 PROVE  IInv'
      OBVIOUS
    <2> QED
      BY RequestInv, RunOperationInv, CheckInv, StatusInv, CrashInv DEF Next
  <1> QED
    BY <1>1, InitInv, PTL DEF Spec

----------------------------------------------------------------------------
\* Which operation the snapshot is of

\* Claims and requests: an operation that claims the slot notes which snapshots are
\* outstanding, and has its own to write.
LEMMA RequestLast ==
  ASSUME IInv, LastInv, NEW o \in Ops,
         \/ \E r \in Requests : Request(o, r[1], r[2])
         \/ Validate(o) \/ Insert(o) \/ InsertConflict(o)
  PROVE  LastInv'
  <1>0. TypeOK
    BY DEF IInv
  <1> USE <1>0 DEF LastInv, Threads, faults, history
  <1>1. CASE Insert(o)
    <2>1. /\ slot' = o /\ last' = o /\ saving'[o] = "yes"
          /\ \A p \in Ops \ {o} : saving'[p] = "yes" => p \in lagging'
      BY <1>1 DEF Insert, TypeOK
    <2> QED
      BY <2>1 DEF LateSnapshots, LastShown
  <1>2. CASE ~Insert(o)
    <2>1. /\ UNCHANGED <<slot, saving, persisted, last, lagging, storeErrors>>
          /\ pc'[o] \in {"validate", "insert", "gone"} /\ \A p \in Ops \ {o} : pc'[p] = pc[p]
      BY <1>2 DEF Request, Validate, InsertConflict, TypeOK
    <2>2. LateSnapshots'
      BY <2>1 DEF LateSnapshots
    <2>3. LastShown'
      BY <2>1 DEF LastShown, TypeOK
    <2> QED
      BY <2>2, <2>3
  <1> QED
    BY <1>1, <1>2

\* Only the last operation runs a thread; what is written late was outstanding at its claim.
LEMMA ThreadLast ==
  ASSUME IInv, LastInv, NEW o \in Ops, RunOperation(o)
  PROVE  LastInv'
  <1>0. TypeOK /\ LateSnapshots /\ LastShown
    BY DEF IInv, LastInv
  <1>1. UNCHANGED <<last, lagging>>
    BY DEF RunOperation, Persist, BeginNode, AdvanceStage, SendReboot, NodeFails, CompleteNode, NodesDone, Conclude,
           history
  <1>2. CASE Persist(o)
    <2>1. /\ UNCHANGED <<slot, pc>> /\ saving[o] = "yes"
          /\ \A p \in Ops : saving'[p] = "yes" => saving[p] = "yes"
          /\ persisted'.id = o \/ storeErrors' = storeErrors + 1
      BY <1>0, <1>2 DEF Persist, StoreFails, TypeOK
    <2>2. o \in {last} \cup lagging
      BY <1>0, <2>1 DEF LateSnapshots
    <2>3. LateSnapshots'
      BY <1>0, <1>1, <2>1 DEF LateSnapshots
    <2>4. LastShown'
      BY <1>0, <1>1, <2>1, <2>2 DEF LastShown, TypeOK
    <2> QED
      BY <2>3, <2>4 DEF LastInv
  <1>3. CASE ~Persist(o)
    <2>1. slot = o /\ slot' = o /\ pc[o] \in Threads /\ saving[o] = "no" /\ UNCHANGED <<persisted, storeErrors>>
      BY <1>3, ThreadInv, Frame, <1>0 DEF IInv, ThreadHasSlot
    <2>2. last = o
      BY <1>0, <2>1, ConstantsAssumption DEF LateSnapshots, Ops
    <2>3. LateSnapshots'
      BY <1>0, <1>1, <2>1, <2>2, Frame DEF LateSnapshots
    <2>4. LastShown'
      BY <1>0, <1>1, <2>1, <2>2 DEF LastShown
    <2> QED
      BY <2>3, <2>4 DEF LastInv
  <1> QED
    BY <1>2, <1>3

\* A check moves requests and threads; neither it nor a status read changes which
\* operation the snapshot is of, and a crash leaves nothing outstanding.
LEMMA OtherLast ==
  ASSUME IInv, LastInv,
         \/ \E c \in Checkers : AcquireCheck(c) \/ RefuseCheck(c) \/ Inspect(c) \/ ReleaseCheck(c)
         \/ LeaseExpires \/ StatusLook \/ StatusLoad \/ StatusConvert \/ Crash \/ Restart \/ UNCHANGED vars
  PROVE  LastInv'
  <1>0. TypeOK /\ LateSnapshots /\ LastShown
    BY DEF IInv, LastInv
  <1>1. UNCHANGED <<last, lagging>>
    BY DEF AcquireCheck, RefuseCheck, Inspect, ReleaseCheck, LeaseExpires, StatusLook, StatusLoad, StatusConvert,
           Crash, Restart, vars, history
  <1>2. CASE Crash
    <2>1. /\ slot' = 0 /\ UNCHANGED <<persisted, storeErrors>>
          /\ \A p \in Ops : saving'[p] = "no" /\ (pc'[p] # "gone" => pc'[p] = pc[p] /\ saving[p] = "no")
      BY <1>0, <1>2 DEF Crash, Cut, TypeOK
    <2>2. LateSnapshots'
      BY <2>1 DEF LateSnapshots
    <2>3. LastShown'
      BY <1>0, <1>1, <2>1 DEF LastShown, Threads, TypeOK
    <2> QED
      BY <2>2, <2>3 DEF LastInv
  <1>3. CASE ~Crash
    <2>1. /\ UNCHANGED <<slot, saving>> /\ persisted'.id = persisted.id
          /\ storeErrors' \in {storeErrors, storeErrors + 1}
      <3>1. CASE StatusConvert
        BY <3>1 DEF StatusConvert, runtime, StoreFails, Interrupted
      <3>2. CASE \E c \in Checkers : AcquireCheck(c) \/ RefuseCheck(c) \/ Inspect(c) \/ ReleaseCheck(c)
        BY <3>2 DEF AcquireCheck, RefuseCheck, Inspect, ReleaseCheck, runtime, faults, StoreFails
      <3>3. CASE LeaseExpires \/ StatusLook \/ StatusLoad \/ Restart \/ UNCHANGED vars
        BY <3>3 DEF LeaseExpires, StatusLook, StatusLoad, Restart, vars, runtime, faults
      <3> QED
        BY <1>3, <3>1, <3>2, <3>3
    <2>2. \A p \in Ops : pc'[p] \in Threads \cup {"done"} => pc[p] \in Threads \cup {"done"}
      <3>1. CASE UNCHANGED pc
        BY <3>1
      <3>2. ASSUME NEW c \in Checkers, RefuseCheck(c) \/ ReleaseCheck(c), ~UNCHANGED pc
            PROVE  c \in Ops /\ pc'[c] \in {"conclude", "insert", "gone"} /\ (pc'[c] = "conclude" => pc[c] = "refresh")
                   /\ \A p \in Ops \ {c} : pc'[p] = pc[p]
        <4>1. AfterCheck(c, TRUE) \/ AfterCheck(c, FALSE)
          <5>1. CASE RefuseCheck(c)
            BY <5>1 DEF RefuseCheck
          <5>2. CASE ReleaseCheck(c)
            <6>1. AfterCheck(c, check[c] = "confirmed") \/ AfterCheck(c, FALSE)
              BY <5>2 DEF ReleaseCheck
            <6>2. CASE check[c] = "confirmed"
              BY <6>1, <6>2 DEF AfterCheck
            <6>3. CASE check[c] # "confirmed"
              BY <6>1, <6>3 DEF AfterCheck
            <6> QED
              BY <6>2, <6>3
          <5> QED
            BY <3>2, <5>1, <5>2
        <4>2. c \in Ops
          BY <3>2, <4>1 DEF AfterCheck, Checkers
        <4> QED
          BY <1>0, <3>2, <4>1, <4>2 DEF AfterCheck, TypeOK
      <3>3. UNCHANGED pc \/ \E c \in Checkers : RefuseCheck(c) \/ ReleaseCheck(c)
        BY <1>3 DEF AcquireCheck, Inspect, LeaseExpires, StatusLook, StatusLoad, StatusConvert, Restart, vars, runtime
      <3> QED
        BY <3>1, <3>2, <3>3 DEF Threads
    <2>3. LateSnapshots'
      BY <1>0, <1>1, <2>1 DEF LateSnapshots
    <2>4. LastShown'
      BY <1>0, <1>1, <2>1, <2>2 DEF LastShown, TypeOK
    <2> QED
      BY <2>3, <2>4 DEF LastInv
  <1> QED
    BY <1>2, <1>3

\* So the snapshot is of the last operation or of one that was outstanding at its claim.
LEMMA InductiveLast == Spec => []LastInv
  <1>1. Init => LastInv
    BY DEF Init, LastInv, LateSnapshots, LastShown
  <1>2. IInv /\ LastInv /\ [Next]_vars => LastInv'
    <2> SUFFICES ASSUME IInv, LastInv, [Next]_vars
                 PROVE  LastInv'
      OBVIOUS
    <2> QED
      BY RequestLast, ThreadLast, OtherLast DEF Next
  <1> QED
    BY <1>1, <1>2, Inductive, PTL DEF Spec

----------------------------------------------------------------------------
\* The theorems

\* The variables keep their types; a thread that writes to a node is at one.
THEOREM TypeCorrect == Spec => []TypeOK
  <1>1. IInv => TypeOK
    BY DEF IInv
  <1> QED
    BY <1>1, Inductive, PTL

\* _LOCK and the second look at the slot: of all installs and reboots of a Device, however
\* long their requests validate side by side, at most one is at work.
THEOREM Exclusive == Spec => []OneOperation
  <1>1. IInv => OneOperation
    BY DEF IInv, ThreadHasSlot, OneOperation
  <1> QED
    BY <1>1, Inductive, PTL

\* _run_install: "completed", in memory or in the snapshot a restart reads, is said only
\* of an operation that left no packages to install on any node it targeted.
THEOREM Installed == Spec => []CompletedMeansInstalled
  <1>1. IInv => CompletedMeansInstalled
    BY CompletedNodes DEF IInv, SnapshotTrue, CompletedMeansInstalled
  <1> QED
    BY <1>1, Inductive, PTL

\* _persist_operation: unless a write failed, what a restart reads is the result of the
\* operation that claimed the slot last, or of one whose last snapshot was outstanding when
\* it did, although snapshots are written outside _LOCK and status reads rewrite them.
THEOREM ResultSurvives == Spec => []DurableResult
  <1>1. IInv /\ LastInv => DurableResult
    BY DEF IInv, LastInv, DurableResult
  <1> QED
    BY <1>1, Inductive, InductiveLast, PTL

----------------------------------------------------------------------------
\* The Ansible controller: what is approved (module Playbooks)

\* The parts of a controller record, and what a record without None has.
LEMMA ControllerFields ==
  ASSUME NEW c \in Controllers
  PROVE  /\ c.enabled \in BOOLEAN /\ c.dir \in Dirs /\ c.exe \in Paths /\ c.inv \in InventoryMaps
         /\ c.found \subseteq Names /\ c.approvals \in ApprovalMaps
  BY DEF Controllers

\* What an approval map holds of an operation.
LEMMA ApprovalFields ==
  ASSUME NEW c \in Controllers, NEW op \in Operations
  PROVE  /\ c.approvals[op] \in Approvals \cup {None}
         /\ c.approvals[op] # None => c.approvals[op].name \in Names
  <1>1. c.approvals \in [Operations -> Approvals \cup {None}]
    BY DEF Controllers, ApprovalMaps
  <1>2. c.approvals[op] \in Approvals \cup {None}
    BY <1>1
  <1> QED
    BY <1>2 DEF Approvals

\* A request's kind tells what it writes.
LEMMA RequestKinds ==
  ASSUME PlaybooksTypeOK, NEW r \in pending
  PROVE  /\ r.kind = "save" => r \in SaveRequests
         /\ r.kind = "inventory" => r.inv \in Inventories /\ r \notin SaveRequests
         /\ r.kind = "discover" => r.found \subseteq Names /\ r \notin SaveRequests
         /\ r.kind = "approve" =>
              r.op \in Operations /\ r.dir \in Dirs /\ r.approval \in Approvals /\ r \notin SaveRequests
  BY DEF PlaybooksTypeOK, SaveRequests, OtherRequests

\* A record that was never saved has nothing found and nothing approved.
LEMMA KeptParts ==
  ASSUME NEW c \in Controllers \cup {None}
  PROVE  /\ Kept(c).inv \in InventoryMaps /\ Kept(c).found \subseteq Names /\ Kept(c).approvals \in ApprovalMaps
         /\ Kept(c) = [inv |-> Kept(c).inv, found |-> Kept(c).found, approvals |-> Kept(c).approvals]
         /\ c = None => Kept(c).approvals = NoApprovals
         /\ c # None => Kept(c).approvals = c.approvals
  <1>1. NotFound \in InventoryMaps /\ NoApprovals \in ApprovalMaps
    BY DEF InventoryMaps, ApprovalMaps, NoApprovals
  <1>2. CASE c = None
    BY <1>1, <1>2 DEF Kept
  <1>3. CASE c # None
    BY <1>3, ControllerFields DEF Kept
  <1> QED
    BY <1>2, <1>3

\* A request is added, and one is done.
LEMMA AskStep ==
  ASSUME ApprovalsInv, NEW request \in SaveRequests \cup OtherRequests, Ask(request),
         request \in OtherRequests => ctl # None
  PROVE  ApprovalsInv'
  <1>1. /\ pending' = pending \cup {request} /\ asked' = asked + 1 /\ asked < MaxRequests
        /\ Cardinality(pending) < MaxPending /\ UNCHANGED <<ctl, tools, report, job, granted, muddled>>
    BY DEF Ask
  <1>2. IsFiniteSet(pending') /\ Cardinality(pending') <= MaxPending
    <2>1. IsFiniteSet(pending) /\ Cardinality(pending) \in Nat
      BY FS_CardinalityType DEF ApprovalsInv, PlaybooksTypeOK
    <2>2. IsFiniteSet(pending') /\ Cardinality(pending') \in {Cardinality(pending), Cardinality(pending) + 1}
      BY <1>1, <2>1, FS_AddElement
    <2> QED
      BY <1>1, <2>1, <2>2, PlaybooksAssumption
  <1>3. asked' \in 0..MaxRequests
    BY <1>1, PlaybooksAssumption DEF ApprovalsInv, PlaybooksTypeOK
  <1>4. PlaybooksTypeOK'
    BY <1>1, <1>2, <1>3 DEF ApprovalsInv, PlaybooksTypeOK
  <1>5. RecordFirst'
    BY <1>1 DEF ApprovalsInv, RecordFirst
  <1>6. ApprovalsGranted'
    BY <1>1 DEF ApprovalsInv, ApprovalsGranted, File
  <1> QED
    BY <1>4, <1>5, <1>6 DEF ApprovalsInv

LEMMA AnsweredPending ==
  ASSUME PlaybooksTypeOK, NEW r \in pending, Answered(r)
  PROVE  /\ pending' \subseteq pending /\ pending' \subseteq SaveRequests \cup OtherRequests
         /\ IsFiniteSet(pending') /\ Cardinality(pending') <= MaxPending
         /\ UNCHANGED <<tools, report, asked, job>>
  <1>1. pending' = pending \ {r} /\ UNCHANGED <<tools, report, asked, job>>
    BY DEF Answered
  <1>2. IsFiniteSet(pending) /\ Cardinality(pending) \in Nat
    BY FS_CardinalityType DEF PlaybooksTypeOK
  <1>3. IsFiniteSet(pending') /\ Cardinality(pending') = Cardinality(pending) - 1
    BY <1>1, <1>2, FS_RemoveElement
  <1> QED
    BY <1>1, <1>2, <1>3, PlaybooksAssumption DEF PlaybooksTypeOK

\* A step keeps approvals granted that leaves an approval and the directory alone, writes
\* the approval as it is granted or removes it.
LEMMA GrantedKept ==
  ASSUME ApprovalsGranted, ctl # None, ctl' # None,
         \A op \in Operations \ muddled' :
           \/ ctl'.approvals[op] = None
           \/ /\ op \notin muddled /\ ctl'.dir = ctl.dir
              /\ ctl'.approvals[op] = ctl.approvals[op] /\ granted'[op] = granted[op]
           \/ granted'[op] = <<ctl'.dir, ctl'.approvals[op].name>>
  PROVE  ApprovalsGranted'
  <1> SUFFICES ASSUME NEW op \in Operations, op \notin muddled', ctl'.approvals[op] # None
               PROVE  granted'[op] = File(ctl', op)
    BY DEF ApprovalsGranted
  <1>1. CASE granted'[op] = <<ctl'.dir, ctl'.approvals[op].name>>
    BY <1>1 DEF File
  <1>2. CASE /\ op \notin muddled /\ ctl'.dir = ctl.dir
             /\ ctl'.approvals[op] = ctl.approvals[op] /\ granted'[op] = granted[op]
    BY <1>2 DEF ApprovalsGranted, File
  <1> QED
    BY <1>1, <1>2

\* save_controller: the whole record is replaced; without muddling anything, by one with
\* the approvals and the directory it had.
LEMMA SaveStep ==
  ASSUME ApprovalsInv, SaveController
  PROVE  ApprovalsInv'
  <1>1. PICK r \in pending :
          /\ r.kind = "save"
          /\ ctl' = [enabled |-> r.enabled, dir |-> r.dir, exe |-> r.exe, inv |-> r.kept.inv,
                     found |-> r.kept.found, approvals |-> r.kept.approvals]
          /\ muddled' = muddled \cup {op \in Operations : r.kept.approvals[op] # Kept(ctl).approvals[op]
                                                          \/ (ctl # None /\ r.dir # ctl.dir)}
          /\ Answered(r) /\ granted' = granted
    BY DEF SaveController
  <1>2. PlaybooksTypeOK
    BY DEF ApprovalsInv
  <1>3. r \in SaveRequests
    BY <1>1, <1>2, RequestKinds
  <1>4. /\ r.enabled \in BOOLEAN /\ r.dir \in Dirs /\ r.exe \in Paths /\ r.kept.inv \in InventoryMaps
        /\ r.kept.found \subseteq Names /\ r.kept.approvals \in ApprovalMaps
    BY <1>3 DEF SaveRequests
  <1>5. ctl' \in Controllers /\ ctl'.dir = r.dir /\ ctl'.approvals = r.kept.approvals
    BY <1>1, <1>4 DEF Controllers
  <1>6. ctl' # None
    BY <1>5, NoController
  <1>7. PlaybooksTypeOK'
    <2>1. muddled' \subseteq Operations
      BY <1>1, <1>2 DEF PlaybooksTypeOK
    <2> QED
      BY <1>1, <1>2, <1>5, <2>1, AnsweredPending DEF PlaybooksTypeOK
  <1>8. RecordFirst'
    BY <1>6 DEF RecordFirst
  <1>9. ApprovalsGranted'
    <2> SUFFICES ASSUME NEW op \in Operations, op \notin muddled', ctl'.approvals[op] # None
                 PROVE  granted'[op] = File(ctl', op)
      BY DEF ApprovalsGranted
    <2>1. op \notin muddled /\ r.kept.approvals[op] = Kept(ctl).approvals[op] /\ (ctl = None \/ r.dir = ctl.dir)
      BY <1>1
    <2>2. ctl \in Controllers \cup {None}
      BY <1>2 DEF PlaybooksTypeOK
    <2>3. CASE ctl = None
      <3>1. ctl'.approvals[op] = NoApprovals[op]
        BY <1>5, <2>1, <2>2, <2>3, KeptParts
      <3> QED
        BY <3>1 DEF NoApprovals
    <2>4. CASE ctl # None
      <3>1. ctl'.approvals[op] = ctl.approvals[op] /\ ctl'.dir = ctl.dir
        BY <1>5, <2>1, <2>2, <2>4, KeptParts
      <3>2. granted[op] = File(ctl, op)
        BY <2>1, <2>4, <3>1 DEF ApprovalsInv, ApprovalsGranted
      <3> QED
        BY <1>1, <3>1, <3>2 DEF File
    <2> QED
      BY <2>3, <2>4
  <1> QED
    BY <1>7, <1>8, <1>9 DEF ApprovalsInv

\* refresh_inventory and discover_playbooks leave approvals and directory alone.
LEMMA RefreshStep ==
  ASSUME ApprovalsInv, Refresh
  PROVE  ApprovalsInv'
  <1>1. PICK r \in pending :
          r.kind = "inventory" /\ ctl' = [ctl EXCEPT !.inv = r.inv] /\ Answered(r) /\ UNCHANGED <<granted, muddled>>
    BY DEF Refresh
  <1>2. PlaybooksTypeOK /\ RecordFirst /\ ApprovalsGranted
    BY DEF ApprovalsInv
  <1>3. r.inv \in Inventories /\ r \notin SaveRequests
    BY <1>1, <1>2, RequestKinds
  <1>4. ctl # None /\ ctl \in Controllers
    BY <1>2, <1>3 DEF RecordFirst, PlaybooksTypeOK
  <1>5. ctl' \in Controllers /\ ctl'.dir = ctl.dir /\ ctl'.approvals = ctl.approvals
    BY <1>1, <1>3, <1>4 DEF Controllers, InventoryMaps
  <1>6. ctl' # None
    BY <1>5, NoController
  <1>7. PlaybooksTypeOK'
    BY <1>1, <1>2, <1>5, AnsweredPending DEF PlaybooksTypeOK
  <1>8. ApprovalsGranted'
    BY <1>1, <1>2, <1>4, <1>5, <1>6, GrantedKept
  <1> QED
    BY <1>6, <1>7, <1>8 DEF ApprovalsInv, RecordFirst

LEMMA DiscoverStep ==
  ASSUME ApprovalsInv, Discover
  PROVE  ApprovalsInv'
  <1>1. PICK r \in pending :
          r.kind = "discover" /\ ctl' = [ctl EXCEPT !.found = r.found] /\ Answered(r) /\ UNCHANGED <<granted, muddled>>
    BY DEF Discover
  <1>2. PlaybooksTypeOK /\ RecordFirst /\ ApprovalsGranted
    BY DEF ApprovalsInv
  <1>3. r.found \subseteq Names /\ r \notin SaveRequests
    BY <1>1, <1>2, RequestKinds
  <1>4. ctl # None /\ ctl \in Controllers
    BY <1>2, <1>3 DEF RecordFirst, PlaybooksTypeOK
  <1>5. ctl' \in Controllers /\ ctl'.dir = ctl.dir /\ ctl'.approvals = ctl.approvals
    BY <1>1, <1>3, <1>4 DEF Controllers
  <1>6. ctl' # None
    BY <1>5, NoController
  <1>7. PlaybooksTypeOK'
    BY <1>1, <1>2, <1>5, AnsweredPending DEF PlaybooksTypeOK
  <1>8. ApprovalsGranted'
    BY <1>1, <1>2, <1>4, <1>5, <1>6, GrantedKept
  <1> QED
    BY <1>6, <1>7, <1>8 DEF ApprovalsInv, RecordFirst

\* approve_playbook: the file is the one that is granted, unless the directory has
\* changed since it was read.
LEMMA ApproveStep ==
  ASSUME ApprovalsInv, Approve
  PROVE  ApprovalsInv'
  <1>1. PICK r \in pending :
          /\ r.kind = "approve" /\ ctl' = [ctl EXCEPT !.approvals[r.op] = r.approval]
          /\ granted' = [granted EXCEPT ![r.op] = <<r.dir, r.approval.name>>]
          /\ muddled' = (IF r.dir = ctl.dir THEN muddled \ {r.op} ELSE muddled \cup {r.op}) /\ Answered(r)
    BY DEF Approve
  <1>2. PlaybooksTypeOK /\ RecordFirst /\ ApprovalsGranted
    BY DEF ApprovalsInv
  <1>3. r.op \in Operations /\ r.dir \in Dirs /\ r.approval \in Approvals /\ r \notin SaveRequests
    BY <1>1, <1>2, RequestKinds
  <1>4. ctl # None /\ ctl \in Controllers
    BY <1>2, <1>3 DEF RecordFirst, PlaybooksTypeOK
  <1>5. ctl.approvals \in [Operations -> Approvals \cup {None}]
    BY <1>4 DEF Controllers, ApprovalMaps
  <1>6. /\ ctl' \in Controllers /\ ctl'.dir = ctl.dir
        /\ ctl'.approvals = [ctl.approvals EXCEPT ![r.op] = r.approval]
    <2> DEFINE a == [ctl.approvals EXCEPT ![r.op] = r.approval]
    <2>1. a \in ApprovalMaps
      BY <1>3, <1>5 DEF ApprovalMaps
    <2>2. ctl' = [ctl EXCEPT !.approvals = a]
      BY <1>1
    <2> HIDE DEF a
    <2>3. ctl' \in Controllers /\ ctl'.dir = ctl.dir /\ ctl'.approvals = a
      BY <1>4, <2>1, <2>2 DEF Controllers
    <2> QED
      BY <2>3 DEF a
  <1>7. ctl' # None
    BY <1>6, NoController
  <1>8. /\ muddled' \subseteq Operations /\ (r.op \in muddled' \/ r.dir = ctl.dir)
        /\ \A op \in Operations : op # r.op /\ op \notin muddled' => op \notin muddled
    BY <1>1, <1>2, <1>3 DEF PlaybooksTypeOK
  <1>9. granted' \in [Operations -> (Dirs \X Names) \cup {None}]
    BY <1>1, <1>2, <1>3 DEF PlaybooksTypeOK, Approvals
  <1>10. PlaybooksTypeOK'
    BY <1>1, <1>2, <1>6, <1>8, <1>9, AnsweredPending DEF PlaybooksTypeOK
  <1>11. ASSUME NEW op \in Operations, op \notin muddled'
         PROVE  \/ /\ op \notin muddled /\ ctl'.dir = ctl.dir
                   /\ ctl'.approvals[op] = ctl.approvals[op] /\ granted'[op] = granted[op]
                \/ granted'[op] = <<ctl'.dir, ctl'.approvals[op].name>>
    <2>1. CASE op = r.op
      BY <1>1, <1>2, <1>3, <1>5, <1>6, <1>8, <1>11, <2>1 DEF PlaybooksTypeOK
    <2>2. CASE op # r.op
      BY <1>1, <1>2, <1>3, <1>5, <1>6, <1>8, <1>11, <2>2 DEF PlaybooksTypeOK
    <2> QED
      BY <2>1, <2>2
  <1>12. ApprovalsGranted'
    BY <1>2, <1>4, <1>6, <1>7, <1>11, GrantedKept
  <1> QED
    BY <1>7, <1>10, <1>12 DEF ApprovalsInv, RecordFirst

LEMMA RevokeStep ==
  ASSUME ApprovalsInv, Revoke
  PROVE  ApprovalsInv'
  <1>1. PICK op \in Operations :
          /\ ctl' = [ctl EXCEPT !.approvals[op] = None] /\ granted' = [granted EXCEPT ![op] = None]
          /\ muddled' = muddled \ {op}
    BY DEF Revoke
  <1>2. PlaybooksTypeOK /\ RecordFirst /\ ApprovalsGranted
    BY DEF ApprovalsInv
  <1>3. /\ ctl # None /\ asked < MaxRequests /\ asked' = asked + 1 /\ UNCHANGED <<tools, report, pending, job>>
    BY DEF Revoke
  <1>4. ctl \in Controllers
    BY <1>2, <1>3 DEF PlaybooksTypeOK
  <1>5. ctl.approvals \in [Operations -> Approvals \cup {None}]
    BY <1>4 DEF Controllers, ApprovalMaps
  <1>6. /\ ctl' \in Controllers /\ ctl'.dir = ctl.dir
        /\ ctl'.approvals = [ctl.approvals EXCEPT ![op] = None]
    <2> DEFINE a == [ctl.approvals EXCEPT ![op] = None]
    <2>1. a \in ApprovalMaps
      BY <1>5 DEF ApprovalMaps
    <2>2. ctl' = [ctl EXCEPT !.approvals = a]
      BY <1>1
    <2> HIDE DEF a
    <2>3. ctl' \in Controllers /\ ctl'.dir = ctl.dir /\ ctl'.approvals = a
      BY <1>4, <2>1, <2>2 DEF Controllers
    <2> QED
      BY <2>3 DEF a
  <1>7. ctl' # None
    BY <1>6, NoController
  <1>8. PlaybooksTypeOK'
    <2>1. granted' \in [Operations -> (Dirs \X Names) \cup {None}] /\ asked' \in 0..MaxRequests
          /\ muddled' \subseteq Operations
      BY <1>1, <1>2, <1>3, PlaybooksAssumption DEF PlaybooksTypeOK
    <2> QED
      BY <1>2, <1>3, <1>6, <2>1 DEF PlaybooksTypeOK
  <1>9. ASSUME NEW o \in Operations, o \notin muddled'
        PROVE  \/ ctl'.approvals[o] = None
               \/ /\ o \notin muddled /\ ctl'.dir = ctl.dir
                  /\ ctl'.approvals[o] = ctl.approvals[o] /\ granted'[o] = granted[o]
    BY <1>1, <1>2, <1>5, <1>6, <1>9 DEF PlaybooksTypeOK
  <1>10. ApprovalsGranted'
    BY <1>2, <1>3, <1>6, <1>7, <1>9, GrantedKept
  <1> QED
    BY <1>7, <1>8, <1>10 DEF ApprovalsInv, RecordFirst

\* What start_job accepts is of a record and an operation approved in it.
LEMMA AcceptedContext ==
  ASSUME NEW op, JobContext(ctl, op)
  PROVE  ctl # None /\ op \in Operations /\ ctl.approvals[op] # None
  BY DEF JobContext, PlaybookCommand, ApprovedPlaybook

LEMMA JobSteps ==
  ASSUME ApprovalsInv, StartJob \/ BuildCommand \/ Launch \/ EndJob
  PROVE  ApprovalsInv'
  <1>1. UNCHANGED <<ctl, tools, report, pending, asked, granted, muddled>>
    BY DEF StartJob, BuildCommand, Launch, EndJob
  <1>2. PlaybooksTypeOK /\ RecordFirst /\ ApprovalsGranted
    BY DEF ApprovalsInv
  <1>3. ASSUME NEW op \in Operations, ctl # None, ctl.approvals[op] # None
        PROVE  File(ctl, op) \in Dirs \X Names
    BY <1>2, <1>3, ControllerFields, ApprovalFields DEF File, PlaybooksTypeOK
  <1>4. job' \in Jobs \cup {None} /\ (job' # None => ctl # None)
    <2>1. CASE StartJob
      <3>1. PICK op : JobContext(ctl, op) /\ job' = NewJob(op)
        BY <2>1 DEF StartJob, UpdateContext
      <3> QED
        BY <3>1, <1>3, AcceptedContext DEF NewJob, Jobs, Paths
    <2>2. CASE BuildCommand
      <3>1. job # None /\ job \in Jobs /\ ctl # None /\ ctl.exe \in Paths
        BY <1>2, <2>2, ControllerFields DEF BuildCommand, PlaybooksTypeOK, RecordFirst
      <3>2. CASE job' = None
        BY <3>2
      <3>3. CASE job' # None
        <4>1. /\ PlaybookCommand(ctl, job.op)
              /\ job' = [job EXCEPT !.stage = "connecting", !.file = File(ctl, job.op), !.exe = ctl.exe]
          BY <2>2, <3>3 DEF BuildCommand
        <4>2. File(ctl, job.op) \in Dirs \X Names
          BY <1>3, <3>1, <4>1 DEF PlaybookCommand, ApprovedPlaybook
        <4> QED
          BY <3>1, <4>1, <4>2 DEF Jobs
      <3> QED
        BY <3>2, <3>3
    <2>4. CASE Launch
      BY <1>2, <2>4 DEF Launch, PlaybooksTypeOK, RecordFirst, Jobs
    <2>3. CASE EndJob
      BY <2>3 DEF EndJob
    <2> QED
      BY <2>1, <2>2, <2>3, <2>4
  <1>5. PlaybooksTypeOK'
    BY <1>1, <1>2, <1>4 DEF PlaybooksTypeOK
  <1>6. RecordFirst'
    BY <1>1, <1>2, <1>4 DEF RecordFirst
  <1>7. ApprovalsGranted'
    BY <1>1, <1>2 DEF ApprovalsGranted, File
  <1> QED
    BY <1>5, <1>6, <1>7 DEF ApprovalsInv
\* Requests that begin.
LEMMA BeginSteps ==
  ASSUME ApprovalsInv, BeginSave \/ BeginRefresh \/ BeginDiscover \/ BeginApprove
  PROVE  ApprovalsInv'
  <1>1. PlaybooksTypeOK /\ ctl \in Controllers \cup {None} /\ report \in Paths
    BY DEF ApprovalsInv, PlaybooksTypeOK
  <1>2. CASE BeginSave
    <2>1. PICK enabled \in BOOLEAN, dir \in Dirs, exe \in {None, report, IF ctl = None THEN None ELSE ctl.exe} :
            Ask([kind |-> "save", enabled |-> enabled, dir |-> dir, exe |-> exe, kept |-> Kept(ctl)])
      BY <1>2 DEF BeginSave
    <2>2. exe \in Paths
      BY <1>1, ControllerFields DEF Paths
    <2> DEFINE request == [kind |-> "save", enabled |-> enabled, dir |-> dir, exe |-> exe, kept |-> Kept(ctl)]
    <2>3. request \in SaveRequests
      BY <1>1, <2>2, KeptParts DEF SaveRequests
    <2>4. request \notin OtherRequests
      BY DEF OtherRequests
    <2> HIDE DEF request
    <2> QED
      BY <2>1, <2>3, <2>4, AskStep DEF request
  <1>3. CASE BeginRefresh
    <2>1. PICK inv \in Inventories : Ask([kind |-> "inventory", inv |-> inv])
      BY <1>3 DEF BeginRefresh
    <2>2. [kind |-> "inventory", inv |-> inv] \in OtherRequests /\ ctl # None
      BY <1>3 DEF OtherRequests, BeginRefresh
    <2> QED
      BY <2>1, <2>2, AskStep
  <1>4. CASE BeginDiscover
    <2>1. PICK found \in SUBSET Names : Ask([kind |-> "discover", found |-> found])
      BY <1>4 DEF BeginDiscover
    <2>2. [kind |-> "discover", found |-> found] \in OtherRequests /\ ctl # None
      BY <1>4 DEF OtherRequests, BeginDiscover
    <2> QED
      BY <2>1, <2>2, AskStep
  <1>5. CASE BeginApprove
    <2>1. ctl # None /\ ctl.dir \in Dirs /\ ctl.found \subseteq Names
      BY <1>1, <1>5, ControllerFields DEF BeginApprove
    <2>2. PICK op \in Operations, name \in ctl.found,
               only \in {{}} \cup {{h} : h \in {x \in Hosts : ctl.inv[x] # None}} \cup {{g} : g \in Groups} :
            \E modes \in ModesOf(op) :
              Ask([kind |-> "approve", op |-> op, dir |-> ctl.dir,
                   approval |-> [name |-> name, only |-> only, modes |-> modes]])
      BY <1>5 DEF BeginApprove
    <2>3. PICK modes \in ModesOf(op) :
            Ask([kind |-> "approve", op |-> op, dir |-> ctl.dir,
                 approval |-> [name |-> name, only |-> only, modes |-> modes]])
      BY <2>2
    <2>4. only \subseteq Hosts \cup Groups /\ modes \subseteq Modes
      BY DEF ModesOf, Modes
    <2>5. [kind |-> "approve", op |-> op, dir |-> ctl.dir,
           approval |-> [name |-> name, only |-> only, modes |-> modes]] \in OtherRequests
      BY <2>1, <2>4 DEF OtherRequests, Approvals
    <2> QED
      BY <2>1, <2>3, <2>5, AskStep
  <1> QED
    BY <1>2, <1>3, <1>4, <1>5

LEMMA TestConnectionStep ==
  ASSUME ApprovalsInv, TestConnection
  PROVE  ApprovalsInv'
  <1>1. PlaybooksTypeOK /\ UNCHANGED <<ctl, tools, pending, asked, job, granted, muddled>>
    BY DEF ApprovalsInv, TestConnection
  <1>2. report' \in Paths
    BY <1>1 DEF TestConnection, PlaybooksTypeOK, Paths
  <1> QED
    BY <1>1, <1>2 DEF ApprovalsInv, PlaybooksTypeOK, RecordFirst, ApprovalsGranted, File

LEMMA PlaybooksInitInv == PlaybooksInit => ApprovalsInv
  <1> SUFFICES ASSUME PlaybooksInit PROVE ApprovalsInv
    OBVIOUS
  <1>1. /\ tools \in SUBSET {"path", "home"} /\ report = None /\ pending = {} /\ asked = 0 /\ job = None
        /\ granted = NoApprovals /\ muddled = {}
    BY DEF PlaybooksInit
  <1>0. ctl \in {None} \cup {[Blank EXCEPT !.exe = "path", !.inv = inv, !.found = Names] : inv \in Inventories}
    BY DEF PlaybooksInit
  <1>2. Blank \in Controllers /\ Blank.approvals = NoApprovals
    BY PlaybooksAssumption DEF Blank, Controllers, Paths, InventoryMaps, NoApprovals, ApprovalMaps
  <1>3. ctl \in Controllers \cup {None} /\ (ctl # None => ctl.approvals = NoApprovals)
    <2>1. ASSUME NEW inv \in Inventories
          PROVE  LET c == [Blank EXCEPT !.exe = "path", !.inv = inv, !.found = Names]
                 IN  c \in Controllers /\ c.approvals = NoApprovals
      BY <1>2 DEF Controllers, Paths, InventoryMaps
    <2> QED
      BY <1>0, <2>1
  <1>4. IsFiniteSet({}) /\ Cardinality({}) = 0
    BY FS_EmptySet
  <1>5. PlaybooksTypeOK
    <2>0. MaxPending \in Nat /\ MaxRequests \in Nat
      BY PlaybooksAssumption, Zenon
    <2>1. tools \subseteq Paths /\ report \in Paths
      BY <1>1 DEF Paths
    <2>2. IsFiniteSet(pending) /\ Cardinality(pending) <= MaxPending /\ pending \subseteq SaveRequests \cup OtherRequests
      BY <1>1, <1>4, <2>0
    <2>3. asked \in 0..MaxRequests
      BY <1>1, <2>0
    <2>4. granted \in [Operations -> (Dirs \X Names) \cup {None}]
      BY <1>1 DEF NoApprovals
    <2>5. muddled \subseteq Operations
      BY <1>1
    <2> QED
      BY <1>1, <1>3, <2>1, <2>2, <2>3, <2>4, <2>5 DEF PlaybooksTypeOK
  <1>6. RecordFirst
    BY <1>1 DEF RecordFirst
  <1>7. ApprovalsGranted
    BY <1>1, <1>3 DEF ApprovalsGranted, NoApprovals
  <1> QED
    BY <1>5, <1>6, <1>7 DEF ApprovalsInv

\* The invariant holds in every behaviour of the controller.
LEMMA PlaybooksInvariant == PlaybooksSpec => []ApprovalsInv
  <1>1. ApprovalsInv /\ [PlaybooksNext]_playbooksVars => ApprovalsInv'
    <2> SUFFICES ASSUME ApprovalsInv, [PlaybooksNext]_playbooksVars PROVE ApprovalsInv'
      OBVIOUS
    <2>1. CASE UNCHANGED playbooksVars
      BY <2>1 DEF playbooksVars, ApprovalsInv, PlaybooksTypeOK, RecordFirst, ApprovalsGranted, File
    <2>2. CASE PlaybooksNext
      BY <2>2, BeginSteps, SaveStep, TestConnectionStep, RefreshStep, DiscoverStep, ApproveStep, RevokeStep,
         JobSteps DEF PlaybooksNext
    <2> QED
      BY <2>1, <2>2
  <1> QED
    BY <1>1, PlaybooksInitInv, PTL DEF PlaybooksSpec

\* The record, the requests under way and the job keep their types; only a save is under
\* way before there is a record.
THEOREM PlaybooksTypeCorrect == PlaybooksSpec => []PlaybooksTypeOK
  <1>1. ApprovalsInv => PlaybooksTypeOK
    BY DEF ApprovalsInv
  <1> QED
    BY <1>1, PlaybooksInvariant, PTL

\* docker_update_operation, playbook_command and public_instance: whatever is approved,
\* restricted, discovered and in the inventory, a check or update that start_job accepts is
\* one that the workload offers.
THEOREM AcceptedOffered == PlaybooksSpec => []AcceptedIsOffered
  <1>1. ASSUME NEW c, NEW op, JobContext(c, op)
        PROVE  AllowedForTarget(c, op)
    BY <1>1 DEF JobContext, PlaybookCommand, AllowedForTarget
  <1>2. ASSUME NEW c, NEW m \in Modes, UpdateContext(c, m)
        PROVE  m \in DockerModes(c)
    <2>1. AllowedForTarget(c, DockerUpdateOperation(c, m))
      BY <1>1, <1>2 DEF UpdateContext
    <2>2. CASE DockerUpdateOperation(c, m) = Legacy(m)
      BY <2>1, <2>2 DEF DockerModes
    <2>3. CASE DockerUpdateOperation(c, m) # Legacy(m)
      <3>1. DockerUpdateOperation(c, m) = "docker_update" /\ m \in c.approvals["docker_update"].modes
        BY <2>3 DEF DockerUpdateOperation
      <3> QED
        BY <2>1, <3>1 DEF DockerModes
    <2> QED
      BY <2>2, <2>3
  <1>3. AcceptedIsOffered
    BY <1>1, <1>2 DEF AcceptedIsOffered, CheckEligible
  <1> QED
    BY <1>3, PTL

\* _run_job: the command built for a job runs the file an administrator approved for its
\* operation, on a host whose groups permit it, for any number of requests that save,
\* approve, revoke, discover and refresh while it waits, unless one overwrote a change to
\* this approval that it had not read.
THEOREM CommandApproved == PlaybooksSpec => CommandFollowsApproval
  <1>1. ApprovalsInv /\ [PlaybooksNext]_playbooksVars =>
          [CommandBuilt => /\ ctl.enabled /\ Capable(ctl, job.op)
                           /\ job.op \in muddled \/ job'.file = granted[job.op]]_playbooksVars
    <2> SUFFICES ASSUME ApprovalsInv, PlaybooksNext, CommandBuilt
                 PROVE  ctl.enabled /\ Capable(ctl, job.op) /\ (job.op \in muddled \/ job'.file = granted[job.op])
      BY DEF CommandBuilt, playbooksVars
    <2>1. job # None /\ job.stage = "queued" /\ job' # None /\ job'.stage = "connecting"
      BY DEF CommandBuilt
    <2>2. BuildCommand
      <3>1. job' # job
        BY <2>1
      <3>2. ~StartJob /\ ~Launch /\ ~EndJob
        BY <2>1 DEF StartJob, Launch, EndJob
      <3>3. ~BuildCommand => job' = job
        BY <3>2 DEF PlaybooksNext, BeginSave, SaveController, TestConnection, BeginRefresh, Refresh, BeginDiscover,
               Discover, BeginApprove, Approve, Revoke, Ask, Answered
      <3> QED
        BY <3>1, <3>3
    <2>3. /\ ctl.enabled /\ PlaybookCommand(ctl, job.op)
          /\ job' = [job EXCEPT !.stage = "connecting", !.file = File(ctl, job.op), !.exe = ctl.exe]
      BY <2>1, <2>2 DEF BuildCommand
    <2>4. /\ ctl # None /\ job.op \in Operations /\ ctl.approvals[job.op] # None
          /\ job'.file = File(ctl, job.op) /\ Capable(ctl, job.op)
      BY <2>1, <2>3 DEF ApprovalsInv, RecordFirst, PlaybooksTypeOK, PlaybookCommand, ApprovedPlaybook, Jobs
    <2>5. job.op \in muddled \/ job'.file = granted[job.op]
      BY <2>4 DEF ApprovalsInv, ApprovalsGranted
    <2> QED
      BY <2>3, <2>4, <2>5
  <1> QED
    BY <1>1, PlaybooksInvariant, PTL DEF PlaybooksSpec, CommandFollowsApproval
=============================================================================
