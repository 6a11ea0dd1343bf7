----------------------- MODULE MorningUpdates_proofs -----------------------
(***************************************************************************)
(* Proofs about MorningUpdates, for any number of runs, days, settings and *)
(* faults, and any MAX_RUNS.  The lock ties a run on record to its worker: *)
(* while a worker lives it has the lock, or it is known to have outlived   *)
(* its lease (OverrunsMarked).  So who replaces an expired lock fails the  *)
(* record of a worker that is dead or marked, and a record that nobody     *)
(* marked is written by its own worker only, whose label says what it has  *)
(* done (WorkerProgress).  Only the newest run can hold the lock, so the   *)
(* records are as old as their runs but for those of marked workers        *)
(* (RecordsOrdered); so what is pruned has MAX_RUNS newer or marked runs   *)
(* (PrunedAreOld), and they stay newer or marked.                          *)
(***************************************************************************)
EXTENDS MorningUpdates, FiniteSetTheorems, TLAPS

USE DEF Goto, NoFault

----------------------------------------------------------------------------
\* Operators

\* Pruning removes runs and adds none.
LEMMA PruneSubset ==
  ASSUME NEW runs, NEW records
  PROVE  Prune(runs, records) \subseteq runs
  BY DEF Prune

\* A set of runs and its subsets are finite.
LEMMA RunSets ==
  \A n \in Nat : \A T \in SUBSET (1..n) : \A S \in SUBSET T :
    /\ IsFiniteSet(S) /\ IsFiniteSet(T)
    /\ Cardinality(S) \in Nat /\ Cardinality(T) \in Nat /\ Cardinality(S) <= Cardinality(T)
  <1> SUFFICES ASSUME NEW n \in Nat, NEW T \in SUBSET (1..n), NEW S \in SUBSET T
               PROVE  /\ IsFiniteSet(S) /\ IsFiniteSet(T)
                      /\ Cardinality(S) \in Nat /\ Cardinality(T) \in Nat /\ Cardinality(S) <= Cardinality(T)
    OBVIOUS
  <1>1. IsFiniteSet(1..n)
    BY FS_Interval
  <1>2. IsFiniteSet(T)
    BY <1>1, FS_Subset
  <1>3. IsFiniteSet(S) /\ Cardinality(S) <= Cardinality(T)
    BY <1>2, FS_Subset
  <1> QED
    BY <1>2, <1>3, FS_CardinalityType

\* What pruning removes is a terminal record, and MAX_RUNS of the others are not both
\* terminal and older.
LEMMA PrunedIsOld ==
  ASSUME NEW runs, IsFiniteSet(runs), NEW records, NEW q \in runs \ Prune(runs, records)
  PROVE  /\ records[q].status \in Terminal
         /\ Cardinality({p \in runs : p # q /\ ~(records[p].status \in Terminal
                                                /\ records[p].at < records[q].at)}) >= MaxKept
  <1> DEFINE terminal == {p \in runs : records[p].status \in Terminal}
             older == {p \in terminal : records[p].at < records[q].at}
             excess == IF Cardinality(runs) > MaxKept THEN Cardinality(runs) - MaxKept ELSE 0
             other == {p \in runs : p # q /\ ~(records[p].status \in Terminal /\ records[p].at < records[q].at)}
  <1>1. q \in terminal /\ Cardinality(older) < excess
    BY DEF Prune
  <1>2. runs = (older \cup {q}) \cup other /\ (older \cup {q}) \cap other = {}
    OBVIOUS
  <1>3. IsFiniteSet(older) /\ IsFiniteSet(other) /\ Cardinality(older) \in Nat /\ Cardinality(other) \in Nat
        /\ Cardinality(runs) \in Nat
    <2> older \subseteq runs /\ other \subseteq runs
      OBVIOUS
    <2> HIDE DEF older, other
    <2> QED
      BY FS_Subset, FS_CardinalityType
  <1>4. IsFiniteSet(older \cup {q}) /\ Cardinality(older \cup {q}) \in Nat
        /\ Cardinality(older \cup {q}) <= Cardinality(older) + 1
    <2> HIDE DEF older
    <2>1. IsFiniteSet(older \cup {q})
          /\ Cardinality(older \cup {q}) = IF q \in older THEN Cardinality(older) ELSE Cardinality(older) + 1
      BY <1>3, FS_AddElement
    <2> QED
      BY <1>3, <2>1
  <1>5. Cardinality(runs) <= Cardinality(older \cup {q}) + Cardinality(other)
    <2> DEFINE taken == older \cup {q}
    <2>1. IsFiniteSet(taken) /\ taken \cap other = {} /\ runs = taken \cup other
      BY <1>2, <1>4
    <2> HIDE DEF taken, other
    <2>2. Cardinality(taken \cup other) = Cardinality(taken) + Cardinality(other) - Cardinality(taken \cap other)
      BY <1>3, <2>1, FS_Union
    <2>3. Cardinality(taken \cap other) = 0
      BY <2>1, FS_EmptySet
    <2>4. Cardinality(taken) \in Nat
      BY <1>4 DEF taken
    <2>5. Cardinality(runs) <= Cardinality(taken) + Cardinality(other)
      BY <1>3, <2>1, <2>2, <2>3, <2>4
    <2> QED
      BY <2>5 DEF taken
  <1> HIDE DEF older, other
  <1>6. Cardinality(other) >= MaxKept
    BY <1>1, <1>3, <1>4, <1>5, ConstantsAssumption
  <1> QED
    BY <1>1, <1>6 DEF other

\* What is written when a run ends, of its record.
LEMMA CompletedRecord ==
  ASSUME NEW record \in Record, NEW status \in Terminal, NEW at \in Nat
  PROVE  /\ Completed(record, status, at) \in Record
         /\ Completed(record, status, at).status = status
         /\ Completed(record, status, at).completed = TRUE
         /\ Completed(record, status, at).scheduledFor = record.scheduledFor
         /\ Completed(record, status, at).phases = record.phases
         /\ Completed(record, status, at).results = record.results
         /\ Completed(record, status, at).at = at
  BY DEF Completed, Record

\* A run's outcome is one of the terminal states.
LEMMA AggregateTerminal == \A results : Aggregate(results) \in Terminal
  BY DEF Aggregate, Terminal

\* The parts of a record.
LEMMA RecordFields ==
  ASSUME NEW record \in Record
  PROVE  /\ record.status \in Terminal \cup {"running"} /\ record.scheduledFor \in Occurrences \cup {None}
         /\ record.completed \in BOOLEAN /\ record.at \in Nat /\ record.results \subseteq {"ok", "bad"}
         /\ record.phases \in [Phases -> {"pending", "disabled", "completed"}]
  BY DEF Record

\* The record and the lock that _acquire writes.
LEMMA AcquireEffect ==
  ASSUME TypeOK, NEW occurrence \in Occurrences \cup {None}, Acquire(occurrence)
  PROVE  LET r == started + 1 IN
         /\ r \in Runs /\ r \notin kept /\ started' = r /\ kept' \subseteq kept \cup {r}
         /\ lock' = [run |-> r, live |-> TRUE] /\ pc' = [pc EXCEPT ![r] = "begin"]
         /\ stamps' \in Nat /\ faults' = faults
         /\ rec' \in [Runs -> Record]
         /\ \A q \in kept' \ {r} : rec'[q] = IF q = lock.run /\ rec[q].status = "running"
                                             THEN Completed(rec[q], "failed", stamps + 1) ELSE rec[q]
         /\ r \in kept' => rec'[r].completed = FALSE
         /\ occurrence # None => \A q \in kept : rec[q].scheduledFor # occurrence
         /\ stamps' = stamps + 2
         /\ \A q \in Runs : rec'[q].scheduledFor = IF q = r THEN occurrence ELSE rec[q].scheduledFor
         /\ \E created \in [Runs -> Record] :
              /\ kept' = Prune(kept \cup {r}, created) /\ \A q \in kept' : rec'[q] = created[q]
              /\ created[r].status = "running" /\ created[r].at = stamps + 2
              /\ \A q \in kept : created[q] = IF q = lock.run /\ rec[q].status = "running"
                                              THEN Completed(rec[q], "failed", stamps + 1) ELSE rec[q]
  <1> DEFINE r == started + 1
             failed == [q \in Runs |-> IF q \in Abandoned THEN Completed(rec[q], "failed", stamps + 1) ELSE rec[q]]
             new == [status |-> "running", scheduledFor |-> occurrence, completed |-> FALSE, at |-> stamps + 2,
                     phases |-> [p \in Phases |-> IF p \in config.phases THEN "pending" ELSE "disabled"],
                     results |-> {}]
             created == [failed EXCEPT ![r] = new]
             pruned == Prune(kept \cup {r}, created)
  <1>1. r \in Runs /\ r \notin kept /\ kept \subseteq Runs /\ stamps \in Nat
    <2>1. started < MaxStarts
      BY DEF Acquire
    <2> QED
      BY <2>1, ConstantsAssumption DEF TypeOK, Runs
  <1>2. /\ started' = r /\ stamps' = stamps + 2 /\ kept' = pruned
        /\ rec' = [q \in Runs |-> IF q \in pruned THEN created[q]
                                  ELSE [Blank EXCEPT !.scheduledFor = created[q].scheduledFor,
                                                     !.phases = IF Alive(q) THEN created[q].phases ELSE @]]
        /\ lock' = [run |-> r, live |-> TRUE] /\ pc' = [pc EXCEPT ![r] = "begin"] /\ faults' = faults
    BY DEF Acquire
  <1>3. failed \in [Runs -> Record]
    <2>1. stamps + 1 \in Nat /\ "failed" \in Terminal /\ \A q \in Runs : rec[q] \in Record
      BY <1>1 DEF TypeOK, Terminal
    <2>2. \A q \in Runs : Completed(rec[q], "failed", stamps + 1) \in Record
      BY <2>1, CompletedRecord
    <2> QED
      BY <2>2 DEF TypeOK
  <1>4. new \in Record
    BY <1>1 DEF Record
  <1>5. created \in [Runs -> Record] /\ created[r] = new /\ \A q \in Runs \ {r} : created[q] = failed[q]
    BY <1>1, <1>3, <1>4
  <1>6. pruned \subseteq kept \cup {r}
    BY PruneSubset
  <1>7. rec' \in [Runs -> Record] /\ \A q \in Runs : rec'[q].scheduledFor = created[q].scheduledFor
    <2> DEFINE removed(q) == [Blank EXCEPT !.scheduledFor = created[q].scheduledFor,
                                           !.phases = IF Alive(q) THEN created[q].phases ELSE @]
    <2>1. \A q \in Runs : /\ created[q].phases \in [Phases -> {"pending", "disabled", "completed"}]
                          /\ created[q].scheduledFor \in Occurrences \cup {None}
      BY <1>5 DEF Record
    <2>2. Blank \in Record /\ Blank.phases \in [Phases -> {"pending", "disabled", "completed"}]
      BY DEF Blank, Record
    <2>3. \A q \in Runs : removed(q) \in Record /\ removed(q).scheduledFor = created[q].scheduledFor
      BY <2>1, <2>2 DEF Record
    <2>4. rec' = [q \in Runs |-> IF q \in pruned THEN created[q] ELSE removed(q)]
      BY <1>2
    <2> HIDE DEF created, pruned, removed
    <2> QED
      BY <1>5, <2>3, <2>4
  <1>8. \A q \in kept' \ {r} : rec'[q] = IF q = lock.run /\ rec[q].status = "running"
                                         THEN Completed(rec[q], "failed", stamps + 1) ELSE rec[q]
    <2> SUFFICES ASSUME NEW q \in kept' \ {r}
                 PROVE  rec'[q] = IF q = lock.run /\ rec[q].status = "running"
                                  THEN Completed(rec[q], "failed", stamps + 1) ELSE rec[q]
      OBVIOUS
    <2>1. q \in kept /\ q \in Runs /\ rec'[q] = failed[q]
      <3> HIDE DEF created, pruned, failed
      <3> QED
        BY <1>1, <1>2, <1>5, <1>6
    <2> QED
      BY <2>1 DEF Abandoned
  <1>9. r \in kept' => rec'[r].completed = FALSE
    <2>1. new.completed = FALSE
      OBVIOUS
    <2> HIDE DEF created, pruned, new
    <2>2. r \in kept' => rec'[r] = new
      BY <1>1, <1>2, <1>5
    <2> QED
      BY <2>1, <2>2
  <1>10. occurrence # None => \A q \in kept : rec[q].scheduledFor # occurrence
    BY DEF Acquire, HasRun
  <1>11. stamps' = stamps + 2 /\ stamps' \in Nat
    <2>1. stamps' = stamps + 2
      BY <1>2, Zenon
    <2> QED
      BY <1>1, <2>1
  <1>12. \A q \in Runs : rec'[q].scheduledFor = IF q = r THEN occurrence ELSE rec[q].scheduledFor
    <2>1. new.scheduledFor = occurrence
      OBVIOUS
    <2>2. stamps + 1 \in Nat /\ "failed" \in Terminal /\ \A q \in Runs : rec[q] \in Record
      BY <1>1 DEF TypeOK, Terminal
    <2>3. \A q \in Runs : Completed(rec[q], "failed", stamps + 1).scheduledFor = rec[q].scheduledFor
      BY <2>2 DEF Completed
    <2>4. \A q \in Runs : failed[q].scheduledFor = rec[q].scheduledFor
      BY <2>3
    <2> HIDE DEF created, new, failed
    <2> QED
      BY <1>5, <1>7, <2>1, <2>4
  <1>13. /\ kept' = Prune(kept \cup {r}, created) /\ \A q \in kept' : rec'[q] = created[q]
         /\ created[r].status = "running" /\ created[r].at = stamps + 2
         /\ \A q \in kept : created[q] = IF q = lock.run /\ rec[q].status = "running"
                                         THEN Completed(rec[q], "failed", stamps + 1) ELSE rec[q]
    <2>1. new.status = "running" /\ new.at = stamps + 2
      OBVIOUS
    <2>2. \A q \in kept : failed[q] = IF q = lock.run /\ rec[q].status = "running"
                                     THEN Completed(rec[q], "failed", stamps + 1) ELSE rec[q]
      BY <1>1 DEF Abandoned
    <2>3. pruned = Prune(kept \cup {r}, created)
      OBVIOUS
    <2> HIDE DEF created, new, failed, pruned
    <2>4. \A q \in kept : created[q] = failed[q]
      BY <1>1, <1>5
    <2>5. \A q \in kept' : q \in Runs /\ rec'[q] = created[q]
      BY <1>1, <1>2, <1>6
    <2> QED
      BY <1>2, <1>5, <2>1, <2>2, <2>3, <2>4, <2>5
  <1> HIDE DEF pruned, created, new, failed
  <1>14. \E c \in [Runs -> Record] :
           /\ kept' = Prune(kept \cup {r}, c) /\ \A q \in kept' : rec'[q] = c[q]
           /\ c[r].status = "running" /\ c[r].at = stamps + 2
           /\ \A q \in kept : c[q] = IF q = lock.run /\ rec[q].status = "running"
                                     THEN Completed(rec[q], "failed", stamps + 1) ELSE rec[q]
    BY <1>5, <1>13
  <1> QED
    BY <1>1, <1>2, <1>6, <1>11, <1>7, <1>8, <1>9, <1>10, <1>12, <1>14

----------------------------------------------------------------------------
\* The initial state, and what each step of a worker changes

LEMMA InitInv == Init => IInv
  <1> SUFFICES ASSUME Init PROVE IInv
    OBVIOUS
  <1>1. Blank \in Record
    BY DEF Blank, Record
  <1>2. TypeOK
    BY <1>1, ConstantsAssumption DEF Init, TypeOK, Runs, Occurrences
  <1>3. OverrunsMarked
    BY DEF Init, OverrunsMarked, Alive, Working
  <1>4. OncePerOccurrence /\ RunningHasOwner /\ CompletedMeansChecked /\ RecordsOrdered /\ PrunedAreOld
    BY DEF Init, OncePerOccurrence, RunningHasOwner, CompletedMeansChecked, RecordsOrdered, PrunedAreOld
  <1> QED
    BY <1>2, <1>3, <1>4 DEF Init, IInv

\* A phase, and the record it leaves.
LEMMA PersistPhaseEffect ==
  ASSUME TypeOK, NEW r \in Runs, NEW phase \in Phases, NEW next \in {"heartbeat", "notify"},
         PersistPhase(r, phase, next)
  PROVE  /\ pc[r] = phase /\ UNCHANGED <<kept, started, stamps, lock, due, config, clock, overran, process, settings>>
         /\ \/ /\ pc' = [pc EXCEPT ![r] = next] /\ faults' = faults
               /\ r \notin kept => rec' = rec
               /\ r \in kept =>
                    /\ rec' \in [Runs -> Record] /\ \A q \in Runs \ {r} : rec'[q] = rec[q]
                    /\ rec'[r].status \in Terminal /\ rec'[r].scheduledFor = rec[r].scheduledFor
                    /\ rec'[r].completed = rec[r].completed /\ rec'[r].at = rec[r].at
                    /\ rec'[r].phases = [rec[r].phases EXCEPT ![phase] = "completed"]
            \/ pc' = [pc EXCEPT ![r] = "fail"] /\ rec' = rec /\ faults' = faults + 1 /\ faults < MaxFaults
  <1>1. CASE Raises(r)
    BY <1>1 DEF PersistPhase, Raises, At, Fault, store
  <1>2. CASE ~Raises(r)
    <2>1. PICK found \in Findings :
            LET results == rec[r].results \cup found IN
             rec' = IF r \in kept
                    THEN [rec EXCEPT ![r].results = results, ![r].status = Aggregate(results),
                                     ![r].phases[phase] = "completed"]
                    ELSE rec
      BY <1>2 DEF PersistPhase
    <2> DEFINE results == rec[r].results \cup found
               old == rec[r]
    <2>2. results \in SUBSET {"ok", "bad"} /\ Aggregate(results) \in Terminal
      BY AggregateTerminal, RecordFields, ConstantsAssumption DEF TypeOK
    <2>3. ASSUME r \in kept
          PROVE  /\ rec' \in [Runs -> Record] /\ \A q \in Runs \ {r} : rec'[q] = rec[q]
                 /\ rec'[r].status \in Terminal /\ rec'[r].scheduledFor = rec[r].scheduledFor
                 /\ rec'[r].completed = rec[r].completed /\ rec'[r].at = rec[r].at
                 /\ rec'[r].phases = [rec[r].phases EXCEPT ![phase] = "completed"]
      <3> DEFINE new == [[[old EXCEPT !.results = results] EXCEPT !.status = Aggregate(results)]
                           EXCEPT !.phases[phase] = "completed"]
      <3>1. rec \in [Runs -> Record] /\ old \in Record
        BY DEF TypeOK
      <3>2. rec' = [rec EXCEPT ![r] = new]
        BY <2>1, <2>3, <3>1
      <3>3. [old.phases EXCEPT ![phase] = "completed"] \in [Phases -> {"pending", "disabled", "completed"}]
        BY <3>1 DEF Record
      <3>4. new \in Record /\ new.status = Aggregate(results) /\ new.scheduledFor = old.scheduledFor
            /\ new.completed = old.completed /\ new.at = old.at /\ new.phases = [old.phases EXCEPT ![phase] = "completed"]
        BY <2>2, <3>1, <3>3 DEF Record
      <3> HIDE DEF new, results
      <3> QED
        BY <2>2, <3>1, <3>2, <3>4
    <2>4. pc' = [pc EXCEPT ![r] = next] /\ faults' = faults /\ (r \notin kept => rec' = rec)
      BY <1>2, <2>1 DEF PersistPhase
    <2>5. pc[r] = phase /\ UNCHANGED <<kept, started, stamps, lock, due, config, clock, overran, process, settings>>
      BY <1>2 DEF PersistPhase, At
    <2> QED
      BY <2>2, <2>3, <2>4, <2>5
  <1> QED
    BY <1>1, <1>2

\* What a step of a worker, or the renewal of its lease, does to the store: nothing to
\* the set of runs, and only its own record is written.
LEMMA WorkerEffect ==
  ASSUME TypeOK, NEW r \in Runs, Execute(r) \/ WaitForJobs(r)
  PROVE  /\ UNCHANGED <<kept, started, due, config, clock, process, settings>>
         /\ pc[r] \in Working /\ pc' \in [Runs -> Working \cup {"none", "ended"}]
         /\ \A q \in Runs \ {r} : pc'[q] = pc[q]
         /\ faults' \in {faults, faults + 1} /\ faults' \in 0..MaxFaults
         /\ pc'[r] # pc[r] \/ UNCHANGED <<rec, stamps>>
  <1> USE ConstantsAssumption DEF TypeOK, At, Fault, Working, Raises, store, budget
  <1>1. CASE Begin(r)
    BY <1>1 DEF Begin
  <1>2. CASE PersistPhase(r, "ansible", "heartbeat")
    <2>1. /\ UNCHANGED <<kept, started, stamps, due, config, clock, process, settings>> /\ pc[r] = "ansible"
          /\ \/ pc' = [pc EXCEPT ![r] = "heartbeat"] /\ faults' = faults
             \/ pc' = [pc EXCEPT ![r] = "fail"] /\ faults' = faults + 1 /\ faults < MaxFaults
      BY <1>2, PersistPhaseEffect DEF Phases
    <2> QED
      BY <2>1
  <1>3. CASE PersistPhase(r, "deviceNative", "notify")
    <2>1. /\ UNCHANGED <<kept, started, stamps, due, config, clock, process, settings>> /\ pc[r] = "deviceNative"
          /\ \/ pc' = [pc EXCEPT ![r] = "notify"] /\ faults' = faults
             \/ pc' = [pc EXCEPT ![r] = "fail"] /\ faults' = faults + 1 /\ faults < MaxFaults
      BY <1>3, PersistPhaseEffect DEF Phases
    <2> QED
      BY <2>1
  <1>4. CASE Heartbeat(r)
    BY <1>4 DEF Heartbeat
  <1>5. CASE Notify(r)
    BY <1>5 DEF Notify
  <1>6. CASE Complete(r)
    BY <1>6 DEF Complete
  <1>7. CASE Fail(r)
    BY <1>7 DEF Fail
  <1>8. CASE Release(r)
    BY <1>8 DEF Release
  <1>9. CASE WaitForJobs(r)
    BY <1>9 DEF WaitForJobs
  <1> QED
    BY <1>1, <1>2, <1>3, <1>4, <1>5, <1>6, <1>7, <1>8, <1>9 DEF Execute, AnsiblePhase, DevicePhase

\* The end of a run, in its record.
LEMMA StampEffect ==
  ASSUME TypeOK, NEW r \in Runs, NEW status \in Terminal, Stamp(r, status)
  PROVE  /\ rec' \in [Runs -> Record] /\ stamps' \in Nat /\ (r \notin kept => rec' = rec)
         /\ \A q \in Runs \ {r} : rec'[q] = rec[q]
         /\ rec'[r].scheduledFor = rec[r].scheduledFor /\ rec'[r].phases = rec[r].phases
         /\ r \in kept => rec'[r].status = status /\ rec'[r].completed = TRUE
         /\ \/ stamps' = stamps /\ rec'[r].at = rec[r].at
            \/ stamps' = stamps + 1 /\ rec'[r].at = stamps'
  <1>1. CASE r \in kept
    <2>1. stamps + 1 \in Nat /\ rec \in [Runs -> Record] /\ rec[r] \in Record
      BY DEF TypeOK
    <2> DEFINE new == Completed(rec[r], status, stamps + 1)
    <2>2. rec' = [rec EXCEPT ![r] = new] /\ stamps' = stamps + 1
      BY <1>1, <2>1 DEF Stamp
    <2>3. \A record \in Record : \A at \in Nat :
            LET done == Completed(record, status, at) IN
            /\ done \in Record /\ done.status = status /\ done.completed = TRUE /\ done.at = at
            /\ done.scheduledFor = record.scheduledFor /\ done.phases = record.phases
      BY Zenon DEF Completed, Record
    <2>4. /\ new \in Record /\ new.status = status /\ new.completed = TRUE /\ new.at = stamps + 1
          /\ new.scheduledFor = rec[r].scheduledFor /\ new.phases = rec[r].phases
      BY <2>1, <2>3
    <2> HIDE DEF new
    <2> QED
      BY <1>1, <2>1, <2>2, <2>4
  <1>2. CASE r \notin kept
    BY <1>2 DEF Stamp, TypeOK
  <1> QED
    BY <1>1, <1>2

\* What a worker writes: its own record, which keeps its occurrence, never goes back
\* to "running" and gets the newest timestamp if it gets one.
LEMMA RecordEffect ==
  ASSUME TypeOK, NEW r \in Runs, Execute(r) \/ WaitForJobs(r)
  PROVE  /\ rec' \in [Runs -> Record] /\ stamps' \in Nat
         /\ \A q \in Runs \ {r} : rec'[q] = rec[q]
         /\ \A q \in Runs : rec'[q].scheduledFor = rec[q].scheduledFor
         /\ \A q \in kept : rec'[q].status = "running" => rec[q].status = "running"
         /\ \/ stamps' = stamps /\ rec'[r].at = rec[r].at
            \/ stamps' = stamps + 1 /\ rec'[r].at = stamps'
  <1> USE DEF At
  <1>0. rec \in [Runs -> Record] /\ stamps \in Nat /\ kept \subseteq Runs /\ "running" \notin Terminal
    BY ConstantsAssumption DEF TypeOK, Runs, Terminal
  <1>1. CASE PersistPhase(r, "ansible", "heartbeat") \/ PersistPhase(r, "deviceNative", "notify")
    <2>1. /\ stamps' = stamps /\ (r \notin kept => rec' = rec)
          /\ r \in kept /\ rec' # rec =>
                /\ rec' \in [Runs -> Record] /\ \A q \in Runs \ {r} : rec'[q] = rec[q]
                /\ rec'[r].status \in Terminal /\ rec'[r].scheduledFor = rec[r].scheduledFor
                /\ rec'[r].at = rec[r].at
      BY <1>1, PersistPhaseEffect DEF Phases
    <2> QED
      BY <1>0, <2>1
  <1>2. CASE Begin(r) \/ Heartbeat(r) \/ Notify(r) \/ Release(r) \/ WaitForJobs(r)
    BY <1>2 DEF Begin, Heartbeat, Notify, Release, WaitForJobs, Raises, store, TypeOK
  <1>3. CASE Complete(r)
    <2>1. CASE UNCHANGED <<rec, stamps>>
      BY <1>0, <2>1
    <2>2. CASE Stamp(r, Aggregate(rec[r].results))
      <3> DEFINE status == Aggregate(rec[r].results)
      <3>1. status \in Terminal
        BY AggregateTerminal
      <3> HIDE DEF status
      <3>2. Stamp(r, status)
        BY <2>2 DEF status
      <3> QED
        BY <1>0, <3>1, <3>2, StampEffect, ZenonT(40)
    <2> QED
      BY <1>3, <2>1, <2>2 DEF Complete, Raises, store
  <1>4. CASE Fail(r)
    <2>1. CASE UNCHANGED <<rec, stamps>>
      BY <1>0, <2>1
    <2>2. CASE Stamp(r, "failed")
      <3>1. "failed" \in Terminal
        BY DEF Terminal
      <3> QED
        BY <1>0, <2>2, <3>1, StampEffect
    <2> QED
      BY <1>4, <2>1, <2>2 DEF Fail
  <1> QED
    BY <1>1, <1>2, <1>3, <1>4 DEF Execute, AnsiblePhase, DevicePhase

\* What a worker does to the lock: renew its own in the middle of its work, release its
\* own at the end.
LEMMA LockEffect ==
  ASSUME TypeOK, NEW r \in Runs, Execute(r) \/ WaitForJobs(r)
  PROVE  \/ UNCHANGED <<lock, overran>>
         \/ /\ pc[r] \in {"ansible", "heartbeat"} /\ lock.run = r
            /\ lock' = [run |-> r, live |-> TRUE] /\ overran' = overran \ {r}
         \/ /\ pc[r] = "release" /\ pc'[r] = "ended" /\ lock.run = r
            /\ lock' = [run |-> 0, live |-> FALSE] /\ overran' = overran
  <1> USE DEF At, TypeOK
  <1>1. CASE PersistPhase(r, "ansible", "heartbeat") \/ PersistPhase(r, "deviceNative", "notify")
    BY <1>1, PersistPhaseEffect DEF Phases
  <1>2. CASE Begin(r) \/ Notify(r) \/ Complete(r) \/ Fail(r)
    BY <1>2 DEF Begin, Notify, Complete, Fail, Raises, store
  <1>3. CASE Heartbeat(r) \/ WaitForJobs(r)
    BY <1>3 DEF Heartbeat, WaitForJobs, RenewLock, Raises, store
  <1>4. CASE Release(r)
    BY <1>4 DEF Release
  <1> QED
    BY <1>1, <1>2, <1>3, <1>4 DEF Execute, AnsiblePhase, DevicePhase

----------------------------------------------------------------------------
\* Workers that were late stay late

\* The number of late workers does not shrink.
LEMMA LateCount ==
  ASSUME TypeOK, TypeOK', Late \subseteq Late'
  PROVE  /\ Cardinality(Late) \in Nat /\ Cardinality(Late)' \in Nat
         /\ Cardinality(Late) <= Cardinality(Late)'
  <1>1. started' \in Nat /\ Late' \in SUBSET (1..started')
    <2>1. started' \in 0..MaxStarts /\ overran' \subseteq 1..started'
      BY DEF TypeOK
    <2>2. Late' \subseteq overran'
      BY DEF Late
    <2> QED
      BY <2>1, <2>2, ConstantsAssumption
  <1>2. PICK n \in Nat : n = started'
    BY <1>1
  <1>3. PICK now : now = Late
    OBVIOUS
  <1>4. PICK next : next = Late'
    OBVIOUS
  <1>5. next \in SUBSET (1..n) /\ now \in SUBSET next
    BY <1>1, <1>2, <1>3, <1>4
  <1>6. Cardinality(now) \in Nat /\ Cardinality(next) \in Nat /\ Cardinality(now) <= Cardinality(next)
    BY <1>5, RunSets
  <1> QED
    BY <1>3, <1>4, <1>6

\* What is said of pruned runs and of occurrences stays true while no run is started.
LEMMA OccurrencesStay ==
  ASSUME TypeOK, TypeOK', OncePerOccurrence, PrunedAreOld, Late \subseteq Late',
         UNCHANGED <<kept, started>>, faults' >= faults,
         \A q \in Runs : rec'[q].scheduledFor = rec[q].scheduledFor
  PROVE  OncePerOccurrence' /\ PrunedAreOld'
  <1>1. /\ Cardinality(Late) \in Nat /\ Cardinality(Late)' \in Nat /\ Cardinality(Late) <= Cardinality(Late)'
        /\ started \in Nat /\ 1..started \subseteq Runs /\ faults \in Nat /\ faults' \in Nat
    <2>1. started \in 0..MaxStarts /\ faults \in 0..MaxFaults /\ faults' \in 0..MaxFaults
      BY DEF TypeOK
    <2>2. 1..started \subseteq Runs
      BY <2>1, ConstantsAssumption DEF Runs
    <2> QED
      BY <2>1, <2>2, LateCount, ConstantsAssumption
  <1>2. faults' <= 1 => faults <= 1
    BY <1>1
  <1>3. PrunedAreOld'
    BY <1>1, <1>2, ConstantsAssumption DEF PrunedAreOld
  <1>4. OncePerOccurrence'
    <2> SUFFICES ASSUME NEW q \in 1..started, NEW r \in 1..started, q < r, faults' <= 1,
                        rec'[q].scheduledFor # None, rec'[q].scheduledFor = rec'[r].scheduledFor
                 PROVE  r - q + Cardinality(Late)' > MaxKept
      BY DEF OncePerOccurrence
    <2>1. r - q + Cardinality(Late) > MaxKept
      BY <1>1, <1>2 DEF OncePerOccurrence
    <2> QED
      BY <1>1, <2>1, ConstantsAssumption
  <1> QED
    BY <1>3, <1>4

----------------------------------------------------------------------------
\* The workers

\* What the worker of a run on record knows is still true after its step.
LEMMA OwnProgress ==
  ASSUME IInv, NEW r \in kept, r \in Runs, Execute(r) \/ WaitForJobs(r)
  PROVE  /\ WorkerProgress(r)'
         /\ r \notin overran' /\ rec'[r].completed /\ rec'[r].status # "failed" =>
              \A p \in Phases : rec'[r].phases[p] # "pending"
  <1>0. /\ TypeOK /\ WorkerProgress(r) /\ rec[r] \in Record
        /\ (Alive(r) => lock.run = r \/ r \in overran)
        /\ faults \in Nat
        /\ (r \notin overran /\ rec[r].completed /\ rec[r].status # "failed" =>
              \A p \in Phases : rec[r].phases[p] # "pending")
    <2>1. TypeOK /\ WorkerProgress(r) /\ OverrunsMarked /\ CompletedMeansChecked
      BY DEF IInv
    <2> QED
      BY <2>1, ConstantsAssumption DEF OverrunsMarked, CompletedMeansChecked, TypeOK
  <1> USE <1>0 DEF At, Fault
  <1>1. CASE PersistPhase(r, "ansible", "heartbeat")
    <2>1. /\ pc[r] = "ansible" /\ UNCHANGED <<kept, lock, overran>>
          /\ \/ /\ pc' = [pc EXCEPT ![r] = "heartbeat"] /\ faults' = faults
                /\ rec'[r].status \in Terminal /\ rec'[r].completed = rec[r].completed
                /\ rec'[r].phases = [rec[r].phases EXCEPT !["ansible"] = "completed"]
             \/ pc' = [pc EXCEPT ![r] = "fail"] /\ rec' = rec /\ faults' = faults + 1
      BY <1>1, PersistPhaseEffect DEF Phases
    <2>2. /\ rec[r].phases \in [Phases -> {"pending", "disabled", "completed"}] /\ "running" \notin Terminal
          /\ pc \in [Runs -> Working \cup {"none", "ended"}]
      BY RecordFields DEF TypeOK, Terminal
    <2>3. CASE pc' = [pc EXCEPT ![r] = "fail"]
      BY <2>1, <2>2, <2>3 DEF WorkerProgress, Alive, Working, Phases
    <2>4. CASE pc' = [pc EXCEPT ![r] = "heartbeat"] /\ pc' # [pc EXCEPT ![r] = "fail"]
      BY <2>1, <2>2, <2>4 DEF WorkerProgress, Alive, Working, Phases
    <2> QED
      BY <2>1, <2>3, <2>4
  <1>2. CASE PersistPhase(r, "deviceNative", "notify")
    <2>1. /\ pc[r] = "deviceNative" /\ UNCHANGED <<kept, lock, overran>>
          /\ \/ /\ pc' = [pc EXCEPT ![r] = "notify"] /\ faults' = faults
                /\ rec'[r].status \in Terminal /\ rec'[r].completed = rec[r].completed
                /\ rec'[r].phases = [rec[r].phases EXCEPT !["deviceNative"] = "completed"]
             \/ pc' = [pc EXCEPT ![r] = "fail"] /\ rec' = rec /\ faults' = faults + 1
      BY <1>2, PersistPhaseEffect DEF Phases
    <2>2. /\ rec[r].phases \in [Phases -> {"pending", "disabled", "completed"}] /\ "running" \notin Terminal
          /\ pc \in [Runs -> Working \cup {"none", "ended"}]
      BY RecordFields DEF TypeOK, Terminal
    <2>3. CASE pc' = [pc EXCEPT ![r] = "fail"]
      BY <2>1, <2>2, <2>3 DEF WorkerProgress, Alive, Working, Phases
    <2>4. CASE pc' = [pc EXCEPT ![r] = "notify"] /\ pc' # [pc EXCEPT ![r] = "fail"]
      BY <2>1, <2>2, <2>4 DEF WorkerProgress, Alive, Working, Phases
    <2> QED
      BY <2>1, <2>3, <2>4
  <1>3. CASE Begin(r)
    <2>1. /\ pc[r] = "begin" /\ UNCHANGED <<rec, kept, lock, overran>>
          /\ \/ pc'[r] \in {"ansible", "heartbeat"} /\ faults' = faults
                /\ (pc'[r] = "heartbeat" => rec[r].phases["ansible"] = "disabled")
             \/ pc'[r] = "fail" /\ faults' = faults + 1
      BY <1>3 DEF Begin, Raises, store, TypeOK
    <2> QED
      BY <2>1 DEF WorkerProgress, Alive, Working
  <1>4. CASE Heartbeat(r)
    <2>1. /\ pc[r] = "heartbeat" /\ UNCHANGED <<rec, kept>>
          /\ \/ pc'[r] \in {"deviceNative", "notify"} /\ faults' = faults
                /\ (pc'[r] = "notify" => rec[r].phases["deviceNative"] = "disabled")
             \/ pc'[r] = "fail" /\ faults' = faults + 1
      BY <1>4 DEF Heartbeat, Raises, store, TypeOK
    <2>2. lock'.run = lock.run /\ (r \in overran /\ lock.run # r => r \in overran')
      BY <1>4, <2>1, LockEffect DEF Execute
    <2> QED
      BY <2>1, <2>2 DEF WorkerProgress, Alive, Working
  <1>5. CASE Notify(r)
    <2>1. /\ pc[r] = "notify" /\ UNCHANGED <<rec, kept, lock, overran>>
          /\ \/ pc'[r] = "complete" /\ faults' = faults
             \/ pc'[r] = "fail" /\ faults' = faults + 1
      BY <1>5 DEF Notify, Raises, store, TypeOK
    <2> QED
      BY <2>1 DEF WorkerProgress, Alive, Working
  <1>6. CASE Complete(r)
    <2>1. pc[r] = "complete" /\ UNCHANGED <<kept, lock, overran>>
      BY <1>6 DEF Complete, Raises, store
    <2>2. CASE Raises(r)
      <3>1. UNCHANGED rec /\ pc'[r] = "fail" /\ faults' = faults + 1
        BY <2>2 DEF Raises, store, TypeOK
      <3> QED
        BY <2>1, <3>1 DEF WorkerProgress, Alive, Working
    <2>3. CASE Stamp(r, Aggregate(rec[r].results)) /\ pc' = [pc EXCEPT ![r] = "release"] /\ faults' = faults
      <3> DEFINE status == Aggregate(rec[r].results)
      <3>1. status \in Terminal /\ "running" \notin Terminal
        BY AggregateTerminal DEF Terminal
      <3> HIDE DEF status
      <3>2. Stamp(r, status)
        BY <2>3 DEF status
      <3>3. rec'[r].phases = rec[r].phases /\ rec'[r].status = status
        BY <3>1, <3>2, StampEffect
      <3>4. pc'[r] = "release"
        BY <2>3 DEF TypeOK
      <3> QED
        BY <2>1, <2>3, <3>1, <3>3, <3>4 DEF WorkerProgress, Alive, Working, Phases
    <2> QED
      BY <1>6, <2>2, <2>3 DEF Complete
  <1>7. CASE Fail(r)
    <2>1. pc[r] = "fail" /\ pc'[r] = "release" /\ UNCHANGED <<kept, lock, overran>>
      BY <1>7 DEF Fail, TypeOK
    <2>2. CASE UNCHANGED rec /\ faults' = faults + 1
      BY <2>1, <2>2 DEF WorkerProgress, Alive, Working
    <2>3. CASE Stamp(r, "failed") /\ faults' = faults
      <3>1. "failed" \in Terminal
        BY DEF Terminal
      <3>2. rec'[r].phases = rec[r].phases /\ rec'[r].status = "failed"
        BY <2>3, <3>1, StampEffect
      <3> QED
        BY <2>1, <2>3, <3>2 DEF WorkerProgress, Alive, Working
    <2> QED
      BY <1>7, <2>2, <2>3 DEF Fail
  <1>8. CASE Release(r)
    <2>1. pc'[r] = "ended" /\ UNCHANGED <<rec, kept, overran>>
      BY <1>8 DEF Release, TypeOK
    <2> QED
      BY <2>1 DEF WorkerProgress, Alive, Working
  <1>9. CASE WaitForJobs(r)
    <2>1. pc[r] = "ansible" /\ UNCHANGED <<rec, kept, pc, faults>>
      BY <1>9 DEF WaitForJobs, budget
    <2>2. lock'.run = lock.run /\ (r \in overran /\ lock.run # r => r \in overran')
      BY <1>9, <2>1, LockEffect
    <2> QED
      BY <2>1, <2>2 DEF WorkerProgress, Alive, Working
  <1> QED
    BY <1>1, <1>2, <1>3, <1>4, <1>5, <1>6, <1>7, <1>8, <1>9 DEF Execute, AnsiblePhase, DevicePhase

\* A step of a worker, or the renewal of its lease, preserves the invariant.
LEMMA WorkerInv ==
  ASSUME IInv, NEW r \in Runs, Execute(r) \/ WaitForJobs(r)
  PROVE  IInv'
  <1>1. TypeOK /\ OverrunsMarked /\ OncePerOccurrence /\ RunningHasOwner /\ CompletedMeansChecked
        /\ RecordsOrdered /\ PrunedAreOld /\ \A q \in kept : WorkerProgress(q)
    BY DEF IInv
  <1>2. /\ UNCHANGED <<kept, started, due, config, clock, process, settings>>
        /\ pc[r] \in Working /\ pc' \in [Runs -> Working \cup {"none", "ended"}]
        /\ \A q \in Runs \ {r} : pc'[q] = pc[q]
        /\ faults' \in {faults, faults + 1} /\ faults' \in 0..MaxFaults
    BY <1>1, WorkerEffect
  <1>3. /\ rec' \in [Runs -> Record] /\ stamps' \in Nat
        /\ \A q \in Runs \ {r} : rec'[q] = rec[q]
        /\ \A q \in Runs : rec'[q].scheduledFor = rec[q].scheduledFor
        /\ \A q \in kept : rec'[q].status = "running" => rec[q].status = "running"
        /\ \/ stamps' = stamps /\ rec'[r].at = rec[r].at
           \/ stamps' = stamps + 1 /\ rec'[r].at = stamps'
    BY <1>1, RecordEffect
  <1>4. \/ UNCHANGED <<lock, overran>>
        \/ /\ pc[r] \in {"ansible", "heartbeat"} /\ lock.run = r
           /\ lock' = [run |-> r, live |-> TRUE] /\ overran' = overran \ {r}
        \/ /\ pc[r] = "release" /\ pc'[r] = "ended" /\ lock.run = r
           /\ lock' = [run |-> 0, live |-> FALSE] /\ overran' = overran
    BY <1>1, LockEffect
  <1>5. /\ kept \subseteq Runs /\ started \in Nat /\ lock.run \in Nat /\ lock.run <= started
        /\ started <= MaxStarts /\ 0 \notin Runs /\ faults \in Nat
    BY <1>1, ConstantsAssumption DEF TypeOK, Runs
  <1>6. TypeOK'
    <2>1. lock.run \in 0..started /\ 0 \in 0..started /\ overran \subseteq 1..started
          /\ lock \in [run : 0..started, live : BOOLEAN]
      BY <1>1, <1>5 DEF TypeOK
    <2>2. overran' \subseteq 1..started
      BY <1>4, <2>1
    <2>3. lock' \in [run : 0..started, live : BOOLEAN]
      <3> DEFINE holders == 0..started
      <3>1. lock.run \in holders /\ 0 \in holders /\ lock \in [run : holders, live : BOOLEAN]
        BY <2>1
      <3> HIDE DEF holders
      <3>2. lock' = lock \/ lock' = [run |-> lock.run, live |-> TRUE] \/ lock' = [run |-> 0, live |-> FALSE]
        BY <1>4
      <3>3. lock' \in [run : holders, live : BOOLEAN]
        <4>1. [run |-> lock.run, live |-> TRUE] \in [run : holders, live : BOOLEAN]
          BY <3>1
        <4>2. [run |-> 0, live |-> FALSE] \in [run : holders, live : BOOLEAN]
          BY <3>1
        <4> QED
          BY <3>1, <3>2, <4>1, <4>2, Zenon
      <3> QED
        BY <3>3 DEF holders
    <2> QED
      BY <1>1, <1>2, <1>3, <2>2, <2>3 DEF TypeOK
  <1>7. OverrunsMarked'
    <2>1. (lock.run # 0 => lock.run \in Runs) /\ Alive(r)
      BY <1>2, <1>5, ConstantsAssumption DEF Runs, Alive
    <2>2. \A q \in Runs : Alive(q)' => Alive(q)
      BY <1>2, <2>1 DEF Alive
    <2>3. (lock.run # 0 /\ ~lock.live => lock.run \in overran \/ ~Alive(lock.run))'
      BY <1>1, <1>4, <2>1, <2>2 DEF OverrunsMarked
    <2>4. ASSUME NEW q \in Runs, Alive(q)'
          PROVE  q <= started' /\ (lock'.run = q \/ q \in overran')
      <3>1. q <= started /\ (lock.run = q \/ q \in overran)
        BY <1>1, <2>2, <2>4 DEF OverrunsMarked
      <3>2. ~(q = r /\ pc'[r] = "ended")
        BY <2>4 DEF Alive, Working
      <3> QED
        BY <1>2, <1>4, <3>1, <3>2
    <2> QED
      BY <2>3, <2>4 DEF OverrunsMarked
  <1>8. OncePerOccurrence' /\ PrunedAreOld' /\ RecordsOrdered'
    <2>1. Late \subseteq Late' /\ lock'.run \in {lock.run, 0}
      <3>1. CASE UNCHANGED <<lock, overran>>
        BY <3>1 DEF Late
      <3>2. CASE lock.run = r /\ lock'.run = r /\ overran' = overran \ {r}
        BY <3>2 DEF Late
      <3>3. CASE lock'.run = 0 /\ overran' = overran
        <4>1. 0 \notin overran
          BY <1>1 DEF TypeOK
        <4> QED
          BY <3>3, <4>1 DEF Late
      <3> QED
        BY <1>4, <3>1, <3>2, <3>3
    <2>2. faults' >= faults
      BY <1>2, <1>5
    <2>3. OncePerOccurrence' /\ PrunedAreOld'
      BY <1>1, <1>2, <1>3, <1>6, <2>1, <2>2, OccurrencesStay
    <2>4. ASSUME NEW q \in kept
          PROVE  rec'[q].at <= stamps'
      BY <1>1, <1>3, <1>5, <2>4 DEF TypeOK, RecordsOrdered, Record
    <2>5. ASSUME NEW p \in kept, NEW q \in kept, p < q
          PROVE  rec'[p].at < rec'[q].at \/ p \in Late'
      <3>1. /\ rec[p].at < rec[q].at \/ p \in Late'
            /\ rec[p].at <= stamps /\ p \in Runs /\ q \in Runs /\ stamps \in Nat
            /\ rec[p].at \in Nat /\ rec[q].at \in Nat
        BY <1>1, <1>5, <2>1, <2>5 DEF RecordsOrdered, TypeOK, Record
      <3>2. CASE p # r /\ q # r
        BY <1>3, <3>1, <3>2
      <3>3. CASE q = r
        <4>1. p # r /\ p \in Nat /\ q \in Nat
          BY <2>5, <3>1, <3>3 DEF Runs
        <4> QED
          BY <1>3, <3>1, <3>3, <4>1
      <3>4. CASE p = r
        <4>1. p < started /\ p # 0 /\ q # r /\ p \in Nat
          BY <1>1, <1>5, <2>5, <3>1, <3>4 DEF TypeOK, Runs
        <4>2. lock.run # p
          BY <1>1, <1>5, <4>1 DEF RecordsOrdered
        <4>3. p \in overran
          BY <1>1, <1>2, <3>1, <3>4, <4>2 DEF OverrunsMarked, Alive
        <4> QED
          BY <2>1, <4>2, <4>3 DEF Late
      <3> QED
        BY <3>2, <3>3, <3>4
    <2> QED
      BY <1>1, <1>2, <2>1, <2>3, <2>4, <2>5 DEF RecordsOrdered
  <1>9. RunningHasOwner'
    <2> SUFFICES ASSUME NEW q \in kept, rec'[q].status = "running"
                 PROVE  lock'.run = q \/ faults' > 1
      BY <1>2 DEF RunningHasOwner
    <2>0. rec[q].status = "running"
      BY <1>3
    <2>1. rec[q].status = "running" /\ (lock.run = q \/ faults > 1)
      BY <1>1, <2>0 DEF RunningHasOwner
    <2>2. faults' >= faults
      BY <1>2, <1>5
    <2>3. CASE pc[r] = "release" /\ q = r
      BY <1>1, <1>2, <1>5, <2>1, <2>2, <2>3 DEF WorkerProgress
    <2>4. CASE ~(pc[r] = "release" /\ q = r)
      BY <1>2, <1>4, <1>5, <2>1, <2>2, <2>4
    <2> QED
      BY <2>3, <2>4
  <1>10. ASSUME NEW q \in kept
         PROVE  WorkerProgress(q)'
    <2>1. CASE q = r
      BY <2>1, OwnProgress
    <2>2. CASE q # r
      <3>1. rec'[q] = rec[q] /\ pc'[q] = pc[q] /\ WorkerProgress(q) /\ (lock'.run = q => lock.run = q)
        BY <1>1, <1>2, <1>3, <1>4, <1>5, <2>2
      <3>2. (faults > 0 => faults' > 0) /\ (faults > 1 => faults' > 1)
        BY <1>2, <1>5
      <3> QED
        BY <3>1, <3>2 DEF WorkerProgress, Alive
    <2> QED
      BY <2>1, <2>2
  <1>11. CompletedMeansChecked'
    <2> SUFFICES ASSUME NEW q \in kept \ overran', rec'[q].completed, rec'[q].status # "failed"
                 PROVE  \A p \in Phases : rec'[q].phases[p] # "pending"
      BY <1>2 DEF CompletedMeansChecked
    <2>1. CASE q = r
      BY <2>1, OwnProgress
    <2>2. CASE q # r
      BY <1>1, <1>3, <1>4, <1>5, <2>2 DEF CompletedMeansChecked
    <2> QED
      BY <2>1, <2>2
  <1> QED
    BY <1>2, <1>6, <1>7, <1>8, <1>9, <1>10, <1>11 DEF IInv

----------------------------------------------------------------------------
\* Starting a run

\* The transaction that starts a run keeps the records in order, and what it prunes is old.
LEMMA AcquirePrunes ==
  ASSUME IInv, TypeOK', NEW occurrence \in Occurrences \cup {None}, Acquire(occurrence), overran' = overran
  PROVE  RecordsOrdered' /\ PrunedAreOld'
  <1> DEFINE r == started + 1
             runs == kept \cup {r}
  <1>1. TypeOK /\ RunningHasOwner /\ RecordsOrdered /\ PrunedAreOld
    BY DEF IInv
  <1>2. /\ r \in Runs /\ r \notin kept /\ started' = r /\ kept' \subseteq kept \cup {r}
        /\ lock' = [run |-> r, live |-> TRUE] /\ faults' = faults /\ stamps' = stamps + 2
    BY <1>1, AcquireEffect
  <1>3. PICK created \in [Runs -> Record] :
          /\ kept' = Prune(kept \cup {r}, created) /\ \A q \in kept' : rec'[q] = created[q]
          /\ created[r].status = "running" /\ created[r].at = stamps + 2
          /\ \A q \in kept : created[q] = IF q = lock.run /\ rec[q].status = "running"
                                          THEN Completed(rec[q], "failed", stamps + 1) ELSE rec[q]
    BY <1>1, AcquireEffect
  <1>4. /\ kept \subseteq 1..started /\ started \in Nat /\ stamps \in Nat /\ faults \in Nat /\ r \in Nat
        /\ overran \subseteq 1..started /\ kept \subseteq Runs /\ rec \in [Runs -> Record] /\ MaxKept \in Nat
        /\ r = started + 1 /\ lock.run \in {0, started}
    <2>1. kept \subseteq 1..started /\ started \in 0..MaxStarts /\ stamps \in Nat /\ faults \in 0..MaxFaults
          /\ overran \subseteq 1..started /\ rec \in [Runs -> Record]
      BY <1>1 DEF TypeOK
    <2>2. 1..started \subseteq Runs /\ started \in Nat /\ faults \in Nat /\ MaxKept \in Nat
      BY <2>1, ConstantsAssumption DEF Runs
    <2> QED
      BY <1>1, <2>1, <2>2 DEF RecordsOrdered
  <1> HIDE DEF r
  <1>5. Late' = overran \ {r} /\ Late \subseteq Late'
    BY <1>2, <1>4 DEF Late
  <1>6. ASSUME NEW q \in kept
        PROVE  /\ created[q].at \in Nat /\ rec[q].at \in Nat /\ rec[q].at <= created[q].at
               /\ created[q].at <= stamps + 1
               /\ created[q].status = "running" => rec[q].status = "running" /\ q # lock.run
               /\ q # lock.run => created[q] = rec[q]
    <2>1. rec[q] \in Record /\ rec[q].at \in Nat /\ rec[q].at <= stamps /\ stamps + 1 \in Nat
          /\ "failed" \in Terminal
      BY <1>1, <1>4, <1>6 DEF RecordsOrdered, Record, Terminal
    <2>2. \A record \in Record : \A at \in Nat :
            Completed(record, "failed", at).at = at /\ Completed(record, "failed", at).status = "failed"
      BY <2>1 DEF Completed, Record
    <2>3. Completed(rec[q], "failed", stamps + 1).at = stamps + 1
          /\ Completed(rec[q], "failed", stamps + 1).status = "failed"
      BY <2>1, <2>2
    <2>4. CASE q = lock.run /\ rec[q].status = "running"
      BY <1>3, <1>4, <1>6, <2>1, <2>3, <2>4
    <2>5. CASE ~(q = lock.run /\ rec[q].status = "running")
      BY <1>3, <1>4, <1>6, <2>1, <2>5
    <2> QED
      BY <2>4, <2>5
  <1>7. ASSUME NEW p \in runs, NEW q \in runs, p < q
        PROVE  created[p].at < created[q].at \/ p \in Late'
    <2>1. p \in kept /\ p \in Nat /\ p <= started
      BY <1>4, <1>7
    <2>2. CASE q = r
      BY <1>3, <1>4, <1>6, <2>1, <2>2
    <2>3. CASE q # r
      <3>1. q \in kept /\ p # lock.run
        BY <1>4, <1>7, <2>1, <2>3
      <3>2. rec[p].at < rec[q].at \/ p \in Late
        BY <1>1, <1>7, <2>1, <3>1 DEF RecordsOrdered
      <3>3. created[p] = rec[p] /\ rec[p].at \in Nat /\ created[q].at \in Nat /\ rec[q].at \in Nat
            /\ rec[q].at <= created[q].at
        BY <1>6, <2>1, <3>1
      <3> QED
        BY <1>5, <3>2, <3>3
    <2> QED
      BY <2>2, <2>3
  <1>8. RecordsOrdered'
    <2>1. \A q \in kept' : q \in runs /\ rec'[q] = created[q]
      BY <1>2, <1>3
    <2>2. \A q \in runs : created[q].at <= stamps'
      BY <1>2, <1>3, <1>4, <1>6
    <2>3. lock'.run = started'
      BY <1>2
    <2> QED
      BY <1>7, <2>1, <2>2, <2>3 DEF RecordsOrdered
  <1>9. ASSUME faults <= 1, NEW q \in runs \ kept'
        PROVE  r - q + Cardinality(Late)' >= MaxKept
    <2> DEFINE other == {p \in runs : p # q /\ ~(created[p].status \in Terminal
                                                 /\ created[p].at < created[q].at)}
    <2>1. IsFiniteSet(runs) /\ q \in Nat /\ q <= r
      <3>1. runs \in SUBSET (1..r)
        BY <1>4
      <3> HIDE DEF runs
      <3>2. IsFiniteSet(runs)
        BY <1>4, <3>1, RunSets
      <3>3. q \in 1..r
        BY <1>9, <3>1
      <3> QED
        BY <1>4, <3>2, <3>3
    <2>2. created[q].status \in Terminal /\ Cardinality(other) >= MaxKept
      <3>1. q \in runs \ Prune(runs, created)
        BY <1>3, <1>9
      <3> HIDE DEF runs
      <3> QED
        BY <2>1, <3>1, PrunedIsOld
    <2>3. q # r /\ q \in kept
      BY <1>3, <2>2, <1>9 DEF Terminal
    <2>4. other \subseteq ((q + 1)..r) \cup Late'
      <3> SUFFICES ASSUME NEW p \in other, p \notin (q + 1)..r
                   PROVE  p \in Late'
        OBVIOUS
      <3>1. p \in kept /\ p < q /\ p \in Nat /\ p # lock.run
        BY <1>4, <2>3
      <3>2. CASE created[p].status \in Terminal
        <4>1. ~(created[p].at < created[q].at) /\ created[p].at \in Nat /\ created[q].at \in Nat
          BY <1>6, <2>3, <3>1, <3>2
        <4> QED
          BY <1>7, <2>3, <3>1, <4>1
      <3>3. CASE created[p].status \notin Terminal
        <4>1. created[p].status = "running"
          BY <1>3, <1>4, <3>1, <3>3 DEF Record
        <4>2. rec[p].status = "running" /\ faults > 1
          BY <1>1, <1>6, <3>1, <4>1 DEF RunningHasOwner
        <4> QED
          BY <1>4, <1>9, <4>2
      <3> QED
        BY <3>2, <3>3
    <2>5. PICK late : late = Late'
      OBVIOUS
    <2>6. IsFiniteSet(late) /\ Cardinality(late) \in Nat
      <3>1. late \in SUBSET (1..r)
        BY <1>4, <1>5, <2>5
      <3> QED
        BY <1>4, <3>1, RunSets
    <2> DEFINE newer == (q + 1)..r
    <2>7. IsFiniteSet(newer) /\ Cardinality(newer) = r - q /\ r - q \in Nat
      <3>1. q + 1 \in Int /\ r \in Int /\ ~(q + 1 > r)
        BY <1>4, <2>1, <2>3
      <3>2. IsFiniteSet(newer) /\ Cardinality(newer) = r - (q + 1) + 1
        BY <3>1, FS_Interval
      <3> QED
        BY <1>4, <2>1, <3>2
    <2> HIDE DEF newer
    <2>8. IsFiniteSet(newer \cup late) /\ Cardinality(newer \cup late) <= Cardinality(newer) + Cardinality(late)
          /\ Cardinality(newer \cup late) \in Nat
      <3>1. IsFiniteSet(newer \cap late)
        BY <2>6, FS_Subset
      <3>2. Cardinality(newer \cap late) \in Nat
        BY <3>1, FS_CardinalityType
      <3>3. IsFiniteSet(newer \cup late)
            /\ Cardinality(newer \cup late) = Cardinality(newer) + Cardinality(late) - Cardinality(newer \cap late)
        BY <2>6, <2>7, FS_Union
      <3>4. Cardinality(newer \cup late) \in Nat
        BY <3>3, FS_CardinalityType
      <3> QED
        BY <2>6, <2>7, <3>2, <3>3, <3>4
    <2>9. other \in SUBSET (newer \cup late)
      BY <2>4, <2>5 DEF newer
    <2>10. Cardinality(other) <= Cardinality(newer \cup late) /\ Cardinality(other) \in Nat
      <3> HIDE DEF other
      <3> QED
        BY <2>8, <2>9, FS_Subset, FS_CardinalityType
    <2> HIDE DEF other
    <2>11. r - q + Cardinality(late) >= MaxKept
      BY <1>4, <2>2, <2>6, <2>7, <2>8, <2>10
    <2> QED
      BY <2>5, <2>11
  <1>10. PrunedAreOld'
    <2>1. Cardinality(Late) \in Nat /\ Cardinality(Late)' \in Nat /\ Cardinality(Late) <= Cardinality(Late)'
      BY <1>1, <1>5, LateCount
    <2> SUFFICES ASSUME faults <= 1, NEW q \in (1..r) \ kept'
                 PROVE  r - q + Cardinality(Late)' >= MaxKept
      BY <1>2 DEF PrunedAreOld
    <2>2. CASE q \in runs
      BY <1>9, <2>2
    <2>3. CASE q \notin runs
      <3>1. q \in (1..started) \ kept /\ q \in Nat
        BY <1>4, <2>3
      <3>2. started - q + Cardinality(Late) >= MaxKept
        BY <1>1, <3>1 DEF PrunedAreOld
      <3> QED
        BY <1>4, <2>1, <3>1, <3>2
    <2> QED
      BY <2>2, <2>3
  <1> QED
    BY <1>8, <1>10

\* Starting a run preserves the invariant: the lock it replaces had expired, so
\* the run it fails is dead or marked.
LEMMA AcquireInv ==
  ASSUME IInv, NEW occurrence \in Occurrences \cup {None}, Acquire(occurrence),
         due' \in {due, None}, UNCHANGED <<config, clock, overran, process, settings>>
  PROVE  IInv'
  <1> DEFINE r == started + 1
  <1>1. TypeOK /\ OverrunsMarked /\ OncePerOccurrence /\ RunningHasOwner /\ CompletedMeansChecked
        /\ RecordsOrdered /\ PrunedAreOld /\ \A q \in kept : WorkerProgress(q)
    BY DEF IInv
  <1>2. /\ r \in Runs /\ r \notin kept /\ started' = r /\ kept' \subseteq kept \cup {r}
        /\ lock' = [run |-> r, live |-> TRUE] /\ pc' = [pc EXCEPT ![r] = "begin"]
        /\ stamps' \in Nat /\ faults' = faults
        /\ rec' \in [Runs -> Record]
        /\ \A q \in kept' \ {r} : rec'[q] = IF q = lock.run /\ rec[q].status = "running"
                                            THEN Completed(rec[q], "failed", stamps + 1) ELSE rec[q]
        /\ r \in kept' => rec'[r].completed = FALSE
        /\ occurrence # None => \A q \in kept : rec[q].scheduledFor # occurrence
        /\ stamps' = stamps + 2
        /\ \A q \in Runs : rec'[q].scheduledFor = IF q = r THEN occurrence ELSE rec[q].scheduledFor
    BY <1>1, AcquireEffect
  <1>3. /\ kept \subseteq Runs /\ started \in Nat /\ lock.run \in 0..started /\ r > started /\ r \in Nat
        /\ started' <= MaxStarts /\ faults \in Nat /\ stamps + 1 \in Nat /\ kept \subseteq 1..started
        /\ pc \in [Runs -> Working \cup {"none", "ended"}]
    BY <1>1, <1>2, ConstantsAssumption DEF TypeOK, Runs
  <1>4. lock.run = 0 \/ ~lock.live
    BY DEF Acquire, LockActive
  <1> HIDE DEF r
  <1>5. ASSUME NEW q \in kept', q # r
        PROVE  /\ q \in kept /\ q \in Runs /\ pc'[q] = pc[q] /\ rec'[q].scheduledFor = rec[q].scheduledFor
               /\ \/ rec'[q] = rec[q] /\ (rec[q].status = "running" => q # lock.run)
                  \/ /\ q = lock.run /\ rec'[q].status = "failed" /\ rec'[q].phases = rec[q].phases
    <2>1. q \in kept /\ q \in Runs /\ rec[q] \in Record /\ pc'[q] = pc[q] /\ "failed" \in Terminal
      BY <1>1, <1>2, <1>3, <1>5 DEF TypeOK, Terminal
    <2>2. /\ Completed(rec[q], "failed", stamps + 1).status = "failed"
          /\ Completed(rec[q], "failed", stamps + 1).scheduledFor = rec[q].scheduledFor
          /\ Completed(rec[q], "failed", stamps + 1).phases = rec[q].phases
      <3>1. stamps + 1 \in Nat
        BY <1>3
      <3> QED
        BY <2>1, <3>1 DEF Completed, Record
    <2>3. CASE q = lock.run /\ rec[q].status = "running"
      BY <1>2, <1>5, <2>1, <2>2, <2>3
    <2>4. CASE ~(q = lock.run /\ rec[q].status = "running")
      BY <1>2, <1>5, <2>1, <2>4
    <2> QED
      BY <2>3, <2>4
  <1>6. TypeOK'
    <2>1. pc' \in [Runs -> Working \cup {"none", "ended"}]
      BY <1>2, <1>3 DEF Working
    <2>2. kept' \subseteq 1..started' /\ started' \in 0..MaxStarts /\ lock' \in [run : 0..started', live : BOOLEAN]
      BY <1>2, <1>3, ConstantsAssumption DEF r
    <2>3. overran' \subseteq 1..started'
      BY <1>1, <1>2, <1>3 DEF TypeOK, r
    <2> QED
      BY <1>1, <1>2, <2>1, <2>2, <2>3 DEF TypeOK
  <1>7. OverrunsMarked'
    <2>1. ASSUME NEW q \in Runs, Alive(q)', q # r
          PROVE  q <= started' /\ q \in overran
      <3>1. Alive(q)
        BY <1>2, <1>3, <2>1 DEF Alive
      <3>2. q <= started /\ (lock.run = q \/ q \in overran) /\ q \in Nat /\ q # 0
        BY <1>1, <3>1, ConstantsAssumption DEF OverrunsMarked, Runs
      <3>3. lock.run = q => q \in overran
        BY <1>1, <1>4, <3>1, <3>2 DEF OverrunsMarked
      <3> QED
        BY <1>2, <1>3, <3>2, <3>3
    <2>2. r <= started' /\ lock'.run = r /\ lock'.live
      BY <1>2, <1>3
    <2> QED
      BY <2>1, <2>2 DEF OverrunsMarked
  <1>8. RecordsOrdered' /\ PrunedAreOld' /\ OncePerOccurrence'
    <2>1. RecordsOrdered' /\ PrunedAreOld'
      BY <1>6, AcquirePrunes
    <2>2. Late \subseteq Late'
      <3>1. r \notin overran
        BY <1>1, <1>3 DEF TypeOK
      <3> QED
        BY <1>2, <3>1 DEF Late
    <2>3. Cardinality(Late) \in Nat /\ Cardinality(Late)' \in Nat /\ Cardinality(Late) <= Cardinality(Late)'
      BY <1>1, <1>6, <2>2, LateCount
    <2> SUFFICES ASSUME NEW q \in 1..r, NEW s \in 1..r, q < s, faults <= 1, rec'[q].scheduledFor # None,
                        rec'[q].scheduledFor = rec'[s].scheduledFor
                 PROVE  s - q + Cardinality(Late)' > MaxKept
      BY <1>2, <2>1 DEF OncePerOccurrence
    <2>4. /\ q \in 1..started /\ q \in Runs /\ s \in Runs /\ q # r /\ r = started + 1 /\ MaxKept \in Nat
          /\ q \in Nat /\ s \in Nat
      BY <1>2, <1>3, ConstantsAssumption DEF r, Runs
    <2>5. CASE s # r
      <3>1. s \in 1..started /\ rec[q].scheduledFor # None /\ rec[q].scheduledFor = rec[s].scheduledFor
        BY <1>2, <1>3, <2>4, <2>5
      <3>2. s - q + Cardinality(Late) > MaxKept
        BY <1>1, <2>4, <3>1 DEF OncePerOccurrence
      <3> QED
        BY <2>3, <2>4, <3>2
    <2>6. CASE s = r
      <3>1. occurrence # None /\ rec[q].scheduledFor = occurrence
        BY <1>2, <2>4, <2>6
      <3>2. q \in (1..started) \ kept
        BY <1>2, <2>4, <3>1
      <3>3. started - q + Cardinality(Late) >= MaxKept
        BY <1>1, <3>2 DEF PrunedAreOld
      <3> QED
        BY <1>3, <2>3, <2>4, <2>6, <3>3
    <2> QED
      BY <2>5, <2>6
  <1>9. RunningHasOwner'
    <2> SUFFICES ASSUME NEW q \in kept', rec'[q].status = "running", q # r
                 PROVE  faults > 1
      BY <1>2 DEF RunningHasOwner
    <2> QED
      BY <1>1, <1>5 DEF RunningHasOwner
  <1>10. ASSUME NEW q \in kept'
         PROVE  WorkerProgress(q)'
    <2>1. CASE q = r
      BY <1>2, <1>3, <2>1 DEF WorkerProgress, Alive
    <2>2. CASE q # r
      <3>1. /\ WorkerProgress(q) /\ pc'[q] = pc[q] /\ rec'[q].phases = rec[q].phases /\ lock'.run # q
            /\ (rec'[q].status = "running" => rec[q].status = "running") /\ faults' = faults
        BY <1>1, <1>2, <1>5, <2>2
      <3> QED
        BY <3>1 DEF WorkerProgress, Alive
    <2> QED
      BY <2>1, <2>2
  <1>11. CompletedMeansChecked'
    <2> SUFFICES ASSUME NEW q \in kept' \ overran', rec'[q].completed, rec'[q].status # "failed"
                 PROVE  \A p \in Phases : rec'[q].phases[p] # "pending"
      BY DEF CompletedMeansChecked
    <2>1. q # r
      BY <1>2
    <2> QED
      BY <1>1, <1>5, <2>1 DEF CompletedMeansChecked
  <1> QED
    BY <1>6, <1>7, <1>8, <1>9, <1>10, <1>11 DEF IInv

----------------------------------------------------------------------------
\* The invariant

\* Every step preserves the invariant.
LEMMA Inductive == IInv /\ [Next]_vars => IInv'
  <1> SUFFICES ASSUME IInv, [Next]_vars PROVE IInv'
    OBVIOUS
  <1>1. TypeOK /\ OverrunsMarked /\ OncePerOccurrence /\ RunningHasOwner /\ CompletedMeansChecked
        /\ RecordsOrdered /\ PrunedAreOld /\ \A q \in kept : WorkerProgress(q)
    BY DEF IInv
  <1>2. /\ kept \subseteq Runs /\ faults \in Nat /\ lock.run \in Nat /\ (lock.run # 0 => lock.run \in Runs)
        /\ None \notin Occurrences
    BY <1>1, ConstantsAssumption DEF TypeOK, Runs, Occurrences
  <1>3. ASSUME UNCHANGED <<store, pc, overran, faults>>, TypeOK'
        PROVE  IInv'
    <2>1. RecordsOrdered' /\ PrunedAreOld' /\ OncePerOccurrence'
      BY <1>1, <1>3 DEF store, RecordsOrdered, PrunedAreOld, OncePerOccurrence, Late
    <2> QED
      BY <1>1, <1>3, <2>1 DEF IInv, store, OverrunsMarked, Alive, WorkerProgress,
                              RunningHasOwner, CompletedMeansChecked
  <1>4. CASE ManualStart
    <2>1. Acquire(None) /\ due' = due /\ UNCHANGED <<config, clock, overran, process, settings>>
      BY <1>4 DEF ManualStart
    <2> QED
      BY <2>1, AcquireInv
  <1>5. CASE SchedulerLook
    <2>1. /\ UNCHANGED <<store, pc, config, clock, overran, budget>>
          /\ due' = <<clock[1], config.runTime>>
      BY <1>5 DEF SchedulerLook
    <2>2. due' \in Occurrences
      BY <1>1, <2>1, ConstantsAssumption DEF TypeOK, Occurrences
    <2>3. TypeOK'
      BY <1>1, <2>1, <2>2 DEF TypeOK, store, budget
    <2> QED
      BY <1>3, <2>1, <2>3 DEF budget
  <1>6. CASE SchedulerStart
    <2>1. due \in Occurrences \cup {None} /\ due' = None /\ UNCHANGED <<config, clock, overran, process, settings>>
          /\ (Acquire(due) \/ AcquireRefused(due))
      BY <1>1, <1>6 DEF SchedulerStart, TypeOK
    <2>2. CASE Acquire(due)
      BY <2>1, <2>2, AcquireInv
    <2>3. CASE AcquireRefused(due)
      <3>1. UNCHANGED <<store, pc>> /\ faults' \in 0..MaxFaults /\ faults' >= faults
        BY <1>1, <1>2, <2>3, ConstantsAssumption DEF AcquireRefused, Fault, TypeOK
      <3>2. TypeOK'
        BY <1>1, <2>1, <3>1 DEF TypeOK, store
      <3>3. (faults > 0 => faults' > 0) /\ (faults > 1 => faults' > 1)
        BY <1>2, <3>1, <3>2 DEF TypeOK
      <3>4. OverrunsMarked' /\ RunningHasOwner' /\ CompletedMeansChecked' /\ RecordsOrdered'
        BY <1>1, <2>1, <3>1, <3>3
           DEF store, OverrunsMarked, Alive, RunningHasOwner, CompletedMeansChecked, RecordsOrdered, Late
      <3>6. OncePerOccurrence' /\ PrunedAreOld'
        <4>1. Late \subseteq Late' /\ UNCHANGED <<rec, kept, started>>
          BY <2>1, <3>1 DEF store, Late
        <4> QED
          BY <1>1, <3>1, <3>2, <4>1, OccurrencesStay
      <3>5. \A q \in kept' : WorkerProgress(q)'
        BY <1>1, <2>1, <3>1, <3>3 DEF store, WorkerProgress, Alive
      <3> QED
        BY <3>2, <3>4, <3>5, <3>6 DEF IInv
    <2> QED
      BY <2>1, <2>2, <2>3
  <1>7. CASE SaveSettings
    <2>1. /\ UNCHANGED <<store, pc, due, clock, overran, process, faults>>
          /\ config' \in Configs /\ settings' = settings + 1 /\ settings < MaxSettings
      BY <1>7 DEF SaveSettings
    <2>2. TypeOK'
      BY <1>1, <2>1, ConstantsAssumption DEF TypeOK, store
    <2> QED
      BY <1>3, <2>1, <2>2
  <1>8. CASE \E r \in Runs : Execute(r) \/ WaitForJobs(r)
    BY <1>8, WorkerInv
  <1>9. CASE LeaseExpires
    <2>1. /\ UNCHANGED <<rec, kept, started, stamps, pc, due, config, clock, budget>>
          /\ lock.run # 0 /\ lock' = [lock EXCEPT !.live = FALSE]
          /\ IF Alive(lock.run) THEN overran' = overran \cup {lock.run} ELSE overran' = overran
      BY <1>9 DEF LeaseExpires, LockActive
    <2>2. lock' \in [run : 0..started, live : BOOLEAN] /\ lock'.run = lock.run /\ lock'.live = FALSE
      BY <1>1, <2>1 DEF TypeOK
    <2>3. overran' \subseteq 1..started /\ overran \subseteq overran' /\ Late' = Late
      BY <1>1, <1>2, <2>1, <2>2, ConstantsAssumption DEF TypeOK, Late
    <2>4. TypeOK'
      BY <1>1, <2>1, <2>2, <2>3 DEF TypeOK, budget
    <2>5. OverrunsMarked'
      BY <1>1, <2>1, <2>2, <2>3 DEF OverrunsMarked, Alive
    <2>6. RunningHasOwner' /\ CompletedMeansChecked' /\ RecordsOrdered'
      BY <1>1, <2>1, <2>2, <2>3 DEF RunningHasOwner, CompletedMeansChecked, RecordsOrdered, budget
    <2>8. OncePerOccurrence' /\ PrunedAreOld'
      <3>1. UNCHANGED <<rec, kept, started, faults>> /\ Late \subseteq Late'
        BY <2>1, <2>3 DEF budget
      <3> QED
        BY <1>1, <1>2, <2>4, <3>1, OccurrencesStay
    <2>7. \A q \in kept' : WorkerProgress(q)'
      BY <1>1, <2>1, <2>2 DEF WorkerProgress, Alive, budget
    <2> QED
      BY <2>4, <2>5, <2>6, <2>7, <2>8 DEF IInv
  <1>10. CASE TimePasses
    <2>1. /\ UNCHANGED <<store, pc, due, config, overran, budget>> /\ clock # <<Days, Slots>>
          /\ clock' = IF clock[2] < Slots THEN <<clock[1], clock[2] + 1>> ELSE <<clock[1] + 1, 1>>
      BY <1>10 DEF TimePasses
    <2>2. clock' \in Occurrences
      <3>1. clock = <<clock[1], clock[2]>> /\ clock[1] \in 1..Days /\ clock[2] \in 1..Slots
        BY <1>1 DEF TypeOK, Occurrences
      <3>2. clock[2] < Slots \/ clock[1] < Days
        BY <2>1, <3>1, ConstantsAssumption
      <3>3. CASE clock[2] < Slots
        BY <2>1, <3>1, <3>3, ConstantsAssumption DEF Occurrences
      <3>4. CASE ~(clock[2] < Slots)
        BY <2>1, <3>1, <3>2, <3>4, ConstantsAssumption DEF Occurrences
      <3> QED
        BY <3>3, <3>4
    <2>3. TypeOK'
      BY <1>1, <2>1, <2>2 DEF TypeOK, store, budget
    <2> QED
      BY <1>3, <2>1, <2>3 DEF budget
  <1>11. CASE Crash
    <2>1. /\ UNCHANGED <<store, config, clock, overran, settings>> /\ due' = None /\ process' = "down"
          /\ pc' = [r \in Runs |-> IF Alive(r) THEN "ended" ELSE pc[r]]
          /\ faults' = faults + 1 /\ faults < MaxFaults
      BY <1>11 DEF Crash, Fault
    <2>2. TypeOK'
      BY <1>1, <2>1, ConstantsAssumption DEF TypeOK, store
    <2>3. \A r \in Runs : pc'[r] \notin Working /\ ~Alive(r)'
      BY <2>1 DEF Alive, Working
    <2>4. OverrunsMarked'
      BY <1>2, <2>1, <2>3 DEF OverrunsMarked, store
    <2>5. RunningHasOwner' /\ CompletedMeansChecked' /\ RecordsOrdered'
      BY <1>1, <1>2, <2>1 DEF RunningHasOwner, CompletedMeansChecked, RecordsOrdered, Late, store
    <2>7. OncePerOccurrence' /\ PrunedAreOld'
      <3>1. UNCHANGED <<rec, kept, started>> /\ Late \subseteq Late' /\ faults' >= faults
        BY <1>2, <2>1 DEF store, Late
      <3> QED
        BY <1>1, <2>2, <3>1, OccurrencesStay
    <2>6. \A q \in kept' : WorkerProgress(q)'
      BY <1>2, <2>1, <2>3 DEF WorkerProgress, Working, store
    <2> QED
      BY <2>2, <2>4, <2>5, <2>6, <2>7 DEF IInv
  <1>12. CASE Restart
    <2>1. UNCHANGED <<store, pc, due, config, clock, overran, faults, settings>> /\ process' = "up"
      BY <1>12 DEF Restart
    <2>2. TypeOK'
      BY <1>1, <2>1 DEF TypeOK, store
    <2> QED
      BY <1>3, <2>1, <2>2
  <1>13. CASE UNCHANGED vars
    <2>1. UNCHANGED <<store, pc, due, config, clock, overran, budget>>
      BY <1>13 DEF vars
    <2>2. TypeOK'
      BY <1>1, <2>1 DEF TypeOK, store, budget
    <2> QED
      BY <1>3, <2>1, <2>2 DEF budget
  <1> QED
    BY <1>4, <1>5, <1>6, <1>7, <1>8, <1>9, <1>10, <1>11, <1>12, <1>13 DEF Next

\* The invariant holds in every behaviour.
LEMMA Invariant == Spec => []IInv
  BY InitInv, Inductive, PTL DEF Spec

\* Every variable keeps its type: only runs that were started are on record, and the
\* lock names one of them or none.
THEOREM TypeCorrect == Spec => []TypeOK
  <1>1. IInv => TypeOK
    BY DEF IInv
  <1> QED
    BY <1>1, Invariant, PTL

\* _acquire: an occurrence runs again only after MAX_RUNS other runs were started, counting
\* as one each worker whose late end pushed a newer record out, for any number of restarts,
\* expired leases and changed settings.
THEOREM RunsOnce == Spec => []OncePerOccurrence
  <1>1. IInv => OncePerOccurrence
    BY DEF IInv
  <1> QED
    BY <1>1, Invariant, PTL

\* _acquire and _execute: a run recorded "running" holds the lock whose replacement fails
\* it, unless the process or the store failed twice under it.
THEOREM RunningIsOwned == Spec => []RunningHasOwner
  <1>1. IInv => RunningHasOwner
    BY DEF IInv
  <1> QED
    BY <1>1, Invariant, PTL

\* _execute: a run completed with another outcome than "failed" by a worker that kept its
\* lease did every phase it was configured for.
THEOREM CompletedIsChecked == Spec => []CompletedMeansChecked
  <1>1. IInv => CompletedMeansChecked
    BY DEF IInv
  <1> QED
    BY <1>1, Invariant, PTL
=============================================================================
