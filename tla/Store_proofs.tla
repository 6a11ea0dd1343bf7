---------------------------- MODULE Store_proofs ----------------------------
(***************************************************************************)
(* Proofs about Store, for any number of processes, threads and faults:    *)
(* the write protocol implements the document of module Document, no       *)
(* update that returned is lost, and the backup is the preceding document. *)
(* The argument: the holder of the exclusive flock is the only one that    *)
(* changes the directory (WriterHolds), so what it read is still there     *)
(* when it renames (WriterKnows), and every directory a power failure may  *)
(* leave is a good one (Directory).                                        *)
(***************************************************************************)
EXTENDS Store, TLAPS

\* The invariant without the types.
Core == WriterHolds /\ PendingRuns /\ Directory /\ NotYet /\ WriterKnows

USE DEF Goto, NoFault

----------------------------------------------------------------------------
\* Facts about the constants and the operators

\* The contents of a file, read or missing.
LEMMA DoneType == \A f \in Docs \cup {None} : Done(f) \in SUBSET Callers
  BY ConstantsAssumption DEF Done, Docs

\* A document is its contents.
LEMMA DoneOf == \A d \in Docs : Done(d) = d.done /\ d # None
  BY ConstantsAssumption DEF Done, Docs

LEMMA MigrateType == \A f \in Docs \cup {None} : Migrate(f) \in Docs /\ Migrate(f).done = Done(f)
  BY DoneType DEF Migrate, Docs

\* The end of a call frees its locks, and nothing else.
LEMMA LeaveFacts ==
  ASSUME TypeOK, NEW h \in Threads, NEW o \in {"ok", "noop", "raised"}, Leave(h, o)
  PROVE  /\ pc' \in [Threads -> Holding \cup {"none", "local", "flock", "flockShared", "readShared", "ended"}]
         /\ pc'[h] = (IF h \in Callers THEN "ended" ELSE "none")
         /\ \A g \in Threads \ {h} : pc'[g] = pc[g]
         /\ stamp' \in [Threads -> Nat]
         /\ local' \in [Processes -> Threads \cup {None}]
         /\ exclusive' \in Threads \cup {None}
         /\ exclusive # h => exclusive' = exclusive
         /\ shared' \subseteq Threads
         /\ result' \in [Callers -> {"none", "pending", "ok", "noop", "raised", "lost"}]
         /\ \A c \in Callers : result'[c] = IF c = h THEN o ELSE result[c]
         /\ life' \in [Processes -> {"down", "starting", "up"}]
  <1> USE ConstantsAssumption DEF Leave, TypeOK, Threads
  <1>1. /\ pc' \in [Threads -> Holding \cup {"none", "local", "flock", "flockShared", "readShared", "ended"}]
        /\ pc'[h] = (IF h \in Callers THEN "ended" ELSE "none")
        /\ \A g \in Threads \ {h} : pc'[g] = pc[g]
    OBVIOUS
  <1>2. /\ stamp' \in [Threads -> Nat]
        /\ local' \in [Processes -> Threads \cup {None}]
        /\ exclusive' \in Threads \cup {None}
        /\ exclusive # h => exclusive' = exclusive
        /\ shared' \subseteq Threads
    OBVIOUS
  <1>3. /\ result' \in [Callers -> {"none", "pending", "ok", "noop", "raised", "lost"}]
        /\ \A c \in Callers : result'[c] = IF c = h THEN o ELSE result[c]
        /\ life' \in [Processes -> {"down", "starting", "up"}]
    OBVIOUS
  <1> QED
    BY <1>1, <1>2, <1>3

----------------------------------------------------------------------------
\* Types

\* An exception keeps the types.
LEMMA RaiseTypes ==
  ASSUME TypeOK, NEW h \in Threads, Raise(h), UNCHANGED files, faults' \in 0..MaxFaults
  PROVE  TypeOK'
  <1>1. buffer' \in [Threads -> Docs]
    BY DEF Raise, Drop, TypeOK, Docs, Empty
  <1> QED
    BY <1>1, LeaveFacts DEF Raise, TypeOK, files

\* Every step of a thread keeps the types.
LEMMA StepTypes ==
  ASSUME TypeOK, NEW h \in Threads, Step(h)
  PROVE  TypeOK'
  <1> USE ConstantsAssumption
  <1>0. faults' \in 0..MaxFaults
    <2>1. faults' = faults \/ Fault
      BY DEF Step, LoadCached, TakeLocal, TakeShared, TakeExclusive, LoadRead, ReadDoc, WriteTmp,
             Backup, Replace, SyncDir, Finish
    <2> QED
      BY <2>1 DEF Fault, TypeOK
  <1>1. CASE LoadCached(h)
    <2>1. buffer' \in [Threads -> Docs]
      BY <1>1 DEF LoadCached, CacheHit, TypeOK, Threads
    <2> QED
      BY <1>0, <1>1, <2>1, LeaveFacts DEF LoadCached, TypeOK, files
  <1>2. CASE TakeLocal(h)
    BY <1>2 DEF TakeLocal, TypeOK, files
  <1>3. CASE TakeShared(h)
    <2>1. CASE Raise(h) /\ UNCHANGED files
      BY <1>0, <1>3, <2>1, RaiseTypes DEF TakeShared
    <2>2. CASE ~(Raise(h) /\ UNCHANGED files)
      BY <1>3, <2>2 DEF TakeShared, TypeOK, files
    <2> QED
      BY <2>1, <2>2
  <1>4. CASE TakeExclusive(h)
    <2>1. CASE Raise(h) /\ UNCHANGED files
      BY <1>0, <1>4, <2>1, RaiseTypes DEF TakeExclusive
    <2>2. CASE ~(Raise(h) /\ UNCHANGED files)
      BY <1>4, <2>2 DEF TakeExclusive, TypeOK, files, Holding
    <2> QED
      BY <2>1, <2>2
  <1>5. CASE LoadRead(h)
    <2>1. CASE Raise(h) /\ UNCHANGED files
      BY <1>0, <1>5, <2>1, RaiseTypes DEF LoadRead
    <2>2. CASE ~(Raise(h) /\ UNCHANGED files)
      <3>1. Migrate(main) \in Docs
        BY MigrateType DEF TypeOK
      <3>2. buffer' \in [Threads -> Docs] /\ cache' \in [Processes -> [doc : Docs, mtime : Nat] \cup {None}]
        BY <1>5, <2>2, <3>1 DEF LoadRead, TypeOK
      <3> QED
        BY <1>0, <1>5, <2>2, <3>2, LeaveFacts DEF LoadRead, TypeOK, files
    <2> QED
      BY <2>1, <2>2
  <1>6. CASE ReadDoc(h)
    <2>1. CASE Raise(h) /\ UNCHANGED files
      BY <1>0, <1>6, <2>1, RaiseTypes DEF ReadDoc, files
    <2>2. CASE ~(Raise(h) /\ UNCHANGED files)
      <3>1. Migrate(main) \in Docs
        BY MigrateType DEF TypeOK
      <3>2. h \in Callers => [Migrate(main) EXCEPT !.done = @ \cup {h}] \in Docs
        BY <3>1 DEF Docs
      <3>3. buffer' \in [Threads -> Docs]
            /\ pc' \in [Threads -> Holding \cup {"none", "local", "flock", "flockShared", "readShared", "ended"}]
        <4>1. PICK e \in Docs :
                /\ buffer' = [buffer EXCEPT ![h] = e]
                /\ pc' = [pc EXCEPT ![h] = IF NeedsWrite(e) THEN "tmp" ELSE "finish"]
          BY <1>6, <2>2, <3>1, <3>2 DEF ReadDoc
        <4> QED
          BY <4>1 DEF TypeOK, Holding, Writing
      <3> QED
        BY <1>6, <2>2, <3>3 DEF ReadDoc, TypeOK, files, locks
    <2> QED
      BY <2>1, <2>2
  <1>7. CASE WriteTmp(h)
    <2>1. CASE Raise(h) /\ UNCHANGED files
      BY <1>0, <1>7, <2>1, RaiseTypes DEF WriteTmp, files
    <2>2. CASE ~(Raise(h) /\ UNCHANGED files)
      <3>1. clock' \in Nat /\ stamp' \in [Threads -> Nat]
        BY <1>7, <2>2 DEF WriteTmp, TypeOK
      <3>2. coarse' \in BOOLEAN
        BY <1>7, <2>2 DEF WriteTmp
      <3>3. pc' \in [Threads -> Holding \cup {"none", "local", "flock", "flockShared", "readShared", "ended"}]
        BY <1>7, <2>2 DEF WriteTmp, TypeOK, Holding, Writing
      <3>4. UNCHANGED <<main, mtime, bak, survivors, locks, cache, kind, buffer, known, result, life, faults>>
        BY <1>7, <2>2 DEF WriteTmp
      <3> QED
        BY <3>1, <3>2, <3>3, <3>4 DEF TypeOK, locks
    <2> QED
      BY <2>1, <2>2
  <1>8. CASE Backup(h)
    <2>1. CASE Raise(h) /\ UNCHANGED files
      BY <1>0, <1>8, <2>1, RaiseTypes DEF Backup, files
    <2>2. CASE ~(Raise(h) /\ UNCHANGED files)
      BY <1>8, <2>2 DEF Backup, TypeOK, locks, Holding, Writing, Flushed
    <2> QED
      BY <2>1, <2>2
  <1>9. CASE Replace(h)
    <2>1. CASE Raise(h) /\ UNCHANGED files
      BY <1>0, <1>9, <2>1, RaiseTypes DEF Replace, files
    <2>2. CASE ~(Raise(h) /\ UNCHANGED files)
      BY <1>9, <2>2 DEF Replace, TypeOK, locks, Holding, Writing, Flushed
    <2> QED
      BY <2>1, <2>2
  <1>10. CASE SyncDir(h)
    <2>1. CASE Raise(h) /\ UNCHANGED files
      BY <1>0, <1>10, <2>1, RaiseTypes DEF SyncDir, files
    <2>2. CASE ~(Raise(h) /\ UNCHANGED files)
      BY <1>10, <2>2 DEF SyncDir, TypeOK, locks, Holding, Writing
    <2> QED
      BY <2>1, <2>2
  <1>11. CASE Finish(h)
    <2>1. buffer' \in [Threads -> Docs] /\ cache' \in [Processes -> [doc : Docs, mtime : Nat] \cup {None}]
      BY <1>11 DEF Finish, Drop, Empty, Docs, TypeOK
    <2> QED
      BY <1>0, <1>11, <2>1, LeaveFacts DEF Finish, TypeOK, files
  <1> QED
    BY <1>1, <1>2, <1>3, <1>4, <1>5, <1>6, <1>7, <1>8, <1>9, <1>10, <1>11 DEF Step

\* The end of processes keeps the types.
LEMMA EndTypes ==
  ASSUME TypeOK, NEW P \in SUBSET Processes, End(P)
  PROVE  /\ pc' \in [Threads -> Holding \cup {"none", "local", "flock", "flockShared", "readShared", "ended"}]
         /\ kind' = kind /\ known' = known
         /\ buffer' \in [Threads -> Docs] /\ stamp' \in [Threads -> Nat]
         /\ result' \in [Callers -> {"none", "pending", "ok", "noop", "raised", "lost"}]
         /\ local' \in [Processes -> Threads \cup {None}]
         /\ exclusive' \in Threads \cup {None} /\ shared' \subseteq Threads
         /\ cache' \in [Processes -> [doc : Docs, mtime : Nat] \cup {None}]
         /\ life' \in [Processes -> {"down", "starting", "up"}]
  <1> USE DEF End, TypeOK
  <1>1. pc' \in [Threads -> Holding \cup {"none", "local", "flock", "flockShared", "readShared", "ended"}]
    OBVIOUS
  <1>2. buffer' \in [Threads -> Docs] /\ stamp' \in [Threads -> Nat]
    BY DEF Empty, Docs
  <1>3. result' \in [Callers -> {"none", "pending", "ok", "noop", "raised", "lost"}]
    OBVIOUS
  <1>4. local' \in [Processes -> Threads \cup {None}] /\ exclusive' \in Threads \cup {None} /\ shared' \subseteq Threads
    OBVIOUS
  <1>5. /\ cache' \in [Processes -> [doc : Docs, mtime : Nat] \cup {None}]
        /\ life' \in [Processes -> {"down", "starting", "up"}]
    OBVIOUS
  <1> QED
    BY <1>1, <1>2, <1>3, <1>4, <1>5

\* Every step keeps the types.
LEMMA TypeStep ==
  ASSUME TypeOK, [Next]_vars
  PROVE  TypeOK'
  <1> USE ConstantsAssumption
  <1>0. CASE UNCHANGED vars
    BY <1>0 DEF TypeOK, vars, files, locks, locals
  <1>1. ASSUME NEW p \in Processes, Start(p) PROVE TypeOK'
    BY <1>1 DEF Start, TypeOK, files, locks, Threads
  <1>2. ASSUME NEW p \in Processes, Crash(p) PROVE TypeOK'
    <2>1. {p} \in SUBSET Processes /\ End({p}) /\ faults' \in 0..MaxFaults /\ UNCHANGED files
      BY <1>2 DEF Crash, Fault, TypeOK
    <2> QED
      BY <2>1, EndTypes DEF TypeOK, files
  <1>3. ASSUME NEW c \in Callers, NEW k \in {"load", "update"}, Call(c, k) PROVE TypeOK'
    <2>1. c \in Threads
      BY DEF Threads
    <2>2. known' \in [Callers -> SUBSET Callers]
      BY <1>3 DEF Call, TypeOK
    <2> QED
      BY <1>3, <2>1, <2>2 DEF Call, TypeOK, files, locks
  <1>4. ASSUME NEW h \in Threads, Step(h) PROVE TypeOK'
    BY <1>4, StepTypes
  <1>5. CASE PowerLoss
    <2>1. /\ Processes \in SUBSET Processes /\ End(Processes) /\ faults' \in 0..MaxFaults
          /\ UNCHANGED <<mtime, clock, coarse>>
      BY <1>5 DEF PowerLoss, Fault, TypeOK
    <2>2. /\ main' \in Docs \cup {None} /\ bak' \in Docs \cup {None}
          /\ survivors' \subseteq [main : Docs \cup {None}, bak : Docs \cup {None}]
      BY <1>5 DEF PowerLoss, TypeOK
    <2> QED
      BY <2>1, <2>2, EndTypes DEF TypeOK
  <1> QED
    BY <1>0, <1>1, <1>2, <1>3, <1>4, <1>5 DEF Next

\* The first state has the types.
LEMMA InitTypes == Init => TypeOK
  <1> SUFFICES ASSUME Init PROVE TypeOK
    OBVIOUS
  <1>1. Empty \in Docs
    BY DEF Docs, Empty
  <1>2. /\ main \in Docs \cup {None} /\ bak \in Docs \cup {None}
        /\ survivors \subseteq [main : Docs \cup {None}, bak : Docs \cup {None}]
    BY <1>1 DEF Init
  <1>3. coarse \in BOOLEAN
    BY DEF Init
  <1>4. /\ buffer \in [Threads -> Docs]
        /\ pc \in [Threads -> Holding \cup {"none", "local", "flock", "flockShared", "readShared", "ended"}]
    BY <1>1 DEF Init
  <1> QED
    BY <1>2, <1>3, <1>4, ConstantsAssumption DEF Init, TypeOK

----------------------------------------------------------------------------
\* The invariant

LEMMA InitCore == Init => Core
  <1> SUFFICES ASSUME Init PROVE Core
    OBVIOUS
  <1>1. Done(None) = {} /\ Done(Empty) = {}
    BY DoneOf DEF Done, Empty, Docs
  <1>2. WriterHolds /\ PendingRuns /\ WriterKnows
    BY ConstantsAssumption DEF Init, WriterHolds, PendingRuns, WriterKnows, Running, Holding, Writing, Threads
  <1>3. \A x \in survivors : x.main \in {None, Empty} /\ x.bak = None /\ x = [main |-> main, bak |-> bak]
    BY DEF Init
  <1>4. Directory
    BY <1>3 DEF Directory, Left, Preceding, Init
  <1>5. NotYet
    BY <1>1, <1>3 DEF NotYet
  <1> QED
    BY <1>2, <1>4, <1>5 DEF Core

\* A step of one thread that leaves the directory alone keeps the invariant
\* when it keeps that thread's part of it.
LEMMA FilesStay ==
  ASSUME TypeOK, TypeOK', Core, NEW h \in Threads,
         UNCHANGED <<main, bak, survivors>>,
         \A g \in Threads \ {h} : pc'[g] = pc[g] /\ buffer'[g] = buffer[g],
         \A c \in Callers \ {h} : result'[c] = result[c],
         exclusive \notin {h, None} => exclusive' = exclusive,
         pc'[h] \in Holding => exclusive' = h,
         h \in Callers =>
           /\ pc'[h] \notin {"none", "ended"} <=> result'[h] = "pending"
           /\ pc'[h] = "none" <=> result'[h] = "none"
           /\ result'[h] = "ok" => \A x \in survivors : h \in Done(x.main)
           /\ pc'[h] \notin {"dirsync", "finish", "ended"} =>
                \A x \in survivors : h \notin Done(x.main),
         pc'[h] \in {"tmp", "backup", "replace"} => Adds(h, buffer'[h]),
         pc'[h] = "backup" => main # None,
         pc'[h] = "replace" => bak = main,
         pc'[h] \in {"dirsync", "finish"} => buffer'[h].done = Done(main),
         pc'[h] = "finish" /\ h \in buffer'[h].done => \A x \in survivors : h \in Done(x.main)
  PROVE  Core'
  <1> USE ConstantsAssumption
  <1>1. WriterHolds'
    BY DEF WriterHolds, Core
  <1>2. PendingRuns'
    BY DEF PendingRuns, Core, Running, Threads
  <1>3. Directory'
    <2>1. \A x \in survivors : \A c \in Callers : result'[c] = "ok" => c \in Done(x.main)
      BY DEF Core, Directory, Left
    <2> QED
      BY <2>1 DEF Core, Directory, Left, Preceding, Done
  <1>4. NotYet'
    BY DEF NotYet, Core, Threads, Done
  <1>5. WriterKnows'
    <2> SUFFICES ASSUME NEW g \in Threads
                 PROVE  /\ pc'[g] \in {"tmp", "backup", "replace"} => Adds(g, buffer[g])'
                        /\ pc'[g] = "backup" => main' # None
                        /\ pc'[g] = "replace" => bak' = main'
                        /\ pc'[g] \in {"dirsync", "finish"} => buffer'[g].done = Done(main')
                        /\ pc'[g] = "finish" /\ g \in buffer'[g].done => \A x \in survivors' : g \in Done(x.main)
      BY DEF WriterKnows, Done
    <2>1. CASE g = h
      BY <2>1 DEF Adds, Done
    <2>2. CASE g # h
      BY <2>2 DEF Core, WriterKnows, Adds, Done
    <2> QED
      BY <2>1, <2>2
  <1> QED
    BY <1>1, <1>2, <1>3, <1>4, <1>5 DEF Core

\* A call that ends keeps the invariant: it returns "ok" only when every
\* directory a power failure may leave holds it.
LEMMA LeaveStays ==
  ASSUME TypeOK, TypeOK', Core, NEW h \in Threads, NEW o \in {"ok", "noop", "raised"}, Leave(h, o),
         UNCHANGED <<main, bak, survivors>>,
         \A g \in Threads \ {h} : buffer'[g] = buffer[g],
         h \in Callers /\ o = "ok" => \A x \in survivors : h \in Done(x.main)
  PROVE  Core'
  <1>1. /\ pc'[h] = (IF h \in Callers THEN "ended" ELSE "none")
        /\ \A g \in Threads \ {h} : pc'[g] = pc[g]
        /\ exclusive # h => exclusive' = exclusive
        /\ \A c \in Callers : result'[c] = IF c = h THEN o ELSE result[c]
    BY LeaveFacts
  <1>2. pc'[h] \notin Holding
    BY <1>1 DEF Holding, Writing
  <1> QED
    BY <1>1, <1>2, FilesStay

\* An exception keeps the invariant.
LEMMA RaiseStays ==
  ASSUME TypeOK, TypeOK', Core, NEW h \in Threads, Raise(h), UNCHANGED files
  PROVE  Core'
  <1>1. Leave(h, "raised") /\ \A g \in Threads \ {h} : buffer'[g] = buffer[g]
    BY DEF Raise, Drop, TypeOK
  <1> QED
    BY <1>1, LeaveStays DEF files

\* Taking a lock, reading, and writing the temporary file leave the directory
\* alone: an update is in no document yet.
LEMMA WalkStays ==
  ASSUME TypeOK, TypeOK', Core, NEW h \in Threads,
         pc[h] \notin {"none", "dirsync", "finish", "ended"},
         NEW l \in {"flock", "flockShared", "readShared", "read", "tmp", "backup", "replace", "finish"},
         pc' = [pc EXCEPT ![h] = l],
         UNCHANGED <<main, bak, survivors, result>>,
         exclusive \notin {h, None} => exclusive' = exclusive,
         l \in Holding => exclusive' = h,
         \A g \in Threads \ {h} : buffer'[g] = buffer[g],
         l \in {"tmp", "backup", "replace"} => Adds(h, buffer'[h]),
         l = "backup" => main # None,
         l = "replace" => bak = main,
         l = "finish" => buffer'[h].done = Done(main)
  PROVE  Core'
  <1>1. pc'[h] = l /\ \A g \in Threads \ {h} : pc'[g] = pc[g]
    BY DEF TypeOK
  <1>2. h \in Callers => \A x \in survivors : h \notin Done(x.main)
    BY DEF Core, NotYet
  <1>3. h \in Callers => result[h] = "pending"
    BY DEF Core, PendingRuns, Running
  <1>4. h \notin Done(main)
    <2>1. CASE h \in Callers
      BY <1>2, <2>1 DEF Core, Directory
    <2>2. CASE h \notin Callers
      BY <2>2, DoneType DEF TypeOK
    <2> QED
      BY <2>1, <2>2
  <1>5. h \in Callers =>
           /\ pc'[h] \notin {"none", "ended"} <=> result'[h] = "pending"
           /\ pc'[h] = "none" <=> result'[h] = "none"
           /\ result'[h] = "ok" => \A x \in survivors : h \in Done(x.main)
           /\ pc'[h] \notin {"dirsync", "finish", "ended"} =>
                \A x \in survivors : h \notin Done(x.main)
    BY <1>1, <1>2, <1>3
  <1>6. /\ pc'[h] \in {"dirsync", "finish"} => buffer'[h].done = Done(main)
        /\ pc'[h] = "finish" /\ h \in buffer'[h].done => \A x \in survivors : h \in Done(x.main)
    BY <1>1, <1>4
  <1> QED
    BY <1>1, <1>5, <1>6, FilesStay

\* Steps that change no file of the directory keep the invariant.
LEMMA QuietSteps ==
  ASSUME TypeOK, TypeOK', Core, NEW h \in Threads,
         \/ LoadCached(h) \/ TakeLocal(h) \/ TakeShared(h) \/ TakeExclusive(h) \/ LoadRead(h)
         \/ ReadDoc(h) \/ WriteTmp(h) \/ Finish(h)
  PROVE  Core'
  <1>1. CASE LoadCached(h)
    <2>1. Leave(h, "noop") /\ UNCHANGED files /\ \A g \in Threads \ {h} : buffer'[g] = buffer[g]
      BY <1>1 DEF LoadCached, TypeOK
    <2> QED
      BY <2>1, LeaveStays DEF files
  <1>2. CASE TakeLocal(h)
    BY <1>2, WalkStays DEF TakeLocal, files, Holding, Writing
  <1>3. CASE TakeShared(h)
    <2>1. CASE Raise(h)
      BY <1>3, <2>1, RaiseStays DEF TakeShared
    <2>2. CASE ~Raise(h)
      BY <1>3, <2>2, WalkStays DEF TakeShared, files, Holding, Writing
    <2> QED
      BY <2>1, <2>2
  <1>4. CASE TakeExclusive(h)
    <2>1. CASE Raise(h)
      BY <1>4, <2>1, RaiseStays DEF TakeExclusive
    <2>2. CASE ~Raise(h)
      BY <1>4, <2>2, WalkStays DEF TakeExclusive, files
    <2> QED
      BY <2>1, <2>2
  <1>5. CASE LoadRead(h)
    <2>1. CASE Raise(h)
      BY <1>5, <2>1, RaiseStays DEF LoadRead
    <2>2. CASE ~Raise(h)
      <3>1. Leave(h, "noop") /\ UNCHANGED files /\ \A g \in Threads \ {h} : buffer'[g] = buffer[g]
        BY <1>5, <2>2 DEF LoadRead, TypeOK
      <3> QED
        BY <3>1, LeaveStays DEF files
    <2> QED
      BY <2>1, <2>2
  <1>6. CASE ReadDoc(h)
    <2>1. CASE Raise(h)
      BY <1>6, <2>1, RaiseStays DEF ReadDoc, files
    <2>2. CASE ~Raise(h)
      <3>1. Migrate(main) \in Docs /\ Migrate(main).done = Done(main)
        BY MigrateType DEF TypeOK
      <3>2. PICK e \in Docs :
              /\ Adds(h, e)
              /\ buffer' = [buffer EXCEPT ![h] = e]
              /\ pc' = [pc EXCEPT ![h] = IF e # main THEN "tmp" ELSE "finish"]
        <4>1. h \in Callers =>
                /\ [Migrate(main) EXCEPT !.done = @ \cup {h}] \in Docs
                /\ [Migrate(main) EXCEPT !.done = @ \cup {h}].done = Done(main) \cup {h}
          BY <3>1 DEF Docs
        <4> QED
          BY <1>6, <2>2, <3>1, <4>1 DEF ReadDoc, NeedsWrite, Adds
      <3>3. e = main => e.done = Done(main)
        BY DoneOf
      <3>4. buffer'[h] = e /\ \A g \in Threads \ {h} : buffer'[g] = buffer[g]
        BY <3>2 DEF TypeOK
      <3>5. pc[h] = "read" /\ UNCHANGED <<files, locks, result>> /\ exclusive = h
        BY <1>6, <2>2 DEF ReadDoc, Core, WriterHolds, Holding
      <3> QED
        BY <3>2, <3>3, <3>4, <3>5, WalkStays DEF files, locks
    <2> QED
      BY <2>1, <2>2
  <1>7. CASE WriteTmp(h)
    <2>1. CASE Raise(h) /\ UNCHANGED files
      BY <2>1, RaiseStays
    <2>2. CASE ~(Raise(h) /\ UNCHANGED files)
      <3>1. /\ pc[h] = "tmp" /\ pc' = [pc EXCEPT ![h] = IF main = None THEN "replace" ELSE "backup"]
            /\ UNCHANGED <<main, bak, survivors, exclusive, buffer, result>>
        BY <1>7, <2>2 DEF WriteTmp, locks
      <3>2. exclusive = h /\ Adds(h, buffer[h])
        BY <3>1 DEF Core, WriterHolds, WriterKnows, Holding, Writing
      <3>3. main = None => bak = None
        BY DEF Core, Directory, Left
      <3> QED
        BY <3>1, <3>2, <3>3, WalkStays
    <2> QED
      BY <2>1, <2>2
  <1>8. CASE Finish(h)
    <2>1. PICK o \in {"ok", "noop"} : Leave(h, o) /\ (o = "ok" => h \in buffer[h].done)
      BY <1>8 DEF Finish
    <2>2. pc[h] = "finish" /\ UNCHANGED files /\ \A g \in Threads \ {h} : buffer'[g] = buffer[g]
      BY <1>8 DEF Finish, Drop, TypeOK
    <2>3. o = "ok" => \A x \in survivors : h \in Done(x.main)
      BY <2>1, <2>2 DEF Core, WriterKnows
    <2> QED
      BY <2>1, <2>2, <2>3, LeaveStays DEF files
  <1> QED
    BY <1>1, <1>2, <1>3, <1>4, <1>5, <1>6, <1>7, <1>8


----------------------------------------------------------------------------
\* The steps that write the directory

\* The holder of the exclusive flock is the only writer.
LEMMA OnlyWriter ==
  ASSUME Core, NEW h \in Threads, pc[h] \in Holding
  PROVE  exclusive = h /\ \A g \in Threads \ {h} : pc[g] \notin Holding
  BY DEF Core, WriterHolds

\* What the writer's step does to the other parts of the invariant.
LEMMA WriterMoves ==
  ASSUME TypeOK, Core, NEW h \in Threads, pc[h] \in Writing, NEW l \in Writing,
         pc' = [pc EXCEPT ![h] = l], UNCHANGED <<exclusive, result, buffer>>
  PROVE  /\ WriterHolds' /\ PendingRuns'
         /\ pc'[h] = l
         /\ \A g \in Threads \ {h} : pc'[g] = pc[g] /\ pc'[g] \notin Holding
  <1>1. exclusive = h /\ \A g \in Threads \ {h} : pc[g] \notin Holding
    BY OnlyWriter DEF Holding
  <1>2. pc'[h] = l /\ \A g \in Threads \ {h} : pc'[g] = pc[g]
    BY DEF TypeOK
  <1>3. WriterHolds'
    BY <1>1, <1>2 DEF WriterHolds
  <1>4. PendingRuns'
    BY <1>2 DEF Core, PendingRuns, Running, Threads, Writing
  <1> QED
    BY <1>1, <1>2, <1>3, <1>4

\* The backup: the directory has the document twice.
LEMMA BackupStays ==
  ASSUME TypeOK, TypeOK', Core, NEW h \in Threads, Backup(h)
  PROVE  Core'
  <1>1. CASE Raise(h) /\ UNCHANGED files
    BY <1>1, RaiseStays
  <1>2. CASE ~(Raise(h) /\ UNCHANGED files)
    <2>1. /\ pc[h] = "backup" /\ pc' = [pc EXCEPT ![h] = "replace"] /\ bak' = main
          /\ survivors' = survivors \cup {[main |-> main, bak |-> main]}
          /\ UNCHANGED <<main, exclusive, result, buffer>>
      BY <1>2 DEF Backup, Flushed, locks
    <2>2. /\ WriterHolds' /\ PendingRuns'
          /\ pc'[h] = "replace"
          /\ \A g \in Threads \ {h} : pc'[g] = pc[g] /\ pc'[g] \notin Holding
      BY <2>1, WriterMoves DEF Writing
    <2>3. main # None /\ Adds(h, buffer[h])
      BY <2>1 DEF Core, WriterKnows
    <2>4. Directory'
      <3>1. Left([main |-> main, bak |-> main])
        BY <2>3 DEF Core, Directory, Left, Preceding
      <3>2. \A x : Left(x)' <=> Left(x)
        BY <2>1 DEF Left, Preceding, Done
      <3> QED
        BY <2>1, <3>1, <3>2 DEF Core, Directory
    <2>5. NotYet'
      <3>1. \A c \in Callers : pc'[c] \notin {"dirsync", "finish", "ended"} => pc[c] \notin {"dirsync", "finish", "ended"}
        BY <2>1, <2>2 DEF Threads
      <3> QED
        BY <2>1, <3>1 DEF Core, NotYet, Directory, Done
    <2>6. WriterKnows'
      BY <2>1, <2>2, <2>3 DEF WriterKnows, Holding, Writing, Adds, Done
    <2> QED
      BY <2>2, <2>4, <2>5, <2>6 DEF Core
  <1> QED
    BY <1>1, <1>2

\* The rename: the directory has the document before and the new one.
LEMMA ReplaceStays ==
  ASSUME TypeOK, TypeOK', Core, NEW h \in Threads, Replace(h)
  PROVE  Core'
  <1>1. CASE Raise(h) /\ UNCHANGED files
    BY <1>1, RaiseStays
  <1>2. CASE ~(Raise(h) /\ UNCHANGED files)
    <2>1. /\ pc[h] = "replace" /\ pc' = [pc EXCEPT ![h] = "dirsync"] /\ main' = buffer[h]
          /\ survivors' = survivors \cup {[main |-> buffer[h], bak |-> bak]}
          /\ UNCHANGED <<bak, exclusive, result, buffer>>
      BY <1>2 DEF Replace, Flushed, locks
    <2>2. /\ WriterHolds' /\ PendingRuns'
          /\ pc'[h] = "dirsync"
          /\ \A g \in Threads \ {h} : pc'[g] = pc[g] /\ pc'[g] \notin Holding
      BY <2>1, WriterMoves DEF Writing
    <2>3. bak = main /\ Adds(h, buffer[h]) /\ Done(buffer[h]) = buffer[h].done /\ buffer[h] # None
      BY <2>1, DoneOf DEF Core, WriterKnows, TypeOK
    <2>4. Directory'
      <3>1. Left([main |-> buffer[h], bak |-> bak])
        <4>1. \A c \in Callers : result[c] = "ok" => c \in Done(main)
          BY DEF Core, Directory, Left
        <4>2. Preceding(main, buffer[h])
          BY <2>3 DEF Adds, Preceding
        <4> QED
          BY <2>3, <4>1, <4>2 DEF Left, Adds
      <3>2. \A x : Left(x)' <=> Left(x)
        BY <2>1 DEF Left, Preceding, Done
      <3> QED
        BY <2>1, <3>1, <3>2 DEF Core, Directory
    <2>5. NotYet'
      <3> SUFFICES ASSUME NEW c \in Callers, pc'[c] \notin {"dirsync", "finish", "ended"}
                   PROVE  \A x \in survivors' : c \notin Done(x.main)
        BY DEF NotYet, Done
      <3>1. c # h /\ \A x \in survivors : c \notin Done(x.main)
        BY <2>2 DEF Core, NotYet, Threads
      <3>2. c \notin Done(buffer[h])
        BY <2>3, <3>1 DEF Core, Directory, Adds
      <3> QED
        BY <2>1, <3>1, <3>2
    <2>6. WriterKnows'
      BY <2>1, <2>2, <2>3 DEF WriterKnows, Holding, Writing, Done
    <2> QED
      BY <2>2, <2>4, <2>5, <2>6 DEF Core
  <1> QED
    BY <1>1, <1>2

\* The sync: what is in place is all a power failure may leave.
LEMMA SyncDirStays ==
  ASSUME TypeOK, TypeOK', Core, NEW h \in Threads, SyncDir(h)
  PROVE  Core'
  <1>1. CASE Raise(h) /\ UNCHANGED files
    BY <1>1, RaiseStays
  <1>2. CASE ~(Raise(h) /\ UNCHANGED files)
    <2>1. /\ pc[h] = "dirsync" /\ pc' = [pc EXCEPT ![h] = "finish"]
          /\ survivors' = {[main |-> main, bak |-> bak]}
          /\ UNCHANGED <<main, bak, exclusive, result, buffer>>
      BY <1>2 DEF SyncDir, locks
    <2>2. /\ WriterHolds' /\ PendingRuns'
          /\ pc'[h] = "finish"
          /\ \A g \in Threads \ {h} : pc'[g] = pc[g] /\ pc'[g] \notin Holding
      BY <2>1, WriterMoves DEF Writing
    <2>3. buffer[h].done = Done(main)
      BY <2>1 DEF Core, WriterKnows
    <2>4. survivors' \subseteq survivors
      BY <2>1 DEF Core, Directory
    <2>5. Directory'
      <3>1. \A x : Left(x)' <=> Left(x)
        BY <2>1 DEF Left, Preceding, Done
      <3> QED
        BY <2>1, <2>4, <3>1 DEF Core, Directory
    <2>6. NotYet'
      BY <2>2, <2>4 DEF Core, NotYet, Threads, Done
    <2>7. WriterKnows'
      BY <2>1, <2>2, <2>3 DEF WriterKnows, Holding, Writing, Done
    <2> QED
      BY <2>2, <2>5, <2>6, <2>7 DEF Core
  <1> QED
    BY <1>1, <1>2

\* The end of processes, with the directory as it was or as a power failure
\* left it to no process.
LEMMA EndStays ==
  ASSUME TypeOK, TypeOK', Core, NEW P \in SUBSET Processes, End(P),
         survivors' \subseteq survivors, [main |-> main', bak |-> bak'] \in survivors',
         UNCHANGED <<main, bak>> \/ P = Processes
  PROVE  Core'
  <1> DEFINE killed == {h \in Threads : Home[h] \in P /\ Running(h)}
  <1>1. /\ \A h \in Threads : pc'[h] = IF h \in killed THEN IF h \in Callers THEN "ended" ELSE "none" ELSE pc[h]
        /\ \A h \in Threads \ killed : buffer'[h] = buffer[h]
        /\ \A c \in Callers : result'[c] = IF c \in killed THEN "lost" ELSE result[c]
        /\ exclusive \notin killed => exclusive' = exclusive
    BY DEF End
  <1>2. \A h \in Threads : pc'[h] \in Holding => h \notin killed /\ pc'[h] = pc[h] /\ buffer'[h] = buffer[h]
    BY <1>1 DEF Holding, Writing
  <1>3. P = Processes => \A h \in Threads : pc'[h] \notin Holding
    BY <1>1, ConstantsAssumption DEF Running, Holding, Writing
  <1>4. \A h \in killed : Running(h)
    OBVIOUS
  <1> HIDE DEF killed
  <1>5. WriterHolds'
    BY <1>1, <1>2 DEF Core, WriterHolds
  <1>6. PendingRuns'
    <2>1. \A c \in Callers : c \in Threads
      BY DEF Threads
    <2> QED
      BY <1>1, <1>4, <2>1 DEF Core, PendingRuns, Running
  <1>7. Directory'
    BY <1>1 DEF Core, Directory, Left, Preceding, Done
  <1>8. NotYet'
    BY <1>1 DEF Core, NotYet, Threads, Done
  <1>9. WriterKnows'
    <2> SUFFICES ASSUME NEW h \in Threads, pc'[h] \in Holding
                 PROVE  /\ pc'[h] \in {"tmp", "backup", "replace"} => Adds(h, buffer[h])'
                        /\ pc'[h] = "backup" => main' # None
                        /\ pc'[h] = "replace" => bak' = main'
                        /\ pc'[h] \in {"dirsync", "finish"} => buffer'[h].done = Done(main')
                        /\ pc'[h] = "finish" /\ h \in buffer'[h].done => \A x \in survivors' : h \in Done(x.main)
      BY DEF WriterKnows, Holding, Writing, Done
    <2>1. UNCHANGED <<main, bak>> /\ pc'[h] = pc[h] /\ buffer'[h] = buffer[h]
      BY <1>2, <1>3
    <2> QED
      BY <2>1 DEF Core, WriterKnows, Adds, Done
  <1> QED
    BY <1>5, <1>6, <1>7, <1>8, <1>9 DEF Core

\* Every step keeps the invariant.
LEMMA CoreStep ==
  ASSUME TypeOK, TypeOK', Core, [Next]_vars
  PROVE  Core'
  <1>0. CASE UNCHANGED vars
    BY <1>0 DEF vars, files, locks, locals, Core, WriterHolds, PendingRuns, Running, Directory, Left,
                Preceding, Done, NotYet, WriterKnows, Adds
  <1>1. ASSUME NEW p \in Processes, Start(p) PROVE Core'
    <2>1. p \in Threads /\ p \notin Callers
      BY ConstantsAssumption DEF Threads
    <2>2. pc'[p] = "local" /\ \A g \in Threads \ {p} : pc'[g] = pc[g]
      BY <1>1, <2>1 DEF Start, TypeOK
    <2> QED
      BY <1>1, <2>1, <2>2, FilesStay DEF Start, files, locks, Holding, Writing
  <1>2. ASSUME NEW p \in Processes, Crash(p) PROVE Core'
    <2>1. {p} \in SUBSET Processes /\ End({p}) /\ UNCHANGED <<main, bak, survivors>>
      BY <1>2 DEF Crash, files
    <2> QED
      BY <2>1, EndStays DEF Core, Directory
  <1>3. ASSUME NEW c \in Callers, NEW k \in {"load", "update"}, Call(c, k) PROVE Core'
    <2>1. c \in Threads
      BY DEF Threads
    <2>2. /\ pc[c] = "none"
          /\ pc'[c] = "local" /\ \A g \in Threads \ {c} : pc'[g] = pc[g]
          /\ result'[c] = "pending" /\ \A d \in Callers \ {c} : result'[d] = result[d]
          /\ UNCHANGED <<main, bak, survivors, exclusive, buffer>>
      BY <1>3, <2>1 DEF Call, files, locks, TypeOK
    <2>3. \A x \in survivors : c \notin Done(x.main)
      BY <2>2 DEF Core, NotYet
    <2> QED
      BY <2>1, <2>2, <2>3, FilesStay DEF Holding, Writing
  <1>4. ASSUME NEW h \in Threads, Step(h) PROVE Core'
    BY <1>4, QuietSteps, BackupStays, ReplaceStays, SyncDirStays DEF Step
  <1>5. CASE PowerLoss
    <2>1. End(Processes)
      BY <1>5 DEF PowerLoss
    <2>2. PICK left \in survivors : main' = left.main /\ bak' = left.bak /\ survivors' = {left}
      BY <1>5 DEF PowerLoss
    <2>3. left = [main |-> main', bak |-> bak']
      BY <2>2 DEF TypeOK
    <2> QED
      BY <2>1, <2>2, <2>3, EndStays
  <1> QED
    BY <1>0, <1>1, <1>2, <1>3, <1>4, <1>5 DEF Next

\* The inductive invariant holds in every reachable state.
THEOREM Inductive == Spec => []IInv
  <1>1. Init => IInv
    BY InitTypes, InitCore DEF IInv, Core
  <1>2. IInv /\ [Next]_vars => IInv'
    <2> SUFFICES ASSUME IInv, [Next]_vars PROVE IInv'
      OBVIOUS
    <2>1. TypeOK'
      BY TypeStep DEF IInv
    <2>2. Core'
      BY <2>1, CoreStep DEF IInv, Core
    <2> QED
      BY <2>1, <2>2 DEF IInv, Core
  <1> QED
    BY <1>1, <1>2, PTL DEF Spec

\* Every variable of store.py and of its file system keeps its type.
THEOREM TypeCorrect == Spec => []TypeOK
  BY Inductive, PTL DEF IInv

\* An update that returned is in the document from then on: no interleaving of
\* threads and processes, failed operation, crash or power failure loses it.
THEOREM NothingLost == Spec => []Durable
  <1>1. IInv => Durable
    BY DEF IInv, Directory, Left, Durable
  <1> QED
    BY <1>1, Inductive, PTL

\* homelabhq.json.bak is the document before the one in place, or the same.
THEOREM GoodBackup == Spec => []BackupIsPrevious
  <1>1. IInv => BackupIsPrevious
    BY DEF IInv, Directory, Left, BackupIsPrevious
  <1> QED
    BY <1>1, Inductive, PTL

----------------------------------------------------------------------------
\* What load hands out

\* A step of a thread that renames nothing: the times it looks at are not of the future,
\* what it caches is the document, and what a load hands out has what it must have.
LEMMA QuietFresh ==
  ASSUME IInv, IInv', FreshInv, NEW h \in Threads, Running(h),
         UNCHANGED <<main, mtime, clock, coarse, kind, known>>,
         \A g \in Threads \ {h} : pc'[g] = pc[g] /\ stamp'[g] = stamp[g] /\ buffer'[g] = buffer[g],
         \A c \in Callers \ {h} : result'[c] = result[c],
         pc'[h] \in {"flockShared", "readShared"} => stamp'[h] <= mtime,
         pc'[h] \in {"backup", "replace"} => stamp'[h] = clock /\ (~coarse => stamp'[h] > mtime),
         kind[h] = "load" => pc'[h] \notin Holding \cup {"flock"},
         \/ cache' = cache /\ (h \in Callers => result'[h] # "ok")
         \/ \E d \in Docs, m \in Nat : /\ m <= mtime /\ d.done = Done(main)
                                       /\ cache' = [cache EXCEPT ![Home[h]] = [doc |-> d, mtime |-> m]],
         kind[h] = "load" /\ h \in Callers /\ result'[h] = "noop" =>
           \A t \in known[h] : Home[t] = Home[h] \/ ~coarse => t \in buffer'[h].done
  PROVE  FreshInv'
  <1>0. /\ TypeOK /\ TypeOK' /\ Stamps /\ CacheTrue /\ LoadKnows /\ LoadIsFresh
        /\ (h \in Callers => result[h] = "pending")
        /\ \A c \in Callers : result'[c] = "ok" => c \in Done(main)
        /\ Home[h] \in Processes
    BY ConstantsAssumption DEF IInv, FreshInv, PendingRuns, Directory, Left
  <1>1. LoadKnows'
    <2>1. ASSUME NEW c \in Callers, kind[c] = "load", result'[c] = "pending", NEW t \in known[c]
          PROVE  result'[t] = "ok"
      <3>1. result[c] = "pending"
        BY <1>0, <2>1
      <3>2. result[t] = "ok" /\ t \in Callers
        BY <1>0, <2>1, <3>1 DEF LoadKnows, TypeOK
      <3> QED
        BY <1>0, <3>2
    <2>2. \A g \in Threads : kind[g] = "load" => pc'[g] \notin Holding \cup {"flock"}
      BY <1>0 DEF LoadKnows
    <2> QED
      BY <2>1, <2>2 DEF LoadKnows
  <1>2. LoadIsFresh'
    <2> SUFFICES ASSUME NEW c \in Callers, kind[c] = "load", result'[c] = "noop", NEW t \in known[c],
                        Home[t] = Home[c] \/ ~coarse
                 PROVE  t \in buffer'[c].done
      BY DEF LoadIsFresh
    <2>1. CASE c = h
      BY <2>1
    <2>2. CASE c # h
      BY <1>0, <2>2 DEF LoadIsFresh, Threads
    <2> QED
      BY <2>1, <2>2
  <1>3. CASE cache' = cache /\ (h \in Callers => result'[h] # "ok")
    <2>1. Stamps'
      BY <1>0, <1>3 DEF Stamps
    <2>2. CacheTrue'
      BY <1>0, <1>3 DEF CacheTrue
    <2> QED
      BY <1>1, <1>2, <2>1, <2>2 DEF FreshInv
  <1>4. CASE \E d \in Docs, m \in Nat : /\ m <= mtime /\ d.done = Done(main)
                                        /\ cache' = [cache EXCEPT ![Home[h]] = [doc |-> d, mtime |-> m]]
    <2>1. PICK d \in Docs, m \in Nat : /\ m <= mtime /\ d.done = Done(main)
                                       /\ cache' = [cache EXCEPT ![Home[h]] = [doc |-> d, mtime |-> m]]
      BY <1>4
    <2>2. /\ cache'[Home[h]].doc.done = Done(main) /\ cache'[Home[h]].mtime <= mtime
          /\ \A p \in Processes \ {Home[h]} : cache'[p] = cache[p]
      BY <1>0, <2>1 DEF TypeOK
    <2>3. Stamps'
      BY <1>0, <2>2 DEF Stamps
    <2>4. CacheTrue'
      <3> SUFFICES ASSUME NEW p \in Processes, cache'[p] # None
                   PROVE  /\ \A t \in Callers : result'[t] = "ok" /\ Home[t] = p => t \in cache'[p].doc.done
                          /\ ~coarse /\ cache'[p].mtime = mtime => cache'[p].doc.done = Done(main)
        BY <1>0 DEF CacheTrue
      <3>1. CASE p = Home[h]
        BY <1>0, <2>2, <3>1
      <3>2. CASE p # Home[h]
        <4>1. ASSUME NEW t \in Callers, result'[t] = "ok", Home[t] = p
              PROVE  t \in cache'[p].doc.done
          BY <1>0, <2>2, <3>2, <4>1 DEF CacheTrue
        <4> QED
          BY <1>0, <2>2, <3>2, <4>1 DEF CacheTrue
      <3> QED
        BY <3>1, <3>2
    <2> QED
      BY <1>1, <1>2, <2>3, <2>4 DEF FreshInv
  <1> QED
    BY <1>3, <1>4

\* An exception hands out nothing.
LEMMA RaiseFresh ==
  ASSUME IInv, IInv', FreshInv, NEW h \in Threads, Running(h), Raise(h), UNCHANGED files
  PROVE  FreshInv'
  <1>1. TypeOK /\ Leave(h, "raised")
    BY DEF IInv, Raise
  <1>2. /\ pc'[h] \in {"ended", "none"} /\ \A g \in Threads \ {h} : pc'[g] = pc[g]
        /\ \A c \in Callers : result'[c] = IF c = h THEN "raised" ELSE result[c]
    BY <1>1, LeaveFacts
  <1>3. \A g \in Threads \ {h} : stamp'[g] = stamp[g] /\ buffer'[g] = buffer[g]
    BY <1>1 DEF Raise, Drop, Leave, TypeOK
  <1>4. cache' = cache /\ kind' = kind /\ known' = known
    BY DEF Raise
  <1>5. pc'[h] \notin Holding \cup {"flock", "flockShared", "readShared", "backup", "replace"}
    BY <1>2 DEF Holding, Writing
  <1> QED
    BY <1>2, <1>3, <1>4, <1>5, QuietFresh DEF files

\* Every step of a thread keeps what it knows true.
LEMMA StepFresh ==
  ASSUME IInv, IInv', FreshInv, NEW h \in Threads, Step(h)
  PROVE  FreshInv'
  <1>0. /\ TypeOK /\ TypeOK' /\ Stamps /\ CacheTrue /\ LoadKnows /\ LoadIsFresh /\ WriterHolds
        /\ \A c \in Callers : result[c] = "ok" => c \in Done(main)
        /\ Home[h] \in Processes /\ known \in [Callers -> SUBSET Callers]
    BY ConstantsAssumption DEF IInv, FreshInv, Directory, Left, TypeOK
  <1>1. Running(h)
    BY DEF Step, LoadCached, TakeLocal, TakeShared, TakeExclusive, LoadRead, ReadDoc, WriteTmp, Backup,
           Replace, SyncDir, Finish, Running
  <1>2. h \in Callers => result[h] = "pending"
    BY <1>1 DEF IInv, PendingRuns
  <1>3. CASE Raise(h) /\ UNCHANGED files
    BY <1>1, <1>3, RaiseFresh
  <1>4. CASE LoadCached(h)
    <2>1. /\ kind[h] = "load" /\ CacheHit(Home[h]) /\ Leave(h, "noop") /\ UNCHANGED <<files, cache, kind, known>>
          /\ buffer' = [buffer EXCEPT ![h] = cache[Home[h]].doc]
      BY <1>4 DEF LoadCached
    <2>2. /\ pc'[h] \in {"ended", "none"} /\ \A g \in Threads \ {h} : pc'[g] = pc[g]
          /\ \A c \in Callers : result'[c] = IF c = h THEN "noop" ELSE result[c]
      BY <1>0, <2>1, LeaveFacts
    <2>3. buffer'[h] = cache[Home[h]].doc /\ \A g \in Threads \ {h} : stamp'[g] = stamp[g] /\ buffer'[g] = buffer[g]
      BY <1>0, <2>1 DEF Leave, TypeOK
    <2>4. ASSUME h \in Callers, NEW t \in known[h], Home[t] = Home[h] \/ ~coarse
          PROVE  t \in buffer'[h].done
      <3>1. t \in Callers /\ result[t] = "ok"
        BY <1>0, <1>2, <2>1, <2>4 DEF LoadKnows
      <3>2. cache[Home[h]] # None /\ cache[Home[h]].mtime = mtime
        BY <2>1 DEF CacheHit
      <3> QED
        BY <1>0, <2>3, <2>4, <3>1, <3>2 DEF CacheTrue
    <2>5. pc'[h] \notin Holding \cup {"flock", "flockShared", "readShared", "backup", "replace"}
      BY <2>2 DEF Holding, Writing
    <2>6. h \in Callers => result'[h] # "ok"
      BY <2>2
    <2> QED
      BY <1>1, <2>1, <2>2, <2>3, <2>4, <2>5, <2>6, QuietFresh DEF files
  <1>5. CASE TakeLocal(h)
    <2>1. /\ UNCHANGED <<files, cache, kind, buffer, known, result>>
          /\ \A g \in Threads \ {h} : pc'[g] = pc[g] /\ stamp'[g] = stamp[g]
          /\ \/ kind[h] = "load" /\ pc'[h] = "flockShared" /\ stamp'[h] = mtime
             \/ kind[h] # "load" /\ pc'[h] = "flock"
      BY <1>0, <1>5 DEF TakeLocal, TypeOK
    <2>2. mtime <= mtime /\ (h \in Callers => result'[h] = "pending")
      BY <1>0, <1>2, <2>1 DEF TypeOK
    <2>3. "flockShared" \notin Holding \cup {"flock"}
      BY DEF Holding, Writing
    <2> QED
      BY <1>1, <2>1, <2>2, <2>3, QuietFresh DEF files
  <1>6. CASE TakeShared(h) /\ ~(Raise(h) /\ UNCHANGED files)
    <2>1. /\ UNCHANGED <<files, cache, kind, buffer, stamp, known, result>> /\ pc[h] = "flockShared"
          /\ pc' = [pc EXCEPT ![h] = "readShared"]
      BY <1>6 DEF TakeShared
    <2>2. pc'[h] = "readShared" /\ \A g \in Threads \ {h} : pc'[g] = pc[g]
      BY <1>0, <2>1 DEF TypeOK
    <2>3. stamp'[h] <= mtime /\ (h \in Callers => result'[h] = "pending")
      BY <1>0, <1>2, <2>1 DEF Stamps
    <2>4. pc'[h] \notin Holding \cup {"flock"}
      BY <2>2 DEF Holding, Writing
    <2> QED
      BY <1>1, <2>1, <2>2, <2>3, <2>4, QuietFresh DEF files
  <1>7. CASE TakeExclusive(h) /\ ~(Raise(h) /\ UNCHANGED files)
    <2>1. /\ UNCHANGED <<files, cache, kind, buffer, stamp, known, result>> /\ pc[h] = "flock"
          /\ pc' = [pc EXCEPT ![h] = "read"]
      BY <1>7 DEF TakeExclusive
    <2>2. pc'[h] = "read" /\ \A g \in Threads \ {h} : pc'[g] = pc[g]
      BY <1>0, <2>1 DEF TypeOK
    <2>3. kind[h] # "load" /\ (h \in Callers => result'[h] = "pending")
      BY <1>0, <1>2, <2>1 DEF LoadKnows
    <2> QED
      BY <1>1, <2>1, <2>2, <2>3, QuietFresh DEF files
  <1>8. CASE LoadRead(h) /\ ~(Raise(h) /\ UNCHANGED files)
    <2>1. /\ Leave(h, "noop") /\ UNCHANGED <<files, kind, known>> /\ pc[h] = "readShared"
          /\ buffer' = [buffer EXCEPT ![h] = Migrate(main)]
          /\ cache' = [cache EXCEPT ![Home[h]] = [doc |-> Migrate(main), mtime |-> stamp[h]]]
      BY <1>8 DEF LoadRead
    <2>2. /\ pc'[h] \in {"ended", "none"} /\ \A g \in Threads \ {h} : pc'[g] = pc[g]
          /\ \A c \in Callers : result'[c] = IF c = h THEN "noop" ELSE result[c]
      BY <1>0, <2>1, LeaveFacts
    <2>3. buffer'[h] = Migrate(main) /\ \A g \in Threads \ {h} : stamp'[g] = stamp[g] /\ buffer'[g] = buffer[g]
      BY <1>0, <2>1 DEF Leave, TypeOK
    <2>4. Migrate(main) \in Docs /\ Migrate(main).done = Done(main) /\ stamp[h] \in Nat /\ stamp[h] <= mtime
      BY <1>0, <2>1, MigrateType DEF Stamps, TypeOK
    <2>5. ASSUME kind[h] = "load", h \in Callers, NEW t \in known[h]
          PROVE  t \in buffer'[h].done
      BY <1>0, <1>2, <2>3, <2>4, <2>5 DEF LoadKnows
    <2>6. pc'[h] \notin Holding \cup {"flock", "flockShared", "readShared", "backup", "replace"}
      BY <2>2 DEF Holding, Writing
    <2> QED
      BY <1>1, <2>1, <2>2, <2>3, <2>4, <2>5, <2>6, QuietFresh DEF files
  <1>9. CASE ReadDoc(h) /\ ~(Raise(h) /\ UNCHANGED files)
    <2>1. /\ UNCHANGED <<files, cache, kind, stamp, known, result>> /\ pc[h] = "read"
          /\ \E e : buffer' = [buffer EXCEPT ![h] = e]
          /\ \E l \in {"tmp", "finish"} : pc' = [pc EXCEPT ![h] = l]
      BY <1>9 DEF ReadDoc
    <2>2. /\ pc'[h] \in {"tmp", "finish"} /\ \A g \in Threads \ {h} : pc'[g] = pc[g]
          /\ \A g \in Threads \ {h} : buffer'[g] = buffer[g]
      BY <1>0, <2>1 DEF TypeOK
    <2>3. kind[h] # "load" /\ (h \in Callers => result'[h] = "pending")
      BY <1>0, <1>2, <2>1 DEF LoadKnows, Holding
    <2> QED
      BY <1>1, <2>1, <2>2, <2>3, QuietFresh DEF files
  <1>10. CASE Backup(h) /\ ~(Raise(h) /\ UNCHANGED files)
    <2>1. /\ UNCHANGED <<main, mtime, clock, coarse, cache, kind, buffer, stamp, known, result>> /\ pc[h] = "backup"
          /\ pc' = [pc EXCEPT ![h] = "replace"]
      BY <1>10 DEF Backup
    <2>2. pc'[h] = "replace" /\ \A g \in Threads \ {h} : pc'[g] = pc[g]
      BY <1>0, <2>1 DEF TypeOK
    <2>3. kind[h] # "load" /\ (h \in Callers => result'[h] = "pending")
      BY <1>0, <1>2, <2>1 DEF LoadKnows, Holding, Writing
    <2>4. stamp'[h] = clock /\ (~coarse => stamp'[h] > mtime)
      BY <1>0, <2>1 DEF Stamps
    <2> QED
      BY <1>1, <2>1, <2>2, <2>3, <2>4, QuietFresh
  <1>11. CASE SyncDir(h) /\ ~(Raise(h) /\ UNCHANGED files)
    <2>1. /\ UNCHANGED <<main, mtime, clock, coarse, cache, kind, buffer, stamp, known, result>> /\ pc[h] = "dirsync"
          /\ pc' = [pc EXCEPT ![h] = "finish"]
      BY <1>11 DEF SyncDir
    <2>2. pc'[h] = "finish" /\ \A g \in Threads \ {h} : pc'[g] = pc[g]
      BY <1>0, <2>1 DEF TypeOK
    <2>3. kind[h] # "load" /\ (h \in Callers => result'[h] = "pending")
      BY <1>0, <1>2, <2>1 DEF LoadKnows, Holding, Writing
    <2> QED
      BY <1>1, <2>1, <2>2, <2>3, QuietFresh
  <1>12. CASE Finish(h)
    <2>1. /\ UNCHANGED <<files, kind, known>> /\ pc[h] = "finish" /\ Drop(h)
          /\ cache' = [cache EXCEPT ![Home[h]] = [doc |-> buffer[h], mtime |-> mtime]]
          /\ \E o \in {"ok", "noop"} : Leave(h, o)
      BY <1>12 DEF Finish
    <2>2. PICK o \in {"ok", "noop"} : Leave(h, o)
      BY <2>1
    <2>3. /\ pc'[h] \in {"ended", "none"} /\ \A g \in Threads \ {h} : pc'[g] = pc[g]
          /\ \A c \in Callers : result'[c] = IF c = h THEN o ELSE result[c]
      BY <1>0, <2>2, LeaveFacts
    <2>4. \A g \in Threads \ {h} : stamp'[g] = stamp[g] /\ buffer'[g] = buffer[g]
      BY <1>0, <2>1, <2>2 DEF Leave, Drop, TypeOK
    <2>5. buffer[h] \in Docs /\ buffer[h].done = Done(main) /\ mtime \in Nat /\ mtime <= mtime
      BY <1>0, <2>1 DEF IInv, WriterKnows, TypeOK
    <2>6. kind[h] # "load" /\ pc'[h] \notin {"flockShared", "readShared", "backup", "replace"}
      BY <1>0, <2>1, <2>3 DEF LoadKnows, Holding, Writing
    <2> QED
      BY <1>1, <2>1, <2>3, <2>4, <2>5, <2>6, QuietFresh DEF files
  <1>13. CASE WriteTmp(h) /\ ~(Raise(h) /\ UNCHANGED files)
    <2>1. PICK t \in {clock, clock + 1} :
            clock' = t /\ stamp' = [stamp EXCEPT ![h] = t] /\ coarse' = (coarse \/ t = clock)
      BY <1>13 DEF WriteTmp
    <2>2. /\ UNCHANGED <<main, mtime, cache, kind, buffer, known, result>> /\ pc[h] = "tmp"
          /\ \E l \in {"replace", "backup"} : pc' = [pc EXCEPT ![h] = l]
      BY <1>13 DEF WriteTmp
    <2>3. /\ pc'[h] \in {"replace", "backup"} /\ stamp'[h] = clock' /\ (coarse => coarse')
          /\ \A g \in Threads \ {h} : pc'[g] = pc[g] /\ stamp'[g] = stamp[g] /\ pc[g] \notin Holding
      BY <1>0, <2>1, <2>2 DEF TypeOK, WriterHolds, Holding, Writing
    <2>4. mtime <= clock' /\ (~coarse' => clock' > mtime)
      <3>1. mtime \in Nat /\ clock \in Nat /\ mtime <= clock
        BY <1>0 DEF TypeOK, Stamps
      <3>2. t = clock => coarse'
        BY <2>1
      <3>3. CASE t = clock
        BY <2>1, <3>1, <3>2, <3>3
      <3>4. CASE t = clock + 1
        BY <2>1, <3>1, <3>4
      <3> QED
        BY <2>1, <3>3, <3>4
    <2>5. Stamps'
      BY <1>0, <2>2, <2>3, <2>4 DEF Stamps, Holding, Writing
    <2>6. CacheTrue' /\ LoadIsFresh'
      BY <1>0, <2>2, <2>3 DEF CacheTrue, LoadIsFresh
    <2>7. kind[h] # "load"
      BY <1>0, <2>2 DEF LoadKnows, Holding, Writing
    <2>8. LoadKnows'
      BY <1>0, <2>2, <2>3, <2>7 DEF LoadKnows
    <2> QED
      BY <2>5, <2>6, <2>8 DEF FreshInv
  <1>14. CASE Replace(h) /\ ~(Raise(h) /\ UNCHANGED files)
    <2>1. /\ UNCHANGED <<clock, coarse, cache, kind, buffer, stamp, known, result>> /\ pc[h] = "replace"
          /\ pc' = [pc EXCEPT ![h] = "dirsync"] /\ mtime' = stamp[h]
      BY <1>14 DEF Replace
    <2>2. pc'[h] = "dirsync" /\ \A g \in Threads \ {h} : pc'[g] = pc[g] /\ pc[g] \notin Holding
      BY <1>0, <2>1 DEF TypeOK, WriterHolds, Holding, Writing
    <2>3. mtime' = clock /\ mtime <= mtime' /\ (~coarse => mtime' > mtime) /\ mtime \in Nat /\ clock \in Nat
      <3>1. mtime \in Nat /\ clock \in Nat
        BY <1>0 DEF TypeOK
      <3>2. stamp[h] = clock /\ mtime <= clock /\ (~coarse => stamp[h] > mtime)
        BY <1>0, <2>1 DEF Stamps
      <3> QED
        BY <2>1, <3>1, <3>2
    <2>4. \A g \in Threads : stamp[g] \in Nat
      BY <1>0 DEF TypeOK
    <2>5. \A p \in Processes : cache[p] # None => cache[p].mtime \in Nat
      BY <1>0 DEF TypeOK
    <2>6. Stamps'
      <3>1. \A g \in Threads : pc'[g] \notin {"backup", "replace"}
        BY <2>2 DEF Holding, Writing
      <3>2. \A g \in Threads : pc'[g] \in {"flockShared", "readShared"} => stamp[g] <= mtime'
        BY <1>0, <2>2, <2>3, <2>4 DEF Stamps
      <3>3. \A p \in Processes : cache[p] # None => cache[p].mtime <= mtime'
        BY <1>0, <2>3, <2>5 DEF Stamps
      <3> QED
        BY <2>1, <2>3, <3>1, <3>2, <3>3 DEF Stamps
    <2>7. CacheTrue'
      <3>1. \A p \in Processes : cache[p] # None /\ ~coarse => cache[p].mtime # mtime'
        BY <1>0, <2>3, <2>5 DEF Stamps
      <3> QED
        BY <1>0, <2>1, <3>1 DEF CacheTrue
    <2>8. kind[h] # "load"
      BY <1>0, <2>1 DEF LoadKnows, Holding, Writing
    <2>9. LoadKnows' /\ LoadIsFresh'
      BY <1>0, <2>1, <2>2, <2>8 DEF LoadKnows, LoadIsFresh
    <2> QED
      BY <2>6, <2>7, <2>9 DEF FreshInv
  <1> QED
    BY <1>3, <1>4, <1>5, <1>6, <1>7, <1>8, <1>9, <1>10, <1>11, <1>12, <1>13, <1>14 DEF Step

\* Every step keeps what load needs.
LEMMA FreshStep ==
  ASSUME IInv, IInv', FreshInv, [Next]_vars
  PROVE  FreshInv'
  <1>0. /\ TypeOK /\ Stamps /\ CacheTrue /\ LoadKnows /\ LoadIsFresh
    BY DEF IInv, FreshInv
  <1>1. CASE UNCHANGED vars
    BY <1>0, <1>1 DEF vars, files, locks, locals, FreshInv, Stamps, CacheTrue, LoadKnows, LoadIsFresh
  <1>2. ASSUME NEW p \in Processes, Start(p) PROVE FreshInv'
    <2>1. /\ UNCHANGED <<files, cache, kind, buffer, stamp, known, result>> /\ p \in Threads
          /\ pc'[p] = "local" /\ \A g \in Threads \ {p} : pc'[g] = pc[g]
      BY <1>0, <1>2 DEF Start, TypeOK, Threads
    <2>2. Stamps'
      BY <1>0, <2>1 DEF Stamps, files
    <2>3. CacheTrue' /\ LoadIsFresh'
      BY <1>0, <2>1 DEF CacheTrue, LoadIsFresh, files
    <2>4. LoadKnows'
      BY <1>0, <2>1 DEF LoadKnows, Holding, Writing
    <2> QED
      BY <2>2, <2>3, <2>4 DEF FreshInv
  <1>3. ASSUME NEW c \in Callers, NEW k \in {"load", "update"}, Call(c, k) PROVE FreshInv'
    <2>1. /\ UNCHANGED <<files, cache, buffer, stamp>> /\ c \in Threads /\ pc[c] = "none"
          /\ pc'[c] = "local" /\ \A g \in Threads \ {c} : pc'[g] = pc[g] /\ kind'[g] = kind[g]
          /\ result'[c] = "pending" /\ \A d \in Callers \ {c} : result'[d] = result[d] /\ known'[d] = known[d]
          /\ known'[c] \subseteq {t \in Callers : result[t] = "ok"}
      BY <1>0, <1>3 DEF Call, TypeOK, Threads
    <2>2. result[c] = "none"
      BY <2>1 DEF IInv, PendingRuns
    <2>3. Stamps'
      BY <1>0, <2>1 DEF Stamps, files
    <2>4. CacheTrue'
      BY <1>0, <2>1 DEF CacheTrue, files
    <2>5. LoadIsFresh'
      BY <1>0, <2>1 DEF LoadIsFresh, files, Threads
    <2>6. LoadKnows'
      <3>1. ASSUME NEW d \in Callers, kind'[d] = "load", result'[d] = "pending", NEW t \in known'[d]
            PROVE  result'[t] = "ok"
        <4>1. result[t] = "ok" /\ t \in Callers
          BY <1>0, <2>1, <3>1 DEF LoadKnows, TypeOK, Threads
        <4> QED
          BY <2>1, <2>2, <4>1
      <3>2. \A g \in Threads : kind'[g] = "load" => pc'[g] \notin Holding \cup {"flock"}
        BY <1>0, <2>1 DEF LoadKnows, Holding, Writing
      <3> QED
        BY <3>1, <3>2 DEF LoadKnows
    <2> QED
      BY <2>3, <2>4, <2>5, <2>6 DEF FreshInv
  <1>4. ASSUME NEW h \in Threads, Step(h) PROVE FreshInv'
    BY <1>4, StepFresh
  <1>5. ASSUME NEW P \in SUBSET Processes, End(P), UNCHANGED <<mtime, clock, coarse>>,
               main' = main \/ P = Processes
        PROVE  FreshInv'
    <2>1. /\ UNCHANGED <<kind, known>>
          /\ \A h \in Threads : (pc'[h] = pc[h] /\ stamp'[h] = stamp[h]) \/ pc'[h] \in {"ended", "none"}
          /\ \A h \in Threads : buffer'[h] = buffer[h] \/ Running(h)
          /\ \A c \in Callers : result'[c] = result[c] \/ (Running(c) /\ result'[c] = "lost")
          /\ \A p \in Processes : cache'[p] = None \/ (p \notin P /\ cache'[p] = cache[p])
      BY <1>0, <1>5 DEF End, TypeOK, Threads
    <2>2. \A c \in Callers : Running(c) <=> result[c] = "pending"
      BY DEF IInv, PendingRuns
    <2>3. Stamps'
      BY <1>0, <1>5, <2>1 DEF Stamps
    <2>4. CacheTrue'
      BY <1>0, <1>5, <2>1 DEF CacheTrue
    <2>5. LoadIsFresh'
      <3> SUFFICES ASSUME NEW c \in Callers, kind[c] = "load", result'[c] = "noop", NEW t \in known[c],
                          Home[t] = Home[c] \/ ~coarse
                   PROVE  t \in buffer'[c].done
        BY <1>5, <2>1 DEF LoadIsFresh
      <3>1. result[c] = "noop" /\ c \in Threads
        BY <2>1 DEF Threads
      <3>2. buffer'[c] = buffer[c]
        BY <2>1, <2>2, <3>1
      <3> QED
        BY <1>0, <3>1, <3>2 DEF LoadIsFresh
    <2>6. LoadKnows'
      <3>1. ASSUME NEW c \in Callers, kind[c] = "load", result'[c] = "pending", NEW t \in known[c]
            PROVE  result'[t] = "ok"
        <4>1. result[t] = "ok" /\ t \in Callers
          BY <1>0, <2>1, <3>1 DEF LoadKnows, TypeOK
        <4> QED
          BY <2>1, <2>2, <4>1
      <3>2. \A g \in Threads : kind[g] = "load" => pc'[g] \notin Holding \cup {"flock"}
        BY <1>0, <2>1 DEF LoadKnows, Holding, Writing
      <3> QED
        BY <2>1, <3>1, <3>2 DEF LoadKnows
    <2> QED
      BY <2>3, <2>4, <2>5, <2>6 DEF FreshInv
  <1>6. ASSUME NEW p \in Processes, Crash(p) PROVE FreshInv'
    <2>1. {p} \in SUBSET Processes /\ End({p}) /\ UNCHANGED <<mtime, clock, coarse>> /\ main' = main
      BY <1>6 DEF Crash, files
    <2> QED
      BY <1>5, <2>1
  <1>7. CASE PowerLoss
    BY <1>5, <1>7 DEF PowerLoss
  <1> QED
    BY <1>1, <1>2, <1>3, <1>4, <1>6, <1>7 DEF Next

\* load: an update that had returned when a load was called is in what the load hands out,
\* from the cache or from the file, when it was of the same process, and of any process
\* as long as no two versions of the file share a time.
THEOREM LoadSeesWrites == Spec => []LoadIsFresh
  <1>1. Init => FreshInv
    BY ConstantsAssumption DEF Init, FreshInv, Stamps, CacheTrue, LoadKnows, LoadIsFresh
  <1>2. IInv /\ IInv' /\ FreshInv /\ [Next]_vars => FreshInv'
    BY FreshStep
  <1>3. FreshInv => LoadIsFresh
    BY DEF FreshInv
  <1> QED
    BY <1>1, <1>2, <1>3, Inductive, PTL DEF Spec

----------------------------------------------------------------------------
\* Store implements Document

\* The end of a call is a return or an exception of its transaction; that of
\* startup is nothing.
LEMMA LeaveMaps ==
  ASSUME TypeOK, Core, NEW h \in Threads, NEW o \in {"ok", "noop", "raised"}, Leave(h, o),
         pc[h] \notin {"none", "ended"}, UNCHANGED files,
         h \in Callers /\ o = "ok" => \A x \in survivors : h \in Done(x.main),
         h \in Callers /\ o = "noop" => h \notin Done(main)
  PROVE  Promised!Next \/ UNCHANGED <<Done(main), {Done(x.main) : x \in survivors}, result>>
  <1>1. Done(main') = Done(main) /\ {Done(x.main) : x \in survivors'} = {Done(x.main) : x \in survivors}
    BY DEF files
  <1>2. CASE h \in Callers
    <2>1. result[h] = "pending" /\ result' = [result EXCEPT ![h] = o]
      BY <1>2 DEF Core, PendingRuns, Running, Leave
    <2>2. CASE o = "raised"
      BY <1>1, <1>2, <2>1, <2>2 DEF Promised!Next, Promised!Raise, Done
    <2>3. CASE o = "ok"
      <3>1. \A d \in {Done(x.main) : x \in survivors} : h \in d
        BY <1>2, <2>3
      <3>2. Promised!Return(h)
        BY <1>1, <2>1, <2>3, <3>1 DEF Promised!Return, Done
      <3> QED
        BY <1>2, <3>2 DEF Promised!Next
    <2>4. CASE o = "noop"
      BY <1>1, <1>2, <2>1, <2>4 DEF Promised!Next, Promised!Return, Done
    <2> QED
      BY <2>2, <2>3, <2>4
  <1>3. CASE h \notin Callers
    BY <1>1, <1>3 DEF Leave, Done
  <1> QED
    BY <1>2, <1>3

\* The end of processes kills their transactions.
LEMMA EndMaps ==
  ASSUME TypeOK, Core, NEW P \in SUBSET Processes, End(P)
  PROVE  result' = [c \in Callers |-> IF c \in Promised!Pending({d \in Callers : Home[d] \in P})
                                      THEN "lost" ELSE result[c]]
  BY DEF End, Core, PendingRuns, Threads, Promised!Pending

\* A step of a thread: the rename is the instant an update takes effect.
LEMMA StepMaps ==
  ASSUME TypeOK, Core, NEW h \in Threads, Step(h)
  PROVE  Promised!Next \/ UNCHANGED <<Done(main), {Done(x.main) : x \in survivors}, result>>
  <1> DEFINE Goal == Promised!Next \/ UNCHANGED <<Done(main), {Done(x.main) : x \in survivors}, result>>
  <1>0. ASSUME UNCHANGED <<main, survivors, result>> PROVE Goal
    BY <1>0 DEF Done
  <1>1. ASSUME Raise(h), UNCHANGED files, pc[h] \notin {"none", "ended"} PROVE Goal
    BY <1>1, LeaveMaps DEF Raise
  <1>2. pc[h] \notin {"dirsync", "finish", "ended"} => h \notin Done(main)
    <2>1. CASE h \in Callers
      BY <2>1 DEF Core, NotYet, Directory
    <2>2. CASE h \notin Callers
      BY <2>2, DoneType DEF TypeOK
    <2> QED
      BY <2>1, <2>2
  <1> SUFFICES Goal
    OBVIOUS
  <1> HIDE DEF Goal
  <1>3. CASE LoadCached(h)
    <2>1. pc[h] = "local" /\ Leave(h, "noop") /\ UNCHANGED files
      BY <1>3 DEF LoadCached
    <2> QED
      BY <1>2, <2>1, LeaveMaps DEF Goal
  <1>4. CASE TakeLocal(h) \/ TakeShared(h) \/ TakeExclusive(h)
    BY <1>0, <1>1, <1>4 DEF TakeLocal, TakeShared, TakeExclusive, files
  <1>5. CASE LoadRead(h)
    <2>1. pc[h] = "readShared" /\ UNCHANGED files /\ (Leave(h, "noop") \/ Raise(h))
      BY <1>5 DEF LoadRead
    <2> QED
      BY <1>1, <1>2, <2>1, LeaveMaps DEF Goal
  <1>6. CASE ReadDoc(h) \/ WriteTmp(h)
    BY <1>0, <1>1, <1>6 DEF ReadDoc, WriteTmp, files
  <1>7. CASE Backup(h)
    <2>1. CASE Raise(h) /\ UNCHANGED files
      BY <1>1, <1>7, <2>1 DEF Backup
    <2>2. CASE ~(Raise(h) /\ UNCHANGED files)
      <3>1. /\ survivors' = survivors \cup {[main |-> main, bak |-> main]} /\ UNCHANGED <<main, result>>
        BY <1>7, <2>2 DEF Backup, Flushed
      <3>2. {Done(x.main) : x \in survivors'} = {Done(x.main) : x \in survivors}
        BY <3>1 DEF Core, Directory
      <3> QED
        BY <3>1, <3>2 DEF Goal, Done
    <2> QED
      BY <2>1, <2>2
  <1>8. CASE Replace(h)
    <2>1. CASE Raise(h) /\ UNCHANGED files
      BY <1>1, <1>8, <2>1 DEF Replace
    <2>2. CASE ~(Raise(h) /\ UNCHANGED files)
      <3>1. /\ pc[h] = "replace" /\ main' = buffer[h]
            /\ survivors' = survivors \cup {[main |-> buffer[h], bak |-> bak]}
            /\ UNCHANGED result
        BY <1>8, <2>2 DEF Replace, Flushed
      <3>2. Adds(h, buffer[h]) /\ Done(buffer[h]) = buffer[h].done
        BY <3>1, DoneOf DEF Core, WriterKnows, TypeOK
      <3>3. {Done(x.main) : x \in survivors'} = {Done(x.main) : x \in survivors} \cup {Done(buffer[h])}
        <4>1. [main |-> buffer[h], bak |-> bak].main = buffer[h]
          OBVIOUS
        <4> QED
          BY <3>1, <4>1
      <3>4. CASE buffer[h].done = Done(main)
        <4>1. Done(main) \in {Done(x.main) : x \in survivors}
          BY DEF Core, Directory
        <4>2. Done(main') = Done(main)
          BY <3>1, <3>2, <3>4
        <4>3. {Done(x.main) : x \in survivors'} = {Done(x.main) : x \in survivors}
          BY <3>2, <3>3, <3>4, <4>1
        <4> QED
          BY <3>1, <4>2, <4>3 DEF Goal, Done
      <3>5. CASE buffer[h].done # Done(main)
        <4>1. h \in Callers /\ Done(main') = Done(main) \cup {h} /\ h \notin Done(main) /\ result[h] = "pending"
          BY <1>2, <3>1, <3>2, <3>5 DEF Adds, Core, PendingRuns, Running
        <4>2. Promised!Apply(h)
          BY <3>1, <3>3, <4>1 DEF Promised!Apply, Done
        <4> QED
          BY <4>1, <4>2 DEF Goal, Promised!Next
      <3> QED
        BY <3>4, <3>5
    <2> QED
      BY <2>1, <2>2
  <1>9. CASE SyncDir(h)
    <2>1. CASE Raise(h) /\ UNCHANGED files
      BY <1>1, <1>9, <2>1 DEF SyncDir
    <2>2. CASE ~(Raise(h) /\ UNCHANGED files)
      <3>1. /\ survivors' = {[main |-> main, bak |-> bak]} /\ UNCHANGED <<main, result>>
        BY <1>9, <2>2 DEF SyncDir
      <3>2. {Done(x.main) : x \in survivors'} = {Done(main)}
        BY <3>1
      <3> QED
        BY <3>1, <3>2 DEF Goal, Promised!Next, Promised!Sync, Done
    <2> QED
      BY <2>1, <2>2
  <1>10. CASE Finish(h)
    <2>1. pc[h] = "finish" /\ UNCHANGED files /\ Leave(h, IF h \in buffer[h].done THEN "ok" ELSE "noop")
      BY <1>10 DEF Finish
    <2>2. /\ buffer[h].done = Done(main)
          /\ h \in buffer[h].done => \A x \in survivors : h \in Done(x.main)
      BY <2>1 DEF Core, WriterKnows
    <2> QED
      BY <2>1, <2>2, LeaveMaps DEF Goal
  <1> QED
    BY <1>3, <1>4, <1>5, <1>6, <1>7, <1>8, <1>9, <1>10 DEF Step, Goal

\* Every step is one of Document's, or changes nothing of it.
LEMMA NextMaps ==
  ASSUME TypeOK, Core, [Next]_vars
  PROVE  Promised!Next \/ UNCHANGED <<Done(main), {Done(x.main) : x \in survivors}, result>>
  <1>0. CASE UNCHANGED vars
    BY <1>0 DEF vars, files, locals, Done
  <1>1. ASSUME NEW p \in Processes, Start(p)
        PROVE  UNCHANGED <<Done(main), {Done(x.main) : x \in survivors}, result>>
    BY <1>1 DEF Start, files, Done
  <1>2. ASSUME NEW p \in Processes, Crash(p) PROVE Promised!Next
    <2>1. End({p}) /\ UNCHANGED <<main, survivors>>
      BY <1>2 DEF Crash, files
    <2>2. Promised!Kill({d \in Callers : Home[d] \in {p}})
      BY <2>1, EndMaps DEF Promised!Kill, Promised!Killed, Done
    <2> QED
      BY <2>2 DEF Promised!Next
  <1>3. ASSUME NEW c \in Callers, NEW k \in {"load", "update"}, Call(c, k) PROVE Promised!Next
    <2>1. result[c] = "none" /\ result' = [result EXCEPT ![c] = "pending"] /\ UNCHANGED <<main, survivors>>
      BY <1>3 DEF Call, files, Core, PendingRuns
    <2> QED
      BY <2>1 DEF Promised!Next, Promised!Call, Done
  <1>4. ASSUME NEW h \in Threads, Step(h)
        PROVE  Promised!Next \/ UNCHANGED <<Done(main), {Done(x.main) : x \in survivors}, result>>
    BY <1>4, StepMaps
  <1>5. CASE PowerLoss
    <2>1. PICK left \in survivors : main' = left.main /\ survivors' = {left}
      BY <1>5 DEF PowerLoss
    <2>2. /\ Done(main') \in {Done(x.main) : x \in survivors}
          /\ {Done(x.main) : x \in survivors'} = {Done(main')}
      BY <2>1
    <2>3. {d \in Callers : Home[d] \in Processes} = Callers
      BY ConstantsAssumption DEF Threads
    <2>4. result' = [c \in Callers |-> IF c \in Promised!Pending(Callers) THEN "lost" ELSE result[c]]
      <3>1. End(Processes) /\ Processes \in SUBSET Processes
        BY <1>5 DEF PowerLoss
      <3> QED
        BY <2>3, <3>1, EndMaps
    <2> QED
      BY <2>2, <2>4 DEF Promised!Next, Promised!PowerLoss, Promised!Killed, Done
  <1> QED
    BY <1>0, <1>1, <1>2, <1>3, <1>4, <1>5 DEF Next

\* store.py is the document it promises: every transaction takes effect at one
\* instant between its call and its return, or not at all, and what returned
\* stays.
THEOREM StoreImplementsDocument == Spec => Implements
  <1>1. Init => Promised!Init
    <2> SUFFICES ASSUME Init PROVE Promised!Init
      OBVIOUS
    <2>1. Done(None) = {} /\ Done(Empty) = {}
      BY DoneOf DEF Done, Empty, Docs
    <2>2. Done(main) = {} /\ \A x \in survivors : Done(x.main) = {}
      BY <2>1 DEF Init
    <2>3. {Done(x.main) : x \in survivors} = {{}}
      BY <2>2 DEF Init
    <2> QED
      BY <2>2, <2>3 DEF Promised!Init, Init
  <1>2. IInv /\ [Next]_vars =>
          [Promised!Next]_<<Done(main), {Done(x.main) : x \in survivors}, result>>
    BY NextMaps DEF IInv, Core
  <1> QED
    BY <1>1, <1>2, Inductive, PTL DEF Spec, Implements, Promised!Spec

----------------------------------------------------------------------------
\* The locks

\* A call that ends holds no lock any more.
LEMMA LeaveFrees ==
  ASSUME TypeOK, LocksHeld, NEW h \in Threads, NEW o \in {"ok", "noop", "raised"}, Leave(h, o)
  PROVE  LocksHeld'
  <1>1. \A g \in Threads \ {h} : pc'[g] = pc[g]
    BY LeaveFacts
  <1>2. /\ \A p \in Processes : local'[p] = IF p = Home[h] THEN None ELSE local[p]
        /\ exclusive' = (IF exclusive = h THEN None ELSE exclusive) /\ shared' = shared \ {h}
    BY ConstantsAssumption DEF Leave, TypeOK
  <1>3. ASSUME NEW p \in Processes, local'[p] # None
        PROVE  Home[local'[p]] = p /\ pc'[local'[p]] \in Inside
    <2>1. local'[p] = local[p] /\ p # Home[h] /\ local[p] \in Threads
      BY <1>2, <1>3 DEF TypeOK
    <2>2. Home[local[p]] = p /\ pc[local[p]] \in Inside /\ local[p] # h
      BY <1>3, <2>1 DEF LocksHeld
    <2> QED
      BY <1>1, <2>1, <2>2
  <1>4. exclusive' # None => pc'[exclusive'] \in Holding
    BY <1>1, <1>2 DEF LocksHeld, TypeOK
  <1>5. \A g \in shared' : pc'[g] = "readShared"
    BY <1>1, <1>2 DEF LocksHeld, TypeOK
  <1> QED
    BY <1>3, <1>4, <1>5 DEF LocksHeld

\* A thread that goes on with the locks it has.
LEMMA MoveHolds ==
  ASSUME TypeOK, LocksHeld, NEW h \in Threads, NEW l, pc' = [pc EXCEPT ![h] = l], UNCHANGED locks,
         pc[h] \in Inside => l \in Inside, pc[h] \in Holding => l \in Holding, pc[h] # "readShared"
  PROVE  LocksHeld'
  <1>1. pc'[h] = l /\ \A g \in Threads \ {h} : pc'[g] = pc[g]
    BY DEF TypeOK
  <1>2. local' = local /\ exclusive' = exclusive /\ shared' = shared
    BY DEF locks
  <1>3. ASSUME NEW p \in Processes, local[p] # None
        PROVE  Home[local[p]] = p /\ pc'[local[p]] \in Inside
    <2>1. local[p] \in Threads /\ Home[local[p]] = p /\ pc[local[p]] \in Inside
      BY <1>3 DEF LocksHeld, TypeOK
    <2> QED
      BY <1>1, <2>1
  <1>4. exclusive # None => pc'[exclusive] \in Holding
    BY <1>1 DEF LocksHeld, TypeOK
  <1>5. \A g \in shared : pc'[g] = "readShared"
    BY <1>1 DEF LocksHeld, TypeOK
  <1> QED
    BY <1>2, <1>3, <1>4, <1>5 DEF LocksHeld

LEMMA RaiseFrees ==
  ASSUME TypeOK, LocksHeld, NEW h \in Threads, Raise(h)
  PROVE  LocksHeld'
  BY LeaveFrees DEF Raise

\* The steps that take a lock.
LEMMA TakeHolds ==
  ASSUME TypeOK, LocksHeld, NEW h \in Threads, TakeLocal(h) \/ TakeShared(h) \/ TakeExclusive(h)
  PROVE  LocksHeld'
  <1>1. CASE TakeLocal(h)
    <2>1. PICK l \in {"flock", "flockShared"} : pc' = [pc EXCEPT ![h] = l]
      BY <1>1 DEF TakeLocal
    <2>2. /\ pc[h] = "local" /\ local' = [local EXCEPT ![Home[h]] = h] /\ exclusive' = exclusive /\ shared' = shared
      BY <1>1 DEF TakeLocal
    <2>3. pc'[h] = l /\ l \in Inside /\ \A g \in Threads \ {h} : pc'[g] = pc[g]
      BY <2>1 DEF TypeOK, Inside
    <2>4. ASSUME NEW p \in Processes, local'[p] # None
          PROVE  Home[local'[p]] = p /\ pc'[local'[p]] \in Inside
      <3>1. CASE p = Home[h]
        BY <2>2, <2>3, <3>1 DEF TypeOK
      <3>2. CASE p # Home[h]
        <4>1. local'[p] = local[p]
          BY <2>2, <3>2 DEF TypeOK
        <4>2. local[p] \in Threads /\ Home[local[p]] = p /\ pc[local[p]] \in Inside
          BY <2>4, <4>1 DEF LocksHeld, TypeOK
        <4> QED
          BY <2>3, <3>2, <4>1, <4>2
      <3> QED
        BY <3>1, <3>2
    <2>5. exclusive' # None => pc'[exclusive'] \in Holding
      BY <2>2, <2>3 DEF LocksHeld, TypeOK, Holding, Writing
    <2>6. \A g \in shared' : pc'[g] = "readShared"
      BY <2>2, <2>3 DEF LocksHeld, TypeOK
    <2> QED
      BY <2>4, <2>5, <2>6 DEF LocksHeld
  <1>2. ASSUME NEW l \in {"readShared", "read"}, pc' = [pc EXCEPT ![h] = l], local' = local, exclusive = None,
               pc[h] \in {"flock", "flockShared"},
               \/ l = "readShared" /\ shared' = shared \cup {h} /\ exclusive' = None
               \/ l = "read" /\ shared' = shared /\ exclusive' = h
        PROVE  LocksHeld'
    <2>1. pc'[h] = l /\ l \in Inside /\ \A g \in Threads \ {h} : pc'[g] = pc[g]
      BY <1>2 DEF TypeOK, Inside, Holding
    <2>2. ASSUME NEW p \in Processes, local[p] # None
          PROVE  Home[local[p]] = p /\ pc'[local[p]] \in Inside
      <3>1. local[p] \in Threads /\ Home[local[p]] = p /\ pc[local[p]] \in Inside
        BY <2>2 DEF LocksHeld, TypeOK
      <3> QED
        BY <2>1, <3>1
    <2>3. exclusive' # None => pc'[exclusive'] \in Holding
      BY <1>2, <2>1 DEF Holding
    <2>4. \A g \in shared' : pc'[g] = "readShared"
      BY <1>2, <2>1 DEF LocksHeld, TypeOK
    <2> QED
      BY <1>2, <2>2, <2>3, <2>4 DEF LocksHeld
  <1>3. CASE TakeShared(h)
    BY <1>2, <1>3, RaiseFrees DEF TakeShared
  <1>4. CASE TakeExclusive(h)
    BY <1>2, <1>4, RaiseFrees DEF TakeExclusive
  <1> QED
    BY <1>1, <1>3, <1>4

\* Every step of a thread.
LEMMA StepHolds ==
  ASSUME TypeOK, LocksHeld, NEW h \in Threads, Step(h)
  PROVE  LocksHeld'
  <1>1. ASSUME NEW l \in Holding, pc' = [pc EXCEPT ![h] = l], UNCHANGED locks, pc[h] \in Holding
        PROVE  LocksHeld'
    BY <1>1, MoveHolds DEF Inside, Holding, Writing
  <1>2. CASE LoadCached(h)
    BY <1>2, LeaveFrees DEF LoadCached
  <1>3. CASE LoadRead(h)
    BY <1>3, LeaveFrees, RaiseFrees DEF LoadRead
  <1>4. CASE ReadDoc(h)
    <2>1. CASE Raise(h)
      BY <2>1, RaiseFrees
    <2>2. CASE ~Raise(h)
      <3>1. \E e : pc' = [pc EXCEPT ![h] = IF NeedsWrite(e) THEN "tmp" ELSE "finish"] /\ UNCHANGED locks
        BY <1>4, <2>2 DEF ReadDoc
      <3> QED
        BY <1>1, <1>4, <3>1 DEF ReadDoc, Holding, Writing
    <2> QED
      BY <2>1, <2>2
  <1>5. CASE WriteTmp(h)
    <2>1. CASE Raise(h)
      BY <2>1, RaiseFrees
    <2>2. CASE ~Raise(h)
      BY <1>1, <1>5, <2>2 DEF WriteTmp, Holding, Writing
    <2> QED
      BY <2>1, <2>2
  <1>6. CASE Backup(h)
    BY <1>1, <1>6, RaiseFrees DEF Backup, Holding, Writing
  <1>7. CASE Replace(h)
    BY <1>1, <1>7, RaiseFrees DEF Replace, Holding, Writing
  <1>8. CASE SyncDir(h)
    BY <1>1, <1>8, RaiseFrees DEF SyncDir, Holding, Writing
  <1>9. CASE Finish(h)
    BY <1>9, LeaveFrees DEF Finish
  <1> QED
    BY <1>2, <1>3, <1>4, <1>5, <1>6, <1>7, <1>8, <1>9, TakeHolds DEF Step

\* The end of processes frees what their threads held.
LEMMA EndFrees ==
  ASSUME TypeOK, LocksHeld, NEW P \in SUBSET Processes, End(P)
  PROVE  LocksHeld'
  <1> DEFINE killed == {h \in Threads : Home[h] \in P /\ Running(h)}
  <1>1. /\ \A g \in Threads \ killed : pc'[g] = pc[g]
        /\ \A p \in Processes : local'[p] = IF p \in P THEN None ELSE local[p]
        /\ exclusive' = (IF exclusive \in killed THEN None ELSE exclusive) /\ shared' = shared \ killed
    BY DEF End
  <1>2. \A g \in killed : Home[g] \in P
    OBVIOUS
  <1> HIDE DEF killed
  <1>3. ASSUME NEW p \in Processes, local'[p] # None
        PROVE  Home[local'[p]] = p /\ pc'[local'[p]] \in Inside
    <2>1. local'[p] = local[p] /\ p \notin P /\ local[p] \in Threads
      BY <1>1, <1>3 DEF TypeOK
    <2>2. Home[local[p]] = p /\ pc[local[p]] \in Inside
      BY <1>3, <2>1 DEF LocksHeld
    <2> QED
      BY <1>1, <1>2, <2>1, <2>2
  <1>4. exclusive' # None => pc'[exclusive'] \in Holding
    BY <1>1 DEF LocksHeld, TypeOK
  <1>5. \A g \in shared' : pc'[g] = "readShared"
    BY <1>1 DEF LocksHeld, TypeOK
  <1> QED
    BY <1>3, <1>4, <1>5 DEF LocksHeld

LEMMA LocksStep ==
  ASSUME TypeOK, LocksHeld, [Next]_vars
  PROVE  LocksHeld'
  <1>0. CASE UNCHANGED vars
    BY <1>0 DEF vars, locks, locals, LocksHeld
  <1>1. ASSUME NEW h \in Threads, pc[h] = "none", pc' = [pc EXCEPT ![h] = "local"], UNCHANGED locks
        PROVE  LocksHeld'
    BY <1>1, MoveHolds DEF Inside, Holding, Writing
  <1>2. ASSUME NEW p \in Processes, Start(p) \/ Crash(p) PROVE LocksHeld'
    BY <1>1, <1>2, EndFrees DEF Start, Crash, Threads
  <1>3. ASSUME NEW c \in Callers, NEW k \in {"load", "update"}, Call(c, k) PROVE LocksHeld'
    BY <1>1, <1>3 DEF Call, Threads
  <1>4. CASE PowerLoss
    BY <1>4, EndFrees DEF PowerLoss
  <1> QED
    BY <1>0, <1>2, <1>3, <1>4, StepHolds DEF Next

\* _local, the flock and the exceptions and crashes between them: while a call is under
\* way, what the next step of some thread waits for is free (NoDeadlock, with the guards
\* of the steps in place of ENABLED).
THEOREM NobodyWaitsForever == Spec => []SomebodyIsUnblocked
  <1>1. Init => LocksHeld
    BY DEF Init, LocksHeld
  <1>2. TypeOK /\ LocksHeld => SomebodyIsUnblocked
    <2> SUFFICES ASSUME TypeOK, LocksHeld, NEW h \in Threads, Running(h)
                 PROVE  \E g \in Threads : Unblocked(g)
      BY DEF SomebodyIsUnblocked
    <2>1. ASSUME NEW g \in Threads, pc[g] \in Inside PROVE \E f \in Threads : Unblocked(f)
      <3>1. CASE exclusive # None
        BY <3>1 DEF LocksHeld, TypeOK, Unblocked
      <3>2. CASE exclusive = None /\ shared # {}
        BY <3>2 DEF LocksHeld, TypeOK, Unblocked
      <3>3. CASE exclusive = None /\ shared = {}
        BY <2>1, <3>3 DEF Inside, Unblocked
      <3> QED
        BY <3>1, <3>2, <3>3
    <2>2. CASE pc[h] \in Inside
      BY <2>1, <2>2
    <2>3. CASE pc[h] = "local"
      <3>1. CASE local[Home[h]] = None
        BY <2>3, <3>1 DEF Unblocked
      <3>2. CASE local[Home[h]] # None
        <4>1. Home[h] \in Processes
          BY ConstantsAssumption
        <4>2. local[Home[h]] \in Threads /\ pc[local[Home[h]]] \in Inside
          BY <3>2, <4>1 DEF LocksHeld, TypeOK
        <4> QED
          BY <2>1, <4>2
      <3> QED
        BY <3>1, <3>2
    <2> QED
      BY <2>2, <2>3 DEF Running, TypeOK, Inside
  <1>3. LocksHeld /\ TypeOK /\ [Next]_vars => LocksHeld'
    BY LocksStep
  <1> QED
    BY <1>1, <1>2, <1>3, TypeCorrect, PTL DEF Spec

=============================================================================
