------------------------------- MODULE Store -------------------------------
(***************************************************************************)
(* The JSON document store (backend/store.py): threads of one or more      *)
(* processes that share a data directory load and update the document      *)
(* under a process-local lock and a flock; a write goes through a          *)
(* temporary file, a backup copy, two renames and a sync of the directory; *)
(* load serves a cache while the file's mtime is the one it knows.         *)
(*                                                                         *)
(* A document is the set of update calls it contains and its schema, old   *)
(* or current.  The file system is external: a rename is visible at once   *)
(* and, when the machine loses power, survives with the renames before it  *)
(* unless the directory was synced after it.                               *)
(***************************************************************************)
EXTENDS Naturals

CONSTANTS
  Processes,   \* processes on the data directory; also their main threads
  Callers,     \* request and worker threads, one call each
  Home,        \* the process of a caller
  MaxFaults,   \* bound: failed file operations, crashes and power failures
  None, Torn   \* no file; a file whose contents did not reach the disk

Threads == Processes \cup Callers

ASSUME ConstantsAssumption ==
  /\ Processes \cap Callers = {}
  /\ Home \in [Threads -> Processes] /\ \A p \in Processes : Home[p] = p
  /\ None \notin Threads
  /\ None \notin [schema : {"old", "current"}, done : SUBSET Callers]
  /\ Torn \notin [schema : {"old", "current"}, done : SUBSET Callers]
  /\ None # Torn
  /\ MaxFaults \in Nat

VARIABLES
  main, mtime,   \* DB_FILE and its modification time
  bak,           \* DB_FILE.bak
  survivors,     \* EXTERNAL: the directories a power failure may leave
  clock,         \* EXTERNAL: the file system's time, in ticks
  coarse,        \* two versions of DB_FILE may share a tick
  local,         \* holder of _local in a process, or None
  exclusive,     \* holder of LOCK_EX, or None
  shared,        \* holders of LOCK_SH
  cache,         \* _cache of a process, or None
  pc,            \* where a thread is
  kind,          \* the function it called
  buffer,        \* its local doc
  stamp,         \* mtime of its temporary file, or the mtime load() looked at
  known,         \* updates that had returned when it called load
  result,        \* what became of its call
  life,          \* a process is "down", "starting" or "up"
  faults

files == <<main, mtime, bak, survivors, clock, coarse>>
locks == <<local, exclusive, shared>>
locals == <<pc, kind, buffer, stamp, known, result>>
vars == <<files, locks, cache, locals, life, faults>>

Docs == [schema : {"old", "current"}, done : SUBSET Callers]
Empty == [schema |-> "old", done |-> {}]
Writing == {"tmp", "backup", "replace", "dirsync", "finish"}
Holding == Writing \cup {"read"}
Done(file) == IF file \in {None, Torn} THEN {} ELSE file.done

TypeOK ==
  /\ main \in Docs \cup {None} /\ bak \in Docs \cup {None}
  /\ survivors \subseteq [main : Docs \cup {None}, bak : Docs \cup {None}]
  /\ mtime \in Nat /\ clock \in Nat /\ coarse \in BOOLEAN
  /\ local \in [Processes -> Threads \cup {None}]
  /\ exclusive \in Threads \cup {None} /\ shared \subseteq Threads
  /\ cache \in [Processes -> [doc : Docs, mtime : Nat] \cup {None}]
  /\ pc \in [Threads -> Holding \cup {"none", "local", "flock", "flockShared", "readShared", "ended"}]
  /\ kind \in [Threads -> {"load", "update", "startup"}]
  /\ buffer \in [Threads -> Docs]
  /\ stamp \in [Threads -> Nat]
  /\ known \in [Callers -> SUBSET Callers]
  /\ result \in [Callers -> {"none", "pending", "ok", "noop", "raised", "lost"}]
  /\ life \in [Processes -> {"down", "starting", "up"}]
  /\ faults \in 0..MaxFaults

\* A new data directory, or one an earlier version left.
Init ==
  /\ main \in {None, Empty} /\ mtime = 0 /\ bak = None
  /\ survivors = {[main |-> main, bak |-> bak]}
  /\ clock = 0 /\ coarse = FALSE
  /\ local = [p \in Processes |-> None] /\ exclusive = None /\ shared = {}
  /\ cache = [p \in Processes |-> None]
  /\ pc = [h \in Threads |-> "none"]
  /\ kind = [h \in Threads |-> "startup"]
  /\ buffer = [h \in Threads |-> Empty]
  /\ stamp = [h \in Threads |-> 0]
  /\ known = [c \in Callers |-> {}]
  /\ result = [c \in Callers |-> "none"]
  /\ life = [p \in Processes |-> "down"]
  /\ faults = 0

Fault == faults < MaxFaults /\ faults' = faults + 1
NoFault == faults' = faults
Goto(h, label) == pc' = [pc EXCEPT ![h] = label]

\* Defect: the shared flock is kept.
LeaveSharedKept(h, outcome) ==
  /\ pc' = [pc EXCEPT ![h] = IF h \in Callers THEN "ended" ELSE "none"]
  /\ stamp' = [stamp EXCEPT ![h] = 0]
  /\ local' = [local EXCEPT ![Home[h]] = None]
  /\ exclusive' = IF exclusive = h THEN None ELSE exclusive
  /\ shared' = shared
  /\ result' = IF h \in Callers THEN [result EXCEPT ![h] = outcome] ELSE result
  /\ life' = IF h \in Callers THEN life
             ELSE [life EXCEPT ![h] = IF outcome = "raised" THEN "down" ELSE "up"]

\* The end of a call: its locks are released.  When startup raises, the
\* process ends.
Leave(h, outcome) ==
  /\ pc' = [pc EXCEPT ![h] = IF h \in Callers THEN "ended" ELSE "none"]
  /\ stamp' = [stamp EXCEPT ![h] = 0]
  /\ local' = [local EXCEPT ![Home[h]] = None]
  /\ exclusive' = IF exclusive = h THEN None ELSE exclusive
  /\ shared' = shared \ {h}
  /\ result' = IF h \in Callers THEN [result EXCEPT ![h] = outcome] ELSE result
  /\ life' = IF h \in Callers THEN life
             ELSE [life EXCEPT ![h] = IF outcome = "raised" THEN "down" ELSE "up"]

\* The document of a call that does not hand it out.
Drop(h) == buffer' = [buffer EXCEPT ![h] = Empty]

\* An exception; the temporary files are removed.
Raise(h) == Leave(h, "raised") /\ Drop(h) /\ UNCHANGED <<cache, kind, known>>

----------------------------------------------------------------------------
\* Calls

\* The lifespan runs startup_integrity_check before anything is served.
Start(p) ==
  /\ life[p] = "down" /\ pc[p] = "none"
  /\ life' = [life EXCEPT ![p] = "starting"]
  /\ Goto(p, "local")
  /\ UNCHANGED <<files, locks, cache, kind, buffer, stamp, known, result, faults>>

Call(c, k) ==
  /\ life[Home[c]] = "up" /\ pc[c] = "none"
  /\ kind' = [kind EXCEPT ![c] = k]
  /\ known' = [known EXCEPT ![c] = IF k = "load" THEN {t \in Callers : result[t] = "ok"} ELSE {}]
  /\ result' = [result EXCEPT ![c] = "pending"]
  /\ Goto(c, "local")
  /\ UNCHANGED <<files, locks, cache, buffer, stamp, life, faults>>

CacheHit(p) == cache[p] # None /\ cache[p].mtime = mtime

\* load: served from the cache, under _local alone.
LoadCached(h) ==
  /\ pc[h] = "local" /\ kind[h] = "load" /\ local[Home[h]] = None
  /\ CacheHit(Home[h])
  /\ buffer' = [buffer EXCEPT ![h] = cache[Home[h]].doc]
  /\ Leave(h, "noop")
  /\ UNCHANGED <<files, cache, kind, known, faults>>

\* with _local: load remembers the mtime it saw.
TakeLocal(h) ==
  /\ pc[h] = "local" /\ local[Home[h]] = None
  /\ local' = [local EXCEPT ![Home[h]] = h]
  /\ IF kind[h] = "load"
     THEN /\ ~CacheHit(Home[h])
          /\ stamp' = [stamp EXCEPT ![h] = mtime]
          /\ Goto(h, "flockShared")
     ELSE stamp' = stamp /\ Goto(h, "flock")
  /\ UNCHANGED <<files, exclusive, shared, cache, kind, buffer, known, result, life, faults>>

\* The lock file is opened and locked, or cannot be opened.
TakeShared(h) ==
  /\ pc[h] = "flockShared"
  /\ \/ /\ exclusive = None
        /\ shared' = shared \cup {h}
        /\ Goto(h, "readShared")
        /\ UNCHANGED <<local, exclusive, cache, kind, buffer, stamp, known, result, life, faults>>
     \/ Fault /\ Raise(h)
  /\ UNCHANGED files

TakeExclusive(h) ==
  /\ pc[h] = "flock"
  /\ \/ /\ exclusive = None /\ shared = {}
        /\ exclusive' = h
        /\ Goto(h, "read")
        /\ UNCHANGED <<local, shared, cache, kind, buffer, stamp, known, result, life, faults>>
     \/ Fault /\ Raise(h)
  /\ UNCHANGED files

\* _migrate_doc and _validate_doc: a missing file is an empty document of the
\* oldest schema; every document read is migrated in memory.
Migrate(file) == [schema |-> "current", done |-> Done(file)]

LoadRead(h) ==
  /\ pc[h] = "readShared"
  /\ \/ /\ buffer' = [buffer EXCEPT ![h] = Migrate(main)]
        /\ cache' = [cache EXCEPT ![Home[h]] = [doc |-> Migrate(main), mtime |-> stamp[h]]]
        /\ Leave(h, "noop")
        /\ NoFault /\ UNCHANGED <<kind, known>>
     \/ Fault /\ Raise(h)
  /\ UNCHANGED files

----------------------------------------------------------------------------
\* update, startup_integrity_check and _write_locked

\* "migrated or doc != before".
NeedsWrite(d) == d # main

\* Defect: the mutator is given the cached document.
ReadDocCached(h) ==
  /\ pc[h] = "read"
  /\ \/ \E d \in {IF cache[Home[h]] = None THEN Migrate(main) ELSE cache[Home[h]].doc} :
          \E e \in {d} \cup IF h \in Callers THEN {[d EXCEPT !.done = @ \cup {h}]} ELSE {} :
            /\ buffer' = [buffer EXCEPT ![h] = e]
            /\ Goto(h, IF NeedsWrite(e) THEN "tmp" ELSE "finish")
        /\ UNCHANGED <<files, locks, cache, kind, stamp, known, result, life, faults>>
     \/ (Fault \/ (h \in Callers /\ NoFault)) /\ Raise(h) /\ UNCHANGED files

\* _read_doc from disk, never the cache; then the mutator, which may change
\* the document, leave it alone or raise.  At startup there is none.
ReadDoc(h) ==
  /\ pc[h] = "read"
  /\ \/ LET d == Migrate(main) IN
        \E e \in {d} \cup IF h \in Callers THEN {[d EXCEPT !.done = @ \cup {h}]} ELSE {} :
          /\ buffer' = [buffer EXCEPT ![h] = e]
          /\ Goto(h, IF NeedsWrite(e) THEN "tmp" ELSE "finish")
          /\ UNCHANGED <<files, locks, cache, kind, stamp, known, result, life, faults>>
     \/ (Fault \/ (h \in Callers /\ NoFault)) /\ Raise(h) /\ UNCHANGED files

\* The temporary file is written now; the next write may fall in the same tick.
WriteTmp(h) ==
  /\ pc[h] = "tmp"
  /\ \/ /\ \E t \in {clock, clock + 1} :
             /\ clock' = t
             /\ stamp' = [stamp EXCEPT ![h] = t]
             /\ coarse' = (coarse \/ t = clock)
        /\ Goto(h, IF main = None THEN "replace" ELSE "backup")
        /\ UNCHANGED <<main, mtime, bak, survivors, locks, cache, kind, buffer, known, result, life, faults>>
     \/ Fault /\ Raise(h) /\ UNCHANGED files

\* What a power failure leaves of a file renamed into place: all of it, as it
\* was synced before.
Flushed(file) == file

\* Defect: the document to be written is kept.
BackupNew(h) ==
  /\ pc[h] = "backup"
  /\ \/ /\ bak' = buffer[h]
        /\ survivors' = survivors \cup {[main |-> main, bak |-> bak']}
        /\ Goto(h, "replace")
        /\ UNCHANGED <<main, mtime, clock, coarse, locks, cache, kind, buffer, stamp, known, result, life, faults>>
     \/ Fault /\ Raise(h) /\ UNCHANGED files

\* A synced copy of the document in place is renamed over the old backup.
Backup(h) ==
  /\ pc[h] = "backup"
  /\ \/ /\ bak' = main
        /\ survivors' = survivors \cup {[main |-> main, bak |-> Flushed(main)]}
        /\ Goto(h, "replace")
        /\ UNCHANGED <<main, mtime, clock, coarse, locks, cache, kind, buffer, stamp, known, result, life, faults>>
     \/ Fault /\ Raise(h) /\ UNCHANGED files

Replace(h) ==
  /\ pc[h] = "replace"
  /\ \/ /\ main' = buffer[h] /\ mtime' = stamp[h]
        /\ survivors' = survivors \cup {[main |-> Flushed(buffer[h]), bak |-> bak]}
        /\ Goto(h, "dirsync")
        /\ UNCHANGED <<bak, clock, coarse, locks, cache, kind, buffer, stamp, known, result, life, faults>>
     \/ Fault /\ Raise(h) /\ UNCHANGED files

\* Defect: the directory is not synced.
SyncDirNever(h) ==
  /\ pc[h] = "dirsync"
  /\ Goto(h, "finish")
  /\ UNCHANGED <<files, locks, cache, kind, buffer, stamp, known, result, life, faults>>

\* When this fails the new document is in place and update raises.
SyncDir(h) ==
  /\ pc[h] = "dirsync"
  /\ \/ /\ survivors' = {[main |-> main, bak |-> bak]}
        /\ Goto(h, "finish")
        /\ UNCHANGED <<main, mtime, bak, clock, coarse, locks, cache, kind, buffer, stamp, known, result, life, faults>>
     \/ Fault /\ Raise(h) /\ UNCHANGED files

\* Defect: the copy taken before the mutator ran is cached.
FinishCachesBefore(h) ==
  /\ pc[h] = "finish"
  /\ cache' = [cache EXCEPT ![Home[h]] =
       [doc |-> [buffer[h] EXCEPT !.done = @ \ {h}], mtime |-> mtime]]
  /\ Leave(h, IF h \in buffer[h].done THEN "ok" ELSE "noop") /\ Drop(h)
  /\ UNCHANGED <<files, kind, known, faults>>

\* The cache is refreshed before the locks are released.
Finish(h) ==
  /\ pc[h] = "finish"
  /\ cache' = [cache EXCEPT ![Home[h]] = [doc |-> buffer[h], mtime |-> mtime]]
  /\ Leave(h, IF h \in buffer[h].done THEN "ok" ELSE "noop") /\ Drop(h)
  /\ UNCHANGED <<files, kind, known, faults>>

Step(h) ==
  \/ LoadCached(h) \/ TakeLocal(h) \/ TakeShared(h) \/ TakeExclusive(h) \/ LoadRead(h)
  \/ ReadDoc(h) \/ WriteTmp(h) \/ Backup(h) \/ Replace(h) \/ SyncDir(h) \/ Finish(h)

----------------------------------------------------------------------------
\* Crashes

Running(h) == pc[h] \notin {"none", "ended"}

\* The threads of the processes P end; the kernel releases their flock.
End(P) ==
  LET killed == {h \in Threads : Home[h] \in P /\ Running(h)} IN
  /\ pc' = [h \in Threads |-> IF h \in killed THEN IF h \in Callers THEN "ended" ELSE "none" ELSE pc[h]]
  /\ result' = [c \in Callers |-> IF c \in killed THEN "lost" ELSE result[c]]
  /\ stamp' = [h \in Threads |-> IF h \in killed THEN 0 ELSE stamp[h]]
  /\ local' = [p \in Processes |-> IF p \in P THEN None ELSE local[p]]
  /\ exclusive' = IF exclusive \in killed THEN None ELSE exclusive
  /\ shared' = shared \ killed
  /\ cache' = [p \in Processes |-> IF p \in P THEN None ELSE cache[p]]
  /\ life' = [p \in Processes |-> IF p \in P THEN "down" ELSE life[p]]
  /\ buffer' = [h \in Threads |-> IF h \in killed THEN Empty ELSE buffer[h]]
  /\ UNCHANGED <<kind, known>>

Crash(p) ==
  /\ life[p] # "down" /\ Fault
  /\ End({p})
  /\ UNCHANGED files

\* The machine stops: the directory is one that reached the disk.  (The mtime
\* of an older document is not kept apart: no cache is left to compare it.)
PowerLoss ==
  /\ Fault
  /\ \E left \in survivors :
       /\ main' = left.main /\ bak' = left.bak
       /\ survivors' = {left}
  /\ End(Processes)
  /\ UNCHANGED <<mtime, clock, coarse>>

Next ==
  \/ \E p \in Processes : Start(p) \/ Crash(p)
  \/ \E c \in Callers, k \in {"load", "update"} : Call(c, k)
  \/ \E h \in Threads : Step(h)
  \/ PowerLoss

Spec == Init /\ [][Next]_vars

----------------------------------------------------------------------------
\* Properties

\* The store is the document it promises.
Promised == INSTANCE Document WITH
  Transactions <- Callers, doc <- Done(main), survivors <- {Done(x.main) : x \in survivors}
Implements == Promised!Spec

\* "without data loss": an update that returned is in the document, whatever
\* was interleaved with it and whenever processes ended or the power failed.
Durable == \A c \in Callers : result[c] = "ok" => c \in Done(main)

\* docs/operations.md: "homelabhq.json.bak contains the immediately preceding
\* validated document", or the same one when the write it was made for failed,
\* also when the power fails between the two renames.
Preceding(older, newer) ==
  \/ older = None \/ Done(newer) = Done(older)
  \/ \E t \in Callers : Done(newer) = Done(older) \cup {t}
BackupIsPrevious == Preceding(bak, main) /\ (main = None => bak = None)

\* "refreshes the cache afterward so the next load() doesn't reparse": the
\* cache is never behind what this process wrote, nor behind another process
\* unless two versions of the file were written in one tick.
LoadIsFresh ==
  \A c \in Callers : kind[c] = "load" /\ result[c] = "noop" =>
    \A t \in known[c] : Home[t] = Home[c] \/ ~coarse => t \in buffer[c].done

\* A thread that waits for _local or for the flock waits for somebody who can
\* move, whatever raised or ended in between.
NoDeadlock ==
  (\E h \in Threads : Running(h)) => \E h \in Threads : ENABLED Step(h)

----------------------------------------------------------------------------
\* The inductive invariant of the proofs (module Store_proofs)

\* Only the holder of the exclusive flock reads to write.
WriterHolds == \A h \in Threads : pc[h] \in Holding => exclusive = h

\* A call is pending from its first step to its last.
PendingRuns ==
  \A c \in Callers :
    /\ Running(c) <=> result[c] = "pending"
    /\ pc[c] = "none" <=> result[c] = "none"

\* What a power failure may leave: each a document and a backup of it or of
\* the one before, with everything that returned; today's is one of them.
Left(x) ==
  /\ Preceding(x.bak, x.main) /\ (x.main = None => x.bak = None)
  /\ \A c \in Callers : result[c] = "ok" => c \in Done(x.main)
Directory == [main |-> main, bak |-> bak] \in survivors /\ \A x \in survivors : Left(x)

\* An update is in no document before its rename.
NotYet ==
  \A c \in Callers : pc[c] \notin {"dirsync", "finish", "ended"} =>
    \A x \in survivors : c \notin Done(x.main)

\* What a writer is about to do.
Adds(h, d) == d.done = Done(main) \/ (h \in Callers /\ d.done = Done(main) \cup {h})
WriterKnows ==
  \A h \in Threads :
    /\ pc[h] \in {"tmp", "backup", "replace"} => Adds(h, buffer[h])
    /\ pc[h] = "backup" => main # None
    /\ pc[h] = "replace" => bak = main
    /\ pc[h] \in {"dirsync", "finish"} => buffer[h].done = Done(main)
    /\ pc[h] = "finish" /\ h \in buffer[h].done => \A x \in survivors : h \in Done(x.main)

IInv == TypeOK /\ WriterHolds /\ PendingRuns /\ Directory /\ NotYet /\ WriterKnows

\* Time: no document is older than what was looked at, and one about to be renamed into
\* place is newer, unless two were written in one tick.
Stamps ==
  /\ mtime <= clock
  /\ \A h \in Threads :
       /\ pc[h] \in {"flockShared", "readShared"} => stamp[h] <= mtime
       /\ pc[h] \in {"backup", "replace"} => stamp[h] = clock /\ (~coarse => stamp[h] > mtime)
  /\ \A p \in Processes : cache[p] # None => cache[p].mtime <= mtime

\* A cache has what its process wrote; when its time is the file's, it is the document.
CacheTrue ==
  \A p \in Processes : cache[p] # None =>
    /\ \A t \in Callers : result[t] = "ok" /\ Home[t] = p => t \in cache[p].doc.done
    /\ ~coarse /\ cache[p].mtime = mtime => cache[p].doc.done = Done(main)

\* What a load under way has to see has returned, and a load never writes.
LoadKnows ==
  /\ \A c \in Callers : kind[c] = "load" /\ result[c] = "pending" => \A t \in known[c] : result[t] = "ok"
  /\ \A h \in Threads : kind[h] = "load" => pc[h] \notin Holding \cup {"flock"}

FreshInv == Stamps /\ CacheTrue /\ LoadKnows /\ LoadIsFresh

\* Who holds a lock is between taking and releasing it.
Inside == Holding \cup {"flock", "flockShared", "readShared"}
LocksHeld ==
  /\ \A p \in Processes : local[p] # None => Home[local[p]] = p /\ pc[local[p]] \in Inside
  /\ exclusive # None => pc[exclusive] \in Holding
  /\ \A h \in shared : pc[h] = "readShared"

\* What the next step of a thread waits for is free; NoDeadlock without ENABLED.
Unblocked(h) ==
  \/ pc[h] \in Holding \cup {"readShared"}
  \/ pc[h] = "local" /\ local[Home[h]] = None
  \/ pc[h] = "flockShared" /\ exclusive = None
  \/ pc[h] = "flock" /\ exclusive = None /\ shared = {}
SomebodyIsUnblocked == (\E h \in Threads : Running(h)) => \E h \in Threads : Unblocked(h)

=============================================================================
