------------------------------ MODULE RaftStore ------------------------------
(***************************************************************************)
(* One replica of a partition: the raft state machine of the store         *)
(* (ps/storage/raftstore) over the gamma engine (ps/engine/gammacb).  Raft *)
(* hands committed commands to Apply; the flush job and the FLUSH commands *)
(* write the sn file, from which raft resumes after a restart; the         *)
(* truncate job cuts the raft log by that file; a follower that is too far *)
(* behind has its engine replaced by a snapshot.                           *)
(*                                                                         *)
(* A crash is one of the process: what the engine wrote to its files stays *)
(* (documents are in RocksDB), what is in memory is lost.  The engine is   *)
(* the set of log indexes whose command it contains; a command applied     *)
(* twice is idempotent (upsert, delete, an index that exists already).     *)
(***************************************************************************)
EXTENDS Naturals, Sequences, FiniteSets

CONSTANTS
    MaxIndex,       \* bound on the length of the raft log
    MaxCrashes,     \* bound on the crashes
    MaxSnapshots,   \* bound on the snapshots received
    TruncateCount,  \* config.PS.RaftTruncateCount
    Overlap,        \* whether a FLUSH may be applied while a Commit runs
    WriteFails      \* whether the sn file of a Commit may fail to be written

ASSUME RaftStoreAssumption ==
    /\ MaxIndex \in Nat /\ MaxCrashes \in Nat /\ MaxSnapshots \in Nat
    /\ TruncateCount \in Nat \ {0}
    /\ Overlap \in BOOLEAN /\ WriteFails \in BOOLEAN

VARIABLES
    log,       \* kinds of the committed commands
    first,     \* last index truncated from the raft log
    applied,   \* last index raft applied
    up,        \* whether the process runs
    docs,      \* indexes whose command the engine contains
    snFile,    \* the sn file, 0 when there is none
    Sn,        \* Store.Sn
    appTruncateIndex, \* last truncation of the truncate job
    gen,       \* engines built so far by this process, one lock each
    locked,    \* engines whose lock is held for ever
    running,   \* engines with a Commit under way: writerImpl.running
    commits,   \* goroutines of Commit
    flusher,   \* the flush job: whether it is in Flush, and its tempSn
    snap,      \* the snapshot that is being applied
    waiting,   \* FLUSH commands whose Store.Flush waits for FlushC
    crashes,
    lost,      \* history: whether a snapshot failed, or was cut by a crash
    overtaken  \* history: more than TruncateCount commands were applied during a dump

vars == <<log, first, applied, up, docs, snFile, Sn, appTruncateIndex, gen,
          locked, running, commits, flusher, snap, waiting, crashes, lost,
          overtaken>>

Kinds == {"write", "index", "flush"}

Idle == [pc |-> "idle", sn |-> 0]

NoSnap == [idx |-> 0, top |-> 0]

Goroutine == [sn : Nat, gen : Nat, pc : {"start", "dump", "end"}]

TypeOK ==
    /\ log \in Seq(Kinds)
    /\ first \in Nat /\ applied \in 0..Len(log) /\ up \in BOOLEAN
    /\ docs \in SUBSET (1..Len(log)) /\ snFile \in 0..Len(log)
    /\ Sn \in 0..applied /\ appTruncateIndex \in Nat
    /\ gen \in Nat /\ locked \in SUBSET (0..gen) /\ running \in SUBSET (0..gen)
    /\ commits \in SUBSET Goroutine
    /\ flusher \in [pc : {"idle", "flush"}, sn : Nat]
    /\ snap \in [idx : Nat, top : Nat]
    /\ waiting \in SUBSET (1..Len(log)) /\ crashes \in Nat /\ lost \in BOOLEAN
    /\ overtaken \in BOOLEAN

Init ==
    /\ log = <<>> /\ first = 0 /\ applied = 0 /\ up = TRUE
    /\ docs = {} /\ snFile = 0 /\ Sn = 0 /\ appTruncateIndex = 0
    /\ gen = 0 /\ locked = {} /\ running = {} /\ commits = {}
    /\ flusher = Idle /\ snap = NoSnap /\ waiting = {} /\ crashes = 0 /\ lost = FALSE
    /\ overtaken = FALSE

-----------------------------------------------------------------------------
(* Commands.                                                               *)

\* Write, UpdateSpace, IndexChange or Flush submits a command and raft commits it.
Submit(k) ==
    /\ up /\ Len(log) < MaxIndex
    /\ log' = Append(log, k)
    /\ waiting' = IF k = "flush" THEN waiting \cup {Len(log')} ELSE waiting
    /\ UNCHANGED <<first, applied, up, docs, snFile, Sn, appTruncateIndex, gen,
                   locked, running, commits, flusher, snap, crashes, lost, overtaken>>

\* The sequence numbers the flush job and the Commits are about to write.
Dumping == {c.sn : c \in {d \in commits : d.pc # "end"}} \cup (IF flusher = Idle THEN {} ELSE {flusher.sn})

\* Slip: a command counts as applied before the engine has it.
ApplyEarly ==
    /\ up /\ snap = NoSnap /\ applied < Len(log)
    /\ log[applied + 1] = "index" => gen \notin locked
    /\ log[applied + 1] = "flush" => Overlap \/ commits = {}
    /\ applied' = applied + 1 /\ Sn' = applied'
    /\ docs' = IF log[applied'] = "flush" THEN docs ELSE docs \cup 1..applied
    /\ commits' = IF log[applied'] = "flush"
                  THEN commits \cup {[sn |-> applied', gen |-> gen, pc |-> "start"]}
                  ELSE commits
    /\ UNCHANGED <<log, first, up, snFile, appTruncateIndex, gen, locked,
                   running, flusher, snap, waiting, crashes, lost, overtaken>>

\* innerApply: the engine takes the command, FLUSH starts a Commit, and Sn is
\* set.  An index change takes the lock of the engine.
Apply ==
    /\ up /\ snap = NoSnap /\ applied < Len(log)
    /\ log[applied + 1] = "index" => gen \notin locked
    /\ log[applied + 1] = "flush" => Overlap \/ commits = {}
    /\ applied' = applied + 1 /\ Sn' = applied'
    /\ docs' = docs \cup {applied'}
    /\ overtaken' = (overtaken \/ \E sn \in Dumping : applied' > sn + TruncateCount)
    /\ commits' = IF log[applied'] = "flush"
                  THEN commits \cup {[sn |-> applied', gen |-> gen, pc |-> "start"]}
                  ELSE commits
    /\ UNCHANGED <<log, first, up, snFile, appTruncateIndex, gen, locked,
                   running, flusher, snap, waiting, crashes, lost>>

-----------------------------------------------------------------------------
(* The sn file: the flush job and the goroutines of Commit.                *)

\* A tick of the flush job that decides to flush.  Its thresholds look at the
\* time and at the documents and vectors the engine indexed since.
FlushTick ==
    /\ up /\ snap = NoSnap /\ flusher = Idle /\ Sn # 0
    /\ flusher' = [pc |-> "flush", sn |-> Sn]
    /\ UNCHANGED <<log, first, applied, up, docs, snFile, Sn, appTruncateIndex,
                   gen, locked, running, commits, snap, waiting, crashes, lost, overtaken>>

\* Writer.Flush, all of it under the lock of the engine.
Flush ==
    /\ flusher.pc = "flush" /\ gen \notin locked
    /\ snFile' \in {flusher.sn, snFile}
    /\ flusher' = Idle
    /\ UNCHANGED <<log, first, applied, up, docs, Sn, appTruncateIndex, gen,
                   locked, running, commits, snap, waiting, crashes, lost, overtaken>>

\* The goroutine takes the lock.  If a Commit runs it answers nil and returns
\* with the lock held.
CommitStart(c) ==
    /\ c.pc = "start" /\ c.gen \notin locked
    /\ IF c.gen \in running
       THEN /\ commits' = commits \ {c}
            /\ waiting' = waiting \ {c.sn}
            /\ locked' = locked \cup {c.gen}
            /\ UNCHANGED running
       ELSE /\ commits' = (commits \ {c}) \cup {[c EXCEPT !.pc = "dump"]}
            /\ running' = running \cup {c.gen}
            /\ UNCHANGED <<waiting, locked>>
    /\ UNCHANGED <<log, first, applied, up, docs, snFile, Sn, appTruncateIndex,
                   gen, flusher, snap, crashes, lost, overtaken>>

\* Dump and the sn file, without the lock.  A failed Dump is answered, a sn
\* file that cannot be written is not: its directory is gone while a snapshot
\* is applied.
CommitDump(c) ==
    /\ c.pc = "dump"
    /\ \/ snap = NoSnap /\ snFile' = c.sn /\ waiting' = waiting \ {c.sn}
       \/ waiting' = waiting \ {c.sn} /\ UNCHANGED snFile
       \/ (WriteFails \/ snap # NoSnap) /\ UNCHANGED <<snFile, waiting>>
    /\ commits' = (commits \ {c}) \cup {[c EXCEPT !.pc = "end"]}
    /\ UNCHANGED <<log, first, applied, up, docs, Sn, appTruncateIndex, gen,
                   locked, running, flusher, snap, crashes, lost, overtaken>>

\* Slip: running is not reset.
CommitEndRunning(c) ==
    /\ c.pc = "end" /\ c.gen \notin locked
    /\ commits' = commits \ {c}
    /\ UNCHANGED <<log, first, applied, up, docs, snFile, Sn, appTruncateIndex,
                   gen, locked, running, flusher, snap, waiting, crashes, lost, overtaken>>

\* The deferred reset of running, under the lock.
CommitEnd(c) ==
    /\ c.pc = "end" /\ c.gen \notin locked
    /\ commits' = commits \ {c}
    /\ running' = running \ {c.gen}
    /\ UNCHANGED <<log, first, applied, up, docs, snFile, Sn, appTruncateIndex,
                   gen, locked, flusher, snap, waiting, crashes, lost, overtaken>>

-----------------------------------------------------------------------------
(* Truncation, snapshots and restarts.                                     *)

\* Slip: the log is cut at the flushed index itself.
TruncateAll ==
    /\ up /\ snap = NoSnap /\ gen \notin locked
    /\ snFile > appTruncateIndex + TruncateCount
    /\ appTruncateIndex' = snFile
    /\ first' = snFile
    /\ UNCHANGED <<log, applied, up, docs, snFile, Sn, gen, locked, running,
                   commits, flusher, snap, waiting, crashes, lost, overtaken>>

\* The truncate job reads the sn file and keeps TruncateCount commands below.
Truncate ==
    /\ up /\ snap = NoSnap /\ gen \notin locked
    /\ snFile > appTruncateIndex + TruncateCount
    /\ appTruncateIndex' = snFile - TruncateCount
    /\ first' = IF first < appTruncateIndex' THEN appTruncateIndex' ELSE first
    /\ UNCHANGED <<log, applied, up, docs, snFile, Sn, gen, locked, running,
                   commits, flusher, snap, waiting, crashes, lost, overtaken>>

\* ApplySnapshot closes the engine, waits for the calls that are counted and
\* removes the data.  The snapshot has the sn of the sender and the documents
\* of its checkpoint, which is not older.
SnapshotBegin(idx, top) ==
    /\ up /\ snap = NoSnap /\ flusher = Idle /\ gen < MaxSnapshots
    /\ applied < idx /\ idx <= top
    /\ snap' = [idx |-> idx, top |-> top]
    /\ docs' = {} /\ snFile' = 0
    /\ UNCHANGED <<log, first, applied, up, Sn, appTruncateIndex, gen, locked,
                   running, commits, flusher, waiting, crashes, lost, overtaken>>

\* The files are in place or, if the transfer failed, an empty engine is
\* built: the error is logged.  Raft continues after the index of the snapshot.
SnapshotEnd ==
    /\ up /\ snap # NoSnap
    /\ \/ docs' = 1..snap.top /\ snFile' = snap.idx /\ UNCHANGED lost
       \/ lost' = TRUE /\ UNCHANGED <<docs, snFile>>
    /\ applied' = snap.idx /\ first' = snap.idx
    /\ gen' = gen + 1
    /\ snap' = NoSnap
    /\ UNCHANGED <<log, up, Sn, appTruncateIndex, locked, running, commits,
                   flusher, waiting, crashes, overtaken>>

Crash ==
    /\ up /\ crashes < MaxCrashes
    /\ crashes' = crashes + 1
    /\ up' = FALSE /\ Sn' = 0 /\ locked' = {} /\ running' = {} /\ commits' = {}
    /\ flusher' = Idle /\ snap' = NoSnap /\ waiting' = {}
    /\ lost' = (lost \/ snap # NoSnap)
    /\ UNCHANGED <<log, first, applied, docs, snFile, appTruncateIndex, gen,
                   overtaken>>

\* Where raft resumes: at Applied, or at the start of its log when that is 0.
\* Applied must not be before the start of the log.
RaftResumes == snFile = 0 \/ first <= snFile

\* Start: the sn file becomes Applied and the start of the truncate job.
Start ==
    /\ ~up /\ RaftResumes
    /\ up' = TRUE
    /\ applied' = IF snFile = 0 THEN first ELSE snFile
    /\ appTruncateIndex' = snFile
    /\ UNCHANGED <<log, first, docs, snFile, Sn, gen, locked, running, commits,
                   flusher, snap, waiting, crashes, lost, overtaken>>

-----------------------------------------------------------------------------
Next ==
    \/ \E k \in Kinds : Submit(k)
    \/ Apply \/ FlushTick \/ Flush
    \/ \E c \in commits : CommitStart(c) \/ CommitDump(c) \/ CommitEnd(c)
    \/ Truncate
    \/ \E idx, top \in 1..Len(log) : SnapshotBegin(idx, top)
    \/ SnapshotEnd \/ Crash \/ Start

Spec == Init /\ [][Next]_vars

\* Raft applies what it committed, the goroutines run, a replica is restarted
\* and a snapshot ends.  Nothing makes the jobs, a client or a crash act.
FairSpec ==
    /\ Spec
    /\ WF_vars(Apply) /\ WF_vars(Flush) /\ WF_vars(SnapshotEnd) /\ WF_vars(Start)
    /\ WF_vars(\E c \in commits : CommitStart(c) \/ CommitDump(c) \/ CommitEnd(c))

-----------------------------------------------------------------------------
(* Properties.                                                             *)

\* Until a snapshot is received, the log still has every command after the sn
\* file, so raft can resume there.  FLUSH commands and the flush job may write
\* the file out of order, and TruncateCount makes up for it.  Nothing keeps
\* innerApply from applying more commands than that while one dump runs; a
\* replica where that happened is left out, and may not start again.
RestartPoint ==
    gen = 0 /\ snap = NoSnap /\ ~lost /\ ~overtaken => first <= snFile

\* What raft does not replay any more is in the engine: the commands it applied
\* while the replica runs, and those it truncated or would skip after a crash.
\* Raft relies on it for every replica.
ReplicaWhole ==
    /\ up /\ snap = NoSnap => 1..applied \subseteq docs
    /\ snap = NoSnap => 1..first \subseteq docs /\ 1..snFile \subseteq docs

\* The same of a replica all of whose snapshots succeeded, whatever the order
\* of the jobs, the FLUSH commands, the snapshots and the crashes.
ReplicaComplete == ~lost => ReplicaWhole

\* Every Flush of a client is answered unless the process crashes.
FlushAnswered == \A i \in 1..MaxIndex : i \in waiting ~> i \notin waiting
=============================================================================
