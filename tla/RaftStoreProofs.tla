-------------------------- MODULE RaftStoreProofs --------------------------
(***************************************************************************)
(* Proofs about RaftStore for logs, crashes and counts of any size: typing *)
(* of the indexes, completeness of a replica, and the restart point.       *)
(***************************************************************************)
EXTENDS RaftStore, TLAPS

\* What a goroutine of Commit is, and that none survives a crash.
Goroutines ==
    /\ commits \subseteq Goroutine
    /\ ~up => commits = {} /\ flusher = Idle /\ Sn = 0

LEMMA GoroutinesInit == Init => Goroutines
BY DEF Init, Goroutines

LEMMA GoroutinesStep ==
    ASSUME Goroutines, applied \in Nat, gen \in Nat, [Next]_vars
    PROVE  Goroutines'
<1> USE DEF Goroutines
<1>1. CASE Apply
  BY <1>1 DEF Apply, Goroutine
<1>2. ASSUME NEW c \in commits, CommitStart(c) \/ CommitDump(c) \/ CommitEnd(c)
      PROVE  Goroutines'
  <2>1. \A l \in {"dump", "end"} : [c EXCEPT !.pc = l] \in Goroutine
    BY DEF Goroutine
  <2>2. CASE CommitStart(c)
    BY <2>1, <2>2 DEF CommitStart
  <2>3. CASE CommitDump(c)
    BY <2>1, <2>3 DEF CommitDump
  <2>4. CASE CommitEnd(c)
    BY <2>4 DEF CommitEnd
  <2> QED
    BY <1>2, <2>2, <2>3, <2>4
<1>3. ASSUME NEW k \in Kinds, Submit(k) PROVE Goroutines'
  BY <1>3 DEF Submit
<1>4. ASSUME NEW idx \in 1..Len(log), NEW top \in 1..Len(log), SnapshotBegin(idx, top)
      PROVE  Goroutines'
  BY <1>4 DEF SnapshotBegin
<1>5. CASE FlushTick \/ Flush \/ Truncate
  BY <1>5 DEF FlushTick, Flush, Truncate
<1>6. CASE SnapshotEnd \/ Crash \/ Start
  BY <1>6 DEF SnapshotEnd, Crash, Start
<1>7. CASE UNCHANGED vars
  BY <1>7 DEF vars
<1> QED
  BY <1>1, <1>2, <1>3, <1>4, <1>5, <1>6, <1>7 DEF Next

\* A step of a goroutine adds no sequence number.
LEMMA CommitKeepsSn ==
    ASSUME Goroutines, NEW c \in commits,
           CommitStart(c) \/ CommitDump(c) \/ CommitEnd(c)
    PROVE  \A d \in commits' :
              d \in commits \/ (d.sn = c.sn /\ (d.pc # "end" => c.pc # "end"))
<1> DEFINE d1 == [c EXCEPT !.pc = "dump"]
           d2 == [c EXCEPT !.pc = "end"]
<1>1. d1.sn = c.sn /\ d2.sn = c.sn /\ d1.pc = "dump" /\ d2.pc = "end"
  BY DEF Goroutines, Goroutine
<1> HIDE DEF d1, d2
<1>2. commits' \subseteq commits \cup {d1, d2}
  BY DEF CommitStart, CommitDump, CommitEnd, d1, d2
<1>3. d1 \in commits' => c.pc # "end" \/ d1 \in commits
  BY <1>1 DEF CommitStart, CommitDump, CommitEnd, d1, d2
<1> QED
  BY <1>1, <1>2, <1>3

-----------------------------------------------------------------------------
\* Every index a replica remembers was applied, and all commands up to it are
\* in the engine.  A snapshot under way is newer than all of them.
Indexes ==
    /\ gen \in Nat
    /\ applied \in Nat /\ snFile \in 0..applied /\ first \in 0..applied
    /\ Sn \in 0..applied
    /\ \A c \in commits : c.sn \in 0..applied
    /\ flusher.sn \in 0..applied
    /\ snap = NoSnap \/ (snap.idx \in Nat /\ snap.top \in Nat
                         /\ applied < snap.idx /\ snap.idx <= snap.top)

CInv == Goroutines /\ Indexes /\ (snap = NoSnap => 1..applied \subseteq docs)

LEMMA CInvInit == Init => CInv
BY GoroutinesInit DEF Init, CInv, Indexes, Idle, NoSnap

LEMMA CInvStep ==
    ASSUME ~lost', CInv, [Next]_vars
    PROVE  CInv'
<1> USE DEF CInv, Indexes
<1> Goroutines'
  BY GoroutinesStep
<1>1. ASSUME NEW k \in Kinds, Submit(k) PROVE CInv'
  BY <1>1 DEF Submit
<1>2. CASE Apply
  <2>1. applied' = applied + 1 /\ Sn' = applied' /\ docs' = docs \cup {applied'}
        /\ snap = NoSnap /\ UNCHANGED <<snFile, first, flusher, snap, gen>>
    BY <1>2 DEF Apply
  <2>2. \A c \in commits' : c.sn \in 0..applied'
    BY <1>2, <2>1 DEF Apply
  <2> QED
    BY <2>1, <2>2
<1>3. CASE FlushTick
  BY <1>3 DEF FlushTick
<1>4. CASE Flush
  BY <1>4 DEF Flush, Idle
<1>5. ASSUME NEW c \in commits, CommitStart(c) PROVE CInv'
  <2>1. \A d \in commits' : d \in commits \/ d.sn = c.sn
    BY <1>5, CommitKeepsSn
  <2> QED
    BY <1>5, <2>1 DEF CommitStart
<1>6. ASSUME NEW c \in commits, CommitDump(c) PROVE CInv'
  <2>1. \A d \in commits' : d \in commits \/ d.sn = c.sn
    BY <1>6, CommitKeepsSn
  <2>2. snFile' = c.sn \/ snFile' = snFile
    BY <1>6 DEF CommitDump
  <2> QED
    BY <1>6, <2>1, <2>2 DEF CommitDump
<1>7. ASSUME NEW c \in commits, CommitEnd(c) PROVE CInv'
  BY <1>7 DEF CommitEnd
<1>8. CASE Truncate
  BY <1>8, RaftStoreAssumption DEF Truncate, RaftStoreAssumption
<1>9. ASSUME NEW idx \in 1..Len(log), NEW top \in 1..Len(log), SnapshotBegin(idx, top)
      PROVE  CInv'
  <2>1. snap'.idx = idx /\ snap'.top = top /\ snap' # NoSnap
    BY <1>9 DEF SnapshotBegin, NoSnap
  <2> QED
    BY <1>9, <2>1 DEF SnapshotBegin
<1>10. CASE SnapshotEnd
  BY <1>10 DEF SnapshotEnd
<1>11. CASE Crash
  <2>1. snap = NoSnap
    BY <1>11, Zenon DEF Crash
  <2> QED
    BY <1>11, <2>1 DEF Crash, Idle
<1>12. CASE Start
  BY <1>12 DEF Start, RaftResumes, Goroutines, Idle
<1>13. CASE UNCHANGED vars
  BY <1>13 DEF vars
<1> QED
  BY <1>1, <1>2, <1>3, <1>4, <1>5, <1>6, <1>7, <1>8, <1>9, <1>10, <1>11, <1>12,
     <1>13 DEF Next

\* What the history variables have seen stays seen.
LEMMA OvertakenStays == overtaken /\ [Next]_vars => overtaken'
<1> SUFFICES ASSUME overtaken, [Next]_vars PROVE overtaken'
  OBVIOUS
<1>1. ASSUME NEW c \in commits, CommitStart(c) \/ CommitDump(c) \/ CommitEnd(c) PROVE overtaken'
  BY <1>1 DEF CommitStart, CommitDump, CommitEnd
<1>2. CASE Apply \/ FlushTick \/ Flush \/ Truncate
  BY <1>2, Zenon DEF Apply, FlushTick, Flush, Truncate
<1>3. CASE SnapshotEnd \/ Crash \/ Start
  BY <1>3 DEF SnapshotEnd, Crash, Start
<1> QED
  BY <1>1, <1>2, <1>3 DEF Next, Submit, SnapshotBegin, vars

LEMMA LostStays == lost /\ [Next]_vars => lost'
<1> SUFFICES ASSUME lost, [Next]_vars PROVE lost'
  OBVIOUS
<1>1. ASSUME NEW c \in commits, CommitStart(c) \/ CommitDump(c) \/ CommitEnd(c) PROVE lost'
  BY <1>1 DEF CommitStart, CommitDump, CommitEnd
<1>2. CASE Apply \/ FlushTick \/ Flush \/ Truncate
  BY <1>2 DEF Apply, FlushTick, Flush, Truncate
<1>3. CASE SnapshotEnd \/ Crash \/ Start
  BY <1>3 DEF SnapshotEnd, Crash, Start
<1> QED
  BY <1>1, <1>2, <1>3 DEF Next, Submit, SnapshotBegin, vars

\* As long as no snapshot fails, no order of the flush job, FLUSH commands,
\* truncations, snapshots and crashes leaves a hole in the replica.
THEOREM StoreComplete == Spec => []ReplicaComplete
<1> DEFINE Inv == ~lost => CInv
<1>1. Init => Inv
  BY CInvInit
<1>2. Inv /\ [Next]_vars => Inv'
  BY CInvStep, LostStays
<1>3. Inv => ReplicaComplete
  BY DEF CInv, Indexes, ReplicaComplete, ReplicaWhole
<1> QED
  BY <1>1, <1>2, <1>3, PTL DEF Spec

-----------------------------------------------------------------------------
\* The raft log reaches back to every sn that is, or is about to be, written.
RInv ==
    /\ Goroutines
    /\ applied \in Nat /\ snFile \in Nat /\ first \in Nat /\ appTruncateIndex \in Nat
    /\ first <= snFile /\ snFile <= applied
    /\ Sn = 0 \/ Sn = applied
    /\ flusher = Idle \/ flusher.pc = "flush"
    /\ \A sn \in Dumping :
          sn \in Nat /\ first <= sn /\ sn <= applied /\ applied <= sn + TruncateCount

LEMMA RInvInit == Init => RInv
BY GoroutinesInit DEF Init, RInv, Dumping, Idle

LEMMA RInvStep ==
    ASSUME RInv, gen \in Nat, [Next]_vars,
           gen' = 0, snap = NoSnap, snap' = NoSnap, ~lost', ~overtaken'
    PROVE  RInv'
<1> USE RaftStoreAssumption DEF RInv, RaftStoreAssumption
<1> Goroutines'
  BY GoroutinesStep
<1>1. ASSUME NEW k \in Kinds, Submit(k) PROVE RInv'
  BY <1>1 DEF Submit, Dumping
<1>2. CASE Apply
  <2>1. /\ applied' = applied + 1 /\ Sn' = applied'
        /\ UNCHANGED <<snFile, first, flusher, snap, gen, appTruncateIndex>>
    BY <1>2 DEF Apply
  <2>2. \A sn \in Dumping : ~(applied' > sn + TruncateCount)
    BY <1>2, Zenon DEF Apply
  <2>3. \A sn \in Dumping' : sn \in Dumping \/ sn = applied'
    BY <1>2, <2>1 DEF Apply, Dumping
  <2> QED
    BY <2>1, <2>2, <2>3
<1>3. CASE FlushTick
  <2>1. Sn = applied /\ UNCHANGED <<applied, first, snFile, commits, gen, snap,
                                   Sn, appTruncateIndex>>
    BY <1>3 DEF FlushTick
  <2>2. flusher' # Idle /\ flusher'.sn = applied /\ flusher'.pc = "flush"
    BY <1>3, <2>1 DEF FlushTick, Idle
  <2>3. \A sn \in Dumping' : sn \in Dumping \/ sn = applied
    BY <2>1, <2>2 DEF Dumping
  <2> QED
    BY <2>1, <2>2, <2>3
<1>4. CASE Flush
  <2>1. flusher # Idle /\ flusher' = Idle /\ flusher.sn \in Dumping
    BY <1>4 DEF Flush, Dumping, Idle
  <2>2. \A sn \in Dumping' : sn \in Dumping
    BY <1>4, <2>1 DEF Flush, Dumping
  <2> QED
    BY <1>4, <2>1, <2>2 DEF Flush
<1>5. ASSUME NEW c \in commits, CommitStart(c) \/ CommitDump(c) \/ CommitEnd(c)
      PROVE  RInv'
  <2>1. c.pc # "end" => c.sn \in Dumping
    BY DEF Dumping
  <2>2. /\ UNCHANGED <<applied, first, Sn, flusher, gen, snap, appTruncateIndex>>
        /\ snFile' = snFile \/ (snFile' = c.sn /\ c.pc # "end")
    BY <1>5 DEF CommitStart, CommitDump, CommitEnd
  <2>3. \A d \in commits' : d \in commits \/ (d.sn = c.sn /\ (d.pc # "end" => c.pc # "end"))
    BY <1>5, CommitKeepsSn
  <2>4. \A sn \in Dumping' : sn \in Dumping
    BY <2>1, <2>2, <2>3 DEF Dumping
  <2> QED
    BY <2>1, <2>2, <2>4
<1>6. CASE Truncate
  <2>1. Dumping' = Dumping
    BY <1>6 DEF Truncate, Dumping
  <2>2. first' <= snFile /\ first' \in Nat /\ appTruncateIndex' \in Nat
        /\ (first' = first \/ first' = snFile - TruncateCount)
    BY <1>6 DEF Truncate
  <2>3. \A sn \in Dumping : first' <= sn
    BY <2>2
  <2> QED
    BY <1>6, <2>1, <2>2, <2>3 DEF Truncate
<1>7. ASSUME NEW idx \in 1..Len(log), NEW top \in 1..Len(log), SnapshotBegin(idx, top)
      PROVE  RInv'
  BY <1>7 DEF SnapshotBegin, NoSnap
<1>8. CASE SnapshotEnd
  BY <1>8 DEF SnapshotEnd
<1>9. CASE Crash
  BY <1>9 DEF Crash, Dumping, Idle
<1>10. CASE Start
  <2>1. Dumping' = {} /\ Sn' = 0
    BY <1>10 DEF Start, Dumping, Goroutines
  <2> QED
    BY <1>10, <2>1 DEF Start
<1>11. CASE UNCHANGED vars
  BY <1>11 DEF vars, Dumping
<1> QED
  BY <1>1, <1>2, <1>3, <1>4, <1>5, <1>6, <1>7, <1>8, <1>9, <1>10, <1>11 DEF Next

\* The first snapshot, or a dump that is overtaken, ends the part of a behaviour
\* RInv is about.
Fresh == gen = 0 /\ snap = NoSnap /\ ~lost /\ ~overtaken

LEMMA FreshBefore ==
    ASSUME gen \in Nat, [Next]_vars, Fresh'
    PROVE  Fresh
<1> USE DEF Fresh
<1>1. ~lost /\ ~overtaken
  BY LostStays, OvertakenStays
<1>2. ASSUME NEW c \in commits, CommitStart(c) \/ CommitDump(c) \/ CommitEnd(c) PROVE Fresh
  BY <1>1, <1>2 DEF CommitStart, CommitDump, CommitEnd
<1>3. CASE Apply \/ FlushTick \/ Flush \/ Truncate \/ Start
  BY <1>1, <1>3 DEF Apply, FlushTick, Flush, Truncate, Start
<1>4. CASE SnapshotEnd
  BY <1>4 DEF SnapshotEnd
<1>5. ASSUME NEW idx \in 1..Len(log), NEW top \in 1..Len(log), SnapshotBegin(idx, top)
      PROVE  Fresh
  BY <1>1, <1>5 DEF SnapshotBegin
<1>6. CASE Crash
  <2>1. snap = NoSnap /\ gen = 0
    BY <1>6, Zenon DEF Crash
  <2> QED
    BY <1>1, <2>1
<1> QED
  BY <1>1, <1>2, <1>3, <1>4, <1>5, <1>6 DEF Next, Submit, vars

LEMMA GenNat == gen \in Nat /\ [Next]_vars => gen' \in Nat
<1> SUFFICES ASSUME gen \in Nat, [Next]_vars PROVE gen' \in Nat
  OBVIOUS
<1>1. ASSUME NEW c \in commits, CommitStart(c) \/ CommitDump(c) \/ CommitEnd(c)
      PROVE  gen' \in Nat
  BY <1>1 DEF CommitStart, CommitDump, CommitEnd
<1>2. CASE Apply \/ FlushTick \/ Flush \/ Truncate
  BY <1>2 DEF Apply, FlushTick, Flush, Truncate
<1>3. CASE SnapshotEnd \/ Crash \/ Start
  BY <1>3 DEF SnapshotEnd, Crash, Start
<1> QED
  BY <1>1, <1>2, <1>3 DEF Next, Submit, SnapshotBegin, vars

\* As long as no more than TruncateCount commands are applied during one dump, raft
\* finds its restart point in the log, although Commit writes the sn file out of
\* order and nothing in innerApply waits for it.
THEOREM StoreRestarts == Spec => []RestartPoint
<1> DEFINE Inv == gen \in Nat /\ (Fresh => RInv)
<1>1. Init => Inv
  BY RInvInit DEF Init
<1>2. Inv /\ [Next]_vars => Inv'
  <2> SUFFICES ASSUME Inv, [Next]_vars, Fresh' PROVE RInv'
    BY GenNat
  <2>1. Fresh
    BY FreshBefore
  <2> QED
    BY <2>1, RInvStep DEF Fresh
<1>3. Inv => RestartPoint
  BY DEF RInv, Fresh, RestartPoint
<1> QED
  BY <1>1, <1>2, <1>3, PTL DEF Spec
-----------------------------------------------------------------------------
\* What is remembered of the log, on disk, by a goroutine or by a snapshot, is in it.
Ranges ==
    /\ TypeOK /\ Goroutines
    /\ first \in 0..Len(log) /\ flusher.sn \in 0..Len(log)
    /\ \A c \in commits : c.sn \in 0..Len(log) /\ c.gen \in 0..gen
    /\ snap = NoSnap \/ (up /\ applied < snap.idx /\ snap.idx <= Len(log)
                            /\ snap.top \in 0..Len(log))

LEMMA RangesInit == Init => Ranges
<1> SUFFICES ASSUME Init PROVE Ranges
  OBVIOUS
<1>1. log \in Seq(Kinds) /\ Len(log) = 0
  BY DEF Init
<1>2. up \in BOOLEAN /\ lost \in BOOLEAN /\ overtaken \in BOOLEAN
  BY Zenon DEF Init
<1>3. /\ first = 0 /\ applied = 0 /\ docs = {} /\ snFile = 0 /\ Sn = 0 /\ appTruncateIndex = 0
      /\ gen = 0 /\ locked = {} /\ running = {} /\ commits = {} /\ snap = NoSnap
      /\ waiting = {} /\ crashes = 0
  BY DEF Init
<1>4. flusher \in [pc : {"idle", "flush"}, sn : Nat] /\ flusher.sn = 0
      /\ snap \in [idx : Nat, top : Nat]
  BY DEF Init, Idle, NoSnap
<1> QED
  BY <1>1, <1>2, <1>3, <1>4, GoroutinesInit DEF Ranges, TypeOK

LEMMA RangesStep ==
    ASSUME Ranges, [Next]_vars
    PROVE  Ranges'
<1> USE DEF Ranges, TypeOK
<1> Goroutines'
  BY GoroutinesStep
<1>1. ASSUME NEW k \in Kinds, Submit(k) PROVE Ranges'
  <2>1. Len(log') = Len(log) + 1 /\ log' \in Seq(Kinds) /\ Len(log) \in Nat
    BY <1>1 DEF Submit
  <2>2. waiting' \subseteq 1..Len(log')
    <3>1. waiting' \subseteq waiting \cup {Len(log')}
      BY <1>1, Zenon DEF Submit
    <3> QED
      BY <2>1, <3>1
  <2>3. UNCHANGED <<first, applied, up, docs, snFile, Sn, appTruncateIndex, gen,
                    locked, running, commits, flusher, snap, crashes, lost, overtaken>>
    BY <1>1 DEF Submit
  <2> QED
    BY <2>1, <2>2, <2>3
<1>2. CASE Apply
  <2>1. /\ applied' = applied + 1 /\ applied' \in 0..Len(log) /\ Sn' = applied'
        /\ docs' = docs \cup {applied'} /\ snap = NoSnap
        /\ UNCHANGED <<log, first, up, snFile, appTruncateIndex, gen, locked,
                       running, flusher, snap, waiting, crashes, lost>>
    BY <1>2 DEF Apply
  <2>3. overtaken' \in BOOLEAN
    BY <1>2, Zenon DEF Apply
  <2>2. \A c \in commits' : c.sn \in 0..Len(log) /\ c.gen \in 0..gen
    BY <1>2, <2>1 DEF Apply
  <2> QED
    BY <2>1, <2>2, <2>3 DEF Goroutines
<1>3. CASE FlushTick
  BY <1>3 DEF FlushTick
<1>4. CASE Flush
  BY <1>4 DEF Flush, Idle
<1>5. ASSUME NEW c \in commits, CommitStart(c) \/ CommitDump(c) \/ CommitEnd(c)
      PROVE  Ranges'
  <2>1. \A d \in commits' : d.sn \in 0..Len(log) /\ d.gen \in 0..gen
    <3> DEFINE d1 == [c EXCEPT !.pc = "dump"]
               d2 == [c EXCEPT !.pc = "end"]
    <3>1. d1.sn = c.sn /\ d2.sn = c.sn /\ d1.gen = c.gen /\ d2.gen = c.gen
      BY DEF Goroutine
    <3> HIDE DEF d1, d2
    <3>2. commits' \subseteq commits \cup {d1, d2}
      BY <1>5 DEF CommitStart, CommitDump, CommitEnd, d1, d2
    <3> QED
      BY <3>1, <3>2
  <2>2. /\ UNCHANGED <<log, first, applied, up, docs, Sn, appTruncateIndex, gen,
                       flusher, snap, crashes, lost, overtaken>>
        /\ snFile' \in {snFile, c.sn} /\ waiting' \subseteq waiting
        /\ locked' \subseteq locked \cup {c.gen} /\ running' \subseteq running \cup {c.gen}
    BY <1>5 DEF CommitStart, CommitDump, CommitEnd
  <2> QED
    BY <2>1, <2>2 DEF Goroutines
<1>6. CASE Truncate
  BY <1>6, RaftStoreAssumption DEF Truncate, RaftStoreAssumption
<1>7. ASSUME NEW idx \in 1..Len(log), NEW top \in 1..Len(log), SnapshotBegin(idx, top)
      PROVE  Ranges'
  <2>1. /\ UNCHANGED <<log, first, applied, up, Sn, appTruncateIndex, gen, locked,
                       running, commits, flusher, waiting, crashes, lost, overtaken>>
        /\ docs' = {} /\ snFile' = 0
        /\ snap' \in [idx : Nat, top : Nat] /\ snap'.idx = idx /\ snap'.top = top
        /\ up /\ applied < idx
    BY <1>7 DEF SnapshotBegin
  <2> QED
    BY <2>1
<1>8. CASE SnapshotEnd
  <2>1. /\ UNCHANGED <<log, up, Sn, appTruncateIndex, locked, running, commits,
                       flusher, waiting, crashes, overtaken>>
        /\ applied' = snap.idx /\ first' = snap.idx /\ gen' = gen + 1 /\ snap' = NoSnap
        /\ snap # NoSnap
    BY <1>8 DEF SnapshotEnd
  <2>2. lost' \in BOOLEAN
    BY <1>8, Zenon DEF SnapshotEnd
  <2>3. \/ docs' = 1..snap.top /\ snFile' = snap.idx
        \/ UNCHANGED <<docs, snFile>>
    BY <1>8 DEF SnapshotEnd
  <2>4. snap' \in [idx : Nat, top : Nat]
    BY <2>1 DEF NoSnap
  <2>5. 0..gen \subseteq 0..gen'
    BY <2>1
  <2> QED
    <3>1. applied' \in 0..Len(log') /\ first' \in 0..Len(log') /\ Sn' \in 0..applied'
          /\ docs' \subseteq 1..Len(log') /\ snFile' \in 0..Len(log')
      <4>1. applied < snap.idx /\ snap.idx <= Len(log) /\ snap.top \in 0..Len(log)
            /\ snap.idx \in Nat /\ Len(log) \in Nat
        BY <2>1
      <4>2. 1..snap.top \subseteq 1..Len(log)
        BY <4>1
      <4>3. docs' \subseteq 1..Len(log) /\ snFile' \in 0..Len(log)
        <5>1. CASE docs' = 1..snap.top /\ snFile' = snap.idx
          BY <4>1, <4>2, <5>1
        <5>2. CASE UNCHANGED <<docs, snFile>>
          BY <5>2
        <5> QED
          BY <2>3, <5>1, <5>2
      <4> QED
        BY <2>1, <4>1, <4>3
    <3>2. /\ gen' \in Nat /\ locked' \subseteq 0..gen' /\ running' \subseteq 0..gen'
          /\ \A c \in commits' : c.sn \in 0..Len(log') /\ c.gen \in 0..gen'
      BY <2>1, <2>5
    <3>3. log' = log /\ up' = up /\ flusher' = flusher /\ waiting' = waiting
          /\ commits' = commits /\ crashes' = crashes /\ appTruncateIndex' = appTruncateIndex
          /\ overtaken' = overtaken
      BY <2>1
    <3> QED
      BY <2>1, <2>2, <2>4, <3>1, <3>2, <3>3
<1>9. CASE Crash
  <2>1. lost' \in BOOLEAN /\ up' \in BOOLEAN
    BY <1>9, Zenon DEF Crash
  <2> QED
    <3>1. flusher' \in [pc : {"idle", "flush"}, sn : Nat] /\ flusher'.sn = 0
          /\ snap' \in [idx : Nat, top : Nat] /\ snap' = NoSnap
      BY <1>9 DEF Crash, Idle, NoSnap
    <3>2. /\ UNCHANGED <<log, first, applied, docs, snFile, appTruncateIndex, gen, overtaken>>
          /\ Sn' = 0 /\ locked' = {} /\ running' = {} /\ commits' = {}
          /\ waiting' = {} /\ crashes' = crashes + 1
      BY <1>9 DEF Crash
    <3> QED
      BY <2>1, <3>1, <3>2
<1>10. CASE Start
  BY <1>10 DEF Start, RaftResumes, Goroutines
<1>11. CASE UNCHANGED vars
  BY <1>11 DEF vars
<1> QED
  BY <1>1, <1>2, <1>3, <1>4, <1>5, <1>6, <1>7, <1>8, <1>9, <1>10, <1>11 DEF Next

\* Whatever the order of commands, dumps, truncations, snapshots and crashes, the
\* sn file, the Applied that Start takes from it and the indexes the engine has
\* stay within the raft log, and Sn never runs ahead of what raft applied.
THEOREM StoreTypeCorrect == Spec => []TypeOK
<1>1. Ranges => TypeOK
  BY DEF Ranges
<1> QED
  BY <1>1, RangesInit, RangesStep, PTL DEF Spec

=============================================================================
