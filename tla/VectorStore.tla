---- MODULE VectorStore ----
(***************************************************************************)
(* One vector field of a partition: the raw vectors, the vector index that *)
(* the indexing thread keeps behind them, the realtime buffer in front of  *)
(* the index, the dump a flush takes of the index, and what a restart      *)
(* loads (vector_manager.cc, raw_vector.cc and its stores, index_io.cc and *)
(* the index models' Add / Update / Dump / Load).                          *)
(*                                                                         *)
(* Three threads of the code share this state without a common lock: the   *)
(* applier (AddToStore, Update, Delete), the indexing thread               *)
(* (AddRTVecsToIndex) and the flush job (Dump).  A step is what happens    *)
(* between two points at which another thread may see a difference.        *)
(*                                                                         *)
(* A vector is a number: the value the store holds and, for the IVF        *)
(* indexes, the list the coarse quantizer assigns it to.  lists[d] is the  *)
(* sequence of unmasked index entries with vector id d in the order they   *)
(* were written; vid_bucket_no_pos_ points at the last of them.  For HNSW  *)
(* the graph node keeps no copy of the vector: only presence counts.       *)
(***************************************************************************)
EXTENDS Integers, Sequences, FiniteSets, SequencesExt

CONSTANTS Keys,       \* primary keys of the documents
          Vals,       \* vectors, a set of positive integers
          Envs,       \* configurations: [store, index, rt]
          Batch,      \* MAX_NUM_PER_INDEX
          MaxOps(_),  \* operations the raft log may hold, with an index of this type
          MaxDocs,    \* docids
          MaxDumps,   \* flushes
          MaxCrashes  \* crashes of the process

ASSUME VectorStoreAssumption ==
  /\ Vals \subseteq Nat \ {0}
  /\ {Batch, MaxDocs, MaxDumps, MaxCrashes} \subseteq Nat
  /\ \A e \in Envs : MaxOps(e.index) \in Nat
  /\ Batch > 0

Docids == 0 .. MaxDocs - 1
None == 0      \* no vector
NoDoc == -1    \* the key has no document

VARIABLES env,     \* the space's store type, index type and enable_realtime
          log,     \* the raft log from the last flushed operation on
          next,    \* how many of them this process has applied
          disk,    \* what survives a crash
          idx,     \* the IndexModel in memory
          queue,   \* updated_vids_
          buf,     \* the MemoryBufferRawVector
          dirty,   \* is_dirty_
          ap,      \* the applier
          ix,      \* the indexing thread
          du,      \* the flush job
          up,      \* "up", "down" or "failed" (Load returned an error)
          why,     \* the unclean dumps the loaded index descends from
          ops, crashes, dumps

vars == <<env, log, next, disk, idx, queue, buf, dirty, ap, ix, du, up, why, ops, crashes, dumps>>

IVF == env.index \in {"IVFPQ", "IVFFLAT"}

NoLists == [d \in Docids |-> <<>>]
Idle == [pc |-> "idle"]

Entries(ls) == FoldFunction(LAMBDA s, n : n + Len(s), 0, ls)

EmptyDump == [done |-> FALSE, lists |-> NoLists, own |-> 0, count |-> 0, why |-> {}]

Init ==
  /\ env \in Envs
  /\ log = <<>> /\ next = 0
  /\ disk = [vec |-> [d \in Docids |-> None], key |-> [k \in Keys |-> NoDoc], total |-> 0,
             bits |-> {}, count |-> 0, dump |-> EmptyDump]
  /\ idx = [lists |-> NoLists, own |-> 0, count |-> 0]
  /\ queue = <<>>
  /\ buf = [held |-> [d \in Docids |-> None], size |-> 0, from |-> 0]
  /\ dirty = FALSE
  /\ ap = Idle /\ ix = Idle /\ du = Idle
  /\ up = "up" /\ why = {} /\ ops = 0 /\ crashes = 0 /\ dumps = 0

---------------------------------------------------------------------------
(* The applier.                                                            *)

Propose(op) ==
  /\ up = "up" /\ next = Len(log) /\ ap.pc = "idle" /\ ops < MaxOps(env.index)
  /\ log' = Append(log, op)
  /\ ops' = ops + 1
  /\ UNCHANGED <<env, next, disk, idx, queue, buf, dirty, ap, ix, du, up, why, crashes, dumps>>

Current == log[next + 1]

Applied == next' = next + 1 /\ dirty' = TRUE /\ ap' = Idle

(* RocksDB and memory stores alike keep a vector under its docid. *)
Stored(d, v) == [disk EXCEPT !.vec[d] = v]

(* RawVector::Add: the vector goes to the store under the current size,    *)
(* then size_ grows.  With realtime the buffer's Add follows.              *)
AddToStore ==
  /\ up = "up" /\ ap.pc = "idle" /\ next < Len(log)
  /\ Current.kind = "put" /\ disk.key[Current.key] = NoDoc
  /\ disk.total < MaxDocs
  /\ disk' = [Stored(disk.total, Current.val) EXCEPT !.key[Current.key] = disk.total, !.total = @ + 1]
  /\ IF env.rt THEN ap' = [pc |-> "add"] /\ UNCHANGED <<next, dirty>>
               ELSE Applied
  /\ UNCHANGED <<env, log, idx, queue, buf, ix, du, up, why, ops, crashes, dumps>>

(* MemoryBufferRawVector through RawVector::Add: the buffer places the     *)
(* vector by its own size.                                                 *)
AddToBuffer ==
  /\ up = "up" /\ ap.pc = "add"
  /\ buf' = [buf EXCEPT !.held[buf.size] = Current.val, !.size = @ + 1]
  /\ Applied
  /\ UNCHANGED <<env, log, disk, idx, queue, ix, du, up, why, ops, crashes, dumps>>

(* VectorManager::Update: the raw store first. *)
UpdateToStore ==
  /\ up = "up" /\ ap.pc = "idle" /\ next < Len(log)
  /\ Current.kind = "put" /\ disk.key[Current.key] # NoDoc
  /\ disk' = Stored(disk.key[Current.key], Current.val)
  /\ ap' = [pc |-> IF env.rt THEN "buffer" ELSE "push", doc |-> disk.key[Current.key]]
  /\ UNCHANGED <<env, log, next, idx, queue, buf, dirty, ix, du, up, why, ops, crashes, dumps>>

(* MemoryBufferRawVector::UpdateToStore behind RawVector::Update: a docid  *)
(* the buffer does not have ends the whole update, an indexed one is left. *)
UpdateToBuffer ==
  /\ up = "up" /\ ap.pc = "buffer"
  /\ \/ /\ ap.doc >= buf.size
        /\ Applied
        /\ UNCHANGED buf
     \/ /\ ap.doc < buf.size
        /\ buf' = IF ap.doc < buf.from THEN buf
                  ELSE [buf EXCEPT !.held[ap.doc] = Current.val]
        /\ ap' = [ap EXCEPT !.pc = "push"]
        /\ UNCHANGED <<next, dirty>>
  /\ UNCHANGED <<env, log, disk, idx, queue, ix, du, up, why, ops, crashes, dumps>>

(* Mutant: the updated id is not queued for the index. *)
PushNothing ==
  /\ up = "up" /\ ap.pc = "push"
  /\ UNCHANGED queue
  /\ Applied
  /\ UNCHANGED <<env, log, disk, idx, buf, ix, du, up, why, ops, crashes, dumps>>

PushUpdated ==
  /\ up = "up" /\ ap.pc = "push"
  /\ queue' = Append(queue, ap.doc)
  /\ Applied
  /\ UNCHANGED <<env, log, disk, idx, buf, ix, du, up, why, ops, crashes, dumps>>

(* Engine::Delete and VectorManager::Delete: the docid is marked, the raw  *)
(* vector removed; the index models only count the deletion.               *)
Delete ==
  /\ up = "up" /\ ap.pc = "idle" /\ next < Len(log)
  /\ Current.kind = "del"
  /\ LET d == disk.key[Current.key] IN
       IF d = NoDoc
       THEN next' = next + 1 /\ UNCHANGED <<disk, dirty, ap>>
       ELSE /\ disk' = [Stored(d, None) EXCEPT !.bits = @ \cup {d}, !.key[Current.key] = NoDoc]
            /\ Applied
  /\ UNCHANGED <<env, log, idx, queue, buf, ix, du, up, why, ops, crashes, dumps>>

---------------------------------------------------------------------------
(* The indexing thread: AddRTVecsToIndex, one round after another.         *)

(* A round reads its upper end once and takes batches until it is reached. *)
(* Gets: a missing vector leaves its place in the batch unwritten.         *)
Gets ==
  /\ up = "up" /\ ix.pc \in {"idle", "batch"}
  /\ LET total == IF ix.pc = "idle" THEN disk.total ELSE ix.total
         n == IF total - idx.count < Batch THEN total - idx.count ELSE Batch
     IN /\ n > 0
        /\ \E got \in [1 .. n -> Vals] :
             /\ \A i \in 1 .. n : disk.vec[idx.count + i - 1] \in {got[i], None}
             /\ ix' = [pc |-> "add", total |-> total, got |-> got, todo |-> Range(got)]
  /\ UNCHANGED <<env, log, next, disk, idx, queue, buf, dirty, ap, du, up, why, ops, crashes, dumps>>

(* The vector ids a batch is given count from the index's own counter. *)
AddedTo(ls, sel) ==
  [d \in Docids |->
     LET i == d - idx.own + 1 IN
     IF i \in 1 .. Len(ix.got) /\ ix.got[i] \in sel /\ d \notin disk.bits
     THEN Append(ls[d], ix.got[i]) ELSE ls[d]]

(* What a flush that is writing the lists knows of them: the entries that  *)
(* ds get now lie behind the sizes it has read.                            *)
Behind(ds) == IF du.pc = "write" THEN [du EXCEPT !.below = @ \ ds] ELSE du

(* An IVF index writes list by list in list order (RTInvertIndex::AddKeys) *)
AddKeys ==
  /\ up = "up" /\ ix.pc = "add" /\ IVF
  /\ ix.todo # {}
  /\ LET l == CHOOSE v \in ix.todo : \A w \in ix.todo : v <= w IN
       /\ idx' = [idx EXCEPT !.lists = AddedTo(@, {l})]
       /\ ix' = [ix EXCEPT !.todo = @ \ {l}]
  /\ du' = Behind({d \in Docids : idx'.lists[d] # idx.lists[d]})
  /\ UNCHANGED <<env, log, next, disk, queue, buf, dirty, ap, up, why, ops, crashes, dumps>>

(* ... and counts the batch when every list is written. *)
CountAdded ==
  /\ up = "up" /\ ix.pc = "add" /\ IVF
  /\ ix.todo = {}
  /\ idx' = [idx EXCEPT !.own = @ + Len(ix.got)]
  /\ ix' = [ix EXCEPT !.pc = "count"]
  /\ UNCHANGED <<env, log, next, disk, queue, buf, dirty, ap, du, up, why, ops, crashes, dumps>>

(* GammaIndexHNSWLIB::Add holds dump_mutex_ over the whole batch; adding a *)
(* label twice updates it.                                                 *)
AddVertices ==
  /\ up = "up" /\ ix.pc = "add" /\ ~IVF
  /\ idx' = [idx EXCEPT !.lists = [d \in Docids |-> IF AddedTo(@, Vals)[d] = <<>> THEN <<>>
                                                   ELSE <<CHOOSE v \in Vals : TRUE>>],
                        !.own = @ + Len(ix.got)]
  /\ ix' = [ix EXCEPT !.pc = "count"]
  /\ UNCHANGED <<env, log, next, disk, queue, buf, dirty, ap, du, up, why, ops, crashes, dumps>>

(* What the buffer holds below its start is never read again. *)
Indexed(c) == [buf EXCEPT !.from = c, !.held = [d \in Docids |-> IF d < c THEN None ELSE @[d]]]

(* indexed_count_ moves, and the buffer's start with it unless the buffer  *)
(* has not got the document yet (SetStartSegmentId).                       *)
Advance ==
  /\ up = "up" /\ ix.pc = "count"
  /\ LET c == idx.count + Len(ix.got) IN
       /\ idx' = [idx EXCEPT !.count = c]
       /\ buf' = IF env.rt /\ c >= buf.from /\ c <= buf.size THEN Indexed(c) ELSE buf
       /\ ix' = [pc |-> IF c < ix.total THEN "batch" ELSE "pop", total |-> ix.total]
  /\ dirty' = TRUE
  /\ UNCHANGED <<env, log, next, disk, queue, ap, du, up, why, ops, crashes, dumps>>

(* The pops of updated_vids_: deleted documents are dropped, a vector that *)
(* is not indexed yet goes back to the end and stops the popping.          *)
Waits(d) == d \notin disk.bits /\ d >= idx.count

Popped ==
  LET n == CHOOSE n \in 0 .. Len(queue) :
             /\ \A i \in 1 .. n : ~Waits(queue[i])
             /\ n < Len(queue) => Waits(queue[n + 1])
  IN [vids |-> SelectSeq(SubSeq(queue, 1, n), LAMBDA d : d \notin disk.bits),
      rest |-> IF n = Len(queue) THEN <<>>
               ELSE Append(SubSeq(queue, n + 2, Len(queue)), queue[n + 1])]

(* Compaction of list l drops the entries of deleted documents and makes   *)
(* the entries it keeps the current ones of their vector ids.              *)
Compacted(ls, sel) ==
  [d \in Docids |->
     LET inside == SelectSeq(ls[d], LAMBDA v : v \in sel)
         outside == SelectSeq(ls[d], LAMBDA v : v \notin sel)
     IN IF d \in disk.bits THEN outside ELSE outside \o inside]

(* RealTimeMemData::Update: the current entry is masked and a new one is   *)
(* written; an id without an entry is skipped.                             *)
Moved(ls, d, v) == IF ls[d] = <<>> THEN ls ELSE [ls EXCEPT ![d] = Append(Front(@), v)]

(* HNSW reads vectors from the store when it searches: an update leaves    *)
(* the graph's set of labels as it is.                                     *)
UpdatedLists(vids) ==
  IF ~IVF THEN idx.lists
  ELSE FoldSeq(LAMBDA d, ls : IF disk.vec[d] = None THEN ls ELSE Moved(ls, d, disk.vec[d]),
               idx.lists, vids)

(* The documents whose entry goes to another list; an update within its    *)
(* list overwrites the code in place.                                      *)
MovedDocs(ls) == {d \in Docids : ls[d] # idx.lists[d]}

(* The end of a round: index Update of the popped ids with the vectors     *)
(* read now.  IVF then compacts lists with many deleted entries (the ratio *)
(* is in InvertedLists), and entries behind the sizes of a flush may slide *)
(* below them.                                                             *)
ApplyUpdated ==
  /\ up = "up"
  /\ ix.pc = "pop" \/ (ix.pc = "idle" /\ idx.count >= disk.total /\ queue # <<>>)
  /\ LET ls2 == UpdatedLists(Popped.vids)
         dead == {v \in Vals : \E d \in disk.bits : v \in Range(ls2[d])}
     IN \E sel \in SUBSET dead :
          /\ sel # {} => IVF /\ Popped.vids # <<>>
          /\ idx' = [idx EXCEPT !.lists = IF IVF THEN Compacted(ls2, sel) ELSE ls2]
          /\ IF du.pc # "write" THEN UNCHANGED du
             ELSE \E slid \in SUBSET {d \in Docids : sel \cap Range(ls2[d]) # {}} :
                    du' = [Behind(MovedDocs(ls2)) EXCEPT !.below = @ \cup slid]
  /\ queue' = Popped.rest
  /\ dirty' = (dirty \/ Popped.vids # <<>>)
  /\ ix' = Idle
  /\ UNCHANGED <<env, log, next, disk, buf, ap, up, why, ops, crashes, dumps>>

---------------------------------------------------------------------------
(* The flush job: Engine::Dump and VectorManager::Dump, then the sequence  *)
(* number is written beside the data (writer.go Flush).                    *)

(* An update that is applied or half applied but not in the index yet. *)
Unindexed == queue # <<>> \/ ap.pc \in {"buffer", "push"}

DumpBegin ==
  /\ up = "up" /\ du.pc = "idle" /\ dumps < MaxDumps
  /\ dumps' = dumps + 1
  /\ IF dirty
     THEN /\ du' = [pc |-> "lists", sn |-> next, count |-> idx.count, own |-> idx.own,
                    lists |-> NoLists, why |-> {}]
          /\ UNCHANGED disk
     ELSE /\ du' = [pc |-> "sn", sn |-> next]
          /\ disk' = [disk EXCEPT !.dump.why =
                        IF disk.dump.lists # idx.lists \/ Unindexed THEN @ \cup {"skipped"} ELSE @]
  /\ UNCHANGED <<env, log, next, idx, queue, buf, dirty, ap, ix, up, why, ops, crashes>>

(* The windows a dump of the lists as they are now falls into. *)
Torn == IF (IVF /\ ix.pc = "add" /\ ix.todo # Range(ix.got)) \/ idx.own # du.own \/ idx.own # du.count
        THEN {"torn"} ELSE {}
Queued == IF Unindexed THEN {"queued"} ELSE {}

(* HNSW: saveIndex under dump_mutex_. *)
DumpGraph ==
  /\ up = "up" /\ du.pc = "lists" /\ ~IVF
  /\ du' = [du EXCEPT !.pc = "count", !.lists = idx.lists, !.why = why \cup Torn \cup Queued]
  /\ UNCHANGED <<env, log, next, disk, idx, queue, buf, dirty, ap, ix, up, why, ops, crashes, dumps>>

(* WriteInvertedLists reads the sizes of all lists first ... *)
DumpSizes ==
  /\ up = "up" /\ du.pc = "lists" /\ IVF
  /\ du' = [pc |-> "write", sn |-> du.sn, count |-> du.count, own |-> du.own, lists |-> NoLists,
            why |-> why \cup Torn \cup Queued,
            todo |-> Vals, below |-> {d \in Docids : idx.lists[d] # <<>>}]
  /\ UNCHANGED <<env, log, next, disk, idx, queue, buf, dirty, ap, ix, up, why, ops, crashes, dumps>>

(* The entries of list l below the size read for it, masked ones left out: *)
(* what an update has masked since is gone, what it wrote is behind.       *)
WrittenOf(l) ==
  [d \in Docids |-> SelectSeq(IF d \in du.below THEN idx.lists[d] ELSE Front(idx.lists[d]),
                              LAMBDA v : v = l)]

(* An indexed document whose old entry was masked before its list was      *)
(* written and whose new one is behind a size is nowhere in the file.      *)
Missed(ls) ==
  IF \E d \in 0 .. du.own - 1 : ls[d] = <<>> /\ idx.lists[d] # <<>> THEN {"moved"} ELSE {}

Holes(ls) == IF env.index = "IVFPQ" /\ Entries(ls) # du.own THEN {"holes"} ELSE {}

(* ... and then writes codes and ids list by list, beside the indexing     *)
(* thread.                                                                 *)
DumpLists ==
  /\ up = "up" /\ du.pc = "write"
  /\ LET l == CHOOSE v \in du.todo : \A w \in du.todo : v <= w
         ls == [d \in Docids |-> du.lists[d] \o WrittenOf(l)[d]]
     IN du' = IF du.todo # {l} THEN [du EXCEPT !.todo = @ \ {l}, !.lists = ls]
              ELSE [pc |-> "count", sn |-> du.sn, count |-> du.count, own |-> du.own, lists |-> ls,
                    why |-> du.why \cup Holes(ls) \cup Missed(ls)]
  /\ UNCHANGED <<env, log, next, disk, idx, queue, buf, dirty, ap, ix, up, why, ops, crashes, dumps>>

(* SetVectorIndexCount: under a key of its own, before dump.done. *)
DumpCount ==
  /\ up = "up" /\ du.pc = "count"
  /\ disk' = [disk EXCEPT !.count = du.count]
  /\ du' = [du EXCEPT !.pc = "done"]
  /\ UNCHANGED <<env, log, next, idx, queue, buf, dirty, ap, ix, up, why, ops, crashes, dumps>>

(* dump.done makes the new directory the one Load takes, and is_dirty_ is  *)
(* cleared, whatever happened since the dump began.                        *)
DumpDone ==
  /\ up = "up" /\ du.pc = "done"
  /\ disk' = [disk EXCEPT !.dump = [done |-> TRUE, lists |-> du.lists, own |-> du.own,
                                    count |-> du.count, why |-> du.why]]
  /\ dirty' = FALSE
  /\ du' = [pc |-> "sn", sn |-> du.sn]
  /\ UNCHANGED <<env, log, next, idx, queue, buf, ap, ix, up, why, ops, crashes, dumps>>

(* The written number lets raft cut its log: a restart replays from there. *)
DumpSn ==
  /\ up = "up" /\ du.pc = "sn"
  /\ log' = SubSeq(log, du.sn + 1, Len(log))
  /\ next' = next - du.sn
  /\ du' = Idle
  /\ UNCHANGED <<env, disk, idx, queue, buf, dirty, ap, ix, up, why, ops, crashes, dumps>>

---------------------------------------------------------------------------
(* A crash between operations, and Load.                                   *)

Crash ==
  /\ up = "up" /\ ap.pc # "add" /\ crashes < MaxCrashes
  /\ crashes' = crashes + 1
  /\ up' = "down"
  /\ ap' = Idle /\ ix' = Idle /\ du' = Idle
  /\ idx' = [lists |-> NoLists, own |-> 0, count |-> 0]
  /\ queue' = <<>>
  /\ buf' = [held |-> [d \in Docids |-> None], size |-> 0, from |-> 0]
  /\ dirty' = FALSE
  /\ next' = 0
  /\ UNCHANGED <<env, log, disk, why, ops, dumps>>

(* GetDiskVecNum: one past the newest docid whose vector is still stored. *)
DiskVecNum ==
  LET held == {d \in 0 .. disk.total - 1 : disk.vec[d] # None}
  IN IF held = {} THEN 0 ELSE 1 + CHOOSE d \in held : \A e \in held : e <= d

(* RocksDBRawVector::Load reports what it was asked for, MemoryRawVector   *)
(* counts what it read.                                                    *)
HasDelete == env.store = "MemoryOnly" /\ \E d \in 0 .. disk.total - 1 : disk.vec[d] = None

(* ReadInvertedLists walks the lists in order: an id's last entry wins. *)
ReadLists(ls) == [d \in Docids |-> SortSeq(ls[d], LAMBDA v, w : v < w)]

(* What the Load of an index model reports: IVFPQ the number of entries it *)
(* read, IVFFLAT the counter that was dumped, HNSW the labels it has.      *)
LoadNumIVFPQ == Entries(disk.dump.lists)
LoadNumIVFFLAT == disk.dump.own
LoadNumHNSW == Cardinality({d \in Docids : disk.dump.lists[d] # <<>>})
LoadNum == CASE env.index = "IVFPQ" -> LoadNumIVFPQ
             [] env.index = "IVFFLAT" -> LoadNumIVFFLAT
             [] env.index = "HNSW" -> LoadNumHNSW

(* The buffer is loaded up to the newest stored vector while docids go on  *)
(* from the table's total.                                                 *)
Shifted == IF env.rt /\ DiskVecNum < disk.total THEN {"shifted"} ELSE {}

LoadIndex ==
  IF ~disk.dump.done \/ (env.index = "HNSW" /\ HasDelete)
  THEN idx' = [lists |-> NoLists, own |-> 0, count |-> 0] /\ why' = Shifted
  ELSE /\ idx' = [lists |-> ReadLists(disk.dump.lists), own |-> LoadNum,
                  count |-> IF HasDelete THEN disk.count ELSE LoadNum]
       /\ why' = disk.dump.why \cup Shifted
            \cup (IF HasDelete /\ disk.count # disk.dump.count THEN {"ahead"} ELSE {})

Load ==
  /\ up = "down"
  /\ IF (env.rt /\ disk.count > DiskVecNum) \/ (disk.dump.done /\ LoadNum > disk.total)
     THEN up' = "failed" /\ UNCHANGED <<idx, buf, why>>
     ELSE /\ up' = "up"
          /\ LoadIndex
          /\ buf' = IF ~env.rt THEN buf
                    ELSE [held |-> [d \in Docids |-> IF d >= disk.count THEN disk.vec[d] ELSE None],
                          size |-> DiskVecNum, from |-> disk.count]
  /\ UNCHANGED <<env, log, next, disk, queue, dirty, ap, ix, du, ops, crashes, dumps>>

Ops == [kind : {"put"}, key : Keys, val : Vals] \cup [kind : {"del"}, key : Keys]

Indexer == Gets \/ AddKeys \/ CountAdded \/ AddVertices \/ Advance \/ ApplyUpdated
Applier == AddToStore \/ AddToBuffer \/ UpdateToStore \/ UpdateToBuffer \/ PushUpdated \/ Delete
Flusher == DumpBegin \/ DumpGraph \/ DumpSizes \/ DumpLists \/ DumpCount \/ DumpDone \/ DumpSn

Next ==
  \/ \E op \in Ops : Propose(op)
  \/ Applier \/ Indexer \/ Flusher
  \/ Crash \/ Load

Spec == Init /\ [][Next]_vars

---------------------------------------------------------------------------
(* Every variable has its type. *)
TypeOK ==
  /\ env \in Envs /\ log \in Seq(Ops) /\ next \in 0 .. Len(log)
  /\ disk.total \in 0 .. MaxDocs /\ disk.bits \subseteq Docids
  /\ idx.lists \in [Docids -> Seq(Vals)] /\ idx.own \in Nat /\ idx.count \in Nat
  /\ queue \in Seq(Docids)
  /\ buf.size \in 0 .. MaxDocs /\ buf.from \in 0 .. MaxDocs
  /\ up \in {"up", "down", "failed"}
  /\ why \subseteq {"torn", "holes", "queued", "moved", "skipped", "ahead", "shifted"}

Live == {d \in 0 .. disk.total - 1 : \E k \in Keys : disk.key[k] = d}

(* Everything proposed is applied and the indexing thread has nothing left *)
Quiet == /\ up = "up" /\ ap.pc = "idle" /\ next = Len(log)
         /\ ix.pc = "idle" /\ queue = <<>> /\ idx.count >= disk.total

(* The indexing thread never counts past the vectors that are stored:      *)
(* AddRTVecsToIndex calls it an internal error.                            *)
CountWithinStore == up = "up" => idx.count <= disk.total

(* At rest the index holds every live document exactly once and with the   *)
(* vector that is stored, unless it descends from a dump taken in one of   *)
(* the windows of why.                                                     *)
IndexIsStore ==
  Quiet /\ why = {} => \A d \in Live : IF IVF THEN idx.lists[d] = <<disk.vec[d]>>
                                             ELSE idx.lists[d] # <<>>

Found(d) == (IF IVF \/ idx.lists[d] = <<>> THEN Range(idx.lists[d]) ELSE {disk.vec[d]})
            \cup (IF d \in buf.from .. buf.size - 1 THEN {buf.held[d]} ELSE {})

(* With realtime a document is found with its stored vector as soon as its *)
(* put is applied, unless an update of it is on its way to the index.      *)
RealtimeSees ==
  up = "up" /\ env.rt /\ why = {} /\ ap.pc = "idle" /\ next = Len(log) /\ idx.count >= buf.from =>
    \A d \in Live : disk.vec[d] \in Found(d) \/ Unindexed
====
