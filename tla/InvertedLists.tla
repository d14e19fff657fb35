---- MODULE InvertedLists ----
(***************************************************************************)
(* The realtime inverted lists of the IVF indexes: realtime_mem_data.cc,   *)
(* realtime_invert_index.cc, and the Add, Update and Delete of the IVF     *)
(* index models that drive them.                                           *)
(*                                                                         *)
(* One thread writes (the indexing thread), the applier counts deletions,  *)
(* and searches and dumps read, all without a lock.  Extension and         *)
(* compaction work on a new array and then switch a pointer: a reader that *)
(* has the old pointer keeps the old array, one that has the current       *)
(* pointer sees what is written to it.  The bucket data a switch replaces  *)
(* is a struct whose arrays of pointers, sizes and counters are shared     *)
(* with its successor, so every store to one of them is visible at once.   *)
(*                                                                         *)
(* A replaced array is freed one second later (AsyncWait).  The model      *)
(* keeps it: it covers scans of one list that take less than that.         *)
(***************************************************************************)
EXTENDS Integers, Sequences, FiniteSets, SequencesExt

CONSTANTS Vectors,        \* vectors, numbers
          ListOf(_),   \* the list the coarse quantizer assigns a vector to
          Lists,       \* list numbers, 1 .. nlist
          MaxVids,     \* vector ids
          Stores,      \* the vectors the ids are added with
          BucketKeys,  \* initial capacity of a list
          Limit,       \* bucket_keys_limit_
          Slack,       \* slots an extension may add beyond those needed
          Budgets      \* bounds on the updates, deletions and scans of a behaviour

ASSUME InvertedListsAssumption ==
  /\ Vectors \subseteq Nat \ {0} /\ \A v \in Vectors : ListOf(v) \in Lists
  /\ Lists = 1 .. Cardinality(Lists)
  /\ Stores \subseteq [0 .. MaxVids - 1 -> Vectors]
  /\ {MaxVids, BucketKeys, Limit} \subseteq Nat
  /\ Budgets \subseteq [updates : Nat, deletes : Nat, reads : Nat]

Vids == 0 .. MaxVids - 1
Junk == 1000          \* what an uninitialised slot holds
Mask(vid) == -1 - vid \* kDelIdxMask
Masked(id) == id < 0
NoPos == <<0, 0>>

VARIABLES lists,    \* per list: arrays of ids and codes, size, capacity, deleted counter
          pos,      \* vid_bucket_no_pos_
          count,    \* indexed_vec_count_
          store,    \* the stored vector of each id
          bits,     \* docids_bitmap_
          deleting, \* the id whose index Delete is still to come, or -1
          wr, rd,   \* the writer and the reader
          refused,  \* a list was at its limit
          budget    \* what is left of the bounds

listVars == <<lists, pos, count, store, bits, deleting, wr, rd, refused, budget>>

Free == [pc |-> "idle"]
Fresh(n) == [i \in 1 .. n |-> Junk]

ListsInit ==
  /\ lists = [l \in Lists |-> [ids |-> Fresh(BucketKeys), codes |-> Fresh(BucketKeys), size |-> 0,
                               cap |-> BucketKeys, dead |-> 0]]
  /\ pos = [v \in Vids |-> NoPos]
  /\ count = 0
  /\ store \in Stores
  /\ bits = {} /\ deleting = -1
  /\ wr = Free /\ rd = Free
  /\ refused = FALSE /\ budget \in Budgets

(* What the reader holds of a list: no pointer yet, the current array, or   *)
(* one that has been replaced.                                             *)
Unread == [pc |-> "none"]
Held == [pc |-> "live"]
Old(a) == [pc |-> "old", array |-> a]

(* A pointer of list l is switched: a reader that holds it keeps the array. *)
Kept(r, f, l) == IF r.pc \in {"second", "scan"} /\ r.list = l /\ r[f] = Held
                 THEN [r EXCEPT ![f] = Old(lists[l][f])] ELSE r

---------------------------------------------------------------------------
(* The writer.                                                             *)

(* The rest of a batch of updates, or the compaction that follows it. *)
GoOn(batch) == IF batch = <<>> THEN [pc |-> "compact", list |-> 1] ELSE [pc |-> "update", batch |-> batch]

(* GammaIVFPQIndex::Add: ids count on from indexed_vec_count_, deleted     *)
(* ones are left out, the rest is grouped by list.                         *)
AddBatch(n) ==
  /\ wr.pc = "idle" /\ count + n <= MaxVids
  /\ LET vids == SelectSeq([i \in 1 .. n |-> count + i - 1], LAMBDA v : v \notin bits) IN
       wr' = [pc |-> "keys", vids |-> vids, n |-> n, update |-> FALSE, batch |-> <<>>,
              todo |-> {ListOf(store[v]) : v \in Range(vids)}]
  /\ UNCHANGED <<lists, pos, count, store, bits, deleting, rd, refused, budget>>

CodeNow == CHOOSE l \in wr.todo : \A m \in wr.todo : l <= m
KeysOf(l) == SelectSeq(wr.vids, LAMBDA v : ListOf(store[v]) = l)
Fits(l, n) == lists[l].size + n <= lists[l].cap

(* ExtendBucketIfNeed refuses when doubling would reach the limit: AddKeys *)
(* returns false and the batch ends where it is.                           *)
Refuse ==
  /\ wr.pc = "keys" /\ wr.todo # {}
  /\ ~Fits(CodeNow, Len(KeysOf(CodeNow))) /\ lists[CodeNow].cap * 2 >= Limit
  /\ wr' = IF wr.update THEN GoOn(wr.batch) ELSE Free
  /\ refused' = TRUE
  /\ UNCHANGED <<lists, pos, count, store, bits, deleting, rd, budget>>

Extended(a, used, n) == [i \in 1 .. n |-> IF i <= used THEN a[i] ELSE Junk]

(* ExtendBucketMem: codes first, then ids and the capacity.  How much more *)
(* than needed is allocated depends on a coefficient.                      *)
ExtendCodes ==
  /\ wr.pc = "keys" /\ wr.todo # {}
  /\ ~Fits(CodeNow, Len(KeysOf(CodeNow))) /\ lists[CodeNow].cap * 2 < Limit
  /\ \E extra \in Slack :
       LET l == CodeNow
           n == lists[l].size + Len(KeysOf(l)) + extra
       IN lists' = [lists EXCEPT ![l].codes = Extended(@, lists[l].size, n)]
  /\ wr' = [wr EXCEPT !.pc = "ids"]
  /\ rd' = Kept(rd, "codes", CodeNow)
  /\ UNCHANGED <<pos, count, store, bits, deleting, refused, budget>>

ExtendIds ==
  /\ wr.pc = "ids"
  /\ LET l == CodeNow
         n == Len(lists[l].codes)
     IN lists' = [lists EXCEPT ![l].ids = Extended(@, lists[l].size, n), ![l].cap = n]
  /\ wr' = [wr EXCEPT !.pc = "keys"]
  /\ rd' = Kept(rd, "ids", CodeNow)
  /\ UNCHANGED <<pos, count, store, bits, deleting, refused, budget>>

Written(a, from, s) ==
  [i \in 1 .. Len(a) |-> IF i - from \in 1 .. Len(s) THEN s[i - from] ELSE a[i]]

(* AddKeys: ids and codes go behind the current size, positions are noted, *)
(* keys deleted meanwhile are counted, and the size is switched last.      *)
MemAddKeys ==
  /\ wr.pc = "keys" /\ wr.todo # {}
  /\ LET l == CodeNow
         keys == KeysOf(l)
         from == lists[l].size
     IN /\ Fits(l, Len(keys))
        /\ pos' = [v \in Vids |-> IF v \in Range(keys)
                                  THEN <<l, from + CHOOSE i \in 1 .. Len(keys) : keys[i] = v>>
                                  ELSE pos[v]]
        /\ lists' = [lists EXCEPT ![l].ids = Written(@, from, keys),
                                  ![l].codes = Written(@, from, [i \in 1 .. Len(keys) |-> store[keys[i]]]),
                                  ![l].size = from + Len(keys),
                                  ![l].dead = @ + Cardinality(Range(keys) \cap bits)]
        /\ wr' = [wr EXCEPT !.todo = @ \ {l}]
  /\ UNCHANGED <<count, store, bits, deleting, rd, refused, budget>>

EndAdd ==
  /\ wr.pc = "keys" /\ wr.todo = {}
  /\ \/ wr.update /\ wr' = GoOn(wr.batch) /\ UNCHANGED count
     \/ ~wr.update /\ wr' = Free /\ count' = count + wr.n
  /\ UNCHANGED <<lists, pos, store, bits, deleting, rd, refused, budget>>

(* The reader's windows: ids that were updated under it. *)
Touch(vid) == rd' = IF rd.pc = "idle" THEN rd ELSE [rd EXCEPT !.touched = @ \cup {vid}]

(* AddRTVecsToIndex pops a batch of updated ids, leaves out deleted ones   *)
(* and those not indexed yet, and reads their vectors.                     *)
PopUpdated(batch) ==
  /\ wr.pc = "idle" /\ Len(batch) <= budget.updates
  /\ \A i \in 1 .. Len(batch) : /\ batch[i].vid < count /\ batch[i].vid \notin bits
                                /\ batch[i].val # store[batch[i].vid]
  /\ wr' = GoOn(batch)
  /\ budget' = [budget EXCEPT !.updates = @ - Len(batch)]
  /\ UNCHANGED <<lists, pos, count, store, bits, deleting, rd, refused>>

(* RealTimeMemData::Update: an id that is in no list is left alone, one    *)
(* that stays in its list gets its code written in place, and one that     *)
(* moves has its old entry masked before AddKeys.                          *)
Update ==
  /\ wr.pc = "update"
  /\ LET vid == Head(wr.batch).vid
         v == Head(wr.batch).val
         l == pos[vid][1]
         p == pos[vid][2]
     IN /\ store' = [store EXCEPT ![vid] = v]
        /\ \/ /\ pos[vid] = NoPos
              /\ wr' = GoOn(Tail(wr.batch))
              /\ UNCHANGED <<lists, rd>>
           \/ /\ pos[vid] # NoPos /\ ListOf(v) = l
              /\ lists' = [lists EXCEPT ![l].codes[p] = v]
              /\ wr' = GoOn(Tail(wr.batch))
              /\ Touch(vid)
           \/ /\ pos[vid] # NoPos /\ ListOf(v) # l
              /\ lists' = [lists EXCEPT ![l].ids[p] = Mask(vid), ![l].dead = @ + 1]
              /\ wr' = [pc |-> "keys", vids |-> <<vid>>, n |-> 0, update |-> TRUE,
                        batch |-> Tail(wr.batch), todo |-> {ListOf(v)}]
              /\ Touch(vid)
  /\ UNCHANGED <<pos, count, bits, deleting, refused, budget>>

Compactable(l) == 10 * lists[l].dead >= 3 * lists[l].size /\ lists[l].dead > 0

Survivors(l) == SelectSeq([i \in 1 .. lists[l].size |-> i],
                          LAMBDA i : ~Masked(lists[l].ids[i]) /\ lists[l].ids[i] \notin bits)
Squeezed(r, l) == IF r.pc = "idle" \/ r.list # l THEN r ELSE [r EXCEPT !.squeezed = TRUE]

(* CompactIfNeed looks at the lists in turn. *)
SkipList ==
  /\ wr.pc = "compact" /\ wr.list \in Lists /\ ~Compactable(wr.list)
  /\ wr' = IF wr.list + 1 \in Lists THEN [wr EXCEPT !.list = @ + 1] ELSE Free
  /\ UNCHANGED <<lists, pos, count, store, bits, deleting, rd, refused, budget>>

(* Mutant: the codes are copied from the ids. *)
CompactIdsTwice ==
  /\ wr.pc = "compact" /\ Compactable(wr.list)
  /\ LET l == wr.list
         from == Survivors(l)
         Picked(a) == [i \in 1 .. lists[l].cap |-> IF i <= Len(from) THEN a[from[i]] ELSE Junk]
         ids == Picked(lists[l].ids)
     IN /\ lists' = [lists EXCEPT ![l].ids = ids]
        /\ pos' = [v \in Vids |-> IF \E i \in 1 .. Len(from) : ids[i] = v
                                  THEN <<l, CHOOSE i \in 1 .. Len(from) : ids[i] = v>> ELSE pos[v]]
        /\ wr' = [pc |-> "codes", list |-> l, size |-> Len(from), codes |-> Picked(lists[l].ids)]
        /\ rd' = Squeezed(Kept(rd, "ids", l), l)
  /\ UNCHANGED <<count, store, bits, deleting, refused, budget>>

(* CompactBucket: the kept entries are copied and their positions noted;   *)
(* then ids, codes and size are switched one after the other.              *)
CompactIds ==
  /\ wr.pc = "compact" /\ Compactable(wr.list)
  /\ LET l == wr.list
         from == Survivors(l)
         Picked(a) == [i \in 1 .. lists[l].cap |-> IF i <= Len(from) THEN a[from[i]] ELSE Junk]
         ids == Picked(lists[l].ids)
     IN /\ lists' = [lists EXCEPT ![l].ids = ids]
        /\ pos' = [v \in Vids |-> IF \E i \in 1 .. Len(from) : ids[i] = v
                                  THEN <<l, CHOOSE i \in 1 .. Len(from) : ids[i] = v>> ELSE pos[v]]
        /\ wr' = [pc |-> "codes", list |-> l, size |-> Len(from), codes |-> Picked(lists[l].codes)]
        /\ rd' = Squeezed(Kept(rd, "ids", l), l)
  /\ UNCHANGED <<count, store, bits, deleting, refused, budget>>

CompactCodes ==
  /\ wr.pc = "codes"
  /\ lists' = [lists EXCEPT ![wr.list].codes = wr.codes]
  /\ wr' = [pc |-> "size", list |-> wr.list, size |-> wr.size]
  /\ rd' = Kept(rd, "codes", wr.list)
  /\ UNCHANGED <<pos, count, store, bits, deleting, refused, budget>>

CompactSize ==
  /\ wr.pc = "size"
  /\ lists' = [lists EXCEPT ![wr.list].size = wr.size, ![wr.list].dead = 0]
  /\ wr' = IF wr.list + 1 \in Lists THEN [pc |-> "compact", list |-> wr.list + 1] ELSE Free
  /\ UNCHANGED <<pos, count, store, bits, deleting, rd, refused, budget>>

---------------------------------------------------------------------------
(* The applier: Engine::Delete sets the bit; the index's Delete follows    *)
(* and only counts the entry.                                              *)
MarkDeleted(vid) ==
  /\ deleting = -1 /\ vid \notin bits /\ budget.deletes > 0
  /\ budget' = [budget EXCEPT !.deletes = @ - 1]
  /\ bits' = bits \cup {vid} /\ deleting' = vid
  /\ UNCHANGED <<lists, pos, count, store, wr, rd, refused>>

MemDelete ==
  /\ deleting # -1 /\ deleting' = -1
  /\ lists' = IF pos[deleting] = NoPos THEN lists
              ELSE [lists EXCEPT ![pos[deleting][1]].dead = @ + 1]
  /\ UNCHANGED <<pos, count, store, bits, wr, rd, refused, budget>>

---------------------------------------------------------------------------
(* A reader of one list: scan_one_list of a search, which reads the size   *)
(* and then ids and codes (IVFPQ) or codes and ids (IVFFLAT), or the dump, *)
(* WriteInvertedLists, which reads the sizes of all lists before it goes   *)
(* through the arrays, codes first.                                        *)
ReadSize(l, first) ==
  /\ rd.pc = "idle" /\ budget.reads > 0
  /\ budget' = [budget EXCEPT !.reads = @ - 1]
  /\ rd' = [pc |-> "first", first |-> first, list |-> l, size |-> lists[l].size,
            ids |-> Unread, codes |-> Unread, since |-> count,
            touched |-> IF wr.pc \in {"keys", "ids"} /\ wr.update THEN Range(wr.vids) ELSE {},
            squeezed |-> wr.pc \in {"codes", "size"} /\ wr.list = l]
  /\ UNCHANGED <<lists, pos, count, store, bits, deleting, wr, refused>>

ReadFirst ==
  /\ rd.pc = "first"
  /\ rd' = [rd EXCEPT !.pc = "second", ![rd.first] = Held]
  /\ UNCHANGED <<lists, pos, count, store, bits, deleting, wr, refused, budget>>

(* Mutant: the size is read after the arrays. *)
ReadSecondThenSize ==
  /\ rd.pc = "second"
  /\ rd' = [rd EXCEPT !.pc = "scan", !.size = lists[rd.list].size, !.ids = IF @ = Unread THEN Held ELSE @,
                                     !.codes = IF @ = Unread THEN Held ELSE @]
  /\ UNCHANGED <<lists, pos, count, store, bits, deleting, wr, refused, budget>>

ReadSecond ==
  /\ rd.pc = "second"
  /\ rd' = [rd EXCEPT !.pc = "scan", !.ids = IF @ = Unread THEN Held ELSE @,
                                     !.codes = IF @ = Unread THEN Held ELSE @]
  /\ UNCHANGED <<lists, pos, count, store, bits, deleting, wr, refused, budget>>

(* Entry i of the array the reader holds. *)
Slot(f, i) == LET a == IF rd[f] = Held THEN lists[rd.list][f] ELSE rd[f].array
              IN IF i <= Len(a) THEN a[i] ELSE Junk

(* scan_codes: masked entries and deleted documents are passed over. *)
Reported == {i \in 1 .. rd.size : ~Masked(Slot("ids", i)) /\ Slot("ids", i) \notin bits}

Scan ==
  /\ rd.pc = "scan" /\ rd' = Free
  /\ UNCHANGED <<lists, pos, count, store, bits, deleting, wr, refused, budget>>

---------------------------------------------------------------------------
Batches == UNION {{s \in [1 .. n -> [vid : Vids, val : Vectors]] :
                     \A i, j \in 1 .. n : i < j => s[i].vid < s[j].vid} : n \in 1 .. budget.updates}

ListsNext ==
  \/ \E n \in 1 .. MaxVids : AddBatch(n)
  \/ Refuse \/ ExtendCodes \/ ExtendIds \/ MemAddKeys \/ EndAdd
  \/ \E b \in Batches : PopUpdated(b)
  \/ Update \/ SkipList \/ CompactIds \/ CompactCodes \/ CompactSize
  \/ \E v \in Vids : MarkDeleted(v)
  \/ MemDelete
  \/ \E l \in Lists, f \in {"ids", "codes"} : ReadSize(l, f)
  \/ ReadFirst \/ ReadSecond \/ Scan

ListsSpec == ListsInit /\ [][ListsNext]_listVars

---------------------------------------------------------------------------
(* Properties.                                                             *)

(* Every variable has its type. *)
ListsTypeOK ==
  /\ \A l \in Lists : /\ Range(lists[l].ids) \subseteq Vids \cup {Mask(v) : v \in Vids} \cup {Junk}
                      /\ Range(lists[l].codes) \subseteq Vectors \cup {Junk}
                      /\ {lists[l].size, lists[l].cap, lists[l].dead} \subseteq Nat
  /\ pos \in [Vids -> (Lists \X Nat) \cup {NoPos}]
  /\ count \in 0 .. MaxVids /\ store \in [Vids -> Vectors] /\ bits \subseteq Vids
  /\ deleting \in Vids \cup {-1} /\ refused \in BOOLEAN /\ budget \in [updates : Nat, deletes : Nat, reads : Nat]
  /\ wr.pc \in {"idle", "keys", "ids", "update", "compact", "codes", "size"}
  /\ rd.pc \in {"idle", "first", "second", "scan"}

(* No list is ever longer than either of its arrays, so that no append and *)
(* no in-place write of a code leaves them (ExtendBucketIfNeed,            *)
(* CompactBucket keeping the capacity).                                    *)
InBounds ==
  \A l \in Lists : /\ lists[l].size <= Len(lists[l].ids) /\ lists[l].size <= Len(lists[l].codes)
                   /\ lists[l].cap <= Len(lists[l].ids) /\ lists[l].cap <= Len(lists[l].codes)

EntriesOf(vid) == {e \in Lists \X (1 .. 10 * MaxVids) : e[2] <= lists[e[1]].size /\ lists[e[1]].ids[e[2]] = vid}

(* Between two batches the lists hold each indexed document that is not    *)
(* deleted exactly once, with the code of its newest vector, in the list   *)
(* of that vector, at the position vid_bucket_no_pos_ names: extensions,   *)
(* moves between lists and compactions lose and repeat nothing, unless a   *)
(* list was refused.                                                       *)
EachOnce ==
  wr.pc = "idle" /\ ~refused =>
    \A vid \in Vids : vid < count /\ vid \notin bits =>
      /\ EntriesOf(vid) = {pos[vid]}
      /\ pos[vid][1] = ListOf(store[vid])
      /\ lists[pos[vid][1]].codes[pos[vid][2]] = store[vid]

(* A scan of a list, for a search or for the dump, reports every document  *)
(* that was indexed in it when it began exactly once and with its own code *)
(* and nothing that was not written, unless the document was deleted or    *)
(* updated or the list compacted meanwhile.  Appends to the list and       *)
(* extensions of its two arrays at any point of the scan do not disturb    *)
(* it.                                                                     *)
ReaderSound ==
  rd.pc = "scan" /\ ~refused /\ ~rd.squeezed =>
    /\ \A vid \in Vids : /\ vid < rd.since /\ vid \notin bits \cup rd.touched
                         /\ ListOf(store[vid]) = rd.list
         => Cardinality({i \in Reported : Slot("ids", i) = vid}) = 1
    /\ \A i \in Reported : /\ Slot("ids", i) \in Vids
                           /\ \/ Slot("ids", i) \in rd.touched
                              \/ Slot("codes", i) = store[Slot("ids", i)]
====
