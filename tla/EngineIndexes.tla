--------------------------- MODULE EngineIndexes ---------------------------
(***************************************************************************)
(* One replica's C++ engine: its documents, the scalar indexes over them   *)
(* and the worker that adds and removes indexes while writes go on.        *)
(*                                                                         *)
(* The raft applier calls the engine with the commands of the log, one at  *)
(* a time.  A document command is a series of RocksDB writes and index     *)
(* writes, so its steps interleave with the index maintenance worker and a *)
(* crash may fall between any two of them.  What RocksDB and the delete    *)
(* bitmap hold survives a crash; Load rebuilds the rest, the index         *)
(* definitions coming from the space record in etcd, and raft then applies *)
(* again every command after the last flushed one.                         *)
(*                                                                         *)
(* Fields are numeric, so a deleted document keeps its row.  Vectors are   *)
(* in another module: here a document command says only whether it carries *)
(* every vector, which a new document must.                                *)
(***************************************************************************)
EXTENDS Integers, Sequences, FiniteSets, TLC

CONSTANTS
  Fields,      \* scalar fields of the table
  Default,     \* what a numeric field holds when a new document omits it
  Names,       \* index names
  Kind,        \* [Names -> {"INVERTED", "BITMAP", "COMPOSITE"}]
  On,          \* [Names -> Seq(Fields)]: the fields an index covers, in order
  Logs,        \* the raft logs to run, each a sequence of commands
  MaxCrashes   \* bound on the crashes of a behaviour

VARIABLES
  log,               \* rigid: the committed log, and what this replica is
  pub, floor,              \* etcd knows log[1..pub]; replay starts after floor
  keyTo, row, total, bits, \* key_to_docid, table rows, _total, delete bitmap
  disk, marks,             \* keys of persisted indexes; BUILDING markers
  up, next, step, maxid,   \* process; next command; its step; max_docid_
  names, obj, mem,         \* index_name_to_*, index objects, bitmap contents
  queue, work,             \* index_task_queue_ and the worker
  crashes, high,           \* crashes so far; highest command started
  torn, raced, owed, astray, blind, lost  \* what has gone wrong so far (see below)

durable == <<pub, floor, keyTo, row, total, bits, disk, marks>>
applier == <<next, step, maxid, high>>
indexes == <<names, obj, mem>>
worker  == <<queue, work>>
history == <<torn, raced, owed, astray, blind, lost>>
vars == <<log, durable, up, applier, indexes, worker, crashes, history>>

Slots == {On[n] : n \in Names}
Sorts == {"INVERTED", "BITMAP", "COMPOSITE"}
NoIndex == [kind |-> "none", state |-> "none"]
Resting == [pc |-> "idle"]

(* The history variables name the windows in which the code gives no       *)
(* guarantee, each defined where it opens:                                 *)
(*   torn   a crash fell inside a document command after its first write;  *)
(*   raced  an index was built in the middle of an update;                 *)
(*   owed   indexes accepted here whose build never finished here;         *)
(*   astray indexes on which etcd, at a Load, was behind the commands this *)
(*          replica had applied;                                           *)
(*   blind  indexes of these sorts that a Load took for complete;          *)
(*   lost   indexes whose ADD was ignored while their REMOVE was queued.   *)

(***************************************************************************)
(* What the log means.                                                     *)
(***************************************************************************)
Documents(n) ==
  LET D[i \in 0 .. n] ==
        IF i = 0 THEN <<>>
        ELSE LET c == log[i]  m == D[i - 1]
             IN CASE c.op = "upsert" /\ c.key \in DOMAIN m ->
                       (c.key :> (c.doc @@ m[c.key])) @@ m
                  [] c.op = "upsert" /\ c.key \notin DOMAIN m /\ c.vec ->
                       (c.key :> (c.doc @@ [f \in Fields |-> Default])) @@ m
                  [] c.op = "delete" -> [k \in DOMAIN m \ {c.key} |-> m[k]]
                  [] OTHER -> m
  IN D[n]

Defined(n) ==
  {x \in Names : \E i \in 1 .. n :
     /\ log[i] = [op |-> "add_index", name |-> x]
     /\ \A j \in i + 1 .. n : log[j] # [op |-> "remove_index", name |-> x]}

(***************************************************************************)
(* Index objects.  A single-field index lives under its field, a composite *)
(* index under its field list; the name only points there.                 *)
(***************************************************************************)
GetFieldRawValue(d, f) == row[d][f]
GenCompositeKey(s, d) == <<[i \in DOMAIN s |-> GetFieldRawValue(d, s[i])], d>>

(* The index objects a change of the fields fs concerns: those of the      *)
(* fields themselves and the composite ones that contain any of them.      *)
Covering(fs) == {s \in Slots : obj[s] # NoIndex /\ \E i \in DOMAIN s : s[i] \in fs}

Written(held, e, add) == IF add THEN held \cup {e} ELSE held \ {e}
OfKind(S, kind) == {s \in S : obj[s].kind = kind}

(* AddDoc and DeleteDoc of each kind of index for document d.              *)
InvertedKeys(S, d, add) ==
  [s \in OfKind(S, "INVERTED") |-> Written(disk[s], GenCompositeKey(s, d), add)]
CompositeKeys(S, d, add) ==
  [s \in OfKind(S, "COMPOSITE") |-> Written(disk[s], GenCompositeKey(s, d), add)]
BitmapKeys(S, d, add) ==
  [s \in OfKind(S, "BITMAP") |-> Written(mem[s], GenCompositeKey(s, d), add)]

WriteKeys(S, d, add) ==
  IF d \in DOMAIN row
  THEN /\ disk' = InvertedKeys(S, d, add) @@ CompositeKeys(S, d, add) @@ disk
       /\ mem'  = BitmapKeys(S, d, add) @@ mem
  ELSE UNCHANGED <<disk, mem>>

Scanned(s, ds) == {GenCompositeKey(s, d) : d \in ds \cap DOMAIN row}

Building == work.pc = "scan"     \* the builder holds build_write_mutex_

(***************************************************************************)
(* The applier.                                                            *)
(***************************************************************************)
Ready == up = "up" /\ step.pc = "idle" /\ next <= Len(log)

Advance == next' = next + 1 /\ step' = Resting /\ UNCHANGED high

Begin(s) ==
  /\ step' = s /\ high' = IF next > high THEN next ELSE high
  /\ UNCHANGED next

Skip ==
  /\ next' = next + 1 /\ high' = IF next > high THEN next ELSE high
  /\ UNCHANGED step

GetDocidByKey(k) == IF k \in DOMAIN keyTo THEN keyTo[k] ELSE -1

(* Every field is one of the table and every vector is there.              *)
CheckDoc(c) == c.vec

CheckFieldIsEqual(c, d) == {f \in DOMAIN c.doc : c.doc[f] = GetFieldRawValue(d, f)}

NewRow(c) == c.doc @@ [f \in Fields |-> Default]

(* AddOrUpdate: an unknown key is added, a known one updated; a key whose  *)
(* docid is not below max_docid_ is refused, and so is a new document      *)
(* without its vectors.                                                    *)
AddOrUpdate ==
  LET c == log[next]  d == GetDocidByKey(c.key)
  IN /\ Ready /\ c.op = "upsert"
     /\ IF d = -1 /\ CheckDoc(c)
          THEN Begin([pc |-> "addkey"])
        ELSE IF d # -1 /\ d < maxid
          THEN LET ch == DOMAIN c.doc \ CheckFieldIsEqual(c, d)
               IN Begin([pc |-> "unkey", d |-> d, changed |-> ch, left |-> ch])
        ELSE Skip
     /\ UNCHANGED <<log, durable, up, maxid, indexes, worker, crashes, history>>

(* Table::Add: the key's docid first, then the row.                        *)
TableAddKey ==
  /\ up = "up" /\ step.pc = "addkey"
  /\ keyTo' = (log[next].key :> maxid) @@ keyTo
  /\ step' = [pc |-> "addrow"]
  /\ UNCHANGED <<log, pub, floor, row, total, bits, disk, marks, up, next, maxid,
                 high, indexes, worker, crashes, history>>

TableAddRow ==
  /\ up = "up" /\ step.pc = "addrow"
  /\ row' = (maxid :> NewRow(log[next])) @@ row
  /\ step' = [pc |-> "index"]
  /\ UNCHANGED <<log, pub, floor, keyTo, total, bits, disk, marks, up, next, maxid,
                 high, indexes, worker, crashes, history>>

IndexNewDoc ==
  /\ up = "up" /\ step.pc = "index" /\ ~Building
  /\ WriteKeys(Covering(Fields), maxid, TRUE)
  /\ step' = [pc |-> "count"]
  /\ UNCHANGED <<log, pub, floor, keyTo, row, total, bits, marks, up, next, maxid,
                 high, names, obj, worker, crashes, history>>

(* ++max_docid_ and SetStorageManagerSize.                                 *)
CountDoc ==
  /\ up = "up" /\ step.pc = "count"
  /\ maxid' = maxid + 1 /\ total' = maxid + 1
  /\ Advance
  /\ UNCHANGED <<log, pub, floor, keyTo, row, bits, disk, marks, up, indexes, worker,
                 crashes, history>>

(* Update: the changed fields leave the indexes under their old values,    *)
(* the row is written, the fields return under their new values.           *)
UnindexField ==
  /\ up = "up" /\ step.pc = "unkey" /\ ~Building
  /\ \E f \in step.left :
       /\ WriteKeys(Covering({f}), step.d, FALSE)
       /\ step' = [step EXCEPT !.left = @ \ {f}]
  /\ UNCHANGED <<log, pub, floor, keyTo, row, total, bits, marks, up, next, maxid,
                 high, names, obj, worker, crashes, history>>

TableUpdate ==
  /\ up = "up" /\ step.pc = "unkey" /\ step.left = {}
  /\ row' = [row EXCEPT ![step.d] = log[next].doc @@ @]
  /\ step' = [step EXCEPT !.pc = "rekey", !.left = step.changed]
  /\ UNCHANGED <<log, pub, floor, keyTo, total, bits, disk, marks, up, next, maxid,
                 high, indexes, worker, crashes, history>>

ReindexField ==
  /\ up = "up" /\ step.pc = "rekey" /\ ~Building
  /\ \E f \in step.left :
       /\ WriteKeys(Covering({f}), step.d, TRUE)
       /\ step' = [step EXCEPT !.left = @ \ {f}]
  /\ UNCHANGED <<log, pub, floor, keyTo, row, total, bits, marks, up, next, maxid,
                 high, names, obj, worker, crashes, history>>

UpdateDone ==
  /\ up = "up" /\ step.pc = "rekey" /\ step.left = {}
  /\ Advance
  /\ UNCHANGED <<log, durable, up, maxid, indexes, worker, crashes, history>>

(* Delete: the bitmap bit is set and written, the indexes lose the         *)
(* document, and last the key goes.  A key whose docid is already marked   *)
(* deleted is left as it is.                                               *)
Delete ==
  LET d == GetDocidByKey(log[next].key)
  IN /\ Ready /\ log[next].op = "delete"
     /\ IF d # -1 /\ d \notin bits
          THEN /\ bits' = bits \cup {d}
               /\ Begin([pc |-> "unindex", d |-> d])
          ELSE Skip /\ UNCHANGED bits
     /\ UNCHANGED <<log, pub, floor, keyTo, row, total, disk, marks, up, maxid, indexes,
                    worker, crashes, history>>

UnindexDoc ==
  /\ up = "up" /\ step.pc = "unindex" /\ ~Building
  /\ WriteKeys(Covering(Fields), step.d, FALSE)
  /\ step' = [step EXCEPT !.pc = "unmap"]
  /\ UNCHANGED <<log, pub, floor, keyTo, row, total, bits, marks, up, next, maxid,
                 high, names, obj, worker, crashes, history>>

TableDelete ==
  /\ up = "up" /\ step.pc = "unmap"
  /\ keyTo' = [k \in DOMAIN keyTo \ {log[next].key} |-> keyTo[k]]
  /\ Advance
  /\ UNCHANGED <<log, pub, floor, row, total, bits, disk, marks, up, maxid, indexes,
                 worker, crashes, history>>

Removing(n) == \/ work.pc \in {"unmark_remove", "erase"} /\ work.name = n
               \/ \E i \in DOMAIN queue : queue[i] = <<"REMOVE", n>>

(* AddFieldIndex: a registered name is ignored; otherwise the BUILDING     *)
(* marker is persisted at once and the build queued.                       *)
AddFieldIndex ==
  LET n == log[next].name
  IN /\ Ready /\ log[next].op = "add_index"
     /\ IF n \in names
          THEN /\ lost' = IF Removing(n) THEN lost \cup {n} ELSE lost
               /\ UNCHANGED <<marks, queue>>
          ELSE /\ marks' = marks \cup {n}
               /\ queue' = Append(queue, <<"ADD", n>>)
               /\ lost' = lost \ {n}
     /\ Skip
     /\ UNCHANGED <<log, pub, floor, keyTo, row, total, bits, disk, up, maxid, indexes,
                    work, crashes, torn, raced, owed, astray, blind>>

RemoveFieldIndex ==
  /\ Ready /\ log[next].op = "remove_index"
  /\ queue' = Append(queue, <<"REMOVE", log[next].name>>)
  /\ Skip
  /\ UNCHANGED <<log, durable, up, maxid, indexes, work, crashes, history>>

(***************************************************************************)
(* IndexMaintenanceLoop: one task at a time, first in first out.           *)
(***************************************************************************)
(* A slip: a task to remove an index is not taken off the queue.           *)
TakeTaskKeeps ==
  /\ up = "up" /\ work.pc = "idle" /\ queue # <<>>
  /\ work' = [pc |-> IF Head(queue)[1] = "ADD" THEN "publish" ELSE "unmark_remove",
              name |-> Head(queue)[2]]
  /\ queue' = IF Head(queue)[1] = "ADD" THEN Tail(queue) ELSE queue
  /\ UNCHANGED <<log, durable, up, applier, indexes, crashes, history>>

TakeTask ==
  /\ up = "up" /\ work.pc = "idle" /\ queue # <<>>
  /\ work' = [pc |-> IF Head(queue)[1] = "ADD" THEN "publish" ELSE "unmark_remove",
              name |-> Head(queue)[2]]
  /\ queue' = Tail(queue)
  /\ UNCHANGED <<log, durable, up, applier, indexes, crashes, history>>

(* AddScalarFieldIndex and AddCompositeFieldIndex: the marker is written   *)
(* again and an empty BUILDING object takes the slot.                      *)
InsertIndex ==
  LET n == work.name  s == On[n]
  IN /\ up = "up" /\ work.pc = "publish"
     /\ marks' = marks \cup {n}
     /\ names' = names \cup {n}
     /\ obj' = [obj EXCEPT ![s] = [kind |-> Kind[n], state |-> "BUILDING"]]
     /\ mem' = [mem EXCEPT ![s] = {}]
     /\ work' = [work EXCEPT !.pc = "drop"]
     /\ UNCHANGED <<log, pub, floor, keyTo, row, total, bits, disk, up, applier, queue,
                    crashes, history>>

Emptied(s, kind) ==
  /\ disk' = IF kind = "BITMAP" THEN disk ELSE [disk EXCEPT ![s] = {}]
  /\ mem'  = IF kind = "BITMAP" THEN [mem EXCEPT ![s] = {}] ELSE mem

Filled(s, kind, ds) ==
  /\ disk' = IF kind = "BITMAP" THEN disk ELSE [disk EXCEPT ![s] = @ \cup Scanned(s, ds)]
  /\ mem'  = IF kind = "BITMAP" THEN [mem EXCEPT ![s] = @ \cup Scanned(s, ds)] ELSE mem

(* BuildFieldIndexUnderLock: old keys dropped, then every document up to   *)
(* and including max_docid_ that is not deleted, then READY; the applier's *)
(* index writes wait for the whole of it.                                  *)
BuildDrop ==
  LET s == On[work.name]
  IN /\ up = "up" /\ work.pc = "drop"
     /\ Emptied(s, obj[s].kind)
     /\ work' = [work EXCEPT !.pc = "scan"]
     /\ UNCHANGED <<log, pub, floor, keyTo, row, total, bits, marks, up, applier, names,
                    obj, queue, crashes, history>>

(* A slip: the build stops below max_docid_.                               *)
BuildSpanOpen == {d \in 0 .. maxid : d < maxid} \ bits

BuildSpan == (0 .. maxid) \ bits

(* A build that falls after an update took some covered field out of the   *)
(* indexes, and with no covered field still to come out, puts back a key   *)
(* nothing will remove.                                                    *)
MidUpdate(s) ==
  LET covered == {s[i] : i \in DOMAIN s}
  IN /\ step.pc = "unkey"
     /\ covered \cap step.changed # {} /\ covered \cap step.left = {}

BuildScan ==
  LET n == work.name  s == On[n]
  IN /\ up = "up" /\ work.pc = "scan"
     /\ Filled(s, obj[s].kind, BuildSpan)
     /\ obj' = [obj EXCEPT ![s].state = "READY"]
     /\ work' = [work EXCEPT !.pc = "unmark_add"]
     /\ raced' = (raced \/ MidUpdate(s))
     /\ owed' = owed \ {n} /\ astray' = astray \ {n} /\ blind' = blind \ {n}
     /\ UNCHANGED <<log, pub, floor, keyTo, row, total, bits, marks, up, applier, names,
                    queue, crashes, torn, lost>>

DeleteBuildingMarker ==
  /\ up = "up" /\ work.pc \in {"unmark_add", "unmark_remove"}
  /\ marks' = marks \ {work.name}
  /\ work' = IF work.pc = "unmark_add" THEN Resting ELSE [work EXCEPT !.pc = "erase"]
  /\ UNCHANGED <<log, pub, floor, keyTo, row, total, bits, disk, up, applier, indexes,
                 queue, crashes, history>>

(* RemoveIndex: an unknown name is ignored.                                *)
EraseIndex ==
  LET n == work.name  s == On[n]
  IN /\ up = "up" /\ work.pc = "erase"
     /\ IF n \in names
          THEN /\ names' = names \ {n}
               /\ obj' = [obj EXCEPT ![s] = NoIndex]
               /\ Emptied(s, obj[s].kind)
          ELSE UNCHANGED <<names, obj, mem, disk>>
     /\ work' = Resting
     /\ owed' = owed \ {n} /\ astray' = astray \ {n} /\ blind' = blind \ {n}
     /\ UNCHANGED <<log, pub, floor, keyTo, row, total, bits, marks, up, applier, queue,
                    crashes, torn, raced, lost>>

(***************************************************************************)
(* Crash and restart.                                                      *)
(***************************************************************************)
Pending == {n \in Names : \/ \E i \in DOMAIN queue : queue[i] = <<"ADD", n>>
                          \/ work.pc \in {"publish", "drop", "scan"} /\ work.name = n}

(* The command in progress has been written in part: its key without its   *)
(* count, its row without its index keys, its bitmap bit without its key.  *)
Tearing == step.pc \in {"addrow", "index", "count", "rekey", "unindex", "unmap"}

Crash ==
  /\ up # "down" /\ crashes < MaxCrashes
  /\ crashes' = crashes + 1
  /\ up' = "down"
  /\ floor' \in floor .. next - 1
  /\ torn' = (torn \/ Tearing)
  /\ owed' = owed \cup Pending
  /\ next' = 1 /\ step' = Resting /\ maxid' = 0
  /\ names' = {} /\ obj' = [s \in Slots |-> NoIndex] /\ mem' = [s \in Slots |-> {}]
  /\ queue' = <<>> /\ work' = Resting
  /\ UNCHANGED <<log, pub, keyTo, row, total, bits, disk, marks, high, raced, astray,
                 blind, lost>>

LastAdd(n, p) ==
  CHOOSE i \in 1 .. p : /\ log[i] = [op |-> "add_index", name |-> n]
                        /\ \A j \in i + 1 .. p : log[j] # log[i]

(* The index objects CreateTable makes from the space record, all READY.   *)
Opened(defs) ==
  [s \in Slots |-> IF \E n \in defs : On[n] = s
                   THEN [kind |-> Kind[CHOOSE n \in defs : On[n] = s], state |-> "READY"]
                   ELSE NoIndex]

(* RebuildAllBitmapIndexes: every row below the stored count, the deleted  *)
(* ones too.                                                               *)
RebuildAllBitmapIndexes(defs) ==
  [s \in Slots |-> IF \E n \in defs : On[n] = s /\ Kind[n] = "BITMAP"
                   THEN Scanned(s, 0 .. total - 1) ELSE {}]

(* EnumerateBuildingMarkers, once: the markers Load has to go through.      *)
Recovering(left) == [pc |-> "recover", left |-> left]

(* CreateTable and the first half of Load: the indexes the space record    *)
(* lists exist and are READY, bitmaps are read again, and what RocksDB     *)
(* holds of the others is trusted.  etcd may be ahead of a follower, and   *)
(* behind a replica that has just applied a change.                        *)
LoadOpen ==
  /\ up = "down"
  /\ \E p \in pub .. Len(log) :
       LET defs == Defined(p)
           mine == Defined(high)
           off  == astray \cup IF p <= high THEN (defs \ mine) \cup (mine \ defs) ELSE {}
           here == {n \in defs : n \in owed \cup off \cup lost \/ LastAdd(n, p) > high}
       IN /\ pub' = p
          /\ names' = defs
          /\ obj' = Opened(defs)
          /\ mem' = RebuildAllBitmapIndexes(defs)
          /\ blind' = blind \cup {n \in here : n \notin marks /\ Kind[n] # "BITMAP"}
          /\ astray' = off
  /\ maxid' = total
  /\ next' = floor + 1
  /\ up' = "loading"
  /\ work' = Recovering(marks)
  /\ UNCHANGED <<log, floor, keyTo, row, total, bits, disk, marks, step, high, queue,
                 crashes, torn, raced, owed, lost>>

(* The second half of Load: a marker without an index is cleared, a bitmap *)
(* is complete already, any other marked index is emptied and refilled.    *)
RecoverMarker ==
  /\ up = "loading" /\ work.pc = "recover"
  /\ \E n \in work.left :
       IF n \notin names \/ Kind[n] = "BITMAP"
       THEN /\ marks' = marks \ {n}
            /\ work' = Recovering(work.left \ {n})
            /\ UNCHANGED <<disk, mem, obj>>
       ELSE /\ Emptied(On[n], Kind[n])
            /\ obj' = [obj EXCEPT ![On[n]].state = "BUILDING"]
            /\ work' = [pc |-> "backfill", name |-> n, left |-> work.left \ {n}]
            /\ UNCHANGED marks
  /\ UNCHANGED <<log, pub, floor, keyTo, row, total, bits, up, applier, names, queue,
                 crashes, history>>

BackfillSpan == (0 .. (IF maxid > 0 THEN maxid - 1 ELSE 0)) \ bits

BackfillScalarIndex ==
  LET n == work.name  s == On[n]
  IN /\ up = "loading" /\ work.pc = "backfill"
     /\ Filled(s, Kind[n], BackfillSpan)
     /\ obj' = [obj EXCEPT ![s].state = "READY"]
     /\ marks' = marks \ {n}
     /\ work' = Recovering(work.left)
     /\ owed' = owed \ {n} /\ blind' = blind \ {n}
     /\ UNCHANGED <<log, pub, floor, keyTo, row, total, bits, up, applier, names,
                    queue, crashes, torn, raced, astray, lost>>

LoadDone ==
  /\ up = "loading" /\ work = Recovering({})
  /\ up' = "up" /\ work' = Resting
  /\ UNCHANGED <<log, durable, applier, indexes, queue, crashes, history>>

Init ==
  /\ log \in Logs
  /\ pub = 0 /\ floor = 0 /\ keyTo = <<>> /\ row = <<>> /\ total = 0 /\ bits = {}
  /\ disk = [s \in Slots |-> {}] /\ marks = {}
  /\ up = "up" /\ next = 1 /\ step = Resting /\ maxid = 0 /\ high = 0
  /\ names = {} /\ obj = [s \in Slots |-> NoIndex] /\ mem = [s \in Slots |-> {}]
  /\ queue = <<>> /\ work = Resting
  /\ crashes = 0
  /\ torn = FALSE /\ raced = FALSE /\ owed = {} /\ astray = {} /\ blind = {}
  /\ lost = {}

Applier ==
  \/ AddOrUpdate \/ TableAddKey \/ TableAddRow \/ IndexNewDoc \/ CountDoc
  \/ UnindexField \/ TableUpdate \/ ReindexField \/ UpdateDone
  \/ Delete \/ UnindexDoc \/ TableDelete
  \/ AddFieldIndex \/ RemoveFieldIndex

Worker ==
  \/ TakeTask \/ InsertIndex \/ BuildDrop \/ BuildScan \/ DeleteBuildingMarker
  \/ EraseIndex

Load == LoadOpen \/ RecoverMarker \/ BackfillScalarIndex \/ LoadDone

Next == Applier \/ Worker \/ Load \/ Crash

Spec == Init /\ [][Next]_vars

(***************************************************************************)
(* Properties.                                                             *)
(***************************************************************************)
TypeOK ==
  /\ DOMAIN keyTo \subseteq {log[i].key : i \in {j \in DOMAIN log : log[j].op = "upsert"}}
  /\ \A k \in DOMAIN keyTo : keyTo[k] \in Nat
  /\ \A d \in DOMAIN row : DOMAIN row[d] = Fields
  /\ total \in Nat /\ maxid \in 0 .. total
  /\ names \subseteq Names /\ marks \subseteq Names
  /\ \A s \in Slots : obj[s] = NoIndex \/ obj[s] \in [kind : Sorts, state : {"BUILDING", "READY"}]
  /\ up \in {"up", "down", "loading"} /\ next \in 1 .. Len(log) + 1

AtRest == up = "up" /\ step.pc = "idle"
CaughtUp == AtRest /\ next > high

(* What GetDoc returns: no document that is deleted or not yet counted.    *)
GetDoc(k) ==
  LET d == GetDocidByKey(k)
  IN IF d = -1 \/ d >= maxid \/ d \in bits THEN {} ELSE {row[d]}

(* Once a replica has applied, or applied again after a crash, every       *)
(* command it had started, its live documents are exactly what those       *)
(* commands say: AddOrUpdate, Update and Delete may be run a second time   *)
(* over a state that is already ahead of them and the end is the same.     *)
(* Not promised after a crash inside a document command.                   *)
DocumentsAreTheLog ==
  CaughtUp /\ ~torn =>
    LET m == Documents(next - 1)
    IN \A i \in {j \in DOMAIN log : log[j].op = "upsert"} :
         LET k == log[i].key
         IN GetDoc(k) = IF k \in DOMAIN m THEN {m[k]} ELSE {}

Live == {d \in DOMAIN row : d < maxid /\ d \notin bits}
Held(s) == {e \in (IF obj[s].kind = "BITMAP" THEN mem[s] ELSE disk[s]) : e[2] \notin bits}
ReadyAndExact(s) == obj[s].state = "READY" => Held(s) = {GenCompositeKey(s, d) : d \in Live}

(* Between two commands, once a restarted replica has caught up, a READY   *)
(* index holds one key for every live document, under the value its row    *)
(* has, and no other key of a live document: through builds that run among *)
(* writes, removals, crashes, and the rebuild of what a BUILDING marker    *)
(* names.  Not promised of an index                                        *)
(* built in the middle of an update, after a crash inside a document       *)
(* command, or of an index Load trusted without its having been built.     *)
ReadyIsExact ==
  CaughtUp /\ ~torn /\ ~raced =>
    \A n \in names \ blind : ReadyAndExact(On[n])

Settled == AtRest /\ next > Len(log) /\ work.pc = "idle" /\ queue = <<>>

(* When the log is applied and the worker's queue is empty, the indexes    *)
(* that exist are those the log's index changes leave, each READY, and no  *)
(* BUILDING marker remains to make the next Load rebuild one.  Not         *)
(* promised of an index added while its removal was still queued, nor of   *)
(* one on which etcd was behind this replica at a restart.                 *)
IndexesAreTheLog ==
  Settled =>
    /\ marks = {}
    /\ \A n \in Names \ (lost \cup owed \cup astray) :
         /\ n \in names <=> n \in Defined(Len(log))
         /\ n \in names => obj[On[n]].state = "READY"

=============================================================================
