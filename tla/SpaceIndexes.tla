---------------------------- MODULE SpaceIndexes ----------------------------
(***************************************************************************)
(* The indexes of a space while requests add and remove them: the record   *)
(* in etcd, the raft log of every partition and the list that every        *)
(* replica keeps (master/services/space_service.go, ps/storage/raftstore,  *)
(* ps/engine/gammacb).                                                     *)
(*                                                                         *)
(* A request holds the lock of the space, sends its change to the leaders  *)
(* of all partitions at once, writes the record and, when a call or the    *)
(* write fails, sends the opposite change. A replica that restarts takes   *)
(* its list from the record and applies the log again from its last flush. *)
(*                                                                         *)
(* An engine queues a change for its worker. How the worker builds an      *)
(* index, and that it may fail to, is in EngineIndexes and left out here.  *)
(* The lock is taken to outlive its request (its lease is 300 seconds).    *)
(***************************************************************************)
EXTENDS Integers, Sequences, FiniteSets

LOCAL INSTANCE FiniteSetsExt

CONSTANT Plans   \* sequence of [fields, inline, given, requests, copies, mishaps]

VARIABLES
  plan,     \* the case: what this behaviour starts with and asks
  space,      \* the record of the space in etcd
  holder,     \* the request that holds the lock of the space, or 0
  asked,      \* the requests
  flights,    \* calls to leaders that are under way
  logs,       \* raft log of every partition
  replica,    \* <<partition, number>>, 1 being the leader
  fans,       \* how many changes were sent out
  mishaps,    \* failures, restarts and snapshots that may still happen
  doubt       \* <<partition, name>>: a change that was not undone in order

indexVars == <<plan, space, holder, asked, flights, logs, replica, fans, mishaps, doubt>>

Reqs == DOMAIN plan.requests
Partitions == DOMAIN plan.copies
Replicas(p) == 1 .. plan.copies[p]

(* An index is a name, a type and the fields it covers. `inline` are the   *)
(* indexes declared in the fields of a space: Fields and SpaceProperties   *)
(* hold the same ones. A field has a type. A type that is not known, or an *)
(* index with parameters out of their ranges, is `unknown`.                *)
IsScalarIndexType(type) == type \in {"SCALAR", "INVERTED", "BITMAP", "COMPOSITE"}

Readable(i) == i.type # "unknown"

NamesOf(ixs) == {i.name : i \in ixs}
Single(ixs) == {i \in ixs : i.type # "COMPOSITE"}
Composite(ixs) == {i \in ixs : i.type = "COMPOSITE"}

ValidateIndexes(ixs, fields) ==
  /\ \A i, j \in ixs : i.name = j.name => i = j
  /\ \A i \in Single(ixs) :
       /\ Len(i.on) = 1 /\ i.on[1] \in DOMAIN fields
       /\ IsScalarIndexType(i.type) <=> fields[i.on[1]] # "vector"
  /\ \A i \in Composite(ixs) :
       /\ Len(i.on) >= 2
       /\ \A k \in DOMAIN i.on :
            /\ i.on[k] \in DOMAIN fields /\ fields[i.on[k]] # "vector"
            /\ \A l \in DOMAIN i.on : i.on[k] = i.on[l] => k = l

(* What the fields of a space or of a request must be: known types, names  *)
(* that are not reserved, inline indexes of the right kind with different  *)
(* names.                                                                  *)
UnmarshalPropertyJSON(s) ==
  /\ \A f \in DOMAIN s.fields : f \notin {"_id", "_score"} /\ s.fields[f] # "unknown"
  /\ \A i, j \in s.inline : i.name = j.name => i = j
  /\ \A i \in s.inline : Readable(i) /\ (IsScalarIndexType(i.type) <=> s.fields[i.field] # "vector")

(* MergeFieldIndexes: an inline index without a name gets one. The spaces  *)
(* of the plans are among those it accepts: no inline composite index, no  *)
(* field indexed twice.                                                    *)
MakeAutoIndexName(field) == <<"index of", field>>

MergeFieldIndexes(inline, given) ==
  given \cup {[name |-> IF i.name = "" THEN MakeAutoIndexName(i.field) ELSE <<i.name>>,
               type |-> i.type, on |-> <<i.field>>] : i \in inline}

(* The list an engine is created with; a record without a list means the   *)
(* inline indexes.                                                         *)
mapping2Table(s) ==
  IF s.indexes # {} THEN s.indexes
  ELSE {[name |-> <<i.name>>, type |-> i.type, on |-> <<i.field>>] : i \in s.inline}

-----------------------------------------------------------------------------
(* What a request makes of the record it read under the lock.              *)

(* AddIndexes: new names, no second index of one field, no second          *)
(* composite of the same fields.                                           *)
Addable(s, new) ==
  /\ new # {}
  /\ NamesOf(new) \cap NamesOf(s.indexes) = {}
  /\ \A i \in new, j \in new \cup s.indexes :
       (i # j /\ (i.type = "COMPOSITE") = (j.type = "COMPOSITE")) => i.on # j.on
  /\ ValidateIndexes(s.indexes \cup new, s.fields)

inlineIndexMatches(inline, removed) ==
  IF inline.name # "" THEN <<inline.name>> = removed.name ELSE inline.type = removed.type

(* slip: the inline index of the field is kept                            *)
clearFieldInlineIndexNot(inline, removed) == inline

clearFieldInlineIndex(inline, removed) ==
  {i \in inline : ~(<<i.field>> = removed.on /\ inlineIndexMatches(i, removed))}

Without(s, removed) ==
  [s EXCEPT !.indexes = @ \ {removed},
            !.inline = IF removed.type = "COMPOSITE" THEN @ ELSE clearFieldInlineIndex(@, removed)]

(* handleConfigurationUpdate: the fields of the request may not change     *)
(* what is indexed, nor the type of a field.                               *)
Indexed(inline) == {i.field : i \in inline}

detectIndexChanges(s, new) ==
  LET both == DOMAIN s.fields \cap DOMAIN new.fields
      added == DOMAIN new.fields \ DOMAIN s.fields
  IN {f \in both : (f \in Indexed(s.inline)) # (f \in Indexed(new.inline))} \cup (added \cap Indexed(new.inline))

arePropertiesEqual(s, new, f) == s.fields[f] = new.fields[f]

MergeSchemaArray(s, new) ==
  [f \in DOMAIN s.fields \cup DOMAIN new.fields |-> IF f \in DOMAIN new.fields THEN new.fields[f] ELSE s.fields[f]]

(* The list is made again from the inline indexes when there are new       *)
(* fields: the replicas refuse such a record (UpdateMapping).              *)
updateSpaceFields(s, new) ==
  IF DOMAIN new.fields \subseteq DOMAIN s.fields THEN s
  ELSE [s EXCEPT !.fields = MergeSchemaArray(s, new), !.indexes = MergeFieldIndexes(s.inline, {})]

Updatable(s, new) ==
  /\ UnmarshalPropertyJSON(new)
  /\ detectIndexChanges(s, new) = {}
  /\ \A f \in DOMAIN s.fields \cap DOMAIN new.fields : arePropertiesEqual(s, new, f)

-----------------------------------------------------------------------------
(* A replica: `list` are the indexes whose names its engine knows, `queue` *)
(* the tasks of the engine's worker, `seen` the space that the engine and  *)
(* the store remember and the partition meta file holds, `done` how far it *)
(* applied the log, `flushed` where it began at its last start, `failed`   *)
(* the entries it could not apply. History: `lost` are names whose         *)
(* addition the engine passed over while their removal was in its queue,   *)
(* `astray` the names on which it was last loaded behind the log, or       *)
(* failed to apply a change of the log with nobody to undo it.             *)

Removing(r, name) == \E k \in DOMAIN r.queue : r.queue[k] = [op |-> "remove", name |-> name]

(* Engine::AddFieldIndex: an index whose name is taken is passed over; the *)
(* name of a vector index is taken at once.                                *)
AddFieldIndex(i, r) ==
  IF i.name \in NamesOf(r.list) THEN [r EXCEPT !.lost = IF Removing(r, i.name) THEN @ \cup {i.name} ELSE @]
  ELSE [r EXCEPT !.list = IF IsScalarIndexType(i.type) THEN @ ELSE @ \cup {i},
                 !.queue = Append(@, [op |-> "add", index |-> i]), !.lost = @ \ {i.name}]

addFieldIndex(r, new) == FoldSet(AddFieldIndex, r, new)
removeFieldIndex(r, name) == [r EXCEPT !.queue = Append(@, [op |-> "remove", name |-> name])]

appendSpaceIndexes(ixs, new) == ixs \cup {i \in new : i.name \notin NamesOf(ixs)}
removeSpaceIndex(ixs, name) == {i \in ixs : i.name # name}

AddIndexes(r, new) == [addFieldIndex(r, new) EXCEPT !.seen.indexes = appendSpaceIndexes(@, new)]
RemoveIndex(r, name) == [removeFieldIndex(r, name) EXCEPT !.seen.indexes = removeSpaceIndex(@, name)]

(* UpdateMapping takes a record with the same fields.                      *)
UpdateMapping(r, s) == IF s.fields = r.seen.fields THEN [r EXCEPT !.seen = s] ELSE r

innerApply(r, change) ==
  CASE change.op = "add"    -> AddIndexes(r, change.indexes)
    [] change.op = "remove" -> RemoveIndex(r, change.name)
    [] change.op = "update" -> UpdateMapping(r, change.space)

Accepted(change) == change.op = "update" => change.space.fields = plan.fields

Touches(change) ==
  CASE change.op = "add"    -> NamesOf(change.indexes)
    [] change.op = "remove" -> {change.name}
    [] change.op = "update" -> {}

Apply(p, n) ==
  /\ replica[p][n].done < Len(logs[p])
  /\ LET r == replica[p][n]
     IN replica' = [replica EXCEPT ![p][n] = [innerApply(r, logs[p][r.done + 1].change) EXCEPT !.done = @ + 1]]
  /\ UNCHANGED <<plan, space, holder, asked, flights, logs, fans, mishaps, doubt>>

(* The engine refuses an index, the ones before it being queued, or the    *)
(* meta file cannot be saved after the engine made the whole change: the   *)
(* entry counts as applied, and only the answer of a leader tells.         *)
Queued(r, change) ==
  {innerApply(r, change)} \cup
  (IF change.op = "add" THEN {addFieldIndex(r, some) : some \in SUBSET change.indexes \ {change.indexes}} ELSE {r})

ApplyFails(p, n) ==
  /\ replica[p][n].done < Len(logs[p])
  /\ mishaps.faults > 0 /\ mishaps' = [mishaps EXCEPT !.faults = @ - 1]
  /\ LET r == replica[p][n]
         e == logs[p][r.done + 1]
         heard == n = 1 /\ e.nr = asked[e.req].first /\ \E f \in flights : f.part = p /\ f.at = r.done + 1
     IN \E r2 \in Queued(r, e.change) :
          replica' = [replica EXCEPT ![p][n] =
                        [r2 EXCEPT !.done = @ + 1, !.failed = @ \cup {r.done + 1},
                                   !.astray = IF heard THEN @ ELSE @ \cup Touches(e.change)]]
  /\ UNCHANGED <<plan, space, holder, asked, flights, logs, fans, doubt>>

(* The worker of the engine runs the first task.                           *)
IndexMaintenanceLoop(p, n) ==
  /\ replica[p][n].queue # <<>>
  /\ LET task == Head(replica[p][n].queue)
     IN replica' = [replica EXCEPT ![p][n].queue = Tail(@),
                                   ![p][n].list = IF task.op = "add" THEN @ \cup {task.index} ELSE removeSpaceIndex(@, task.name)]
  /\ UNCHANGED <<plan, space, holder, asked, flights, logs, fans, mishaps, doubt>>

(* The entries up to which the replica may have flushed by now: a flush    *)
(* shows at the next start or snapshot.                                    *)
Flushed(r) == r.flushed .. r.done

(* The list that the log up to an entry defines.                           *)
Meant(ixs, change) ==
  CASE change.op = "add"    -> appendSpaceIndexes(ixs, change.indexes)
    [] change.op = "remove" -> removeSpaceIndex(ixs, change.name)
    [] change.op = "update" -> ixs

Defined(p, k) ==
  LET f[j \in 0 .. k] == IF j = 0 THEN MergeFieldIndexes(plan.inline, plan.given) ELSE Meant(f[j - 1], logs[p][j].change)
  IN f[k]

Named(ixs, name) == {i \in ixs : i.name = name}

Behind(p, k, ixs) == {n \in NamesOf(ixs) \cup NamesOf(Defined(p, k)) : Named(ixs, n) # Named(Defined(p, k), n)}

Touched(p, k) == UNION {Touches(logs[p][j].change) : j \in k + 1 .. Len(logs[p])}

(* LoadPartition: the replica stops and starts with the record in etcd,    *)
(* which may be behind or ahead of the log.                                *)
LoadPartition(p, n) ==
  /\ mishaps.restarts > 0
  /\ mishaps' = [mishaps EXCEPT !.restarts = @ - 1]
  /\ LET table == mapping2Table(space)
     IN \E k \in Flushed(replica[p][n]) :
          replica' = [replica EXCEPT ![p][n] =
                        [list |-> table, queue |-> <<>>, seen |-> space, done |-> k, flushed |-> k, failed |-> {}, lost |-> {},
                         astray |-> Behind(p, k, space.indexes) \ Touched(p, k)]]
  /\ UNCHANGED <<plan, space, holder, asked, flights, logs, fans, doubt>>

(* A follower that the leader's log no longer reaches gets its data; its   *)
(* engine is built again with the space that the follower remembers.       *)
NewSnapshot(p) == Flushed(replica[p][1])

ReBuildEngine(r) == [r EXCEPT !.list = mapping2Table(r.seen), !.queue = <<>>, !.lost = {}]

ApplySnapshot(p, n) ==
  /\ mishaps.snapshots > 0 /\ n # 1
  /\ LET r == ReBuildEngine(replica[p][n])
     IN \E sn \in NewSnapshot(p) :
          /\ r.done < sn
          /\ replica' = [replica EXCEPT ![p][1].flushed = sn,
                            ![p][n] = [r EXCEPT !.done = sn, !.flushed = sn, !.astray = @ \cup Behind(p, sn, r.list)]]
  /\ mishaps' = [mishaps EXCEPT !.snapshots = @ - 1]
  /\ UNCHANGED <<plan, space, holder, asked, flights, logs, fans, doubt>>

-----------------------------------------------------------------------------
(* Calls to the leaders. A fan-out sends one change to every partition and *)
(* goes on at the first error, whatever the other calls do later.          *)

Launch(q, change, new) ==
  /\ fans' = fans + 1
  /\ flights' = flights \cup {[req |-> q, nr |-> fans + 1, part |-> p, change |-> change, at |-> 0] : p \in Partitions}
  /\ asked' = [asked EXCEPT ![q] = [new EXCEPT !.nr = fans + 1, !.left = Partitions]]

End(q, answer) ==
  /\ holder' = 0
  /\ asked' = [asked EXCEPT ![q].pc = "done", ![q].answer = answer]

(* What an answer does to the request that waits for it.                   *)
Replied(f, ok) ==
  LET a == asked[f.req]
      fails == a.pc = "fan" /\ a.undo = {}
  IN IF a.pc \notin {"fan", "reverse"} \/ a.nr # f.nr THEN UNCHANGED <<asked, holder>>
     ELSE IF ok
     THEN /\ asked' = [asked EXCEPT ![f.req].left = @ \ {f.part},
                                    ![f.req].pc = IF a.left # {f.part} THEN @ ELSE IF a.pc = "fan" THEN "write" ELSE "undo"]
          /\ UNCHANGED holder
     ELSE IF fails THEN End(f.req, "error")
     ELSE asked' = [asked EXCEPT ![f.req].pc = "undo"] /\ UNCHANGED holder

(* A change that reaches a partition after a later one about the same      *)
(* index, or after the record it carries is out of date.                   *)
OutOfTurn(f) ==
  LET later == {c \in {logs[f.part][j] : j \in DOMAIN logs[f.part]} : c.nr > f.nr}
      names == UNION {Touches(c.change) : c \in later}
  IN IF f.change.op = "update" THEN names ELSE names \cap Touches(f.change)

Submit(f) ==
  /\ f.at = 0
  /\ logs' = [logs EXCEPT ![f.part] = Append(@, [req |-> f.req, nr |-> f.nr, change |-> f.change])]
  /\ flights' = (flights \ {f}) \cup {[f EXCEPT !.at = Len(logs[f.part]) + 1]}
  /\ doubt' = doubt \cup ({f.part} \X OutOfTurn(f))
  /\ UNCHANGED <<plan, space, holder, asked, replica, fans, mishaps>>

Response(f) ==
  /\ f.at # 0 /\ replica[f.part][1].done >= f.at
  /\ flights' = flights \ {f}
  /\ Replied(f, Accepted(f.change) /\ f.at \notin replica[f.part][1].failed)
  /\ UNCHANGED <<plan, space, logs, replica, fans, mishaps, doubt>>

(* The partition or its server is not found, is not live, has another      *)
(* leader: nothing is submitted; or the answer is lost.                    *)
CallFails(f) ==
  /\ mishaps.faults > 0
  /\ mishaps' = [mishaps EXCEPT !.faults = @ - 1]
  /\ flights' = flights \ {f}
  /\ Replied(f, FALSE)
  /\ LET sent == \/ \E j \in DOMAIN logs[f.part] : logs[f.part][j].req = f.req
                 \/ \E g \in flights : g.req = f.req /\ g.part = f.part /\ g.nr < f.nr
     IN doubt' = IF f.at = 0 /\ asked[f.req].first # f.nr /\ sent
                 THEN doubt \cup ({f.part} \X Touches(f.change)) ELSE doubt
  /\ UNCHANGED <<plan, space, logs, replica, fans>>

-----------------------------------------------------------------------------
(* The requests: add, remove, update (with fields of the caller) and       *)
(* member (with the fields a change of members read before the lock).      *)

Begin(q) ==
  /\ asked[q].pc = "start"
  /\ asked' = [asked EXCEPT ![q].pc = "lock",
                            ![q].new = IF plan.requests[q].op = "update" THEN plan.requests[q].new
                                       ELSE [fields |-> space.fields, inline |-> space.inline]]
  /\ UNCHANGED <<plan, space, holder, flights, logs, replica, fans, mishaps, doubt>>

Locked(q) == asked[q].pc = "lock" /\ holder = 0

Refuse(q) ==
  /\ asked' = [asked EXCEPT ![q].pc = "done", ![q].answer = "refused"]
  /\ UNCHANGED <<holder, flights, fans>>

Proceed(q, change, work, undo) ==
  /\ holder' = q
  /\ Launch(q, change, [asked[q] EXCEPT !.pc = "fan", !.work = work, !.undo = undo, !.first = fans + 1])

createIndexes(q) ==
  /\ Locked(q) /\ plan.requests[q].op = "add"
  /\ LET new == plan.requests[q].indexes
     IN IF ~((\A i \in new : Readable(i)) /\ Addable(space, new)) THEN Refuse(q)
        ELSE Proceed(q, [op |-> "add", indexes |-> new], [space EXCEPT !.indexes = @ \cup new],
                {[op |-> "remove", name |-> n] : n \in NamesOf(new)})
  /\ UNCHANGED <<plan, space, logs, replica, mishaps, doubt>>

deleteIndex(q) ==
  /\ Locked(q) /\ plan.requests[q].op = "remove"
  /\ LET name == plan.requests[q].name
     IN IF name \notin NamesOf(space.indexes) THEN Refuse(q)
        ELSE LET removed == CHOOSE i \in space.indexes : i.name = name
             IN Proceed(q, [op |-> "remove", name |-> name], Without(space, removed), {[op |-> "add", indexes |-> {removed}]})
  /\ UNCHANGED <<plan, space, logs, replica, mishaps, doubt>>

updateSpace(q) ==
  /\ Locked(q) /\ plan.requests[q].op \in {"update", "member"}
  /\ IF ~Updatable(space, asked[q].new) THEN Refuse(q)
     ELSE LET work == updateSpaceFields(space, asked[q].new)
          IN Proceed(q, [op |-> "update", space |-> work], work, {})
  /\ UNCHANGED <<plan, space, logs, replica, mishaps, doubt>>

UpdateSpaceData(q) ==
  /\ asked[q].pc = "write"
  /\ space' = asked[q].work
  /\ End(q, "ok")
  /\ UNCHANGED <<plan, flights, logs, replica, fans, mishaps, doubt>>

(* The write fails, or succeeds and the master does not learn it.          *)
UpdateSpaceDataFails(q) ==
  /\ asked[q].pc = "write" /\ mishaps.faults > 0
  /\ mishaps' = [mishaps EXCEPT !.faults = @ - 1]
  /\ \/ UNCHANGED <<space, doubt>>
     \/ /\ space' = asked[q].work
        /\ doubt' = doubt \cup (Partitions \X UNION {Touches(c) : c \in asked[q].undo})
  /\ IF asked[q].undo = {} THEN End(q, "error")
     ELSE asked' = [asked EXCEPT ![q].pc = "undo"] /\ UNCHANGED holder
  /\ UNCHANGED <<plan, flights, logs, replica, fans>>

compensateIndexChange(q) ==
  /\ asked[q].pc = "undo"
  /\ IF asked[q].undo = {} THEN End(q, "error") /\ UNCHANGED <<flights, fans>>
     ELSE \E c \in asked[q].undo :
            Launch(q, c, [asked[q] EXCEPT !.pc = "reverse", !.undo = @ \ {c}]) /\ UNCHANGED holder
  /\ UNCHANGED <<plan, space, logs, replica, mishaps, doubt>>

-----------------------------------------------------------------------------
IndexInit ==
  /\ \E i \in DOMAIN Plans : plan = Plans[i]
  /\ space = [fields |-> plan.fields, inline |-> plan.inline, indexes |-> MergeFieldIndexes(plan.inline, plan.given)]
  /\ holder = 0 /\ flights = {} /\ fans = 0 /\ doubt = {}
  /\ asked = [q \in Reqs |-> [pc |-> "start", answer |-> "", new |-> [fields |-> <<>>, inline |-> {}], work |-> space,
                              undo |-> {}, nr |-> 0, first |-> 0, left |-> {}]]
  /\ logs = [p \in Partitions |-> <<>>]
  /\ replica = [p \in Partitions |-> [n \in Replicas(p) |->
                  [list |-> mapping2Table(space), queue |-> <<>>, seen |-> space, done |-> 0, flushed |-> 0, failed |-> {},
                   lost |-> {}, astray |-> {}]]]
  /\ mishaps = plan.mishaps

RequestStep(q) == \/ Begin(q) \/ createIndexes(q) \/ deleteIndex(q) \/ updateSpace(q)
                  \/ UpdateSpaceData(q) \/ compensateIndexChange(q)

IndexNext ==
  \/ \E q \in Reqs : RequestStep(q) \/ UpdateSpaceDataFails(q)
  \/ \E f \in flights : Submit(f) \/ Response(f) \/ CallFails(f)
  \/ \E p \in Partitions : \E n \in Replicas(p) : \/ Apply(p, n) \/ ApplyFails(p, n) \/ IndexMaintenanceLoop(p, n)
                                                       \/ LoadPartition(p, n) \/ ApplySnapshot(p, n)

-----------------------------------------------------------------------------
(* Once every request and every call has ended, a replica that has applied *)
(* its log and run its tasks has exactly the indexes of the record in      *)
(* etcd, in its engine and in the space it remembers, whether requests     *)
(* succeeded, failed half way on a partition or were refused, and whether  *)
(* it restarted meanwhile. Left out are indexes whose opposite change did  *)
(* not get through in order (doubt) and those on which the replica was     *)
(* loaded behind its own log or failed unheard (astray). Its engine, not   *)
(* the space it remembers, may also lack an index that was added again     *)
(* while its removal was queued (lost).                                    *)
AtRest == flights = {} /\ \A q \in Reqs : asked[q].pc = "done"

CaughtUp(p, n) == replica[p][n].done = Len(logs[p]) /\ replica[p][n].queue = <<>>

IndexesAgree ==
  AtRest =>
    \A p \in Partitions : \A n \in Replicas(p) :
      LET r == replica[p][n]
          known == NamesOf(space.indexes) \cup NamesOf(r.list) \cup NamesOf(r.seen.indexes)
      IN CaughtUp(p, n) =>
           \A name \in known \ r.astray :
             \/ <<p, name>> \in doubt
             \/ /\ Named(r.list, name) = IF name \in r.lost THEN {} ELSE Named(space.indexes, name)
                /\ Named(r.seen.indexes, name) = Named(space.indexes, name)

IndexesSettled == AtRest /\ \A p \in Partitions : \A n \in Replicas(p) : CaughtUp(p, n)
=============================================================================
