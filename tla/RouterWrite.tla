---- MODULE RouterWrite ----
(***************************************************************************)
(* Upserts, gets by id, deletions by query, flushes, index rebuilds and    *)
(* force merges of a space, from the router to the partitions and back     *)
(* (client/client.go Execute, DelByQueryeExecute, FlushExecute,            *)
(* RebuildIndexExecute, ForceMergeExecute; ps/handler_document.go bulk,    *)
(* deleteByQuery, flush, rebuildIndex, forceMerge).                        *)
(*                                                                         *)
(* A partition is a raft group: log holds what it committed and done how   *)
(* much of it a node has applied.  The router calls the node its cache     *)
(* takes for the leader; an upsert and a get go on to every replica when   *)
(* the call fails.  A call that broke or timed out goes on at the server.  *)
(* Several requests run at once; req and env are fixed at the start.       *)
(***************************************************************************)
EXTENDS Integers, FiniteSets, Sequences, SequencesExt, FiniteSetsExt

CONSTANTS Clients,    \* one request each
          Partitions, \* 1 .. the number of partitions, in the order of their slots
          Replicas,   \* the nodes, in the order of Partition.Replicas
          Keys,       \* key |-> its murmur3 hash
          Scenarios   \* requests with their environment

VARIABLES req, env,
          leader,   \* partition |-> its leader
          log,      \* partition |-> committed entries
          content,  \* partition |-> its documents before the first entry and after each
          done,     \* node |-> partition |-> entries applied
          state,    \* what became of each request
          sendMap,  \* the documents of each partition
          call,     \* the router's goroutine of a request and a partition
          try,      \* the calls as their servers see them
          chan,     \* respChain: partitions in the order of their answers
          res,      \* what each of them answered
          flushed,  \* flushes and rebuilds that a node completed
          floor,    \* what was acknowledged when a request began
          lapses, faults

vars == <<req, env, leader, log, content, done, state, sendMap, call, try, chan, res, flushed, floor, lapses, faults>>

raft == <<leader, log, content, done>>
rigid == <<req, env>>

Hosts == Range(Replicas)
Attempts == 0 .. Len(Replicas)

NoTry == [st |-> "none", node |-> Replicas[1], todo |-> {}, at |-> {}, failed |-> FALSE, out |-> <<>>]
NoCall == [pc |-> "idle", t |-> 0, err |-> FALSE, seen |-> {}, got |-> {}]
NoAnswer == [given |-> FALSE, err |-> FALSE, out |-> <<>>]

Init ==
  /\ \E s \in Scenarios : req = s.req /\ env = s.env /\ faults = s.faults
  /\ leader = [p \in Partitions |-> Replicas[1]]
  /\ log = [p \in Partitions |-> <<>>]
  /\ content = [p \in Partitions |-> <<env.initial[p]>>]
  /\ done = [n \in Hosts |-> [p \in Partitions |-> 0]]
  /\ state = [c \in Clients |-> "new"]
  /\ sendMap = [c \in Clients |-> [p \in {0} \cup Partitions |-> <<>>]]
  /\ call = [c \in Clients |-> [p \in Partitions |-> NoCall]]
  /\ try = [c \in Clients |-> [p \in Partitions |-> [t \in Attempts |-> NoTry]]]
  /\ chan = [c \in Clients |-> <<>>]
  /\ res = [c \in Clients |-> [p \in Partitions |-> NoAnswer]]
  /\ flushed = {} /\ floor = [c \in Clients |-> [p \in Partitions |-> 0]] /\ lapses = {}

Fault == faults > 0 /\ faults' = faults - 1
NoFault == UNCHANGED faults

----------------------------------------------------------------------------
(* Which partition a document goes to *)

(* Binary search for the last partition whose first slot is at most slot; *)
(* the sequence is numbered from 1 here.                                  *)
PartitionId(slot) ==
  LET search[r \in (0 .. Len(env.slots)) \X (-1 .. Len(env.slots))] ==
        LET mid == (r[1] + r[2]) \div 2
            v == env.slots[mid + 1]
        IN  CASE r[1] > r[2] -> r[1]
              [] r[1] <= r[2] /\ v > slot -> search[<<r[1], mid - 1>>]
              [] r[1] <= r[2] /\ v < slot -> search[<<mid + 1, r[2]>>]
              [] OTHER -> mid + 1
  IN  search[<<0, Len(env.slots) - 1>>]

(* The partitions of the first range above the document's value; none when *)
(* there is no such range.                                                 *)
PartitionIdsByRangeField(value) ==
  IF Len(env.slots) = 1 THEN <<1>>
  ELSE LET above == {i \in DOMAIN env.rule : value < env.rule[i].value}
       IN  IF above = {} THEN <<>> ELSE env.rule[Min(above)].pids

HashIn(k, pids) == pids[(Keys[k] % Len(pids)) + 1]

(* The partition of one document of an upsert; 0 refuses the request: the  *)
(* rule's field is missing (v = 0), no range has its value, or the range   *)
(* has no partition, of which the modulo panics.                           *)
UpsertTo(r, d) ==
  CASE env.rule # <<>> -> LET pids == PartitionIdsByRangeField(d.v)
                          IN  IF d.v = 0 \/ pids = <<>> THEN 0 ELSE HashIn(d.k, pids)
    [] env.rule = <<>> /\ r.partitions # <<>> -> HashIn(d.k, r.partitions)
    [] OTHER -> PartitionId(Keys[d.k])

UpsertByPartitions(r) == [p \in {0} \cup Partitions |-> SelectSeq(r.docs, LAMBDA d : UpsertTo(r, d) = p)]
(* A get by key, and one that names the partition: a docid stands for the  *)
(* key of its document there.                                              *)
PartitionDocs(r) == [p \in {0} \cup Partitions |-> SelectSeq(r.docs, LAMBDA d : PartitionId(Keys[d.k]) = p)]

PartitionDocsById(r) == [p \in {0} \cup Partitions |-> IF r.partitions = <<p>> THEN r.docs ELSE <<>>]

ByDocs(r) == r.op \in {"bulk", "get"}
SendMap(r) ==
  CASE r.op = "bulk" -> UpsertByPartitions(r)
    [] r.op = "get" -> IF r.partitions = <<>> THEN PartitionDocs(r) ELSE PartitionDocsById(r)
    [] OTHER -> [p \in {0} \cup Partitions |-> <<>>]
DocsOf(c, p) == sendMap[c][p]

(* An upsert or a get asks the partitions of its documents, the other      *)
(* requests all of them or the one they name.                              *)
CommonByPartitions(r) == IF r.partitions = <<>> THEN 1 .. Len(env.slots) ELSE Range(r.partitions)
PartsOf(r) == IF ByDocs(r) THEN {p \in 1 .. Len(env.slots) : SendMap(r)[p] # <<>>} ELSE CommonByPartitions(r)

----------------------------------------------------------------------------
(* The content of a partition: an entry puts documents one by one or       *)
(* deletes one.  The engine refuses a bad document.                        *)
PutDoc(s, d) == IF d.bad THEN s ELSE [s EXCEPT ![d.k] = d.v]
ApplyEntry(s, e) ==
  IF e.kind = "put" THEN FoldLeft(PutDoc, s, e.docs) ELSE [s EXCEPT ![e.docs[1].k] = 0]
Content(p, i) == content[p][i + 1]

Apply(n, p) ==
  /\ done[n][p] < Len(log[p])
  /\ done' = [done EXCEPT ![n][p] = @ + 1]
  /\ UNCHANGED <<rigid, leader, log, content, state, sendMap, call, try, chan, res, flushed, floor, lapses, faults>>

Elect(p, n) ==
  /\ n # leader[p] /\ Fault
  /\ leader' = [leader EXCEPT ![p] = n] /\ lapses' = lapses \cup {"elected"}
  /\ UNCHANGED <<rigid, log, content, done, state, sendMap, call, try, chan, res, flushed, floor>>

----------------------------------------------------------------------------
(* The router *)

Entry(c, kind, docs) == [c |-> c, kind |-> kind, docs |-> docs]

(* The call as it reaches the server. *)
Called(n) ==
  [NoTry EXCEPT !.st = "new", !.node = n]

FansOut(c) == req[c].op \in {"rebuild", "merge"}

Start(c, p) ==
  IF FansOut(c)
    THEN [t \in Attempts |-> IF t = 0 THEN NoTry ELSE Called(Replicas[t])]
    ELSE [t \in Attempts |-> IF t = 0 THEN Called(env.leader[p]) ELSE NoTry]

(* Entries of upserts that were acknowledged. *)
Acked(p) ==
  {i \in DOMAIN log[p] : LET c == log[p][i].c IN
     log[p][i].kind = "put" /\ state[c] = "replied" /\ ~res[c][p].err}

Begin(c, valid) ==
  LET asked == PartsOf(req[c])
      refused == ~valid \/ SendMap(req[c])[0] # <<>>
      go(old, new) == [p \in Partitions |-> IF p \in asked /\ ~refused THEN new[p] ELSE old[p]]
  IN  /\ state[c] = "new"
      /\ state' = [state EXCEPT ![c] = IF refused THEN "refused" ELSE "running"]
      /\ sendMap' = [sendMap EXCEPT ![c] = SendMap(req[c])]
      /\ call' = [call EXCEPT ![c] = go(@, [p \in asked |-> [NoCall EXCEPT !.pc = "rpc"]])]
      /\ try' = [try EXCEPT ![c] = go(@, [p \in asked |-> Start(c, p)])]
      /\ floor' = [floor EXCEPT ![c] = [p \in Partitions |-> Max({0} \cup Acked(p))]]
      /\ UNCHANGED <<rigid, raft, chan, res, flushed, lapses, faults>>

(* A partition that a request names belongs to the space. *)
Belongs(c) == Range(req[c].partitions) \subseteq 1 .. Len(env.slots)

handleDocumentUpsert(c) == req[c].op = "bulk" /\ Begin(c, TRUE)
handleDocumentGet(c) == req[c].op = "get" /\ Begin(c, Belongs(c))
handleDocumentDelete(c) == req[c].op = "delete" /\ Begin(c, req[c].docs # <<>>)
handleIndexFlush(c) == req[c].op = "flush" /\ Begin(c, TRUE)
handleIndexForceMerge(c) == req[c].op = "merge" /\ Begin(c, Belongs(c))
handleIndexRebuild(c) == req[c].op = "rebuild" /\ Begin(c, Belongs(c))

Push(c, p, err, out) ==
  /\ chan' = [chan EXCEPT ![c] = Append(@, p)]
  /\ res' = [res EXCEPT ![c][p] = [given |-> TRUE, err |-> err, out |-> out]]
  /\ call' = [call EXCEPT ![c][p].pc = "done"]

RouterOnly == UNCHANGED <<rigid, raft, state, sendMap, flushed, floor, lapses>>

(* PartitionByCache fails; the panic is caught. *)
NotCached(c, p) ==
  /\ call[c][p].pc = "rpc" /\ \A t \in Attempts : try[c][p][t].st \in {"none", "new"}
  /\ Fault /\ Push(c, p, TRUE, <<>>)
  /\ try' = [try EXCEPT ![c][p] = [t \in Attempts |-> NoTry]]
  /\ RouterOnly

(* The answer of the call, or that of the server's timer. *)
Receive(c, p) ==
  /\ call[c][p].pc = "rpc" /\ ~FansOut(c)
  /\ LET a == try[c][p][call[c][p].t] IN
       \/ a.st = "ready" /\ NoFault /\ Push(c, p, a.failed, a.out)
       \/ a.st # "ready" /\ Fault /\ Push(c, p, TRUE, <<>>)
  /\ UNCHANGED try /\ RouterOnly

(* The rest of the replicas, without the faulty ones, in their order. *)
Left(t) == {u \in Attempts : u > t /\ Replicas[u] \notin env.faulty}

(* The call fails; the server may never see it, or go on with it. *)
Broken(a) == {a} \cup (IF a.st = "new" THEN {[a EXCEPT !.st = "lost"]} ELSE {})

(* An upsert or a get goes on with the next replica, a flush fails, and a  *)
(* deletion leaves nothing in the channel.                                 *)
Fails(c, p) ==
  /\ call[c][p].pc = "rpc" /\ ~FansOut(c) /\ Fault
  /\ \E a \in Broken(try[c][p][call[c][p].t]) :
       LET t == call[c][p].t
           next == Min(Left(t))
       IN  IF ByDocs(req[c]) /\ Left(t) # {}
             THEN /\ call' = [call EXCEPT ![c][p].t = next]
                  /\ try' = [try EXCEPT ![c][p][t] = a, ![c][p][next] = Called(Replicas[next])]
                  /\ UNCHANGED <<chan, res>>
             ELSE /\ try' = [try EXCEPT ![c][p][t] = a]
                  /\ IF req[c].op = "delete"
                       THEN call' = [call EXCEPT ![c][p].pc = "done"] /\ UNCHANGED <<chan, res>>
                       ELSE Push(c, p, TRUE, <<>>)
  /\ RouterOnly

Execute(c, p) == ByDocs(req[c]) /\ (NotCached(c, p) \/ Receive(c, p) \/ Fails(c, p))

FlushExecute(c, p) == req[c].op = "flush" /\ (NotCached(c, p) \/ Receive(c, p) \/ Fails(c, p))
DelByQueryeExecute(c, p) == req[c].op = "delete" /\ (NotCached(c, p) \/ Receive(c, p) \/ Fails(c, p))

(* A rebuild or a force merge calls all replicas at once; they write to    *)
(* the same reply, and only the calls that succeed are looked at.          *)
ReplicaCall(c, p, t) ==
  /\ call[c][p].pc = "rpc" /\ t \notin call[c][p].seen
  /\ LET Seen(err, got) ==
           call' = [call EXCEPT ![c][p].seen = @ \cup {t}, ![c][p].err = err, ![c][p].got = @ \cup got]
     IN  \/ try[c][p][t].st = "ready" /\ NoFault /\ Seen(try[c][p][t].failed, {t}) /\ UNCHANGED try
         \/ try[c][p][t].st # "ready" /\ Fault /\ Seen(TRUE, {t}) /\ UNCHANGED try
         \/ /\ Fault /\ Seen(TRUE, {})
            /\ \E a \in Broken(try[c][p][t]) : try' = [try EXCEPT ![c][p][t] = a]
  /\ UNCHANGED <<chan, res>> /\ RouterOnly

(* Waits for an answer of every replica. *)
ReplicaEndAll(c, p) ==
  /\ call[c][p].pc = "rpc" /\ call[c][p].got = 1 .. Len(Replicas)
  /\ Push(c, p, call[c][p].err, <<>>)
  /\ UNCHANGED <<try, faults>> /\ RouterOnly

ReplicaEnd(c, p) ==
  /\ call[c][p].pc = "rpc" /\ call[c][p].seen = 1 .. Len(Replicas)
  /\ Push(c, p, call[c][p].got # {} /\ call[c][p].err, <<>>)
  /\ UNCHANGED <<try, faults>> /\ RouterOnly

ReplicaExecute(c, p) == NotCached(c, p) \/ ReplicaEnd(c, p) \/ \E t \in 1 .. Len(Replicas) : ReplicaCall(c, p, t)
RebuildIndexExecute(c, p) == req[c].op = "rebuild" /\ ReplicaExecute(c, p)
ForceMergeExecute(c, p) == req[c].op = "merge" /\ ReplicaExecute(c, p)

Reply(c) ==
  /\ state[c] = "running" /\ \A p \in Partitions : call[c][p].pc # "rpc"
  /\ state' = [state EXCEPT ![c] = "replied"]
  /\ UNCHANGED <<rigid, raft, sendMap, call, try, chan, res, flushed, floor, lapses, faults>>

(* The partition's error does not reach its items. *)
setNoPartitionErr(c, p) == [i \in DOMAIN DocsOf(c, p) |->
  IF i \in DOMAIN res[c][p].out THEN res[c][p].out[i] ELSE [k |-> DocsOf(c, p)[i].k, ok |-> TRUE, v |-> 0]]
setPartitionErr(c, p) == [i \in DOMAIN DocsOf(c, p) |->
  IF res[c][p].err THEN [k |-> DocsOf(c, p)[i].k, ok |-> FALSE, v |-> 0] ELSE res[c][p].out[i]]

(* The items of an upsert or a get: documents with the same key share the  *)
(* item that comes last.  None is nil here.                                *)
Answers(c) == FlattenSeq([i \in DOMAIN chan[c] |-> setPartitionErr(c, chan[c][i])])
Item(c, j) ==
  LET same == {i \in DOMAIN Answers(c) : Answers(c)[i].k = req[c].docs[j].k}
  IN  Answers(c)[Max(same)]

(* The documents of an upsert that the response counts as stored. *)
documentUpsertResponse(c) == {j \in DOMAIN req[c].docs : Item(c, j).ok}

(* IdsStr of a deletion and the shards of a flush or a rebuild. *)
IdsStr(c) == UNION {{res[c][p].out[i].k : i \in DOMAIN res[c][p].out} : p \in {q \in Partitions : ~res[c][q].err}}
Successful(c) == {p \in Range(chan[c]) : ~res[c][p].err}
----------------------------------------------------------------------------
(* A partition server *)

ServerOnly == UNCHANGED <<rigid, state, sendMap, call, chan, res, floor>>
Becomes(c, p, t, a) == try' = [try EXCEPT ![c][p][t] = a]

(* getDocuments reads what the node has applied, leader or not. *)
getDocuments(c, p, t) ==
  LET a == try[c][p][t]
      s == Content(p, done[a.node][p])
      Got(d) == [k |-> d.k, ok |-> s[d.k] # 0, v |-> s[d.k]]
      docs == DocsOf(c, p)
  IN  /\ a.st = "new" /\ req[c].op = "get"
      /\ Becomes(c, p, t, [a EXCEPT !.st = "ready", !.out = [i \in DOMAIN docs |-> Got(docs[i])]])
      /\ lapses' = IF a.node # leader[p] THEN lapses \cup {"follower"} ELSE lapses
      /\ UNCHANGED <<raft, flushed, faults>> /\ ServerOnly

(* deleteByQuery looks its documents up first; the query may fail. *)
deleteByQuery(c, p, t) ==
  LET a == try[c][p][t]
      s == Content(p, done[a.node][p])
      docs == {d \in Range(req[c].docs) : s[d.k] # 0}
      deleteDocs == {Entry(c, "delete", <<d>>) : d \in docs}
  IN  /\ a.st = "new" /\ req[c].op = "delete"
      /\ \/ NoFault /\ Becomes(c, p, t, [a EXCEPT !.st = "work", !.todo = deleteDocs])
         \/ Fault /\ Becomes(c, p, t, [a EXCEPT !.st = "work"])
      /\ UNCHANGED <<raft, flushed, lapses>> /\ ServerOnly

(* Serialises the documents; the memory circuit breaker may refuse them. *)
bulk(c, p, t) ==
  LET a == try[c][p][t]
  IN  /\ a.st = "new" /\ req[c].op = "bulk"
      /\ \/ NoFault /\ Becomes(c, p, t, [a EXCEPT !.st = "work", !.todo = {Entry(c, "put", DocsOf(c, p))}])
         \/ Fault /\ Becomes(c, p, t, [a EXCEPT !.st = "work", !.failed = TRUE])
      /\ UNCHANGED <<raft, flushed, lapses>> /\ ServerOnly

(* Write of one command: not on this node, committed, or an error of which *)
(* nobody knows whether it is.                                             *)
Write(c, p, t, e) ==
  LET a == [try[c][p][t] EXCEPT !.todo = @ \ {e}]
      lost == [a EXCEPT !.failed = @ \/ req[c].op = "bulk"]
      keep == UNCHANGED <<log, content>>
      commit == /\ log' = [log EXCEPT ![p] = Append(@, e)]
                /\ content' = [content EXCEPT ![p] = Append(@, ApplyEntry(Last(@), e))]
  IN  /\ try[c][p][t].st = "work" /\ e \in try[c][p][t].todo
      /\ \/ leader[p] # a.node /\ Becomes(c, p, t, lost) /\ keep /\ NoFault
         \/ /\ leader[p] = a.node /\ commit /\ NoFault
            /\ Becomes(c, p, t, [a EXCEPT !.at = @ \cup {Len(log[p]) + 1}])
         \/ leader[p] = a.node /\ Fault /\ Becomes(c, p, t, lost) /\ (commit \/ keep)
      /\ UNCHANGED <<leader, done, flushed, lapses>> /\ ServerOnly

(* An item's code is that of its document; a deletion counts when it found *)
(* one.                                                                    *)
Code(d) == [k |-> d.k, ok |-> ~d.bad, v |-> d.v]
Deleted(p, a) ==
  SetToSeq({[k |-> log[p][i].docs[1].k, ok |-> TRUE, v |-> 0] :
              i \in {j \in a.at : Content(p, j - 1)[log[p][j].docs[1].k] # 0}})

(* The answer does not wait for the entry to be applied. *)
AnswerEarly(c, p, t) ==
  LET a == try[c][p][t]
      docs == DocsOf(c, p)
  IN  /\ a.st = "work" /\ a.todo = {}
      /\ Becomes(c, p, t, [a EXCEPT !.st = "ready",
           !.out = IF req[c].op = "bulk" THEN [i \in DOMAIN docs |-> Code(docs[i])] ELSE Deleted(p, a)])
      /\ UNCHANGED <<raft, flushed, lapses, faults>> /\ ServerOnly

Answer(c, p, t) ==
  LET a == try[c][p][t]
      docs == DocsOf(c, p)
  IN  /\ a.st = "work" /\ a.todo = {} /\ \A i \in a.at : i <= done[a.node][p]
      /\ Becomes(c, p, t, [a EXCEPT !.st = "ready",
           !.out = IF req[c].op = "bulk" THEN [i \in DOMAIN docs |-> Code(docs[i])] ELSE Deleted(p, a)])
      /\ UNCHANGED <<raft, flushed, lapses, faults>> /\ ServerOnly

(* A flush needs the leader, a rebuild runs anywhere; either may fail. *)
Completes(c, p, t, can) ==
  LET a == try[c][p][t]
  IN  /\ a.st = "new"
      /\ \/ can /\ NoFault /\ flushed' = flushed \cup {<<c, p, a.node>>} /\ Becomes(c, p, t, [a EXCEPT !.st = "ready"])
         \/ can /\ Fault /\ UNCHANGED flushed /\ Becomes(c, p, t, [a EXCEPT !.st = "ready", !.failed = TRUE])
         \/ ~can /\ NoFault /\ UNCHANGED flushed /\ Becomes(c, p, t, [a EXCEPT !.st = "ready", !.failed = TRUE])
      /\ UNCHANGED <<raft, lapses>> /\ ServerOnly

(* Commit answers nil at once while another one of the partition runs. *)
AlreadyRunning(c, p, t) ==
  /\ try[c][p][t].st = "new" /\ try[c][p][t].node = leader[p] /\ Fault
  /\ Becomes(c, p, t, [try[c][p][t] EXCEPT !.st = "ready"])
  /\ lapses' = lapses \cup {"running"}
  /\ UNCHANGED <<raft, flushed>> /\ ServerOnly

flush(c, p, t) ==
  req[c].op = "flush" /\ (Completes(c, p, t, try[c][p][t].node = leader[p]) \/ AlreadyRunning(c, p, t))
forceMerge(c, p, t) == req[c].op = "merge" /\ Completes(c, p, t, TRUE)
rebuildIndex(c, p, t) == req[c].op = "rebuild" /\ Completes(c, p, t, TRUE)

----------------------------------------------------------------------------
InSpace == 1 .. Len(env.slots)

Router(c) ==
  \/ handleDocumentUpsert(c) \/ handleDocumentGet(c) \/ handleDocumentDelete(c)
  \/ handleIndexFlush(c) \/ handleIndexForceMerge(c) \/ handleIndexRebuild(c) \/ Reply(c)
  \/ \E p \in {q \in InSpace : call[c][q].pc = "rpc"} :
       \/ Execute(c, p) \/ DelByQueryeExecute(c, p)
       \/ FlushExecute(c, p) \/ ForceMergeExecute(c, p) \/ RebuildIndexExecute(c, p)

Server(c, p, t) ==
  \/ getDocuments(c, p, t) \/ deleteByQuery(c, p, t) \/ bulk(c, p, t) \/ Answer(c, p, t)
  \/ flush(c, p, t) \/ forceMerge(c, p, t) \/ rebuildIndex(c, p, t)
  \/ \E e \in try[c][p][t].todo : Write(c, p, t, e)

Next ==
  \/ \E c \in Clients :
       \/ Router(c)
       \/ \E p \in InSpace : \E t \in {u \in Attempts : try[c][p][u].st \in {"new", "work"}} : Server(c, p, t)
  \/ \E p \in InSpace, n \in Hosts : Apply(n, p) \/ Elect(p, n)

(* As long as a goroutine or an applier can go on, one of them does; no    *)
(* fault has to happen.                                                    *)
Step == Next /\ NoFault
Spec == Init /\ [][Next]_vars /\ WF_vars(Step)
----------------------------------------------------------------------------
TypeOK ==
  /\ leader \in [Partitions -> Hosts]
  /\ \A p \in Partitions : \A i \in DOMAIN log[p] : log[p][i].c \in Clients /\ log[p][i].kind \in {"put", "delete"}
  /\ \A n \in Hosts, p \in Partitions : done[n][p] \in 0 .. Len(log[p])
  /\ state \in [Clients -> {"new", "refused", "running", "replied"}]
  /\ call \in [Clients -> [Partitions -> [pc : {"idle", "rpc", "done"}, t : Attempts, err : BOOLEAN,
                                          seen : SUBSET Attempts, got : SUBSET Attempts]]]
  /\ \A c \in Clients : IsInjective(chan[c]) /\ Range(chan[c]) = {p \in Partitions : res[c][p].given}
  /\ \A c \in Clients, p \in Partitions, t \in Attempts :
       /\ try[c][p][t].st \in {"none", "new", "lost", "work", "ready"} /\ try[c][p][t].node \in Hosts
       /\ try[c][p][t].at \subseteq DOMAIN log[p]
  /\ flushed \subseteq Clients \X Partitions \X Hosts /\ faults >= 0

ByHash(c) == env.rule = <<>> /\ req[c].partitions = <<>>

(* A document that is placed by its key is in the partition whose range of *)
(* slots holds the hash of the key, whichever of the partitions' binary    *)
(* search ends it reaches (Space.PartitionId).                             *)
RoutedToOwner ==
  \A p \in Partitions : \A i \in DOMAIN log[p] :
    log[p][i].kind = "put" /\ ByHash(log[p][i].c) =>
      \A d \in Range(log[p][i].docs) : p = Max({q \in DOMAIN env.slots : env.slots[q] <= Keys[d.k]})

(* An upserted document that is reported without an error has been         *)
(* committed on its partition, by this request and with the value of the   *)
(* last document of that key in the request, also when calls broke, timed  *)
(* out, were retried on other replicas or met an election.  Documents of   *)
(* one key that the rule sends to two partitions are left out: their items *)
(* overwrite each other (Execute, setPartitionErr, bulk).                  *)
AckedApplied ==
  \A c \in Clients : state[c] = "replied" /\ req[c].op = "bulk" =>
    \A j \in documentUpsertResponse(c) :
      LET docs == req[c].docs
          same == {i \in DOMAIN docs : docs[i].k = docs[j].k}
          last == docs[Max(same)]
          p == UpsertTo(req[c], last)
      IN  (\A i \in same : UpsertTo(req[c], docs[i]) = p) =>
            \E i \in DOMAIN log[p] : log[p][i].c = c /\ Content(p, i)[last.k] = last.v

(* A get that starts after an upsert was acknowledged finds it or          *)
(* something newer, as long as the leader answers it and stays leader: a   *)
(* follower answers from what it has applied (getDocuments).               *)
FreshReads ==
  \A c \in Clients : state[c] = "replied" /\ req[c].op = "get" /\ lapses = {} =>
    \A p \in Partitions : res[c][p].given /\ ~res[c][p].err =>
      \A i \in DOMAIN res[c][p].out :
        LET r == res[c][p].out[i]
        IN  \E x \in floor[c][p] .. Len(log[p]) : Content(p, x)[r.k] = r.v

(* Every document that a deletion by query reports was there and was       *)
(* deleted by this very request, so two deletions never both report one    *)
(* (DelByQueryeExecute, deleteByQuery).                                    *)
DeletedTrue ==
  \A c \in Clients : state[c] = "replied" /\ req[c].op = "delete" =>
    \A k \in IdsStr(c) : \E p \in Partitions : \E i \in DOMAIN log[p] :
      /\ log[p][i].c = c /\ log[p][i].kind = "delete" /\ log[p][i].docs[1].k = k
      /\ Content(p, i - 1)[k] # 0

(* The shards of a flush, a rebuild or a merge add up to the partitions    *)
(* asked, and one that counts as successful was flushed by its leader      *)
(* unless that had a flush running, or rebuilt or merged by a replica      *)
(* unless every call to them failed (FlushExecute, Commit,                 *)
(* RebuildIndexExecute, ReplicaRebuildIndexExecute).                       *)
ShardsTrue ==
  \A c \in Clients : state[c] = "replied" /\ (req[c].op = "flush" \/ FansOut(c)) =>
    /\ Range(chan[c]) = PartsOf(req[c])
    /\ \A p \in Successful(c) :
         \/ \E n \in Hosts : <<c, p, n>> \in flushed
         \/ IF FansOut(c) THEN call[c][p].got = {} ELSE "running" \in lapses

Finished == \A c \in Clients : state[c] \in {"refused", "replied"}
====
