---- MODULE RouterSearch ----
(***************************************************************************)
(* One search or query of a space, from the router to the partition        *)
(* servers and back (client/client.go, ps/handler_document.go, gamma.go).  *)
(*                                                                         *)
(* The router starts one goroutine per partition.  Each chooses a replica, *)
(* calls it, and on a refused connection marks the node faulty and chooses *)
(* again.  A partition server lists the request in Rqueue, waits for a     *)
(* slot and runs the engine; a job and the router's cancel call kill       *)
(* requests by a CAS on the status in the list and, when the engine        *)
(* already runs, by an entry in the engine's kill_status_.  The answers    *)
(* are merged in the order they arrive.                                    *)
(*                                                                         *)
(* req is the request and env what the router's cache says; both are fixed *)
(* at the start.  faults is how many more things may go wrong.             *)
(***************************************************************************)
EXTENDS Integers, FiniteSets, Sequences, SequencesExt

CONSTANTS Nodes,     \* partition servers
          Replicas,  \* partition |-> its replicas
          Slots,     \* capacity of read_request_concurrent of a server
          Requests,  \* requests considered, with their environment
          NoNode     \* nodeID 0

VARIABLES req, env,
          up,        \* servers that accept connections
          faulty,    \* faultyList of the router
          call,      \* the goroutine of each partition
          Err,       \* r.Err, set when a memory limit was exceeded
          chan,      \* respChain: partitions in the order of their answers
          out,       \* what each of them put there
          main,      \* the goroutine that waits on doneCh and errNotify
          answer,    \* the response, once doneCh is closed
          ps,        \* the request on the partition's server
          queue,     \* Rqueue.ReqList of each server
          killer,    \* the kill job and the cancel calls
          killed,    \* kill_status_
          refused,   \* nodes that refused a connection
          lapses, faults

vars == <<req, env, up, faulty, call, Err, chan, out, main, answer, ps, queue, killer, killed,
          refused, lapses, faults>>

router == <<faulty, call, Err, chan, out, main, answer, refused>>
servers == <<up, ps, queue, killer, killed>>

Parts == req.parts
Partitions == DOMAIN Replicas
Pending == [ready |-> FALSE, err |-> FALSE, items |-> <<>>]

Init ==
  /\ \E r \in Requests :
       /\ req = r.req /\ env = r.env
       /\ faulty = r.env.faulty
       /\ faults = r.faults
  /\ up = Nodes
  /\ call = [p \in Partitions |-> [pc |-> "start", node |-> NoNode, tries |-> 0, err |-> "none", reply |-> "none"]]
  /\ Err = FALSE /\ chan = <<>> /\ out = [p \in Partitions |-> "none"]
  /\ main = "begin" /\ answer = Pending
  /\ ps = [p \in Partitions |->
             [node |-> NoNode, h |-> "none", g |-> "none", st |-> "r1", ctx |-> "live", timer |-> FALSE, res |-> "none"]]
  /\ queue = [n \in Nodes |-> <<>>]
  /\ killer = [k \in Partitions \cup {"job"} |-> [pc |-> "idle", on |-> "none"]]
  /\ killed = {} /\ refused = {} /\ lapses = {}

Fault == faults > 0 /\ faults' = faults - 1
NoFault == UNCHANGED faults

----------------------------------------------------------------------------
(* The router: a partition's goroutine *)

(* The space is in the cache and the request is well formed, or it is      *)
(* refused before any partition is asked.                                  *)
Begin ==
  /\ main = "begin"
  /\ \/ main' = "wait" /\ NoFault /\ UNCHANGED answer
     \/ main' = "refused" /\ Fault /\ answer' = [Pending EXCEPT !.ready = TRUE, !.err = TRUE]
  /\ UNCHANGED <<req, env, faulty, call, Err, chan, out, refused, servers, lapses>>

handleDocumentSearch == req.kind = "search" /\ Begin
handleDocumentQuery == req.kind = "query" /\ Begin

Usable(p) == (Replicas[p] \cap env.usable) \ faulty

(* Other requests move the counter, so any of them may come next. *)
RoundRobin(ids) == IF ids = {} THEN {NoNode} ELSE ids

GetNodeIdsByClientType(p) ==
  LET near == Usable(p) \cap env.zone
  IN  CASE req.client = "leader" -> {env.leader}
        [] req.client = "notleader" -> RoundRobin(Usable(p) \ {env.leader})
        [] req.client = "nearest" /\ near # {} -> RoundRobin(near)
        [] OTHER -> RoundRobin(Usable(p))

At(p, pc) == call' = [call EXCEPT ![p].pc = pc]
EndsWith(p, pc, err) == call' = [call EXCEPT ![p].pc = pc, ![p].err = err]

Choose(p) ==
  /\ call[p].pc = "start"
  /\ \E n \in GetNodeIdsByClientType(p) : call' = [call EXCEPT ![p].pc = "count", ![p].node = n]
  /\ NoFault
  /\ UNCHANGED <<req, env, faulty, Err, chan, out, main, answer, refused, servers, lapses>>

AllFaulty(p) == Replicas[p] \subseteq faulty

(* The condition of the loop. *)
Count(p) ==
  /\ call[p].pc = "count"
  /\ LET open == ~AllFaulty(p)
         first == call[p].tries = 0
     IN  EndsWith(p, IF open /\ call[p].tries < Cardinality(Replicas[p]) THEN "check" ELSE "end",
                  IF first /\ (~open \/ call[p].node = NoNode) THEN "nonode" ELSE call[p].err)
  /\ NoFault
  /\ UNCHANGED <<req, env, faulty, Err, chan, out, main, answer, refused, servers, lapses>>

(* The partition is in clientMap from here until the call returns. *)
CheckErr(p) ==
  /\ call[p].pc = "check"
  /\ At(p, IF Err THEN "end" ELSE "send")
  /\ NoFault
  /\ UNCHANGED <<req, env, faulty, Err, chan, out, main, answer, refused, servers, lapses>>

InClientMap(p) == call[p].pc \in {"send", "rpc"}

(* The server lists the request and starts a goroutine for it. *)
Listed(p, n) ==
  /\ ps' = [ps EXCEPT ![p].node = n, ![p].h = "listed", ![p].g = "slot"]
  /\ queue' = [queue EXCEPT ![n] = Append(@, p)]

(* GetOrCreateRPCClient has no client for a node that is not a server. *)
NoClient(n) == n = NoNode

Send(p) ==
  /\ call[p].pc = "send"
  /\ LET n == call[p].node IN
       \/ /\ NoClient(n) /\ EndsWith(p, "after", "noclient")
          /\ NoFault /\ UNCHANGED <<refused, servers>>
       \/ /\ ~NoClient(n) /\ n \notin up
          /\ EndsWith(p, "after", "refused") /\ refused' = refused \cup {n}
          /\ NoFault /\ UNCHANGED servers
       \/ /\ n \in up
          /\ EndsWith(p, "rpc", "none") /\ Listed(p, n)
          /\ NoFault /\ UNCHANGED <<refused, up, killer, killed>>
       \/ /\ ~NoClient(n) /\ Fault
          /\ EndsWith(p, "after", "failed") /\ UNCHANGED <<refused, servers>>
  /\ UNCHANGED <<req, env, faulty, Err, chan, out, main, answer, lapses>>

(* The reply arrives, or the connection breaks. *)
Return(p) ==
  /\ call[p].pc = "rpc"
  /\ \/ /\ ps[p].h = "returned" /\ NoFault
        /\ call' = [call EXCEPT ![p].pc = "after", ![p].reply = ps[p].res]
     \/ ps[p].h = "lost" /\ NoFault /\ EndsWith(p, "after", "failed")
     \/ Fault /\ EndsWith(p, "after", "failed")
  /\ UNCHANGED <<req, env, faulty, Err, chan, out, main, answer, refused, servers, lapses>>

AddFaulty(p) == faulty' = faulty \cup {call[p].node}

After(p) ==
  /\ call[p].pc = "after"
  /\ IF call[p].err = "none" \/ Err \/ call[p].err # "refused"
       THEN At(p, "end") /\ UNCHANGED faulty
       ELSE AddFaulty(p) /\ call' = [call EXCEPT ![p].pc = "start", ![p].tries = @ + 1]
  /\ NoFault
  /\ UNCHANGED <<req, env, Err, chan, out, main, answer, refused, servers, lapses>>

Push(p, what) ==
  /\ chan' = Append(chan, p) /\ out' = [out EXCEPT ![p] = what]
  /\ At(p, "done")

(* An answer that arrives after r.Err was set is not decoded. *)
Decoded(p) ==
  CASE call[p].err # "none" -> Push(p, "rpcerr") /\ UNCHANGED Err
    [] call[p].err = "none" /\ Err -> Push(p, "skipped") /\ UNCHANGED Err
    [] call[p].reply = "mem" /\ ~Err /\ call[p].err = "none" -> Push(p, "mem") /\ Err' = TRUE
    [] OTHER -> Push(p, call[p].reply) /\ UNCHANGED Err

Finish(p) ==
  /\ call[p].pc = "end"
  /\ \/ Decoded(p) /\ NoFault
     \/ \* the router's own memory is short for the answer
        /\ Fault /\ call[p].err = "none" /\ ~Err /\ call[p].reply = "ok"
        /\ Push(p, "mem") /\ Err' = TRUE
  /\ UNCHANGED <<req, env, faulty, main, answer, refused, servers, lapses>>

(* PartitionByCache finds no such partition. *)
NotCached(p) ==
  /\ call[p].pc = "start" /\ call[p].tries = 0
  /\ Fault /\ Push(p, "rpcerr")
  /\ UNCHANGED <<req, env, faulty, Err, main, answer, refused, servers, lapses>>

FromPartition(p) ==
  Choose(p) \/ Count(p) \/ CheckErr(p) \/ Send(p) \/ Return(p) \/ After(p) \/ Finish(p) \/ NotCached(p)

searchFromPartition(p) == req.kind = "search" /\ FromPartition(p)
queryFromPartition(p) == req.kind = "query" /\ FromPartition(p)

(* An entry of the faulty list lives 30 seconds. *)
Expire(n) ==
  /\ n \in faulty /\ Fault
  /\ faulty' = faulty \ {n} /\ lapses' = lapses \cup {"expired"}
  /\ UNCHANGED <<req, env, call, Err, chan, out, main, answer, refused, servers>>

----------------------------------------------------------------------------
(* The router: merging and answering *)

Before(a, b) == IF req.desc THEN a.score > b.score ELSE a.score < b.score

RECURSIVE Merged(_, _)
Merged(a, b) ==
  CASE a = <<>> -> b
    [] b = <<>> -> a
    [] OTHER -> IF Before(Head(a), Head(b)) THEN <<Head(a)>> \o Merged(Tail(a), b)
                ELSE <<Head(b)>> \o Merged(a, Tail(b))

FirstOf(s, n) == SubSeq(s, 1, IF n < Len(s) THEN n ELSE Len(s))

(* Keeps one item too few of what it has. *)
mergeSortedShort(a, b) == FirstOf(Merged(FirstOf(a, req.topn - 1), b), req.topn)

mergeSortedArrays(a, b) ==
  IF (a = <<>> \/ b = <<>>) /\ req.topn <= 0 THEN a \o b ELSE FirstOf(Merged(a, b), req.topn)

AddMerge(a, b) == a \o b

Page(items) ==
  IF req.size > 0 /\ req.num >= 1
    THEN SubSeq(items, req.size * (req.num - 1) + 1,
                IF req.size * req.num > Len(items) THEN Len(items) ELSE req.size * req.num)
    ELSE IF req.topn > 0 THEN FirstOf(items, req.topn) ELSE items

Nothing == [none |-> TRUE, head |-> FALSE, final |-> FALSE, items |-> <<>>]

SearchMerge(acc, p) ==
  CASE out[p] # "ok" -> [acc EXCEPT !.final = TRUE]
    [] out[p] = "ok" /\ acc.none -> [acc EXCEPT !.none = FALSE, !.items = req.lists[p]]
    [] OTHER -> [acc EXCEPT !.items = mergeSortedArrays(@, req.lists[p])]

SortedBy(items) == SortSeq(items, LAMBDA a, b : Before(a, b))

SearchFieldSortExecute ==
  LET acc == FoldLeft(SearchMerge, Nothing, chan)
  IN  [ready |-> TRUE, err |-> acc.none /\ acc.final, items |-> Page(SortedBy(acc.items))]

(* An error without a reply counts only as long as nothing was found. *)
QueryMerge(acc, p) ==
  CASE out[p] = "perr" -> [acc EXCEPT !.final = TRUE]
    [] out[p] # "ok" /\ out[p] # "perr" -> IF acc.none THEN [acc EXCEPT !.head = TRUE] ELSE acc
    [] out[p] = "ok" /\ acc.none -> [acc EXCEPT !.none = FALSE, !.items = req.lists[p]]
    [] OTHER -> [acc EXCEPT !.items = AddMerge(@, req.lists[p])]

Rank(d) == CHOOSE i \in DOMAIN req.ids : req.ids[i] = d.id

QueryFieldSortExecute ==
  LET acc == FoldLeft(QueryMerge, Nothing, chan)
  IN  [ready |-> TRUE, err |-> (acc.none /\ acc.head) \/ acc.final,
       items |-> IF req.ids = <<>> THEN Page(acc.items)
                 ELSE SortSeq(acc.items, LAMBDA a, b : Rank(a) < Rank(b))]

(* The response that docService makes of it; with r.Err nothing is merged. *)
ErrHead == [ready |-> TRUE, err |-> TRUE, items |-> <<>>]
SearchResponse == IF Err THEN ErrHead ELSE SearchFieldSortExecute
QueryResponse == IF Err THEN ErrHead ELSE QueryFieldSortExecute

Response == IF req.kind = "search" THEN SearchResponse ELSE QueryResponse

(* Documents are given only without an error. *)
Documents(r) == IF r.err THEN [r EXCEPT !.items = <<>>] ELSE r

Merge ==
  /\ main # "begin" /\ ~answer.ready /\ Len(chan) = Cardinality(Parts)
  /\ answer' = Documents(Response)
  /\ NoFault
  /\ UNCHANGED <<req, env, faulty, call, Err, chan, out, main, refused, servers, lapses>>

(* errNotify is closed: go through clientMap, in the order of a map. *)
CancelRequestFromPartition ==
  /\ main = "wait" /\ Err
  /\ main' = "cancelling"
  /\ killer' = [k \in DOMAIN killer |-> IF k \in Parts THEN [killer[k] EXCEPT !.pc = "load"] ELSE killer[k]]
  /\ NoFault
  /\ UNCHANGED <<req, env, faulty, call, Err, chan, out, answer, refused, up, ps, queue, killed, lapses>>

Load(p) ==
  /\ killer[p].pc = "load"
  /\ killer' = [killer EXCEPT ![p].pc = IF InClientMap(p) /\ call[p].node # NoNode THEN "sent" ELSE "done"]
  /\ NoFault
  /\ UNCHANGED <<req, env, router, up, ps, queue, killed, lapses>>

Reply ==
  /\ answer.ready
  /\ \/ main = "wait"
     \/ main = "cancelling" /\ \A p \in Parts : killer[p].pc # "load"
  /\ main' = "replied"
  /\ NoFault
  /\ UNCHANGED <<req, env, faulty, call, Err, chan, out, answer, refused, servers, lapses>>

----------------------------------------------------------------------------
(* A partition server *)

(* A slot that is not given back. *)
UsingKept(n) == {p \in Partitions : ps[p].node = n /\ ps[p].g \notin {"none", "slot"}}

Using(n) == {p \in Partitions : ps[p].node = n /\ ps[p].g \in {"find", "engine", "blind", "back", "clear"}}

Goes(p, g) == ps' = [ps EXCEPT ![p].g = g]
GoesWith(p, g, res) == ps' = [ps EXCEPT ![p].g = g, ![p].res = res]

PsOnly == UNCHANGED <<req, env, router, up, queue, killer, lapses>>

(* execute: wait for a slot or the end of the context. *)
TakeSlot(p) ==
  /\ ps[p].g = "slot"
  /\ \/ Cardinality(Using(ps[p].node)) < Slots /\ Goes(p, "find")
     \/ ps[p].ctx # "live" /\ GoesWith(p, "end", "perr")
  /\ NoFault /\ PsOnly /\ UNCHANGED killed

(* The partition is not on this server, is closed, or has another leader. *)
Unreadable(p) == Fault /\ \E e \in {"perr", "herr"} : GoesWith(p, "end", e)

(* The status of a listed request must still be Running_1. *)
Enter(p) ==
  /\ ps[p].h = "listed"
  /\ IF ps[p].st = "r1" THEN ps' = [ps EXCEPT ![p].g = "engine", ![p].st = "r2"] ELSE GoesWith(p, "end", "mem")

(* After a timeout took the request out of the list Search panics, which   *)
(* is caught, and Query runs without a status.                             *)
Search(p) == req.kind = "search" /\ (Enter(p) \/ (ps[p].h # "listed" /\ GoesWith(p, "end", "herr")))
Query(p) == req.kind = "query" /\ (Enter(p) \/ (ps[p].h # "listed" /\ Goes(p, "blind")))

Find(p) ==
  /\ ps[p].g = "find"
  /\ Unreadable(p) \/ (NoFault /\ (Search(p) \/ Query(p)))
  /\ PsOnly /\ UNCHANGED killed

(* The engine looks at kill_status_ now and then; the last look may have   *)
(* been before the kill.                                                   *)
Engine(p) ==
  /\ ps[p].g \in {"engine", "blind"}
  /\ LET next == IF ps[p].g = "engine" THEN "back" ELSE "end" IN
       \/ NoFault /\ GoesWith(p, next, "ok")
       \/ NoFault /\ p \in killed /\ GoesWith(p, next, "mem")
       \/ Fault /\ GoesWith(p, next, "herr")
  /\ PsOnly /\ UNCHANGED killed

Back(p) ==
  /\ ps[p].g = "back"
  /\ ps' = [ps EXCEPT ![p].g = "clear", ![p].st = IF @ = "r2" THEN "r1" ELSE @]
  /\ NoFault /\ PsOnly /\ UNCHANGED killed

(* Leaves the entry. *)
KeepKillStatus(p) == UNCHANGED killed
DeleteKillStatus(p) == killed' = killed \ {p}

Clear(p) ==
  /\ ps[p].g = "clear"
  /\ Goes(p, "end") /\ DeleteKillStatus(p)
  /\ NoFault /\ PsOnly

(* The handler returns: the request leaves the list, its context ends. *)
Leave(p, res) ==
  /\ ps[p].h = "listed"
  /\ ps' = [ps EXCEPT ![p].h = "returned", ![p].res = res,
                      ![p].ctx = IF @ = "live" THEN "cancelled" ELSE @]
  /\ queue' = [queue EXCEPT ![ps[p].node] = SelectSeq(@, LAMBDA q : q # p)]
  /\ UNCHANGED <<req, env, router, up, killer, killed, lapses>>

Answer(p) == ps[p].g = "end" /\ Leave(p, ps[p].res) /\ NoFault
Timeout(p) == ps[p].timer /\ Leave(p, "perr") /\ NoFault

Deadline(p) ==
  /\ ps[p].h = "listed" /\ ~ps[p].timer /\ Fault
  /\ ps' = [ps EXCEPT ![p].timer = TRUE, ![p].ctx = IF @ = "live" THEN "deadline" ELSE @]
  /\ PsOnly /\ UNCHANGED killed

----------------------------------------------------------------------------
(* Killing a request *)

KillerAt(k, pc) == killer' = [killer EXCEPT ![k].pc = pc]

(* The job takes the oldest request of a server that is short of memory. *)
KillJob(n) ==
  /\ killer["job"].pc = "idle" /\ queue[n] # <<>> /\ Fault
  /\ killer' = [killer EXCEPT !["job"] = [pc |-> "held", on |-> Head(queue[n])]]
  /\ UNCHANGED <<req, env, router, up, ps, queue, killed, lapses>>

(* A cancel call that finds no request ends there. *)
CancelArrives(p) ==
  /\ killer[p].pc = "sent"
  /\ LET held == call[p].node \in up /\ ps[p].h = "listed" IN
       killer' = [killer EXCEPT ![p] = [pc |-> IF held THEN "held" ELSE "done", on |-> p]]
  /\ NoFault
  /\ UNCHANGED <<req, env, router, up, ps, queue, killed, lapses>>

Stopped(p) == ps' = [ps EXCEPT ![p].st = "mem", ![p].ctx = IF @ = "live" THEN "cancelled" ELSE @]

(* The CAS from Running_1, and when it fails the one from Running_2: a     *)
(* search that ends between the two is not killed.                         *)
FirstCas(k) ==
  /\ killer[k].pc = "held"
  /\ LET p == killer[k].on IN
       IF ps[p].st = "r1" THEN KillerAt(k, "done") /\ Stopped(p)
                          ELSE KillerAt(k, "second") /\ UNCHANGED ps
  /\ NoFault
  /\ UNCHANGED <<req, env, router, up, queue, killed, lapses>>

SecondCas(k) ==
  /\ killer[k].pc = "second"
  /\ LET p == killer[k].on IN
       IF ps[p].st = "r2" THEN KillerAt(k, "armed") /\ Stopped(p)
                          ELSE KillerAt(k, "done") /\ UNCHANGED ps
  /\ NoFault
  /\ UNCHANGED <<req, env, router, up, queue, killed, lapses>>

(* The search may have ended, and cleared its entry, since the CAS. *)
SetKillStatus(k) ==
  /\ killer[k].pc = "armed"
  /\ LET p == killer[k].on IN
       /\ killed' = killed \cup {p}
       /\ lapses' = IF ps[p].g = "end" THEN lapses \cup {"late"} ELSE lapses
  /\ KillerAt(k, "done")
  /\ NoFault
  /\ UNCHANGED <<req, env, router, up, ps, queue>>

----------------------------------------------------------------------------
(* A server crashes with all it holds, and comes back. *)
Crash(n) ==
  /\ n \in up /\ Fault
  /\ up' = up \ {n}
  /\ ps' = [p \in Partitions |->
              IF ps[p].node # n THEN ps[p]
              ELSE [ps[p] EXCEPT !.g = "end", !.h = IF @ = "listed" THEN "lost" ELSE @]]
  /\ queue' = [queue EXCEPT ![n] = <<>>]
  /\ killer' = [k \in DOMAIN killer |->
                  IF killer[k].pc \in {"held", "second", "armed"} /\ ps[killer[k].on].node = n
                    THEN [killer[k] EXCEPT !.pc = "done"] ELSE killer[k]]
  /\ killed' = {p \in killed : ps[p].node # n}
  /\ UNCHANGED <<req, env, router, lapses>>

Restart(n) ==
  /\ n \notin up
  /\ up' = up \cup {n}
  /\ NoFault
  /\ UNCHANGED <<req, env, router, ps, queue, killer, killed, lapses>>

----------------------------------------------------------------------------
Router(p) == main \notin {"begin", "refused"} /\ (searchFromPartition(p) \/ queryFromPartition(p) \/ Load(p))
Server(p) == TakeSlot(p) \/ Find(p) \/ Engine(p) \/ Back(p) \/ Clear(p) \/ Answer(p) \/ Timeout(p)

Next ==
  \/ \E p \in Parts : Router(p) \/ Server(p) \/ Deadline(p) \/ CancelArrives(p)
  \/ handleDocumentSearch \/ handleDocumentQuery
  \/ Merge \/ CancelRequestFromPartition \/ Reply
  \/ \E k \in DOMAIN killer : FirstCas(k) \/ SecondCas(k) \/ SetKillStatus(k)
  \/ \E n \in Nodes : KillJob(n) \/ Expire(n) \/ Crash(n) \/ Restart(n)

(* Goroutines run, engine calls end, and each of them is a process. *)
Fairness ==
  /\ \A p \in Partitions : WF_vars(p \in Parts /\ Router(p)) /\ WF_vars(p \in Parts /\ Server(p))
  /\ WF_vars(Begin) /\ WF_vars(Merge) /\ WF_vars(Reply)

Spec == Init /\ [][Next]_vars /\ Fairness
----------------------------------------------------------------------------
TypeOK ==
  /\ up \subseteq Nodes /\ faulty \subseteq Nodes /\ refused \subseteq Nodes
  /\ call \in [Partitions -> [pc : {"start", "count", "check", "send", "rpc", "after", "end", "done"},
                              node : Nodes \cup {NoNode}, tries : 0 .. Cardinality(Nodes),
                              err : {"none", "nonode", "noclient", "refused", "failed"},
                              reply : {"none", "ok", "mem", "herr", "perr"}]]
  /\ Err \in BOOLEAN /\ \A i \in DOMAIN chan : chan[i] \in Parts
  /\ \A p \in Partitions : out[p] \in {"none", "ok", "mem", "herr", "perr", "rpcerr", "skipped"}
  /\ main \in {"begin", "refused", "wait", "cancelling", "replied"}
  /\ ps \in [Partitions -> [node : Nodes \cup {NoNode}, h : {"none", "listed", "returned", "lost"},
                            g : {"none", "slot", "find", "engine", "blind", "back", "clear", "end"},
                            st : {"r1", "r2", "mem"}, ctx : {"live", "cancelled", "deadline"},
                            timer : BOOLEAN, res : {"none", "ok", "mem", "herr", "perr"}]]
  /\ killed \subseteq Parts /\ faults >= 0
  /\ \A n \in Nodes : IsInjective(queue[n])

Replied == main \in {"refused", "replied"}
Found == UNION {Range(req.lists[p]) : p \in {q \in Parts : out[q] = "ok"}}
Min2(a, b) == IF a < b THEN a ELSE b
Max2(a, b) == IF a > b THEN a ELSE b

(* How many of n items the page holds, and how many come before it. *)
PageLen(n) == IF req.size > 0 THEN Max2(0, Min2(req.size, n - req.size * (req.num - 1))) ELSE n
PageStart == IF req.size > 0 THEN req.size * (req.num - 1) ELSE 0

(* A search answered without an error returns the page of the topN best    *)
(* documents of the partitions that answered, each once and in order,      *)
(* whatever the order the answers arrived in and whichever partitions      *)
(* failed beside them; and if all of them answered there is no error       *)
(* (SearchFieldSortExecute, AddMergeSort).                                 *)
SearchIsTopN ==
  Replied /\ req.kind = "search" /\ (answer.err => \A p \in Parts : out[p] = "ok") =>
    LET s == answer.items IN
    /\ ~answer.err
    /\ Len(s) = PageLen(Min2(req.topn, Cardinality(Found))) /\ IsInjective(s)
    /\ \A i \in DOMAIN s :
         /\ Cardinality({d \in Found : Before(d, s[i])}) < PageStart + i
         /\ PageStart + i <= Cardinality({d \in Found : ~Before(s[i], d)})

(* A query answered without an error returns documents of the partitions   *)
(* that answered, none twice and as many as the limit or the page leaves,  *)
(* and in the order of document_ids when there are some; and if all of     *)
(* them answered there is no error (QueryFieldSortExecute,                 *)
(* AddMergeResultArr).                                                     *)
QueryIsUnion ==
  Replied /\ req.kind = "query" /\ (answer.err => \A p \in Parts : out[p] = "ok") =>
    LET s == answer.items
        n == Cardinality(Found)
    IN  /\ ~answer.err /\ IsInjective(s) /\ Range(s) \subseteq Found
        /\ req.ids # <<>> => Len(s) = n /\ \A i, j \in DOMAIN s : i < j => Rank(s[i]) < Rank(s[j])
        /\ req.ids = <<>> => Len(s) = IF req.size > 0 THEN PageLen(n) ELSE Min2(req.topn, n)

(* An answer without an error means that some partition answered, that the *)
(* router heard of no memory limit from an engine or of its own and left   *)
(* no partition out for one, and, for a query, that no server turned the   *)
(* request down as a whole.  Every other failure is dropped as soon as     *)
(* another partition answers: a broken call, a partition without replica,  *)
(* an engine error and, for a search, a request that timed out or was      *)
(* killed before it had a slot, which comes back as req.Err (r.Err and     *)
(* finalErr of the two executes, execute of the server).                   *)
ErrorsSurface ==
  Replied /\ ~answer.err /\ Parts # {} =>
    /\ \A p \in Parts : out[p] \notin {"mem", "skipped", "none"}
    /\ \E p \in Parts : out[p] = "ok"
    /\ req.kind = "query" => \A p \in Parts : out[p] # "perr"

(* Refused connections lead on to another replica: a partition is given up *)
(* after one only when every usable replica refused or was on the faulty   *)
(* list at the start, as long as no entry of that list expires meanwhile   *)
(* and no memory limit stops the request.  A call that breaks in any other *)
(* way is not tried again (the retry loop of searchFromPartition).         *)
FailsOver ==
  \A p \in Parts :
    /\ out[p] = "rpcerr" /\ call[p].err \in {"nonode", "noclient", "refused"}
    /\ req.client \in {"random", "nearest"} /\ "expired" \notin lapses /\ ~Err
    => Replicas[p] \cap env.usable \subseteq refused \cup env.faulty

(* Once a search has ended, the engine holds no kill entry for it, unless  *)
(* the killer was overtaken between its CAS and its entry                  *)
(* (gamma.Search, RequestCancelHandler, StartKillSlowRequestJob).          *)
NoStrayKill ==
  \A p \in killed : ps[p].g = "end" => "late" \in lapses

Finished == Replied /\ \A p \in Parts : ps[p].g \in {"none", "end"}
====
