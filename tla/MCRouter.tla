------------------------------ MODULE MCRouter ------------------------------
(***************************************************************************)
(* The router: a search or a query over the partitions of a space          *)
(* (RouterSearch), or two requests at once that read and change documents  *)
(* of a space of up to three partitions with two replicas (RouterWrite).   *)
(* kind tells which of the two a behaviour is about; the variables of the  *)
(* other one are not used.                                                 *)
(***************************************************************************)
EXTENDS RouterSearch

VARIABLES kind,
          wreq, wenv, leader, log, content, done, state, sendMap, wcall, try, wchan, res, flushed, floor, wlapses, wfaults

----------------------------------------------------------------------------
(* Searches and queries.                                                   *)

D(i, s) == [id |-> i, score |-> s]

MCReplicas == [p \in {"p1", "p2", "p3"} |-> IF p = "p3" THEN {"n1"} ELSE {"n1", "n2"}]

MCEnv == [usable |-> Nodes, zone |-> {"n1"}, leader |-> "n1", faulty |-> {}]
MCReq == [kind |-> "search", client |-> "random", parts |-> {"p1", "p2"}, topn |-> 2, size |-> 0, num |-> 0,
          desc |-> FALSE, ids |-> <<>>,
          lists |-> [p \in {"p1", "p2", "p3"} |->
                       CASE p = "p1" -> <<D(1, 1), D(2, 3)>> [] p = "p2" -> <<D(3, 2), D(4, 4)>> [] OTHER -> <<D(5, 2)>>]]

(* Any two things go wrong in a search, where one of its partitions has no *)
(* other replica to ask, or one in a search or a query.                    *)
Faulted ==
  {[req |-> [MCReq EXCEPT !.parts = {"p1", "p3"}, !.client = "leader"], env |-> MCEnv, faults |-> 2]}
  \cup
  {[req |-> [MCReq EXCEPT !.client = c], env |-> [MCEnv EXCEPT !.faulty = f, !.usable = u], faults |-> 1] :
     c \in {"random", "leader", "notleader", "nearest"}, f \in {{}, {"n1"}}, u \in {Nodes, {"n2"}}}
  \cup
  {[req |-> [MCReq EXCEPT !.kind = "query"], env |-> [MCEnv EXCEPT !.faulty = f], faults |-> 1] : f \in {{}, {"n1"}}}

(* Contents, pages and orders, with nothing going wrong. *)
Lists == {[p \in {"p1", "p2", "p3"} |->
            CASE p = "p1" -> a [] p = "p2" -> b [] OTHER -> <<D(5, 1), D(6, 3)>>] :
            a \in {<<D(1, 1), D(2, 3)>>, <<D(1, 2), D(2, 2)>>},
            b \in {<<>>, <<D(3, 1), D(4, 2)>>}}
Reversed(l) == [p \in DOMAIN l |-> Reverse(l[p])]

Contents ==
  {[req |-> [MCReq EXCEPT !.parts = {"p1", "p2", "p3"}, !.topn = 2 + s, !.size = s, !.num = s,
                          !.desc = d, !.lists = IF d THEN Reversed(l) ELSE l],
    env |-> [MCEnv EXCEPT !.usable = {"n1"}], faults |-> 0] :
     s \in 0 .. 1, d \in BOOLEAN, l \in Lists}
  \cup
  {[req |-> [MCReq EXCEPT !.kind = "query", !.parts = {"p1", "p2", "p3"}, !.topn = 3, !.size = s, !.num = s,
                          !.ids = i, !.lists = l],
    env |-> [MCEnv EXCEPT !.usable = {"n1"}], faults |-> 0] :
     s \in {0, 2}, i \in {<<>>, <<6, 4, 2, 1, 3, 5>>}, l \in Lists}

MCRequests == Faulted \cup Contents

----------------------------------------------------------------------------
(* Reads and changes of documents.                                         *)

WClients == {"c1", "c2"}
WPartitions == 1 .. 3
WReplicas == <<"n1", "n2">>
WKeys == [k1 |-> 3, k2 |-> 4, k3 |-> 9]

Doc(k, v) == [k |-> k, v |-> v, bad |-> FALSE]
Bad(k, v) == [k |-> k, v |-> v, bad |-> TRUE]
WRequest(op, docs, partitions) == [op |-> op, docs |-> docs, partitions |-> partitions]

Empty == [p \in WPartitions |-> [k \in DOMAIN WKeys |-> 0]]
Stored == [Empty EXCEPT ![1]["k1"] = 9, ![2]["k2"] = 9]
Both == [Empty EXCEPT ![1]["k1"] = 9, ![1]["k2"] = 9]
WEnv(slots, rule, first, broken, initial) ==
  [slots |-> slots, rule |-> rule, leader |-> [p \in WPartitions |-> first], faulty |-> broken, initial |-> initial]
Plain == WEnv(<<0, 4>>, <<>>, "n1", {}, Empty)
Filled == WEnv(<<0, 4>>, <<>>, "n1", {}, Stored)
Ruled == WEnv(<<0, 4>>, <<[value |-> 2, pids |-> <<1>>], [value |-> 5, pids |-> <<1, 2>>]>>, "n1", {}, Empty)
Scenario(a, b, e, n) == [req |-> [c1 |-> a, c2 |-> b], env |-> e, faults |-> n]

Get1 == WRequest("get", <<Doc("k1", 0)>>, <<>>)
Delete1 == WRequest("delete", <<Doc("k1", 0)>>, <<>>)
GetBoth == WRequest("get", <<Doc("k1", 0), Doc("k2", 0)>>, <<>>)
DeleteBoth == WRequest("delete", <<Doc("k1", 0), Doc("k2", 0)>>, <<>>)
Put1 == WRequest("bulk", <<Doc("k1", 1)>>, <<>>)
GetAt(k, p) == WRequest("get", <<Doc(k, 0)>>, <<p>>)
Put3 == WRequest("bulk", <<Doc("k1", 1), Bad("k2", 1), Doc("k1", 2)>>, <<>>)

WScenarios ==
  { Scenario(Put3, Get1, Plain, 1),
    Scenario(Put1, GetBoth, Plain, 1),
    Scenario(Put1, Get1, Plain, 2),
    Scenario(Put1, WRequest("bulk", <<Doc("k1", 2)>>, <<>>), Filled, 1),
    Scenario(Put1, Delete1, Filled, 1),
    Scenario(Put1, GetAt("k1", 1), Filled, 1),
    Scenario(GetAt("k1", 3), WRequest("delete", <<>>, <<>>), Filled, 0),
    Scenario(DeleteBoth, Delete1, WEnv(<<0>>, <<>>, "n1", {}, Both), 1),
    Scenario(WRequest("flush", <<>>, <<>>), WRequest("rebuild", <<>>, <<2>>), Plain, 2),
    Scenario(WRequest("merge", <<>>, <<>>), WRequest("merge", <<>>, <<1>>), Plain, 1),
    Scenario(Put3, GetBoth, WEnv(<<0, 4>>, <<>>, "n2", {}, Empty), 0),
    Scenario(Put1, GetBoth, WEnv(<<0>>, <<>>, "n1", {"n2"}, Empty), 2),
    Scenario(WRequest("bulk", <<Doc("k1", 1), Doc("k3", 4)>>, <<>>), Get1, Ruled, 0),
    Scenario(WRequest("bulk", <<Doc("k1", 1), Doc("k2", 7)>>, <<>>), GetBoth, Ruled, 0),
    Scenario(WRequest("bulk", <<Doc("k1", 1), Doc("k2", 0)>>, <<>>), Get1, Ruled, 0),
    Scenario(WRequest("bulk", <<Doc("k1", 1), Doc("k2", 3)>>, <<2, 1>>), DeleteBoth, Plain, 0) }
  \cup {Scenario(WRequest("bulk", <<Doc("k1", 1), Doc("k2", 2), Doc("k3", 3)>>, <<>>),
                 WRequest("get", <<Doc("k3", 0)>>, <<>>),
                 WEnv(slots, <<>>, "n1", {}, Empty), 0) : slots \in {<<0, 3, 4>>, <<0, 4, 9>>, <<0, 3, 10>>}}

Write == INSTANCE RouterWrite WITH
           Clients <- WClients, Partitions <- WPartitions, Replicas <- WReplicas, Keys <- WKeys, Scenarios <- WScenarios,
           req <- wreq, env <- wenv, call <- wcall, chan <- wchan, lapses <- wlapses, faults <- wfaults

----------------------------------------------------------------------------
wvars == <<wreq, wenv, leader, log, content, done, state, sendMap, wcall, try, wchan, res, flushed, floor, wlapses, wfaults>>

MCInit ==
  \/ kind = "search" /\ Init
     /\ wreq = <<>> /\ wenv = <<>> /\ leader = <<>> /\ log = <<>> /\ content = <<>> /\ done = <<>> /\ state = <<>> /\ sendMap = <<>>
     /\ wcall = <<>> /\ try = <<>> /\ wchan = <<>> /\ res = <<>> /\ flushed = <<>> /\ floor = <<>> /\ wlapses = <<>> /\ wfaults = <<>>
  \/ kind = "write" /\ Write!Init
     /\ req = <<>> /\ env = <<>> /\ up = <<>> /\ faulty = <<>> /\ call = <<>> /\ Err = <<>> /\ chan = <<>> /\ out = <<>>
     /\ main = <<>> /\ answer = <<>> /\ ps = <<>> /\ queue = <<>> /\ killer = <<>> /\ killed = <<>> /\ refused = <<>> /\ lapses = <<>>
     /\ faults = <<>>

OfSearch(A) == kind = "search" /\ A /\ UNCHANGED <<kind, wvars>>
OfWrite(A) == kind = "write" /\ A /\ UNCHANGED <<kind, vars>>

MCNext == OfSearch(Next) \/ OfWrite(Write!Next)

mcvars == <<kind, vars, wvars>>

(* Goroutines run and engine calls end; each goroutine of a search is a    *)
(* process of its own.                                                     *)
MCSpec ==
  /\ MCInit /\ [][MCNext]_mcvars
  /\ \A p \in Partitions : WF_mcvars(OfSearch(p \in Parts /\ Router(p))) /\ WF_mcvars(OfSearch(p \in Parts /\ Server(p)))
  /\ WF_mcvars(OfSearch(Begin)) /\ WF_mcvars(OfSearch(Merge)) /\ WF_mcvars(OfSearch(Reply))
  /\ WF_mcvars(OfWrite(Write!Step))

----------------------------------------------------------------------------
(* An answer without an error holds what it should of the partitions that  *)
(* answered: a search the page of their best n documents, a query the      *)
(* documents they found, each once; a failed partition takes nothing but   *)
(* its own documents with it.                                              *)
ResultsExact == kind = "search" => TypeOK /\ SearchIsTopN /\ QueryIsUnion

(* What the router does with a failure: a memory limit that an engine or   *)
(* the router met always shows in the answer, other errors at least when   *)
(* no partition answered; a refused connection leads on to every other     *)
(* replica; and a search that has ended leaves no kill entry in the engine *)
(* unless its killer was overtaken between its CAS and the entry.          *)
FailuresContained == kind = "search" => ErrorsSurface /\ FailsOver /\ NoStrayKill

(* What a response says was done was done: documents are in the log of the *)
(* partition that owns their slot, an acknowledged document was applied,   *)
(* a deleted one was there, and the shards counted as successful did what  *)
(* was asked.                                                              *)
AnswersTrue == kind = "write" => Write!TypeOK /\ Write!RoutedToOwner /\ Write!AckedApplied /\ Write!DeletedTrue /\ Write!ShardsTrue

(* A get that starts after an upsert was acknowledged finds it or          *)
(* something newer, as long as the leader answers it and stays leader      *)
(* (getDocuments).                                                         *)
FreshReads == kind = "write" => Write!FreshReads

(* Every request is answered, whatever breaks on the way, and a search     *)
(* gives back every goroutine and slot it took on the servers (wg,         *)
(* respChain, doneCh, errNotify, the deferred release of the slot).        *)
Answered == <>[](IF kind = "search" THEN Finished ELSE Write!Finished)
=============================================================================
