----------------------------- MODULE ServerLife -----------------------------
(***************************************************************************)
(* Partition servers that stop and return, and the masters that move their *)
(* partitions elsewhere.                                                   *)
(*                                                                         *)
(* A server keeps a key with a lease in etcd that lists its partitions.    *)
(* Every master watches the keys: a deletion makes a failure record of the *)
(* server, a put removes it.  TryLock lets one master act on an event; the *)
(* others only update their caches, and nobody comes back to an event.     *)
(* With AutoRecoverPs a master scans the records once a minute and, for a  *)
(* partition of a server that is down long enough, adds an empty server to *)
(* its replicas and removes the one that is down.                          *)
(*                                                                         *)
(* Three places say who has a replica: the raft group itself (raftOf), the *)
(* key of the partition, which its leader registers (pkey), and the space  *)
(* (spaceOf).  ChangeMember is one step here, with the places where it can *)
(* stop half way; SpaceMeta has its single steps.                          *)
(***************************************************************************)
EXTENDS Naturals, Sequences, FiniteSets, FiniteSetsExt, SequencesExt

CONSTANTS
    Servers,
    Masters,
    Parts,
    Stories         \* the cases; a behaviour is about one of them

VARIABLES
    story,   \* the case: who has which replica, who may stop and return, what operators do
    up,        \* down, boot, on
    hb,        \* where the heartbeat job of a server is
    check,     \* what its first round has still to look at
    listing,   \* PartitionIds, as it last told etcd
    disk,      \* partitions with a directory
    loaded,    \* partitions that run
    husk,      \* partitions that the map of the server has and that do not run
    skey,      \* the key of each server: there or not, its PartitionIds
    raftOf, pkey, spaceOf,
    gone,      \* partitions whose space was dropped
    lagging,   \* registrations of replicas by leaders that are under way
    events,    \* what the watch of each master has still to deliver
    cached,    \* serverCache of each master
    handler,   \* the event that a master is working on
    watching,  \* the watch of each master runs
    scans,     \* the recovery loop of each master
    owner,     \* who has the locks Put, Delete and Scan
    recs,      \* the failure records
    oper,      \* the request of an operator
    rnum,      \* ReplicaNum
    budget,    \* stops and failures that may still happen
    blame,     \* why a record may be wrong: <<reason, server>>
    wiped,     \* replicas whose directory was cleared while the raft group had them
    joined,    \* replicas that were added
    byHand     \* replicas that operators took away

lifeVars == <<story, up, hb, check, listing, disk, loaded, husk, skey, raftOf, pkey, spaceOf, gone, lagging, events, cached,
              handler, watching, scans, owner, recs, oper, rnum, budget, blame, wiped, joined, byHand>>

serverVars == <<up, hb, check, listing, disk, loaded, husk>>
groupVars == <<raftOf, pkey, spaceOf, gone, lagging>>
watchVars == <<events, cached, handler, watching>>

NoServer == [on |-> FALSE, pids |-> {}]
Key(pids) == [on |-> TRUE, pids |-> pids]
NoRecord == [on |-> FALSE, pids |-> {}, old |-> FALSE]
Record(pids) == [on |-> TRUE, pids |-> pids, old |-> FALSE]
Nobody == "nobody"

HandlerIdle == [pc |-> "idle", kind |-> "put", s |-> Nobody, pids |-> {}]
ScanIdle == [pc |-> "sleep", list |-> <<>>, s |-> Nobody, pids |-> {}, todo |-> {}, done |-> {}, p |-> Nobody, t |-> Nobody]

Live(s) == up[s] = "on"                 \* IsLive: it answers
QueryServer(s) == skey[s].on
QueryPartition(p) == pkey[p].on
QueryFailServer(s) == recs[s].on

\* all servers run, or some are down already and their failure is on record
LifeInit ==
    /\ \E i \in DOMAIN Stories : story = Stories[i]
    /\ up = [s \in Servers |-> IF s \in story.down THEN "down" ELSE "on"]
    /\ hb = [s \in Servers |-> IF s \in story.down THEN "off" ELSE "beat"]
    /\ check = [s \in Servers |-> {}]
    /\ raftOf = story.replicas
    /\ gone = {p \in Parts : story.replicas[p] = {}}
    /\ pkey = [p \in Parts |-> [on |-> p \notin gone, at |-> story.replicas[p]]]
    /\ spaceOf = story.replicas
    /\ disk = [s \in Servers |-> {p \in Parts : s \in story.replicas[p]}]
    /\ loaded = [s \in Servers |-> IF s \in story.down THEN {} ELSE disk[s]]
    /\ listing = disk
    /\ husk = [s \in Servers |-> {}]
    /\ skey = [s \in Servers |-> IF s \in story.down THEN NoServer ELSE Key(disk[s])]
    /\ lagging = {}
    /\ events = [m \in Masters |-> <<>>]
    /\ cached = [m \in Masters |-> skey]
    /\ handler = [m \in Masters |-> HandlerIdle]
    /\ watching = [m \in Masters |-> TRUE]
    /\ scans = [m \in Masters |-> ScanIdle]
    /\ owner = [k \in {"put", "delete", "scan"} |-> Nobody]
    /\ recs = [s \in Servers |-> IF s \in story.down THEN Record(disk[s]) ELSE NoRecord]
    /\ oper = [pc |-> story.oper.op, calls |-> <<>>]
    /\ rnum = story.rnum
    /\ budget = story.budget
    /\ blame = {} /\ wiped = {} /\ joined = {}
    /\ byHand = [p \in Parts |-> 0]

Spend(what) == budget[what] > 0 /\ budget' = [budget EXCEPT ![what] = @ - 1]

----------------------------------------------------------------------------
(* Servers.                                                                *)

\* etcd tells every watch; a master that does not watch never hears of it
Notify(e) ==
    /\ events' = [m \in Masters |-> IF m \in story.masters /\ watching[m] THEN Append(events[m], e) ELSE events[m]]
    /\ UNCHANGED <<cached, handler, watching>>
    /\ blame' = IF \E m \in story.masters : ~watching[m] THEN blame \cup {<<"unheard", e.s>>} ELSE blame

PutServer(s, pids) ==
    /\ skey' = [skey EXCEPT ![s] = Key(pids)]
    /\ Notify([kind |-> "put", s |-> s, pids |-> pids])
    /\ listing' = [listing EXCEPT ![s] = pids]

Crash(s) ==
    /\ Live(s) /\ s \in story.stops /\ Spend("crash")
    /\ up' = [up EXCEPT ![s] = "down"]
    /\ hb' = [hb EXCEPT ![s] = "off"]
    /\ loaded' = [loaded EXCEPT ![s] = {}]
    /\ husk' = [husk EXCEPT ![s] = {}]
    /\ check' = [check EXCEPT ![s] = {}]
    /\ UNCHANGED <<story, listing, disk, skey, groupVars, watchVars, scans, owner, recs, oper, rnum, blame, wiped, joined, byHand>>

\* the answer of the master: the partitions that the spaces place on s
Placed(s) == {p \in Parts \ gone : s \in spaceOf[p]}

\* Start: the id is in the meta file
RegisterServer(s) ==
    /\ up[s] = "down" /\ s \in story.returns
    /\ up' = [up EXCEPT ![s] = "boot"]
    /\ check' = [check EXCEPT ![s] = Placed(s)]
    /\ UNCHANGED <<story, hb, listing, disk, loaded, husk, skey, groupVars, watchVars, scans, owner, recs, oper, rnum, budget, blame, wiped, joined, byHand>>

\* CreateStore makes the directories that are missing
RecoverPartitions(s) ==
    /\ up[s] = "boot"
    /\ up' = [up EXCEPT ![s] = "on"]
    /\ loaded' = [loaded EXCEPT ![s] = check[s]]
    /\ disk' = [disk EXCEPT ![s] = @ \cup check[s]]
    /\ hb' = [hb EXCEPT ![s] = "list"]
    /\ UNCHANGED <<story, check, listing, husk, skey, groupVars, watchVars, scans, owner, recs, oper, rnum, budget, blame, wiped, joined, byHand>>

GetAllPartitions(s) == disk[s]

ClearPartition(s, p) == disk' = [disk EXCEPT ![s] = @ \ {p}]

\* StartHeartbeatJob, which runs while the server already answers
HeartbeatList(s) ==
    /\ hb[s] = "list"
    /\ check' = [check EXCEPT ![s] = GetAllPartitions(s)]
    /\ listing' = [listing EXCEPT ![s] = {}]
    /\ hb' = [hb EXCEPT ![s] = "scan"]
    /\ UNCHANGED <<story, up, disk, loaded, husk, skey, groupVars, watchVars, scans, owner, recs, oper, rnum, budget, blame, wiped, joined, byHand>>

\* a partition that etcd does not know is neither listed nor cleared
HeartbeatQuery(s) ==
    /\ hb[s] = "scan"
    /\ \E p \in check[s] :
        IF QueryPartition(p) /\ s \notin pkey[p].at
        THEN hb' = [hb EXCEPT ![s] = p] /\ UNCHANGED <<check, listing>>
        ELSE /\ check' = [check EXCEPT ![s] = @ \ {p}]
             /\ listing' = [listing EXCEPT ![s] = IF QueryPartition(p) THEN @ \cup {p} ELSE @]
             /\ UNCHANGED hb
    /\ UNCHANGED <<story, up, disk, loaded, husk, skey, groupVars, watchVars, scans, owner, recs, oper, rnum, budget, blame, wiped, joined, byHand>>

\* the directories are removed; the partition is listed all the same
HeartbeatClear(s) ==
    /\ hb[s] \in Parts
    /\ LET p == hb[s] IN
        /\ ClearPartition(s, p)
        /\ check' = [check EXCEPT ![s] = @ \ {p}]
        /\ listing' = [listing EXCEPT ![s] = @ \cup {p}]
        /\ wiped' = IF QueryPartition(p) /\ s \in raftOf[p] THEN wiped \cup {<<s, p>>} ELSE wiped
    /\ hb' = [hb EXCEPT ![s] = "scan"]
    /\ UNCHANGED <<story, up, loaded, husk, skey, groupVars, watchVars, scans, owner, recs, oper, rnum, budget, blame, joined, byHand>>

KeepAlive(s) ==
    /\ hb[s] = "scan" /\ check[s] = {}
    /\ \/ /\ PutServer(s, listing[s])
          /\ hb' = [hb EXCEPT ![s] = "beat"]
          /\ UNCHANGED budget
       \/ /\ Spend("fault")
          /\ hb' = [hb EXCEPT ![s] = "stuck"]
          /\ UNCHANGED <<skey, watchVars, listing, blame>>
    /\ UNCHANGED <<story, up, check, disk, loaded, husk, groupVars, scans, owner, recs, oper, rnum, wiped, joined, byHand>>

comparePartitionIDs(old, new) == old = new

\* the ticker of the job: etcd is told of partitions that came or went
HeartbeatTick(s) ==
    /\ hb[s] = "beat" /\ ~comparePartitionIDs(listing[s], GetAllPartitions(s))
    /\ PutServer(s, GetAllPartitions(s))
    /\ UNCHANGED <<story, up, hb, check, disk, loaded, husk, groupVars, scans, owner, recs, oper, rnum, budget, wiped, joined, byHand>>

\* Five puts fail one after the other: the job forgets its lease, which stays
\* alive, and tells etcd no more.  Fewer failures change nothing.
HeartbeatGivesUp(s) ==
    /\ hb[s] = "beat" /\ ~comparePartitionIDs(listing[s], GetAllPartitions(s))
    /\ Spend("fault")
    /\ hb' = [hb EXCEPT ![s] = "mute"]
    /\ listing' = [listing EXCEPT ![s] = GetAllPartitions(s)]
    /\ UNCHANGED <<story, up, check, disk, loaded, husk, skey, groupVars, watchVars, scans, owner, recs, oper, rnum, blame, wiped, joined, byHand>>

\* The keepalive channel closes: the lease is lost, or the context of a
\* reconnection, which lasts five seconds, is over.
KeepAliveLost(s) ==
    /\ hb[s] \in {"beat", "mute"} /\ Spend("beat")
    /\ hb' = [hb EXCEPT ![s] = "lost"]
    /\ UNCHANGED <<story, up, check, listing, disk, loaded, husk, skey, groupVars, watchVars, scans, owner, recs, oper, rnum, blame, wiped, joined, byHand>>

\* One attempt to get a new lease: if it fails the job waits on a nil channel for ever.
Reconnect(s) ==
    /\ hb[s] = "lost"
    /\ \/ /\ PutServer(s, listing[s])
          /\ hb' = [hb EXCEPT ![s] = "beat"]
          /\ UNCHANGED budget
       \/ /\ Spend("fault")
          /\ hb' = [hb EXCEPT ![s] = "stuck"]
          /\ UNCHANGED <<skey, watchVars, listing, blame>>
    /\ UNCHANGED <<story, up, check, disk, loaded, husk, groupVars, scans, owner, recs, oper, rnum, wiped, joined, byHand>>

LeaseExpires(s) ==
    /\ skey[s].on /\ hb[s] \notin {"beat", "mute"}
    /\ skey' = [skey EXCEPT ![s] = NoServer]
    /\ Notify([kind |-> "delete", s |-> s, pids |-> {}])
    /\ UNCHANGED <<story, serverVars, groupVars, scans, owner, recs, oper, rnum, budget, wiped, joined, byHand>>

----------------------------------------------------------------------------
(* ChangeMember.                                                           *)

\* a majority of the group runs and etcd knows one of them to send the change to
HasLeader(p) ==
    LET running == {s \in raftOf[p] : Live(s) /\ p \in loaded[s]} IN
    2 * Cardinality(running) > Cardinality(raftOf[p]) /\ \E s \in running : QueryServer(s)

\* CreatePartition asks etcd, or the failure records, where the replicas are
Known(p, t) == \A s \in spaceOf[p] \cup {t} : QueryServer(s) \/ QueryFailServer(s)

AddAllowed(p, t) == QueryPartition(p) /\ p \notin gone /\ t \notin spaceOf[p] /\ HasLeader(p) /\ QueryServer(t) /\ Live(t)

CreatePartitionPaths(p, t) == disk' = [disk EXCEPT ![t] = @ \cup {p}]

\* A partition that the server already has is replaced, in its map, by one that is closed.
CreatePartition(p, t) ==
    /\ CreatePartitionPaths(p, t)
    /\ IF p \notin loaded[t] \cup husk[t] /\ Known(p, t)
       THEN loaded' = [loaded EXCEPT ![t] = @ \cup {p}] /\ UNCHANGED husk
       ELSE loaded' = [loaded EXCEPT ![t] = @ \ {p}] /\ husk' = [husk EXCEPT ![t] = @ \cup {p}]
    /\ UNCHANGED <<up, hb, check, listing>>

Created(p, t) == p \in loaded[t] \cup husk[t] \/ Known(p, t)

\* the leader queues the members it has for registration with the master
changeReplicas(p, new) == lagging' = lagging \cup {<<p, new>>}

ChangeRaft(p, new) ==
    /\ raftOf' = [raftOf EXCEPT ![p] = new]
    /\ changeReplicas(p, new)
    /\ UNCHANGED <<pkey, gone>>

AddMember(p, t, ok) ==
    \/ /\ AddAllowed(p, t) /\ Created(p, t) /\ ok
       /\ CreatePartition(p, t)
       /\ ChangeRaft(p, raftOf[p] \cup {t})
       /\ spaceOf' = [spaceOf EXCEPT ![p] = @ \cup {t}]
       /\ joined' = joined \cup {<<t, p>>}
       /\ UNCHANGED budget
    \/ /\ ~AddAllowed(p, t) /\ ~ok
       /\ UNCHANGED <<serverVars, groupVars, budget, joined>>
    \/ /\ AddAllowed(p, t) /\ ~Created(p, t) /\ ~ok
       /\ CreatePartition(p, t)
       /\ UNCHANGED <<groupVars, budget, joined>>
    \/ \* a call fails, or its answer is lost
       /\ AddAllowed(p, t) /\ Created(p, t) /\ ~ok /\ Spend("fault")
       /\ CreatePartition(p, t)
       /\ \/ UNCHANGED <<groupVars, joined>>
          \/ /\ ChangeRaft(p, raftOf[p] \cup {t})
             /\ joined' = joined \cup {<<t, p>>}
             /\ \/ UNCHANGED spaceOf
                \/ spaceOf' = [spaceOf EXCEPT ![p] = @ \cup {t}]

\* DeleteReplica, on a server that is there
DeleteReplica(p, s) ==
    IF QueryServer(s) /\ Live(s)
    THEN /\ disk' = [disk EXCEPT ![s] = IF p \in loaded[s] \cup husk[s] THEN @ \ {p} ELSE @]
         /\ loaded' = [loaded EXCEPT ![s] = @ \ {p}]
         /\ husk' = [husk EXCEPT ![s] = @ \ {p}]
         /\ UNCHANGED <<up, hb, check, listing>>
    ELSE UNCHANGED serverVars

RemoveAllowed(p) == QueryPartition(p) /\ p \notin gone /\ HasLeader(p)

RemoveMember(p, s, ok) ==
    \/ /\ RemoveAllowed(p) /\ ok
       /\ ChangeRaft(p, raftOf[p] \ {s})
       /\ DeleteReplica(p, s)
       /\ spaceOf' = [spaceOf EXCEPT ![p] = @ \ {s}]
       /\ UNCHANGED budget
    \/ /\ ~RemoveAllowed(p) /\ ~ok
       /\ UNCHANGED <<serverVars, groupVars, budget>>
    \/ /\ RemoveAllowed(p) /\ ~ok /\ Spend("fault")
       /\ \/ UNCHANGED <<serverVars, groupVars>>
          \/ /\ ChangeRaft(p, raftOf[p] \ {s})
             /\ \/ UNCHANGED <<serverVars, spaceOf>>
                \/ DeleteReplica(p, s) /\ UNCHANGED spaceOf
                \/ DeleteReplica(p, s) /\ spaceOf' = [spaceOf EXCEPT ![p] = @ \ {s}]

\* RegisterPartition: a Put of what the leader had when it sent it, or an error that is logged
RegisterPartition(r) ==
    /\ r \in lagging
    /\ lagging' = lagging \ {r}
    /\ \/ pkey' = [pkey EXCEPT ![r[1]] = [on |-> TRUE, at |-> r[2]]] /\ UNCHANGED budget
       \/ Spend("fault") /\ UNCHANGED pkey
    /\ UNCHANGED <<story, serverVars, skey, raftOf, spaceOf, gone, watchVars, scans, owner, recs, oper, rnum, blame, wiped, joined, byHand>>

\* The space of p is dropped; servers that run delete their part of it.
DropSpace(p) ==
    /\ p \in story.drops \ gone
    /\ gone' = gone \cup {p}
    /\ pkey' = [pkey EXCEPT ![p] = [on |-> FALSE, at |-> {}]]
    /\ spaceOf' = [spaceOf EXCEPT ![p] = {}]
    /\ raftOf' = [raftOf EXCEPT ![p] = {}]
    /\ UNCHANGED lagging
    /\ disk' = [s \in Servers |-> IF Live(s) THEN disk[s] \ {p} ELSE disk[s]]
    /\ loaded' = [s \in Servers |-> loaded[s] \ {p}]
    /\ husk' = [s \in Servers |-> husk[s] \ {p}]
    /\ UNCHANGED <<story, up, hb, check, listing, skey, watchVars, scans, owner, recs, oper, rnum, budget, blame, wiped, joined, byHand>>

----------------------------------------------------------------------------
(* The watch of a master.                                                  *)

Handle(m, h) == handler' = [handler EXCEPT ![m] = h]
Cache(m, s, v) == cached' = [cached EXCEPT ![m][s] = v]
Release(k) == owner' = [owner EXCEPT ![k] = Nobody]
UnlockScan(m) == owner' = [owner EXCEPT !["scan"] = IF @ = m THEN Nobody ELSE @]

\* serverPut and serverDelete begin with TryLock; a master that does not get
\* the lock updates its cache and is done with the event
TakeEvent(m) ==
    /\ watching[m] /\ handler[m].pc = "idle" /\ events[m] # <<>>
    /\ LET e == Head(events[m]) IN
       /\ events' = [events EXCEPT ![m] = Tail(@)]
       /\ IF owner[e.kind] = Nobody
          THEN /\ owner' = [owner EXCEPT ![e.kind] = m]
               /\ Handle(m, [pc |-> e.kind, kind |-> e.kind, s |-> e.s, pids |-> e.pids])
               /\ UNCHANGED <<cached, blame>>
          ELSE /\ Cache(m, e.s, IF e.kind = "put" THEN Key(e.pids) ELSE NoServer)
               /\ blame' = blame \cup {<<IF e.kind = "put" THEN "refused put" ELSE "refused delete", e.s>>}
               /\ UNCHANGED <<owner, handler>>
    /\ UNCHANGED <<story, serverVars, skey, groupVars, watching, scans, recs, oper, rnum, budget, wiped, joined, byHand>>

\* TryRemoveFailServer: the records are read, then the one of s is deleted
ServerPut(m) ==
    LET h == handler[m] IN
    /\ h.pc = "put"
    /\ Handle(m, [h EXCEPT !.pc = IF h.pids # {} /\ recs[h.s].on THEN "unrecord" ELSE "end"])
    /\ UNCHANGED <<story, serverVars, skey, groupVars, events, cached, watching, scans, owner, recs, oper, rnum, budget, blame, wiped, joined, byHand>>

TryRemoveFailServer(m) ==
    /\ handler[m].pc = "unrecord"
    /\ recs' = [recs EXCEPT ![handler[m].s] = NoRecord]
    /\ Handle(m, [handler[m] EXCEPT !.pc = "end"])
    /\ UNCHANGED <<story, serverVars, skey, groupVars, events, cached, watching, scans, owner, oper, rnum, budget, blame, wiped, joined, byHand>>

\* an unknown server, one that answers and one without partitions are let be,
\* and stay in the cache
ServerDelete(m) ==
    LET h == handler[m]
        fail == cached[m][h.s]
        alive == Live(h.s)
    IN
    /\ h.pc = "delete"
    /\ IF ~fail.on \/ alive \/ fail.pids = {}
       THEN /\ Release("delete") /\ Handle(m, HandlerIdle)
            /\ blame' = IF ~fail.on \/ alive THEN blame \cup {<<"passed over", h.s>>} ELSE blame
       ELSE /\ Handle(m, [h EXCEPT !.pc = "record", !.pids = fail.pids])
            /\ UNCHANGED <<owner, blame>>
    /\ UNCHANGED <<story, serverVars, skey, groupVars, events, cached, watching, scans, recs, oper, rnum, budget, wiped, joined, byHand>>

PutFailServerByID(m) ==
    LET h == handler[m] IN
    /\ h.pc = "record"
    /\ \/ /\ recs' = [recs EXCEPT ![h.s] = Record(h.pids)]
          /\ Handle(m, [h EXCEPT !.pc = "end"])
          /\ UNCHANGED <<owner, budget, blame>>
       \/ /\ Spend("fault")
          /\ Release("delete") /\ Handle(m, HandlerIdle)
          /\ blame' = blame \cup {<<"fault", h.s>>}
          /\ UNCHANGED recs
    /\ UNCHANGED <<story, serverVars, skey, groupVars, events, cached, watching, scans, oper, rnum, wiped, joined, byHand>>

EndEvent(m) ==
    LET h == handler[m] IN
    /\ h.pc = "end"
    /\ Release(h.kind)
    /\ Cache(m, h.s, IF h.kind = "put" THEN Key(h.pids) ELSE NoServer)
    /\ Handle(m, HandlerIdle)
    /\ UNCHANGED <<story, serverVars, skey, groupVars, events, watching, scans, recs, oper, rnum, budget, blame, wiped, joined, byHand>>

\* The watch is cancelled: what it had not delivered is lost.
WatchEnds(m) ==
    /\ watching[m] /\ handler[m].pc = "idle" /\ Spend("watch")
    /\ watching' = [watching EXCEPT ![m] = FALSE]
    /\ events' = [events EXCEPT ![m] = <<>>]
    /\ blame' = blame \cup {<<"unheard", events[m][i].s>> : i \in DOMAIN events[m]}
    /\ UNCHANGED <<story, serverVars, skey, groupVars, cached, handler, scans, owner, recs, oper, rnum, wiped, joined, byHand>>

\* start waits for the watch and for the recovery loop before it begins anew
WatchStarts(m) ==
    /\ ~watching[m] /\ (~story.auto \/ scans[m].pc = "dead")
    /\ watching' = [watching EXCEPT ![m] = TRUE]
    /\ scans' = [scans EXCEPT ![m] = ScanIdle]
    /\ UNCHANGED <<story, serverVars, skey, groupVars, events, cached, handler, owner, recs, oper, rnum, budget, blame, wiped, joined, byHand>>

----------------------------------------------------------------------------
(* The recovery loop of a master.                                          *)

Scanning(m, to) == scans' = [scans EXCEPT ![m] = to]

\* recoverTime passes
Age(s) ==
    /\ recs[s].on /\ ~recs[s].old
    /\ recs' = [recs EXCEPT ![s].old = TRUE]
    /\ UNCHANGED <<story, serverVars, skey, groupVars, watchVars, scans, owner, oper, rnum, budget, blame, wiped, joined, byHand>>

ScanLock(m) ==
    /\ story.auto /\ scans[m].pc = "sleep" /\ owner["scan"] = Nobody
    /\ owner' = [owner EXCEPT !["scan"] = m]
    /\ Scanning(m, [ScanIdle EXCEPT !.pc = "query"])
    /\ UNCHANGED <<story, serverVars, skey, groupVars, watchVars, recs, oper, rnum, budget, blame, wiped, joined, byHand>>

QueryAllFailServer(m) ==
    /\ scans[m].pc = "query"
    /\ \/ /\ Scanning(m, [scans[m] EXCEPT !.pc = "next", !.list = SetToSeq({[s |-> s, r |-> recs[s]] : s \in {s \in Servers : recs[s].on}})])
          /\ UNCHANGED <<owner, budget>>
       \/ Spend("fault") /\ Scanning(m, ScanIdle) /\ UnlockScan(m)
    /\ UNCHANGED <<story, serverVars, skey, groupVars, watchVars, recs, oper, rnum, blame, wiped, joined, byHand>>

\* the next record, if its time has come
ScanNext(m) ==
    LET sc == scans[m] IN
    /\ sc.pc = "next"
    /\ IF sc.list = <<>> THEN Scanning(m, ScanIdle) /\ UnlockScan(m)
       ELSE LET x == Head(sc.list) IN
            /\ Scanning(m, IF x.r.pids = {} \/ ~x.r.old THEN [sc EXCEPT !.list = Tail(@)]
                           ELSE [sc EXCEPT !.list = Tail(@), !.pc = "pick", !.s = x.s, !.pids = x.r.pids, !.todo = x.r.pids, !.done = {}])
            /\ UNCHANGED owner
    /\ UNCHANGED <<story, serverVars, skey, groupVars, watchVars, recs, oper, rnum, budget, blame, wiped, joined, byHand>>

LiveReplicas(p) == {s \in pkey[p].at : QueryServer(s) /\ Live(s)}

\* ReplicaAntiAffinityStrategy
OtherZone(s, t) == story.zone = <<>> \/ story.zone[s] # story.zone[t]

Available(s, p) == {t \in Servers \ ({s} \cup LiveReplicas(p)) : skey[t].on /\ OtherZone(s, t)}

Fewest(S) == {t \in S : \A u \in S : Cardinality(skey[t].pids) <= Cardinality(skey[u].pids)}

\* an error is thrown: the loop ends, with its lock
Thrown(m) ==
    /\ Scanning(m, [ScanIdle EXCEPT !.pc = "dead"])
    /\ blame' = blame \cup {<<"thrown", scans[m].s>>}

\* QueryPartition of a partition that is gone, or a failure of etcd, throws
PickServer(m) ==
    LET sc == scans[m] IN
    /\ sc.pc = "pick"
    /\ \/ Spend("fault") /\ sc.todo # {} /\ Thrown(m)
       \/ /\ sc.todo = {}
          /\ Scanning(m, [sc EXCEPT !.pc = "close"])
          /\ UNCHANGED <<blame, budget>>
       \/ \E p \in sc.todo :
            LET skip == [sc EXCEPT !.todo = @ \ {p}] IN
            IF ~QueryPartition(p)
            THEN Thrown(m) /\ UNCHANGED budget
            ELSE /\ UNCHANGED <<blame, budget>>
                 /\ IF \/ p \in gone
                       \/ Cardinality(LiveReplicas(p)) < (rnum + 1) \div 2
                       \/ Available(sc.s, p) = {}
                    THEN Scanning(m, skip)
                    ELSE \E t \in Fewest(Available(sc.s, p)) :
                           Scanning(m, IF skey[t].pids # {} THEN skip ELSE [skip EXCEPT !.pc = "add", !.p = p, !.t = t])
    /\ UNCHANGED <<story, serverVars, skey, groupVars, watchVars, owner, recs, oper, rnum, wiped, joined, byHand>>

\* slip: the old replica is removed although the new one was not added
RecoverAddAnyway(m) ==
    /\ scans[m].pc = "add"
    /\ \E ok \in BOOLEAN : AddMember(scans[m].p, scans[m].t, ok)
    /\ Scanning(m, [scans[m] EXCEPT !.pc = "remove"])
    /\ UNCHANGED <<story, skey, watchVars, owner, recs, oper, rnum, blame, wiped, byHand>>

RecoverAdd(m) ==
    /\ scans[m].pc = "add"
    /\ \E ok \in BOOLEAN :
        /\ AddMember(scans[m].p, scans[m].t, ok)
        /\ Scanning(m, [scans[m] EXCEPT !.pc = IF ok THEN "remove" ELSE "pick"])
    /\ UNCHANGED <<story, skey, watchVars, owner, recs, oper, rnum, blame, wiped, byHand>>

RecoverRemove(m) ==
    LET sc == scans[m] IN
    /\ sc.pc = "remove"
    /\ \E ok \in BOOLEAN :
        /\ RemoveMember(sc.p, sc.s, ok)
        /\ Scanning(m, [sc EXCEPT !.pc = "pick", !.done = IF ok THEN @ \cup {sc.p} ELSE @])
    /\ UNCHANGED <<story, skey, watchVars, owner, recs, oper, rnum, blame, wiped, joined, byHand>>

\* the record is deleted, and made again, with a new time, for what is left;
\* a deletion that fails is only logged
CloseRecord(m) ==
    LET sc == scans[m] IN
    /\ sc.pc = "close"
    /\ \/ recs' = [recs EXCEPT ![sc.s] = NoRecord] /\ UNCHANGED budget
       \/ Spend("fault") /\ UNCHANGED recs
    /\ Scanning(m, [sc EXCEPT !.pc = IF sc.pids = sc.done THEN "next" ELSE "again"])
    /\ blame' = blame \cup {<<"recovered", sc.s>>}
    /\ UNCHANGED <<story, serverVars, skey, groupVars, watchVars, owner, oper, rnum, wiped, joined, byHand>>

RecordAgain(m) ==
    LET sc == scans[m] IN
    /\ sc.pc = "again"
    /\ \/ /\ recs' = [recs EXCEPT ![sc.s] = Record(sc.pids \ sc.done)]
          /\ Scanning(m, [sc EXCEPT !.pc = "next"])
          /\ blame' = blame \cup {<<"again", sc.s>>}
          /\ UNCHANGED budget
       \/ Spend("fault") /\ Thrown(m) /\ UNCHANGED recs
    /\ UNCHANGED <<story, serverVars, skey, groupVars, watchVars, owner, oper, rnum, wiped, joined, byHand>>

\* The lease of the lock runs out: nobody keeps it alive, also not a loop that
\* is still at work, whose calls may take longer than the lease.
ScanLockExpires ==
    /\ owner["scan"] \in Masters
    /\ \/ scans[owner["scan"]].pc \in {"dead", "sleep"} /\ UNCHANGED budget
       \/ scans[owner["scan"]].pc \notin {"dead", "sleep"} /\ Spend("lease")
    /\ Release("scan")
    /\ UNCHANGED <<story, serverVars, skey, groupVars, watchVars, scans, recs, oper, rnum, blame, wiped, joined, byHand>>

----------------------------------------------------------------------------
(* Requests of operators: the calls of ChangeMember that they make.        *)

Calls(op, P, s) == SetToSeq({[op |-> op, p |-> p, s |-> s] : p \in P})

\* add new, remove failed, partition after partition
Moves(P, failed, new) ==
    FoldSet(LAMBDA p, q : q \o <<[op |-> "add", p |-> p, s |-> new], [op |-> "remove", p |-> p, s |-> failed]>>, <<>>, P)

\* QueryServerByIPAddr: the failure record, else the key
Told(s) == IF recs[s].on THEN recs[s].pids ELSE skey[s].pids
IsTold(s) == QueryFailServer(s) \/ QueryServer(s)

RecoverFailServer ==
    /\ oper.pc = "recover"
    /\ oper' = IF IsTold(story.oper.failed) /\ IsTold(story.oper.new)
               THEN [pc |-> "recovering", calls |-> Moves(Told(story.oper.failed), story.oper.failed, story.oper.new)]
               ELSE [oper EXCEPT !.pc = "done"]
    /\ UNCHANGED <<story, serverVars, skey, groupVars, watchVars, scans, owner, recs, rnum, budget, blame, wiped, joined, byHand>>

RemoveServerMeta ==
    /\ oper.pc = "removeMeta"
    /\ oper' = IF recs[story.oper.failed].on
               THEN [pc |-> "removing", calls |-> Calls("remove", recs[story.oper.failed].pids, story.oper.failed)]
               ELSE [oper EXCEPT !.pc = "done"]
    /\ UNCHANGED <<story, serverVars, skey, groupVars, watchVars, scans, owner, recs, rnum, budget, blame, wiped, joined, byHand>>

FailServerClear ==
    /\ oper.pc = "clear"
    /\ recs' = [recs EXCEPT ![story.oper.failed] = NoRecord]
    /\ oper' = [oper EXCEPT !.pc = "done"]
    /\ blame' = blame \cup {<<"operator", story.oper.failed>>}
    /\ UNCHANGED <<story, serverVars, skey, groupVars, watchVars, scans, owner, rnum, budget, wiped, joined, byHand>>

\* one replica more, or one less, of every partition; the servers come as etcd knows them
ChangeReplica ==
    /\ oper.pc \in {"addReplica", "dropReplica"}
    /\ LET there == {s \in Servers : skey[s].on}
           adding == oper.pc = "addReplica"
           places(p) == IF adding THEN {s \in there : s \notin spaceOf[p]} ELSE {s \in there : p \in skey[s].pids}
           here == {p \in Parts \ gone : places(p) # {}}
       IN IF adding /\ rnum + 1 > Cardinality(there)
          THEN oper' = [oper EXCEPT !.pc = "done"]
          ELSE \E f \in [here -> Servers] :
                 /\ \A p \in here : f[p] \in Fewest(places(p))
                 /\ oper' = [pc    |-> IF adding THEN "adding" ELSE "dropping",
                             calls |-> FoldSet(LAMBDA p, q : Append(q, [op |-> IF adding THEN "add" ELSE "remove", p |-> p, s |-> f[p]]), <<>>, here)]
    /\ UNCHANGED <<story, serverVars, skey, groupVars, watchVars, scans, owner, recs, rnum, budget, blame, wiped, joined, byHand>>

\* the next call; the first that fails ends the request
OperCall ==
    /\ oper.calls # <<>>
    /\ LET c == Head(oper.calls) IN
       \E ok \in BOOLEAN :
        /\ oper' = IF ok THEN [oper EXCEPT !.calls = Tail(@)] ELSE [pc |-> "done", calls |-> <<>>]
        /\ \/ c.op = "add" /\ AddMember(c.p, c.s, ok) /\ UNCHANGED byHand
           \/ /\ c.op = "remove" /\ RemoveMember(c.p, c.s, ok)
              /\ UNCHANGED joined
              /\ byHand' = IF oper.pc # "recovering" /\ raftOf'[c.p] # raftOf[c.p] THEN [byHand EXCEPT ![c.p] = @ + 1] ELSE byHand
    /\ UNCHANGED <<story, skey, watchVars, scans, owner, recs, rnum, blame, wiped>>

OperEnd ==
    /\ oper.pc \in {"recovering", "removing", "adding", "dropping"} /\ oper.calls = <<>>
    /\ oper' = [oper EXCEPT !.pc = "done"]
    /\ IF oper.pc = "recovering"
       THEN recs' = [recs EXCEPT ![story.oper.failed] = NoRecord] /\ blame' = blame \cup {<<"operator", story.oper.failed>>}
       ELSE UNCHANGED <<recs, blame>>
    /\ rnum' = CASE oper.pc = "adding" -> rnum + 1 [] oper.pc = "dropping" -> rnum - 1 [] OTHER -> rnum
    /\ UNCHANGED <<story, serverVars, skey, groupVars, watchVars, scans, owner, budget, wiped, joined, byHand>>

----------------------------------------------------------------------------

ServerStep(s) ==
    \/ RecoverPartitions(s)
    \/ HeartbeatList(s) \/ HeartbeatQuery(s) \/ HeartbeatClear(s) \/ KeepAlive(s)
    \/ HeartbeatTick(s) \/ Reconnect(s) \/ LeaseExpires(s)

WatchStep(m) ==
    \/ TakeEvent(m) \/ ServerPut(m) \/ TryRemoveFailServer(m)
    \/ ServerDelete(m) \/ PutFailServerByID(m) \/ EndEvent(m) \/ WatchStarts(m)

ScanStep(m) ==
    \/ ScanLock(m) \/ QueryAllFailServer(m) \/ ScanNext(m) \/ PickServer(m)
    \/ RecoverAdd(m) \/ RecoverRemove(m) \/ CloseRecord(m) \/ RecordAgain(m)

OperStep == RecoverFailServer \/ RemoveServerMeta \/ FailServerClear \/ ChangeReplica \/ OperCall \/ OperEnd

LifeNext ==
    \/ \E s \in Servers : Crash(s) \/ RegisterServer(s) \/ KeepAliveLost(s) \/ HeartbeatGivesUp(s) \/ ServerStep(s) \/ Age(s)
    \/ \E m \in story.masters : WatchEnds(m) \/ WatchStep(m) \/ ScanStep(m)
    \/ \E r \in lagging : RegisterPartition(r)
    \/ \E p \in Parts : DropSpace(p)
    \/ ScanLockExpires \/ OperStep

----------------------------------------------------------------------------
(* What the servers and the masters promise.                               *)

\* Recovery never costs a replica: a raft group keeps as many members as the
\* space was created with, less those that operators removed, whatever fails
\* half way and however many masters and operators recover the same server; and
\* a server that returns clears the directory of a partition only if the raft
\* group has not kept it all the time.
ReplicasKept ==
    /\ \A p \in Parts \ gone : Cardinality(raftOf[p]) + byHand[p] >= story.rnum
    /\ wiped \subseteq joined

\* nobody works on an event
Quiet == \A m \in Masters : events[m] = <<>> /\ handler[m].pc = "idle"

Blamed(s, reasons) == \E r \in reasons : <<r, s>> \in blame

\* When no event is under way the failure records are true.  A server that runs
\* and whose key lists partitions has no record, unless a master was refused
\* the lock for its return, did not hear of it, or made the record again
\* after a recovery that had read it before.  A server that is down, whose key
\* is gone and had partitions, has one, unless its deletion was missed, came
\* while it answered, or its record was used up by a recovery or an operator.
RecordsTrue ==
    Quiet => \A s \in Servers :
        /\ Live(s) /\ skey[s].on /\ skey[s].pids # {} /\ hb[s] = "beat" /\ recs[s].on
             => Blamed(s, {"refused put", "unheard", "again"})
        /\ ~Live(s) /\ ~skey[s].on /\ listing[s] # {} /\ up[s] = "down" /\ ~recs[s].on
             => Blamed(s, {"refused delete", "unheard", "passed over", "fault", "recovered", "operator", "refused put"})

\* Recovery costs no replica, and a failure record tells whether its server is
\* there (ReplicasKept, RecordsTrue).
ServersSound == ReplicasKept /\ RecordsTrue

\* nothing can be done for the replica of p on s: nobody looks, no failure is
\* recorded, no leader takes the change or no empty server is left
Excused(p, s) ==
    \/ ~story.auto \/ \A m \in story.masters : scans[m].pc = "dead"
    \/ ~recs[s].on \/ p \notin recs[s].pids
    \/ ~HasLeader(p) \/ Cardinality(LiveReplicas(p)) < (rnum + 1) \div 2
    \/ \A t \in Fewest(Available(s, p)) : skey[t].pids # {}

\* no server that is down has a replica that could be moved
Recovered == \A p \in Parts \ gone : \A s \in raftOf[p] : up[s] = "down" => Excused(p, s)
=============================================================================
