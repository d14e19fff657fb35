----------------------------- MODULE MasterCache -----------------------------
(***************************************************************************)
(* The router's cache of the metadata in etcd (clientCache): what it loads *)
(* at first, the watcherJob that keeps it up to date, the requests that    *)
(* load an entry they do not find, and the rpc clients made from it.       *)
(*                                                                         *)
(* There is one watcherJob for each prefix and they share nothing, so a    *)
(* behaviour is about one of them, env.kind.                               *)
(* The revisions of etcd are the positions of its log of writes.           *)
(***************************************************************************)
EXTENDS Integers, Sequences, FiniteSets, FiniteSetsExt

CONSTANTS
    Keys,              \* keys under the watched prefix
    Names,             \* names of spaces
    MaxRequests,       \* for one user at the same time
    None,              \* no key, no slot
    MaxLog, MaxFails,
    Settings           \* the kind of entry, its keys, and what may happen

Kinds == {"user", "role", "space", "partition", "server", "alias", "router"}

\* what may fail or go wrong: the "get" of WatchPrefix, a "cancel" of the watch, a
\* "query" of a handler or of a reload, the "recovery" loop panics, the "clock" of
\* the master that sets UpdateTime, a space gets another name ("rename")
Faults == {"get", "cancel", "query", "recovery", "clock", "rename"}

\* limits: the keys under the prefix of the routers that hold settings of theirs
Setting == [kind : Kinds, keys : SUBSET Keys, limits : SUBSET Keys, writes : 0 .. MaxLog,
            autoRecover : BOOLEAN, faults : SUBSET Faults]

VARIABLES
    env,         \* the setting
    log,         \* the writes to etcd
    watch,       \* "init" before the first load; then "off" or "on"
    recovering,  \* whether the recovery loop of the watcherJob is there
    pos,         \* the watch has passed this revision
    hand,        \* what the handler of an event is about to do
    cache,       \* the cache
    reload,      \* reloads under way
    rpc,         \* address of the rpc client of each server, 0 for none
    dial,        \* the rpc client being made
    count,       \* ConfigInfo.RouterCount
    fails,       \* number of faults so far
    marked,      \* history: entries an event of which was lost or overtaken
    late         \* history: servers an event of which was lost, or whose client is of an older entry

etcdVars == <<env, log>>
watchVars == <<watch, recovering>>
rpcVars == <<rpc, dial, late>>
vars == <<env, log, watch, recovering, pos, hand, cache, reload, rpc, dial, count,
          fails, marked, late>>

\* UserKey and RoleKey: the put handler stores a user or a role under the key
\* of etcd
UserKey(k) == <<"user", k>>

Slot == Keys \cup Names \cup {UserKey(k) : k \in Keys}

ASSUME MasterCacheAssumption ==
    /\ MaxRequests \in Nat /\ MaxLog \in Nat /\ MaxFails \in Nat
    /\ \A e \in Settings : e \in Setting
    /\ IsFiniteSet(Keys) /\ "elsewhere" \notin Keys
    /\ None \notin Keys \cup Names
    /\ \A k \in Keys : UserKey(k) \notin Keys \cup Names

NoValue == [key |-> None, slot |-> None, ver |-> 0, rev |-> 0]

NoHand == [slot |-> None, val |-> NoValue]

NoReload == [pc |-> "idle", val |-> NoValue]

NoDial == [key |-> None, addr |-> 0]

Now == Len(log)

\* the value of a key after the first r writes
At(r, k) ==
    LET I == {i \in 1 .. r : log[i].key = k} IN
    IF I = {} THEN NoValue ELSE log[Max(I)].val

\* what a reader of etcd finds under a slot
Found(r, s) ==
    LET V == {v \in {At(r, k) : k \in Keys} : v.slot = s} IN
    IF V = {} THEN NoValue ELSE CHOOSE v \in V : TRUE

\* the slots that readers use
Readable == IF env.kind = "space" THEN Names ELSE env.keys

\* the reloads there can be: one for each slot (LoadOrStore), but one for each
\* request for a user or a role
Worker == (Keys \cup Names) \X (1 .. MaxRequests)

Reloads == env.kind \notin {"alias", "router"}

Init ==
    /\ env \in Settings
    /\ log = << >>
    /\ watch = "init" /\ recovering = FALSE /\ pos = 0
    /\ hand = NoHand
    /\ cache = [s \in Slot |-> NoValue]
    /\ reload = [w \in Worker |-> NoReload]
    /\ rpc = [k \in Keys |-> 0] /\ dial = NoDial
    /\ count = 0
    /\ fails = 0
    /\ marked = {} /\ late = {}

\* a fault happens
Fault(f) == f \in env.faults /\ fails < MaxFails /\ fails' = fails + 1

\* the entry is one that etcd has, or had since the watch passed; a missing one
\* is loaded by the request that needs it
Current(s) ==
    \/ cache[s] = NoValue /\ Reloads
    \/ \E r \in pos .. Now : cache[s] = Found(r, s)

\* the history gains the slots S and loses those that are right again
Mark(S) == marked' = {s \in marked \cup S : ~ Current(s)'}

----------------------------------------------------------------------------
(* The masters and servers write etcd.                                     *)

Taken == {At(Now, k).slot : k \in Keys}

\* ids of spaces and partitions are not used again
Unused(k) == \A i \in 1 .. Now : log[i].key # k

\* a space starts at version 1 and an update increases it; a partition has the
\* time of the master that writes it; a server has an address; the value of a
\* router's key is its ip
NewValues(k) ==
    LET old == At(Now, k)
        Val(s, v) == [key |-> k, slot |-> s, ver |-> v, rev |-> Now + 1]
    IN  CASE env.kind = "space" /\ old # NoValue ->
                 {Val(s, old.ver + 1) :
                     s \in {old.slot} \cup (IF "rename" \in env.faults THEN Names \ Taken ELSE {})}
          [] env.kind = "space" /\ old = NoValue ->
                 {Val(s, 1) : s \in {n \in Names \ Taken : Unused(k)}}
          [] env.kind = "partition" ->
                 {Val(k, v) : v \in {u \in 0 .. Now + 1 :
                                        /\ old # NoValue \/ Unused(k)
                                        /\ u = Now + 1 \/ "clock" \in env.faults}}
          [] env.kind = "server" -> {Val(k, a) : a \in 1 .. 2}
          [] env.kind = "router" /\ k \notin env.limits -> {[Val(k, 1) EXCEPT !.rev = 1]}
          [] OTHER -> {Val(k, 1)}

Write(k, v) ==
    /\ Now < env.writes
    /\ log' = Append(log, [key |-> k, val |-> v])
    /\ UNCHANGED <<env, watchVars, pos, hand, cache, reload, rpcVars, count, fails>>
    /\ Mark({})

Put(k) == \E v \in NewValues(k) : Write(k, v)

Delete(k) == At(Now, k) # NoValue /\ Write(k, NoValue)

\* a write under another prefix
PutElsewhere == Write("elsewhere", NoValue)

----------------------------------------------------------------------------
(* The first load and the watch.                                           *)

\* initUser, initRole, initSpace, initPartition, initServer, initAlias, initRouter: one
\* scan; a space or partition whose query fails is left out
Scan ==
    /\ watch = "init"
    /\ \E skip \in {None} \cup Keys :
          /\ IF skip \in Keys THEN env.kind \in {"space", "partition"} /\ Fault("query")
             ELSE UNCHANGED fails
          /\ cache' = [s \in Slot |-> IF Found(Now, s).key = skip THEN NoValue ELSE Found(Now, s)]
    /\ count' = IF env.kind = "router"
                THEN Cardinality({k \in Keys \ env.limits : At(Now, k) # NoValue}) ELSE count
    /\ pos' = Now
    /\ watch' = "off"
    /\ UNCHANGED <<env, log, recovering, hand, reload, rpcVars, marked>>

\* the slots that the write i changes
Touched(i) ==
    IF log[i].key \notin Keys THEN {}
    ELSE {At(j, log[i].key).slot : j \in {i - 1, i}} \ {None}

\* WatchPrefix reads the revision and watches from it on, that write included;
\* when the read fails it watches what is still to come
From(ok) == IF ok /\ Now > 0 THEN Now - 1 ELSE Now

\* the goroutines of a round of watcherJob.start
StartWatch ==
    /\ watch = "off" /\ ~ recovering
    /\ \E ok \in BOOLEAN :
          /\ IF ok THEN UNCHANGED fails ELSE Fault("get")
          /\ pos' = From(ok)
    /\ watch' = "on"
    /\ recovering' = env.autoRecover
    /\ late' = late \cup {k \in Keys : rpc[k] # 0 /\ \E i \in pos + 1 .. pos' : log[i].key = k}
    /\ UNCHANGED <<env, log, hand, cache, reload, rpc, dial, count>>
    /\ Mark(UNION {Touched(i) : i \in pos + 1 .. pos'})

\* slip: the next round waits for a recovery loop that was never started
CancelWaits ==
    /\ watch = "on" /\ hand = NoHand
    /\ Fault("cancel")
    /\ watch' = "off" /\ recovering' = TRUE
    /\ UNCHANGED <<env, log, pos, hand, cache, reload, rpcVars, count, marked>>

\* the watch is cancelled; the next round waits for both goroutines of this one
Cancel ==
    /\ watch = "on" /\ hand = NoHand
    /\ Fault("cancel")
    /\ watch' = "off"
    /\ UNCHANGED <<env, log, recovering, pos, hand, cache, reload, rpcVars, count, marked>>

\* ThrowError panics in the recovery loop, the goroutine recovers and ends
RecoveryEnds ==
    /\ recovering
    /\ Fault("recovery")
    /\ recovering' = FALSE
    /\ UNCHANGED <<env, log, watch, pos, hand, cache, reload, rpcVars, count, marked>>

----------------------------------------------------------------------------
(* The handlers of an event.                                               *)

Pending == {i \in pos + 1 .. Now : log[i].key \in Keys}

\* the next event of a job of kind k
Takes(k) ==
    /\ env.kind = k
    /\ watch = "on" /\ hand = NoHand
    /\ Pending # {}
    /\ pos' = Min(Pending)

Event == log[Min(Pending)]

IsPut == Event.val # NoValue

\* a put is stored under the key of etcd, a delete is of the name
KeyedEvent(k) ==
    /\ Takes(k)
    /\ cache' = [cache EXCEPT ![IF IsPut THEN UserKey(Event.key) ELSE Event.key] = Event.val]
    /\ UNCHANGED <<env, log, watchVars, hand, reload, rpcVars, count, fails>>
    /\ Mark(IF IsPut THEN {Event.key} ELSE {})

UserEvent == KeyedEvent("user")
RoleEvent == KeyedEvent("role")

\* slip: Add, which keeps what is there, for Set
AliasEventAdd ==
    /\ Takes("alias")
    /\ cache' = IF IsPut /\ cache[Event.key] # NoValue THEN cache
                ELSE [cache EXCEPT ![Event.key] = Event.val]
    /\ UNCHANGED <<env, log, watchVars, hand, reload, rpcVars, count, fails>>
    /\ Mark({})

AliasEvent ==
    /\ Takes("alias")
    /\ cache' = [cache EXCEPT ![Event.key] = Event.val]
    /\ UNCHANGED <<env, log, watchVars, hand, reload, rpcVars, count, fails>>
    /\ Mark({})

\* SetRouterCount
SetRouterCount(add) == count' = IF add THEN count + 1 ELSE count - 1

IsKnown == cache[Event.key] # NoValue

IsLimit == Event.key \in env.limits

\* a router that is known is not stored again; a limit is, and is not counted
RouterEvent ==
    /\ Takes("router")
    /\ cache' = IF IsKnown = IsPut /\ ~ IsLimit THEN cache
                ELSE [cache EXCEPT ![Event.key] = Event.val]
    /\ IF IsLimit \/ IsKnown = IsPut THEN UNCHANGED count ELSE SetRouterCount(IsPut)
    /\ UNCHANGED <<env, log, watchVars, hand, reload, rpcVars, fails>>
    /\ Mark({})

Newer(v, s) == cache[s] = NoValue \/ v.ver > cache[s].ver

\* slots an event for key k has to change although its handler does not look at
\* them: another name of the space
Elsewhere(k, s) == {t \in Readable \ {s} : cache[t].key = k}

\* the query of a handler fails and the event is dropped
EventDropped ==
    /\ env.kind \in {"space", "partition"} /\ Takes(env.kind)
    /\ IsPut
    /\ Fault("query")
    /\ UNCHANGED <<env, log, watchVars, hand, cache, reload, rpcVars, count>>
    /\ Mark(Touched(pos'))

\* a put compares the version, a delete looks for an entry with the id; the
\* cache is changed later, under its lock
SpaceEvent ==
    LET mine == {s \in Names : cache[s].key = Event.key} IN
    /\ Takes("space")
    /\ IF IsPut
       THEN hand' = IF Newer(Event.val, Event.val.slot)
                    THEN [slot |-> Event.val.slot, val |-> Event.val] ELSE NoHand
       ELSE IF mine = {} THEN hand' = NoHand
            ELSE \E s \in mine : hand' = [slot |-> s, val |-> NoValue]
    /\ UNCHANGED <<env, log, watchVars, cache, reload, rpcVars, count, fails>>
    /\ Mark(Elsewhere(Event.key, IF IsPut THEN Event.val.slot ELSE hand'.slot))

PartitionEvent ==
    /\ Takes("partition")
    /\ hand' = IF IF IsPut THEN Newer(Event.val, Event.key) ELSE cache[Event.key] # NoValue
               THEN [slot |-> Event.key, val |-> Event.val] ELSE NoHand
    /\ UNCHANGED <<env, log, watchVars, cache, reload, rpcVars, count, fails>>
    /\ Mark(IF IsPut /\ Event.val.ver < Event.val.rev THEN {Event.key} ELSE {})

\* slip: a put keeps the rpc client
ServerEventKeeps ==
    /\ Takes("server")
    /\ rpc' = IF IsPut THEN rpc ELSE [rpc EXCEPT ![Event.key] = 0]
    /\ hand' = [slot |-> Event.key, val |-> Event.val]
    /\ late' = late \ {Event.key}
    /\ UNCHANGED <<env, log, watchVars, cache, reload, dial, count, fails>>
    /\ Mark({})

\* the rpc client goes first, if it is not for the address of the event
ServerEvent ==
    /\ Takes("server")
    /\ rpc' = IF IsPut /\ rpc[Event.key] = Event.val.ver THEN rpc
              ELSE [rpc EXCEPT ![Event.key] = 0]
    /\ hand' = [slot |-> Event.key, val |-> Event.val]
    /\ late' = late \ {Event.key}
    /\ UNCHANGED <<env, log, watchVars, cache, reload, dial, count, fails>>
    /\ Mark({})

\* the handler of a space, partition or server changes the cache
Apply ==
    /\ hand # NoHand
    /\ cache' = [cache EXCEPT ![hand.slot] = hand.val]
    /\ hand' = NoHand
    /\ UNCHANGED <<env, log, watchVars, pos, reload, rpcVars, count, fails>>
    /\ Mark({})

----------------------------------------------------------------------------
(* Requests: UserByCache, SpaceByCache, PartitionByCache, ServerByCache.   *)

\* an entry is not found; the reload is a goroutine, or part of the request
Ask(w) ==
    /\ Reloads /\ watch # "init"
    /\ w[1] \in Readable /\ cache[w[1]] = NoValue
    /\ reload[w] = NoReload
    /\ w[2] = 1 \/ env.kind \in {"user", "role"}
    /\ reload' = [reload EXCEPT ![w].pc = "asked"]
    /\ UNCHANGED <<env, log, watchVars, pos, hand, cache, rpcVars, count, fails, marked>>

Answer(w) == Found(Now, w[1])

\* there is no such entry: the reload ends
QueryEmpty(w) ==
    /\ reload[w].pc = "asked"
    /\ Answer(w) = NoValue
    /\ reload' = [reload EXCEPT ![w] = NoReload]
    /\ UNCHANGED <<env, log, watchVars, pos, hand, cache, rpcVars, count, fails, marked>>

QueryFails(w) ==
    /\ reload[w].pc = "asked"
    /\ Fault("query")
    /\ reload' = [reload EXCEPT ![w] = NoReload]
    /\ UNCHANGED <<env, log, watchVars, pos, hand, cache, rpcVars, count, marked>>

Query(w) ==
    /\ reload[w].pc = "asked"
    /\ Answer(w) # NoValue
    /\ reload' = [reload EXCEPT ![w].pc = "read", ![w].val = Answer(w)]
    /\ UNCHANGED <<env, log, watchVars, pos, hand, cache, rpcVars, count, fails, marked>>

\* what was read is stored, whatever has come meanwhile
Store(w) ==
    /\ reload[w].pc = "read"
    /\ cache' = [cache EXCEPT ![w[1]] = reload[w].val]
    /\ reload' = [reload EXCEPT ![w] = NoReload]
    /\ UNCHANGED <<env, log, watchVars, pos, hand, rpcVars, count, fails>>
    /\ Mark({w[1]})

\* GetOrCreateRPCClient takes the lock and finds the server in the cache
Dial(k) ==
    /\ env.kind = "server" /\ watch # "init"
    /\ dial = NoDial
    /\ rpc[k] = 0 /\ cache[k] # NoValue
    /\ dial' = [key |-> k, addr |-> cache[k].ver]
    /\ UNCHANGED <<env, log, watchVars, pos, hand, cache, reload, rpc, late, count,
                   fails, marked>>

\* the address is one that the server has, or had since the watch passed
Addressed(k) == \E r \in pos .. Now : rpc[k] = Found(r, k).ver

\* the client is made and stored, or cannot be made
DialEnd(k, made) ==
    /\ dial.key = k
    /\ rpc' = IF made THEN [rpc EXCEPT ![k] = dial.addr] ELSE rpc
    /\ dial' = NoDial
    /\ UNCHANGED <<env, log, watchVars, pos, hand, cache, reload, count, fails, marked>>
    /\ late' = IF made /\ ~ Addressed(k)' THEN late \cup {k} ELSE late

----------------------------------------------------------------------------
Writers == (\E k \in env.keys : Put(k) \/ Delete(k)) \/ PutElsewhere

Handler == UserEvent \/ RoleEvent \/ AliasEvent \/ RouterEvent \/ SpaceEvent \/ PartitionEvent \/ ServerEvent
           \/ Apply

Reload(w) == QueryEmpty(w) \/ QueryFails(w) \/ Query(w) \/ Store(w)

Next ==
    \/ Writers
    \/ Scan \/ StartWatch \/ Cancel \/ RecoveryEnds
    \/ Handler \/ EventDropped
    \/ \E w \in Worker : Ask(w) \/ Reload(w)
    \/ \E k \in Keys : Dial(k) \/ \E made \in BOOLEAN : DialEnd(k, made)

\* goroutines run, and requests for every entry keep coming
Fairness ==
    /\ WF_vars(Scan) /\ WF_vars(StartWatch) /\ WF_vars(Handler)
    /\ \A s \in Keys \cup Names : /\ WF_vars(Ask(<<s, 1>>))
                                  /\ WF_vars(Reload(<<s, 1>>))

Spec == Init /\ [][Next]_vars /\ Fairness

----------------------------------------------------------------------------
Value == [key : Keys, slot : Keys \cup Names, ver : Nat, rev : Nat] \cup {NoValue}

\* The state has its type; in particular the number of routers is never negative,
\* whatever events are delivered twice or lost.
TypeOK ==
    /\ env \in Settings
    /\ Now <= MaxLog
    /\ \A i \in 1 .. Now : log[i].key \in Keys \cup {"elsewhere"} /\ log[i].val \in Value
    /\ watch \in {"init", "off", "on"} /\ recovering \in BOOLEAN
    /\ pos \in 0 .. Now
    /\ hand.val \in Value
    /\ cache \in [Slot -> Value]
    /\ \A w \in Worker : reload[w].pc \in {"idle", "asked", "read"} /\ reload[w].val \in Value
    /\ rpc \in [Keys -> 0 .. 2] /\ dial.addr \in 0 .. 2
    /\ count \in Nat /\ fails \in 0 .. MaxFails
    /\ marked \subseteq Slot /\ late \subseteq Keys

\* Whatever a request is served from the cache is what etcd held when the watch
\* was last there, or later: events that are delivered again, compared with an
\* entry that a reload has made newer, or applied after one, do no harm. The
\* exceptions are the slots of marked: an event was passed over between the load
\* and the watch or between two watches, its handler's query failed, it is a put
\* of a user or a role (stored under another key) or a new name of a space, its clock is
\* behind, or a reload that read before it stored after it.
CacheCurrent ==
    watch # "init" =>
        \A s \in Readable : s \in marked \/ s = hand.slot \/ Current(s)

\* The number of routers, by which the request limits are divided, is the number
\* of routers in the cache, although initRouter counts keys and the first event of
\* a watch is delivered again.
RoutersCounted ==
    env.kind = "router" => count = Cardinality({k \in Keys \ env.limits : cache[k] # NoValue})

\* What requests are served from the cache is what etcd held when the watch was
\* last there, or later, with the exceptions of CacheCurrent, and the number by
\* which the request limits are divided is that of the routers in the cache.
CacheFollows == TypeOK /\ CacheCurrent /\ RoutersCounted

\* A request uses an rpc client for an address that its server had when the watch
\* was last there, or later, unless its event was passed over, or the entry that
\* the client was made of was out of date when it was stored.
ClientCurrent ==
    \A k \in Keys : rpc[k] # 0 /\ k \notin late => Addressed(k)

\* An entry that is in etcd, and that requests ask for, gets into the cache,
\* whatever became of its event: a reload that failed or found nothing does not
\* keep the next from being made.
LoadedOnDemand ==
    Reloads => []<>(\A s \in Readable : Found(Now, s) # NoValue => cache[s] # NoValue)

\* Without AutoRecoverPs the watch comes back after a cancellation and reaches the
\* end of what is written.
WatchCatchesUp == ~ env.autoRecover => []<>(watch = "on" /\ Pending = {})

=============================================================================
