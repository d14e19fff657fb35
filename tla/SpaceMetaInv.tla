---------------------------- MODULE SpaceMetaInv ----------------------------
(***************************************************************************)
(* SpaceMeta for any number of requests, servers, spaces and partitions:   *)
(* what its variables hold, and what requests hold locks for.              *)
(***************************************************************************)
EXTENDS SpaceMeta, FiniteSetTheorems, WellFoundedInduction, TLAPS

Labels == {"idle", "lock", "check", "put", "build", "undo", "write", "conf", "key", "sweep",
           "query", "notify", "drop", "copy", "raft", "replica", "done"}

Parts == UNION {[P -> SUBSET Servers] : P \in SUBSET Pid}

Request == [kind : RequestKinds \cup {"none"}, name : Names \cup {"none"}, pc : Labels,
            sid : Nat, sp : SpaceRecord \cup {NoSpace}, new : Parts,
            todo : SUBSET (Pid \X (Servers \cup {"key"})), bad : BOOLEAN]

\* which requests come to which labels
Legal(o) ==
    /\ o.pc \in {"idle", "done"} <=> o.kind = "none"
    /\ o.pc = "lock" => o.kind \in Updates \cup {"create", "delete"}
    /\ o.pc \in {"check", "put", "undo", "conf"} => o.kind = "create"
    /\ o.pc = "build" => o.kind \in {"create", "expand"}
    /\ o.pc = "write" => o.kind \in Updates \cup {"create"}
    /\ o.pc \in {"key", "sweep"} => o.kind = "delete"
    /\ o.pc = "query" => o.kind \in Updates
    /\ o.pc = "notify" => o.kind \in Updates \ {"expand"}
    /\ o.pc = "drop" => o.kind = "dropdb"
    /\ o.pc = "copy" => o.kind = "add"
    /\ o.pc = "raft" => o.kind \in {"add", "remove"}
    /\ o.pc = "replica" => o.kind = "remove"

\* the request has a space
Bound(o) ==
    \/ o.pc \in {"build", "undo", "write", "conf", "key", "sweep", "notify"}
    \/ o.kind \in {"delete", "add", "remove"}

\* a request has what its next step uses
Fit(o) ==
    /\ Legal(o)
    /\ o.kind \in env.kinds \cup {"none"}
    /\ o.kind \notin {"none", "dropdb"} => o.name \in Names
    /\ Bound(o) => o.sid \in 1 .. made /\ o.sp \in SpaceRecord
    /\ DOMAIN o.sp.parts \subseteq DOMAIN home
    /\ DOMAIN o.new \subseteq DOMAIN home
    /\ \A t \in o.todo : t[1] \in DOMAIN home
    /\ o.pc = "build" => o.todo \subseteq Pairs(o.new)
    /\ o.kind \in {"add", "remove"} =>
          \E p \in DOMAIN home, s \in Servers : o.new = Single(p, s)

Requests == op \in [Clients -> Request] /\ \A c \in Clients : Fit(op[c])

\* ids are given in order, and what is in etcd has one
Ids ==
    /\ env \in Settings
    /\ made \in 0 .. MaxSpaces
    /\ space \in [SpaceId -> SpaceRecord \cup {NoSpace}]
    /\ \A i \in SpaceId : i > made => space[i] = NoSpace
    /\ \A i \in SpaceId : DOMAIN space[i].parts \subseteq DOMAIN home
    /\ \E n \in 0 .. MaxPids : home \in [1 .. n -> 1 .. made]

Cleaning ==
    /\ clean.pc \in {"idle", "partitions", "spaces", "servers", "done"}
    /\ clean = [pc |-> clean.pc, todo |-> clean.todo, hit |-> clean.hit]
    /\ clean.pc = "partitions" => clean.todo \cup clean.hit \subseteq DOMAIN home
    /\ clean.pc = "spaces" => clean.todo \cup clean.hit \subseteq SpaceId
    /\ clean.pc = "servers" => clean.todo \cup clean.hit \subseteq (DOMAIN home) \X Servers

TInv == TypeOK /\ Requests /\ Ids /\ Cleaning

-----------------------------------------------------------------------------
\* labels at which a request has the lock it asked for
Creating == {"check", "put", "build", "undo", "write"}
Updating == {"query", "build", "notify", "write", "key", "sweep"}

\* a lock has one holder, and a request keeps it until it returns
Locks ==
    /\ \A g, h \in held : g[1] = h[1] => g = h
    /\ \A c \in Clients :
          /\ op[c].kind = "create" /\ op[c].pc \in Creating => <<"space_name", c>> \in held
          /\ op[c].kind \in Updates \cup {"delete"} /\ op[c].pc \in Updating =>
                <<op[c].name, c>> \in held

-----------------------------------------------------------------------------
(* The operators of the model.                                             *)

\* The first of several ids is one of them.
LEMMA MinIn ==
    ASSUME NEW S \in SUBSET Nat, S # {}
    PROVE  Min(S) \in S
<1> DEFINE R == {ss \in Nat \X Nat : ss[1] < ss[2]}
<1>1. IsWellFoundedOn(R, Nat)
  BY NatLessThanWellFounded DEF OpToRel
<1> HIDE DEF R
<1>2. PICK x \in S : \A y \in S : <<y, x>> \notin R
  BY <1>1, WFMin, Zenon
<1>3. ASSUME NEW y \in S PROVE x <= y
  <2>1. x \in Nat /\ y \in Nat
    OBVIOUS
  <2>2. y < x => <<y, x>> \in R
    BY <2>1 DEF R
  <2> QED
    BY <1>2, <2>1, <2>2
<1> QED
  BY <1>3, Zenon DEF Min

\* A query by name finds a space of that name.
LEMMA QueryFinds ==
    ASSUME NEW n, Named(n) # {}
    PROVE  Query(n) \in SpaceId /\ Exists(Query(n)) /\ space[Query(n)].name = n
<1>1. Named(n) \in SUBSET Nat
  BY SpaceMetaAssumption DEF Named, SpaceId
<1>2. Query(n) \in Named(n)
  BY <1>1, MinIn DEF Query
<1> QED
  BY <1>2 DEF Named

\* The next partition of a removal is one that is left.
LEMMA NextPartIn ==
    ASSUME NEW c, op[c].todo # {}, \A t \in op[c].todo : t[1] \in Nat
    PROVE  \E t \in op[c].todo : t[1] = NextPart(c)
<1> DEFINE S == {t[1] : t \in op[c].todo}
<1>1. S \in SUBSET Nat /\ S # {}
  OBVIOUS
<1>2. Min(S) \in S
  BY <1>1, MinIn, Zenon
<1> QED
  BY <1>2, Zenon DEF NextPart

\* A request without partitions.
LEMMA NoPartsType == DOMAIN NoParts = {} /\ NoParts \in Parts
<1>1. NoParts \in [{} -> SUBSET Servers] /\ {} \in SUBSET Pid
  BY DEF NoParts
<1> QED
  BY <1>1, SMTT(30) DEF Parts

\* Partitions with their servers.
LEMMA PartsType ==
    /\ \A f : \A P \in SUBSET Pid : f \in [P -> SUBSET Servers] => f \in Parts
    /\ \A f \in Parts : DOMAIN f \subseteq Pid /\ f \in [DOMAIN f -> SUBSET Servers]
BY DEF Parts

\* New partitions have servers.
LEMMA PlacementType ==
    ASSUME NEW P \in SUBSET Pid, NEW f \in Placement(P)
    PROVE  /\ f \in Parts /\ DOMAIN f = P
           /\ \A p \in P : f[p] \subseteq Servers /\ f[p] # {}
<1>1. f \in [P -> {S \in SUBSET Servers : Cardinality(S) = ReplicaNum}]
  BY DEF Placement
<1>2. f \in [P -> SUBSET Servers]
  BY <1>1
<1>3. Cardinality({}) # ReplicaNum
  BY SpaceMetaAssumption, FS_EmptySet, FS_CardinalityType
<1> QED
  BY <1>1, <1>2, <1>3, PartsType

\* The partition of a leader is on one of its members.
LEMMA ElectsSome ==
    ASSUME NEW p \in Pid, raft \in [Pid -> SUBSET Servers], Elects(p)
    PROVE  \E s \in raft[p] : p \in ps[s]
<1> DEFINE alive == {s \in raft[p] : p \in ps[s]}
<1>1. IsFiniteSet(raft[p])
  BY SpaceMetaAssumption, FS_Subset
<1>2. Cardinality(raft[p]) \in Nat
  BY <1>1, FS_CardinalityType
<1>3. alive # {}
  <2> SUFFICES ASSUME alive = {} PROVE FALSE
    OBVIOUS
  <2>1. Cardinality(alive) = 0
    BY FS_EmptySet, Zenon
  <2> QED
    BY <1>2, <2>1 DEF Elects
<1> QED
  BY <1>3

\* New partition ids follow those that were given.
LEMMA NewPidsFollow ==
    ASSUME NEW n \in Nat, DOMAIN home = 1 .. n, NEW k \in Nat
    PROVE  NewPids(k) = n + 1 .. n + k
<1>1. Cardinality(DOMAIN home) = n
  BY FS_Interval
<1>2. \A q \in n + 1 .. n + k : q - n \in 1 .. k /\ q = n + (q - n)
  OBVIOUS
<1>3. NewPids(k) = {n + j : j \in 1 .. k}
  BY <1>1 DEF NewPids
<1>4. \A j \in 1 .. k : n + j \in n + 1 .. n + k
  OBVIOUS
<1>5. NewPids(k) \subseteq n + 1 .. n + k
  BY <1>3, <1>4
<1>6. n + 1 .. n + k \subseteq NewPids(k)
  BY <1>2, <1>3
<1> QED
  BY <1>5, <1>6, Zenon

\* A member change has the partition and the server it was asked for.
LEMMA TargetIs ==
    ASSUME NEW c, NEW p \in Pid, NEW s \in Servers, op[c].new = Single(p, s)
    PROVE  Target(c) = <<p, s>>
<1>1. ASSUME NEW t \in Pid \X Servers, op[c].new = Single(t[1], t[2])
      PROVE  t = <<p, s>>
  <2>1. DOMAIN op[c].new = {p} /\ DOMAIN op[c].new = {t[1]}
    BY <1>1 DEF Single
  <2>2. t[1] = p
    BY <2>1
  <2>3. op[c].new[p] = {s} /\ op[c].new[p] = {t[2]}
    BY <1>1, <2>2 DEF Single
  <2> QED
    BY <2>2, <2>3
<1>2. <<p, s>> \in Pid \X Servers /\ op[c].new = Single(<<p, s>>[1], <<p, s>>[2])
  OBVIOUS
<1> QED
  BY <1>1, <1>2 DEF Target

-----------------------------------------------------------------------------
(* Typing of the requests.                                                 *)

\* A step of one request leaves the others as they are.
LEMMA OneMoves ==
    ASSUME Requests, NEW c \in Clients, op' = [op EXCEPT ![c] = op'[c]],
           op'[c] \in Request, Fit(op[c])', env' = env,
           made \in Nat, made' \in Nat, made <= made', DOMAIN home \subseteq DOMAIN home'
    PROVE  Requests'
<1>1. op' \in [Clients -> Request]
  BY DEF Requests
<1>2. ASSUME NEW d \in Clients PROVE Fit(op[d])'
  <2>1. CASE d = c
    BY <2>1
  <2>2. CASE d # c
    <3>1. op'[d] = op[d] /\ Fit(op[d])
      BY <2>2 DEF Requests
    <3>2. op[d].sid \in 1 .. made => op[d].sid \in 1 .. made'
      OBVIOUS
    <3> QED
      BY <3>1, <3>2 DEF Fit
  <2> QED
    BY <2>1, <2>2
<1> QED
  BY <1>1, <1>2 DEF Requests

\* A request goes on to another label.
LEMMA GoFits ==
    ASSUME Requests, NEW c \in Clients, NEW q \in Labels \ {"build"}, Go(c, q),
           UNCHANGED <<home, made, env>>, made \in Nat,
           Legal([op[c] EXCEPT !.pc = q]), Bound([op[c] EXCEPT !.pc = q]) => Bound(op[c])
    PROVE  Requests'
<1>1. op[c] \in Request /\ Fit(op[c])
  BY DEF Requests
<1>2. op'[c] = [op[c] EXCEPT !.pc = q] /\ op' = [op EXCEPT ![c] = op'[c]]
  BY DEF Go, Requests
<1>3. op'[c] \in Request
  BY <1>1, <1>2 DEF Request
<1>4. /\ op'[c].kind = op[c].kind /\ op'[c].name = op[c].name /\ op'[c].sid = op[c].sid
      /\ op'[c].sp = op[c].sp /\ op'[c].new = op[c].new /\ op'[c].todo = op[c].todo
      /\ op'[c].pc = q
  BY <1>1, <1>2 DEF Request
<1>5. Fit(op[c])'
  BY <1>1, <1>2, <1>4 DEF Fit
<1> QED
  BY <1>2, <1>3, <1>5, OneMoves

\* A request returns.
LEMMA DoneFits ==
    ASSUME Requests, NEW c \in Clients, Done(c), UNCHANGED <<home, made, env>>, made \in Nat
    PROVE  Requests'
<1>1. op'[c] = [Idle EXCEPT !.pc = "done"] /\ op' = [op EXCEPT ![c] = op'[c]]
  BY DEF Done, Requests
<1>2. DOMAIN NoSpace.parts = {}
  BY NoPartsType DEF NoSpace
<1>3. op'[c] \in Request
  <2>1. op'[c] = [kind |-> "none", name |-> "none", pc |-> "done", sid |-> 0, sp |-> NoSpace,
                  new |-> NoParts, todo |-> {}, bad |-> FALSE]
    BY <1>1, Zenon DEF Idle
  <2> QED
    BY <2>1, NoPartsType DEF Request, Labels
<1>4. Fit(op[c])'
  BY <1>1, <1>2, NoPartsType DEF Fit, Legal, Bound, Idle
<1> QED
  BY <1>1, <1>3, <1>4, OneMoves

\* A request has one thing less to do.
LEMMA LessFits ==
    ASSUME Requests, NEW c \in Clients, UNCHANGED <<home, made, env>>, made \in Nat,
           \E T \in SUBSET op[c].todo :
               op' \in {[op EXCEPT ![c].todo = T], [op EXCEPT ![c].todo = T, ![c].bad = TRUE]}
    PROVE  Requests'
<1> PICK T \in SUBSET op[c].todo :
             op' \in {[op EXCEPT ![c].todo = T], [op EXCEPT ![c].todo = T, ![c].bad = TRUE]}
  OBVIOUS
<1>1. op[c] \in Request /\ Fit(op[c])
  BY DEF Requests
<1>2. /\ op' = [op EXCEPT ![c] = op'[c]]
      /\ op'[c] \in {[op[c] EXCEPT !.todo = T], [op[c] EXCEPT !.todo = T, !.bad = TRUE]}
  BY DEF Requests
<1>3. op'[c] \in Request
  BY <1>1, <1>2, Zenon DEF Request
<1>4. /\ op'[c].kind = op[c].kind /\ op'[c].name = op[c].name /\ op'[c].sid = op[c].sid
      /\ op'[c].sp = op[c].sp /\ op'[c].new = op[c].new /\ op'[c].todo = T
      /\ op'[c].pc = op[c].pc
  BY <1>1, <1>2, Zenon DEF Request
<1>5. Fit(op[c])'
  BY <1>1, <1>4 DEF Fit, Legal, Bound
<1> QED
  BY <1>2, <1>3, <1>5, OneMoves

\* The steps of a request that change its label only, or end it.
LEMMA PlainSteps ==
    ASSUME Requests, made \in Nat, NEW c \in Clients,
           \/ CreateLock(c) \/ CreateExists(c) \/ CreateCheck(c) \/ Ready(c)
           \/ UndoSpace(c) \/ CreateEnable(c) \/ CreateEnableFails(c) \/ CreateConf(c)
           \/ DeleteLock(c) \/ DeleteConf(c) \/ UpdateLock(c) \/ UpdateNone(c)
           \/ Notify(c) \/ UpdateWrite(c) \/ UpdateWriteFails(c) \/ DropDB(c)
           \/ MemberCreate(c) \/ MemberRaft(c) \/ MemberRaftFails(c) \/ MemberDelete(c)
    PROVE  Requests'
<1>1. op[c] \in Request /\ Fit(op[c])
  BY DEF Requests
<1>2. \A q \in Labels : [op[c] EXCEPT !.pc = q].pc = q /\ [op[c] EXCEPT !.pc = q].kind = op[c].kind
  BY <1>1 DEF Request
<1> USE <1>1, <1>2, GoFits, DoneFits DEF Fit, Legal, Bound, Labels, Return
<1>3. CASE CreateLock(c)
  BY <1>3 DEF CreateLock
<1>4. CASE CreateCheck(c)
  BY <1>4 DEF CreateCheck
<1>5. CASE Ready(c)
  BY <1>5 DEF Ready, Updates
<1>6. CASE CreateEnable(c)
  BY <1>6 DEF CreateEnable
<1>7. CASE DeleteLock(c)
  BY <1>7 DEF DeleteLock
<1>8. CASE UpdateLock(c)
  BY <1>8 DEF UpdateLock, Updates
<1>9. CASE Notify(c)
  BY <1>9 DEF Notify, Updates
<1>10. CASE MemberCreate(c)
  BY <1>10 DEF MemberCreate, Updates
<1>11. CASE MemberRaft(c)
  BY <1>11 DEF MemberRaft, Updates
<1>12. CASE MemberDelete(c)
  BY <1>12 DEF MemberDelete, Updates
<1>13. CASE CreateExists(c) \/ UndoSpace(c) \/ CreateEnableFails(c) \/ CreateConf(c)
  BY <1>13 DEF CreateExists, UndoSpace, CreateEnableFails, CreateConf
<1>14. CASE DeleteConf(c) \/ UpdateNone(c) \/ UpdateWrite(c) \/ UpdateWriteFails(c)
  BY <1>14 DEF DeleteConf, UpdateNone, UpdateWrite, UpdateWriteFails
<1>15. CASE DropDB(c) \/ MemberRaftFails(c)
  BY <1>15 DEF DropDB, MemberRaftFails
<1> QED
  BY <1>3, <1>4, <1>5, <1>6, <1>7, <1>8, <1>9, <1>10, <1>11, <1>12, <1>13, <1>14, <1>15

\* What a creation or a removal of partitions goes through.
LEMMA SweepType ==
    ASSUME NEW f \in Parts
    PROVE  /\ Pairs(f) \subseteq Sweep(f) /\ Sweep(f) \in SUBSET (Pid \X (Servers \cup {"key"}))
           /\ \A t \in Sweep(f) : t[1] \in DOMAIN f
<1>1. DOMAIN f \subseteq Pid
  BY PartsType
<1>2. Pairs(f) \subseteq (DOMAIN f) \X Servers
  BY DEF Pairs
<1> QED
  BY <1>1, <1>2 DEF Sweep

\* A removal of partitions begins.
LEMMA SweepFits ==
    ASSUME Requests, NEW c \in Clients, UNCHANGED <<home, made, env>>, made \in Nat,
           NEW q \in {"undo", "sweep"}, NEW f \in Parts, DOMAIN f \subseteq DOMAIN home,
           op' \in {[op EXCEPT ![c].pc = q, ![c].todo = Sweep(f)]},
           Legal([op[c] EXCEPT !.pc = q]), Bound(op[c])
    PROVE  Requests'
<1>1. op[c] \in Request /\ Fit(op[c])
  BY DEF Requests
<1>2. /\ op'[c] = [op[c] EXCEPT !.pc = q, !.todo = Sweep(f)]
      /\ op' = [op EXCEPT ![c] = op'[c]]
  BY Zenon DEF Requests
<1>3. op'[c] \in Request
  <2>1. Sweep(f) \in SUBSET (Pid \X (Servers \cup {"key"})) /\ q \in Labels
    BY SweepType DEF Labels
  <2> QED
    BY <1>1, <1>2, <2>1, Zenon DEF Request
<1>4. /\ op'[c].kind = op[c].kind /\ op'[c].name = op[c].name /\ op'[c].sid = op[c].sid
      /\ op'[c].sp = op[c].sp /\ op'[c].new = op[c].new /\ op'[c].todo = Sweep(f)
      /\ op'[c].pc = q
  BY <1>1, <1>2 DEF Request
<1>5. [op[c] EXCEPT !.pc = q].pc = q /\ [op[c] EXCEPT !.pc = q].kind = op[c].kind
  BY <1>1 DEF Request
<1>6. Legal(op'[c])
  BY <1>4, <1>5 DEF Legal
<1>7. \A t \in Sweep(f) : t[1] \in DOMAIN home
  BY SweepType
<1>8. Fit(op[c])'
  BY <1>1, <1>4, <1>6, <1>7 DEF Fit
<1> QED
  BY <1>2, <1>3, <1>8, OneMoves

\* The steps over the partitions of a request.
LEMMA PartitionSteps ==
    ASSUME Requests, made \in Nat, NEW c \in Clients,
           \/ CreatePartition(c) \/ NotReady(c) \/ UndoPartition(c) \/ UndoKey(c)
           \/ DeleteKey(c) \/ DeleteReplica(c) \/ DeletePartitionKey(c)
    PROVE  Requests'
<1>1. op[c] \in Request /\ Fit(op[c])
  BY DEF Requests
<1>2. \A q \in Labels : [op[c] EXCEPT !.pc = q].pc = q /\ [op[c] EXCEPT !.pc = q].kind = op[c].kind
  BY <1>1 DEF Request
<1>3. CASE CreatePartition(c)
  <2>1. PICK t \in op[c].todo :
            \/ op' = [op EXCEPT ![c].todo = @ \ {t}]
            \/ op' = [op EXCEPT ![c].todo = {u \in @ : u[1] # t[1]}, ![c].bad = TRUE]
    BY <1>3 DEF CreatePartition
  <2>2. /\ op[c].todo \ {t} \in SUBSET op[c].todo
        /\ {u \in op[c].todo : u[1] # t[1]} \in SUBSET op[c].todo
    OBVIOUS
  <2>3. UNCHANGED <<home, made, env>>
    BY <1>3 DEF CreatePartition
  <2> QED
    BY <2>1, <2>2, <2>3, LessFits, Zenon
<1>4. CASE NotReady(c)
  <2>1. CASE op[c].kind = "create"
    <3>1. op[c].new \in Parts
      BY <1>1 DEF Request
    <3>2. Legal([op[c] EXCEPT !.pc = "undo"]) /\ Bound(op[c])
      BY <1>2, <1>4, <2>1 DEF NotReady, Legal, Bound, Labels
    <3> QED
      BY <1>1, <1>4, <2>1, <3>1, <3>2, SweepFits, Zenon DEF NotReady, Fit
  <2>2. CASE op[c].kind # "create"
    BY <1>4, <2>2, DoneFits DEF NotReady, Return
  <2> QED
    BY <2>1, <2>2
<1>5. CASE UndoPartition(c) \/ DeleteReplica(c)
  <2>1. PICK t \in op[c].todo : op' = [op EXCEPT ![c].todo = @ \ {t}]
    BY <1>5 DEF UndoPartition, DeleteReplica, NextReplicas
  <2>2. op[c].todo \ {t} \in SUBSET op[c].todo
    OBVIOUS
  <2>3. UNCHANGED <<home, made, env>>
    BY <1>5 DEF UndoPartition, DeleteReplica
  <2> QED
    BY <2>1, <2>2, <2>3, LessFits, Zenon
<1>6. CASE UndoKey(c)
  <2>1. op[c].todo \ {<<NextPart(c), "key">>} \in SUBSET op[c].todo
    OBVIOUS
  <2> QED
    BY <1>6, <2>1, LessFits, Zenon DEF UndoKey
<1>7. CASE DeleteKey(c)
  <2>1. CASE Exists(op[c].sid)
    <3>1. op[c].kind = "delete" /\ op[c].sp \in SpaceRecord
      BY <1>1, <1>7 DEF DeleteKey, Fit, Legal, Bound
    <3>2. op[c].sp.parts \in Parts
      BY <3>1 DEF SpaceRecord, Parts
    <3>3. Legal([op[c] EXCEPT !.pc = "sweep"]) /\ Bound(op[c])
      BY <1>2, <3>1 DEF Legal, Bound, Labels
    <3> QED
      BY <1>1, <1>7, <2>1, <3>2, <3>3, SweepFits, Zenon DEF DeleteKey, Fit
  <2>2. CASE ~Exists(op[c].sid)
    BY <1>7, <2>2, DoneFits DEF DeleteKey, Return
  <2> QED
    BY <2>1, <2>2
<1>8. CASE DeletePartitionKey(c)
  <2>1. op[c].todo \ {<<NextPart(c), "key">>} \in SUBSET op[c].todo
    OBVIOUS
  <2> QED
    BY <1>8, <2>1, LessFits, DoneFits, Zenon DEF DeletePartitionKey, Return
<1> QED
  BY <1>3, <1>4, <1>5, <1>6, <1>7, <1>8

\* A request reads a space and goes on.
LEMMA ReadFits ==
    ASSUME Requests, NEW c \in Clients, env' = env, made \in Nat, made' \in Nat, made <= made',
           DOMAIN home \subseteq DOMAIN home', op' = [op EXCEPT ![c] = op'[c]],
           op'[c].pc # "build" => op'[c].todo = op[c].todo,
           op'[c] \in Request, Legal(op'[c]), op'[c].kind \in env.kinds,
           op'[c].kind # "dropdb" => op'[c].name \in Names,
           Bound(op'[c]) => op'[c].sid \in 1 .. made' /\ op'[c].sp \in SpaceRecord,
           DOMAIN op'[c].sp.parts \subseteq DOMAIN home', DOMAIN op'[c].new \subseteq DOMAIN home',
           op'[c].pc = "build" => op'[c].todo = Pairs(op'[c].new),
           op'[c].kind \in {"add", "remove"} =>
               \E p \in DOMAIN home', s \in Servers : op'[c].new = Single(p, s)
    PROVE  Requests'
<1>1. Fit(op[c])
  BY DEF Requests
<1>2. \A t \in op'[c].todo : t[1] \in DOMAIN home'
  <2>1. CASE op'[c].pc = "build"
    BY <2>1 DEF Pairs
  <2>2. CASE op'[c].pc # "build"
    BY <1>1, <2>2 DEF Fit
  <2> QED
    BY <2>1, <2>2
<1>3. Fit(op[c])'
  BY <1>2 DEF Fit
<1> QED
  BY <1>3, OneMoves

\* The fields of the metadata of a space.
LEMMA SpaceRecordIs ==
    SpaceRecord = [name : Names, enabled : BOOLEAN, version : Nat \ {0}, parts : Parts]
BY DEF SpaceRecord, Parts

\* A space that exists has an id that was given.
LEMMA ExistsMade ==
    ASSUME Ids, NEW i \in SpaceId, Exists(i)
    PROVE  i \in 1 .. made /\ space[i] \in SpaceRecord
<1>1. space[i] # NoSpace
  BY DEF Exists, NoSpace
<1>2. i \in Nat /\ made \in Nat /\ 1 <= i /\ ~(i > made)
  BY <1>1, SpaceMetaAssumption DEF SpaceId, Ids
<1> QED
  BY <1>1, <1>2 DEF Ids

\* Creations and expansions get new partitions.
LEMMA NewSteps ==
    ASSUME Requests, Ids, NEW c \in Clients, CreatePut(c) \/ ExpandQuery(c)
    PROVE  Requests' /\ Ids'
<1>1. op[c] \in Request /\ Fit(op[c])
  BY DEF Requests
<1>2. PICK n \in 0 .. MaxPids : home \in [1 .. n -> 1 .. made]
  BY DEF Ids
<1>3. env \in Setting /\ env.partitions \in Nat \ {0} /\ env.pids \in 0 .. MaxPids /\ n \in Nat
  BY SpaceMetaAssumption DEF Ids, Setting
<1>4. CASE CreatePut(c)
  <2> DEFINE P == NewPids(env.partitions)
             i == made + 1
             bare == [p \in P |-> {}]
             sp == [name |-> op[c].name, enabled |-> FALSE, version |-> 1, parts |-> bare]
  <2>1. PICK new \in Placement(P) :
            op' = [op EXCEPT ![c] = [@ EXCEPT !.pc = "build", !.sid = i,
                      !.sp = [sp EXCEPT !.parts = new], !.new = new, !.todo = Pairs(new)]]
    BY <1>4, Zenon DEF CreatePut
  <2>2. /\ op[c].pc = "put" /\ i <= MaxSpaces /\ P \subseteq 1 .. env.pids /\ made' = i
        /\ home' = [p \in DOMAIN home \cup P |-> IF p \in P THEN i ELSE home[p]]
        /\ space' = [space EXCEPT ![i] = sp] /\ env' = env
    BY <1>4, Zenon DEF CreatePut
  <2>3. P = n + 1 .. n + env.partitions
    BY <1>2, <1>3, NewPidsFollow
  <2>4. n + env.partitions \in 0 .. MaxPids /\ P \subseteq Pid
    <3>1. n + env.partitions \in P
      BY <1>3, <2>3
    <3> QED
      BY <1>3, <2>2, <3>1, SpaceMetaAssumption DEF Pid
  <2> HIDE DEF P
  <2>5. DOMAIN home \cup P = 1 .. n + env.partitions
    BY <1>2, <1>3, <2>3
  <2>6. made \in 0 .. MaxSpaces /\ made' \in 0 .. MaxSpaces /\ made' = made + 1
    BY <2>2, SpaceMetaAssumption DEF Ids
  <2>7. home' \in [1 .. n + env.partitions -> 1 .. made'] /\ DOMAIN home' = DOMAIN home \cup P
    BY <1>2, <2>2, <2>5, <2>6
  <2>8. op[c].kind = "create" /\ op[c].name \in Names
    BY <1>1, <2>2 DEF Fit, Legal
  <2>9. bare \in Parts /\ DOMAIN bare = P /\ new \in Parts /\ DOMAIN new = P
    <3>1. bare \in [P -> SUBSET Servers]
      OBVIOUS
    <3> QED
      BY <2>4, <3>1, PlacementType, PartsType
  <2> HIDE DEF bare
  <2>10. /\ sp \in SpaceRecord /\ DOMAIN sp.parts = P
         /\ [sp EXCEPT !.parts = new] \in SpaceRecord /\ [sp EXCEPT !.parts = new].parts = new
    <3>1. sp \in SpaceRecord /\ sp.parts = bare
      BY <2>8, <2>9, SpaceRecordIs
    <3> HIDE DEF sp
    <3> QED
      BY <2>9, <3>1, SpaceRecordIs
  <2> DEFINE sp1 == [sp EXCEPT !.parts = new]
  <2>11. i \in SpaceId /\ i \in Nat
    BY <2>2, <2>6, SpaceMetaAssumption DEF SpaceId
  <2> HIDE DEF sp, sp1
  <2>12. Pairs(new) \in SUBSET (Pid \X (Servers \cup {"key"}))
    BY <2>9, SweepType
  <2>13. /\ op'[c] = [op[c] EXCEPT !.pc = "build", !.sid = i, !.sp = sp1, !.new = new,
                                   !.todo = Pairs(new)]
         /\ op' = [op EXCEPT ![c] = op'[c]]
    BY <2>1 DEF Requests, sp1
  <2>14. /\ op'[c] \in Request /\ op'[c].kind = "create" /\ op'[c].name = op[c].name
         /\ op'[c].pc = "build" /\ op'[c].sid = i /\ op'[c].sp = sp1 /\ op'[c].new = new
         /\ op'[c].todo = Pairs(new)
    BY <1>1, <2>8, <2>9, <2>10, <2>11, <2>12, <2>13, Zenon DEF Request, Labels, sp1
  <2>15. Requests'
    <3>1. Legal(op'[c])
      BY <2>14 DEF Legal
    <3>2. op'[c].sid \in 1 .. made' /\ op'[c].sp \in SpaceRecord
      BY <2>2, <2>6, <2>10, <2>14 DEF sp1
    <3>3. DOMAIN op'[c].sp.parts \subseteq DOMAIN home' /\ DOMAIN op'[c].new \subseteq DOMAIN home'
      BY <2>7, <2>9, <2>10, <2>14 DEF sp1
    <3>4. op'[c].kind \in env.kinds
      BY <1>1, <2>8, <2>14 DEF Fit
    <3>5. made \in Nat /\ made' \in Nat /\ made <= made'
      BY <2>6
    <3> QED
      BY <2>2, <2>7, <2>8, <2>13, <2>14, <3>1, <3>2, <3>3, <3>4, <3>5, ReadFits, Zenon
  <2>16. space' \in [SpaceId -> SpaceRecord \cup {NoSpace}]
    BY <2>2, <2>10, Zenon DEF Ids
  <2>17. \A j \in SpaceId : /\ j > made' => space'[j] = NoSpace
                            /\ DOMAIN space'[j].parts \subseteq DOMAIN home'
    <3> TAKE j \in SpaceId
    <3>1. space'[j] = IF j = i THEN sp ELSE space[j]
      BY <2>2 DEF Ids
    <3>2. j \in Nat
      BY DEF SpaceId
    <3> QED
      BY <2>2, <2>6, <2>7, <2>10, <3>1, <3>2 DEF Ids
  <2> QED
    BY <2>2, <2>4, <2>6, <2>7, <2>15, <2>16, <2>17, Zenon DEF Ids
<1>5. CASE ExpandQuery(c)
  <2> DEFINE P == NewPids(1)
             i == Query(op[c].name)
             Wider(f, g) == [p \in DOMAIN f \cup P |-> IF p \in P THEN g[p] ELSE f[p]]
  <2>1. PICK new \in Placement(P) :
            op' = [op EXCEPT ![c] = [@ EXCEPT !.pc = "build", !.sid = i, !.new = new,
                      !.sp = [space[i] EXCEPT !.parts = Wider(@, new)], !.todo = Pairs(new)]]
    BY <1>5, Zenon DEF ExpandQuery
  <2>2. /\ op[c].kind = "expand" /\ Named(op[c].name) # {} /\ P \subseteq 1 .. env.pids
        /\ home' = [p \in DOMAIN home \cup P |-> IF p \in P THEN i ELSE home[p]]
        /\ UNCHANGED <<space, made, env>>
    BY <1>5, Zenon DEF ExpandQuery
  <2>3. P = n + 1 .. n + 1
    BY <1>2, <1>3, NewPidsFollow
  <2>4. n + 1 \in 0 .. MaxPids /\ P \subseteq Pid
    <3>1. n + 1 \in P
      BY <1>3, <2>3
    <3> QED
      BY <1>3, <2>2, <3>1, SpaceMetaAssumption DEF Pid
  <2> HIDE DEF P
  <2>5. DOMAIN home \cup P = 1 .. n + 1
    BY <1>2, <1>3, <2>3
  <2>6. i \in SpaceId /\ i \in 1 .. made /\ space[i] \in SpaceRecord
    BY <2>2, QueryFinds, ExistsMade
  <2> HIDE DEF i
  <2>7. home' \in [1 .. n + 1 -> 1 .. made'] /\ DOMAIN home' = DOMAIN home \cup P
    BY <1>2, <2>2, <2>5, <2>6
  <2>8. op[c].name \in Names
    BY <1>1, <2>2 DEF Fit
  <2>9. new \in Parts /\ DOMAIN new = P /\ \A p \in P : new[p] \subseteq Servers
    BY <2>4, PlacementType
  <2>10. /\ Wider(space[i].parts, new) \in Parts
         /\ DOMAIN Wider(space[i].parts, new) \subseteq DOMAIN home'
    <3>1. space[i].parts \in Parts
      BY <2>6 DEF SpaceRecord, Parts
    <3>2. /\ DOMAIN space[i].parts \cup P \in SUBSET Pid
          /\ \A p \in DOMAIN space[i].parts : space[i].parts[p] \subseteq Servers
      BY <2>4, <3>1, PartsType
    <3>3. Wider(space[i].parts, new) \in [DOMAIN space[i].parts \cup P -> SUBSET Servers]
      BY <2>9, <3>2
    <3>4. DOMAIN space[i].parts \subseteq DOMAIN home
      BY <2>6 DEF Ids
    <3> QED
      BY <2>7, <3>2, <3>3, <3>4, PartsType
  <2> DEFINE w == Wider(space[i].parts, new)
             sp1 == [space[i] EXCEPT !.parts = w]
  <2> HIDE DEF w
  <2>11. sp1 \in SpaceRecord /\ sp1.parts = w
    BY <2>6, <2>10, SpaceRecordIs DEF w
  <2>12. Pairs(new) \in SUBSET (Pid \X (Servers \cup {"key"})) /\ i \in Nat
    BY <2>6, <2>9, SweepType DEF SpaceId
  <2>13. /\ op'[c] = [op[c] EXCEPT !.pc = "build", !.sid = i, !.new = new, !.sp = sp1,
                                   !.todo = Pairs(new)]
         /\ op' = [op EXCEPT ![c] = op'[c]]
    BY <2>1 DEF Requests, i, w
  <2> HIDE DEF sp1, Wider
  <2>14. /\ op'[c] \in Request /\ op'[c].kind = "expand" /\ op'[c].name = op[c].name
         /\ op'[c].pc = "build" /\ op'[c].sid = i /\ op'[c].sp = sp1 /\ op'[c].new = new
         /\ op'[c].todo = Pairs(new)
    BY <1>1, <2>2, <2>9, <2>11, <2>12, <2>13, Zenon DEF Request, Labels
  <2>15. Requests'
    <3>1. Legal(op'[c])
      BY <2>14 DEF Legal
    <3>2. op'[c].sid \in 1 .. made' /\ op'[c].sp \in SpaceRecord
      BY <2>2, <2>6, <2>11, <2>14
    <3>3. DOMAIN op'[c].sp.parts \subseteq DOMAIN home' /\ DOMAIN op'[c].new \subseteq DOMAIN home'
      BY <2>7, <2>9, <2>10, <2>11, <2>14 DEF w
    <3>4. op'[c].kind \in env.kinds
      BY <1>1, <2>2, <2>14 DEF Fit
    <3>5. made \in Nat /\ made' \in Nat /\ made <= made' /\ env' = env
      BY <2>2 DEF Ids
    <3> QED
      BY <2>7, <2>8, <2>13, <2>14, <3>1, <3>2, <3>3, <3>4, <3>5, ReadFits, Zenon
  <2> QED
    BY <2>2, <2>4, <2>7, <2>15, Zenon DEF Ids
<1> QED
  BY <1>4, <1>5

\* Updates read the space under its lock.
LEMMA ReadSteps ==
    ASSUME Requests, Ids, NEW c \in Clients, ConfigQuery(c) \/ MemberQuery(c)
    PROVE  Requests'
<1> DEFINE i == Query(op[c].name)
<1>1. op[c] \in Request /\ Fit(op[c])
  BY DEF Requests
<1>2. made \in Nat /\ Named(op[c].name) # {} /\ home' = home /\ made' = made /\ env' = env
  <2>1. made \in Nat
    BY DEF Ids
  <2>2. CASE ConfigQuery(c)
    BY <2>1, <2>2, Zenon DEF ConfigQuery
  <2>3. CASE MemberQuery(c)
    BY <2>1, <2>3 DEF MemberQuery
  <2> QED
    BY <2>2, <2>3
<1>3. i \in 1 .. made /\ space[i] \in SpaceRecord /\ i \in SpaceId /\ i \in Nat
  BY <1>2, QueryFinds, ExistsMade
<1> HIDE DEF i
<1>4. CASE ConfigQuery(c)
  <2>1. PICK n \in env.names, e \in BOOLEAN :
            op' = [op EXCEPT ![c] = [@ EXCEPT !.pc = "notify", !.sid = i,
                      !.sp = [space[i] EXCEPT !.name = n, !.enabled = e]]]
    BY <1>4, Zenon DEF ConfigQuery, i
  <2>2. n \in Names /\ op[c].kind \in {"config", "rename"}
    BY <1>4, SpaceMetaAssumption, Zenon DEF Ids, Setting, ConfigQuery
  <2> DEFINE sp1 == [space[i] EXCEPT !.name = n, !.enabled = e]
  <2>3. sp1 \in SpaceRecord /\ sp1.parts = space[i].parts
    BY <1>3, <2>2, SpaceRecordIs, Zenon
  <2> HIDE DEF sp1
  <2>4. op'[c] = [op[c] EXCEPT !.pc = "notify", !.sid = i, !.sp = sp1]
    BY <2>1 DEF Requests, sp1
  <2>8. op' = [op EXCEPT ![c] = op'[c]]
    BY <2>1 DEF Requests
  <2>5. /\ op'[c] \in Request /\ op'[c].kind = op[c].kind /\ op'[c].name = op[c].name
        /\ op'[c].pc = "notify" /\ op'[c].sid = i /\ op'[c].sp = sp1
        /\ op'[c].new = op[c].new /\ op'[c].todo = op[c].todo
    BY <1>1, <1>3, <2>3, <2>4, Zenon DEF Request, Labels
  <2>9. Legal(op'[c])
    BY <2>2, <2>5 DEF Legal, Updates
  <2>10. op'[c].kind \in env.kinds /\ op'[c].name \in Names
    BY <1>1, <2>2, <2>5, Zenon DEF Fit
  <2>6. Legal(op'[c]) /\ op'[c].kind \in env.kinds /\ op'[c].name \in Names
    BY <2>9, <2>10, Zenon
  <2>7. DOMAIN op'[c].sp.parts \subseteq DOMAIN home' /\ DOMAIN op'[c].new \subseteq DOMAIN home'
    BY <1>1, <1>2, <1>3, <2>3, <2>5 DEF Fit, Ids
  <2> QED
    BY <1>2, <1>3, <2>2, <2>3, <2>5, <2>6, <2>7, <2>8, ReadFits
<1>5. CASE MemberQuery(c)
  <2>1. op[c].kind \in {"add", "remove"}
    BY <1>5, SMTT(30) DEF MemberQuery
  <2>2. CASE Cardinality(DOMAIN op[c].sp.parts) = Cardinality(DOMAIN space[i].parts)
    <3> DEFINE sp1 == [op[c].sp EXCEPT !.version = space[i].version]
    <3>1. op[c].sp \in SpaceRecord /\ space[i].version \in Nat \ {0}
      BY <1>1, <1>3, <2>1, SpaceRecordIs DEF Fit, Bound
    <3>2. sp1 \in SpaceRecord /\ sp1.parts = op[c].sp.parts
      BY <3>1, SpaceRecordIs
    <3>3. op' = [op EXCEPT ![c] = [@ EXCEPT !.pc = "notify", !.sid = i, !.sp = sp1]]
      BY <1>5, <2>2 DEF MemberQuery, i
    <3> HIDE DEF sp1
    <3>4. op'[c] = [op[c] EXCEPT !.pc = "notify", !.sid = i, !.sp = sp1]
      BY <3>3 DEF Requests
    <3>9. op' = [op EXCEPT ![c] = op'[c]]
      BY <3>3 DEF Requests
    <3>5. /\ op'[c] \in Request /\ op'[c].kind = op[c].kind /\ op'[c].name = op[c].name
          /\ op'[c].pc = "notify" /\ op'[c].sid = i /\ op'[c].sp = sp1
          /\ op'[c].new = op[c].new /\ op'[c].todo = op[c].todo
      BY <1>1, <1>3, <3>2, <3>4, Zenon DEF Request, Labels
    <3>10. op'[c].kind \in {"add", "remove"}
      BY <2>1, <3>5, Zenon
    <3>11. Legal(op'[c])
      BY <3>5, <3>10 DEF Legal, Updates
    <3>12. op'[c].kind \in env.kinds /\ op'[c].name \in Names
      BY <1>1, <2>1, <3>5, Zenon DEF Fit
    <3>6. Legal(op'[c]) /\ op'[c].kind \in env.kinds /\ op'[c].name \in Names
      BY <3>11, <3>12, Zenon
    <3>7. DOMAIN op'[c].sp.parts \subseteq DOMAIN home' /\ DOMAIN op'[c].new \subseteq DOMAIN home'
      BY <1>1, <1>2, <3>2, <3>5, Zenon DEF Fit
    <3>8. \E p \in DOMAIN home', s \in Servers : op'[c].new = Single(p, s)
      BY <1>1, <1>2, <2>1, <3>5, Zenon DEF Fit
    <3> QED
      BY <1>2, <1>3, <2>1, <3>2, <3>5, <3>6, <3>7, <3>8, <3>9, ReadFits, SMTT(30)
  <2>3. CASE Cardinality(DOMAIN op[c].sp.parts) # Cardinality(DOMAIN space[i].parts)
    BY <1>2, <1>5, <2>3, DoneFits DEF MemberQuery, Return, i
  <2> QED
    BY <2>2, <2>3
<1> QED
  BY <1>4, <1>5

\* Requests that come in.
LEMMA BeginSteps ==
    ASSUME TypeOK, Requests, Ids, NEW c \in Clients, Begin(c)
    PROVE  Requests' /\ Ids'
<1>1. op[c] \in Request /\ Fit(op[c])
  BY DEF Requests
<1>2. made \in Nat /\ env.names \subseteq Names /\ env.kinds \subseteq RequestKinds
  BY SpaceMetaAssumption DEF Ids, Setting
<1>3. ASSUME NEW k \in env.kinds \cap {"create", "expand", "config", "rename"}, NEW n \in env.names,
             op' \in {[op EXCEPT ![c].kind = k, ![c].name = n, ![c].pc = "lock"]},
             UNCHANGED <<home, made, env>>
      PROVE  Requests'
  <2>1. op'[c] = [op[c] EXCEPT !.kind = k, !.name = n, !.pc = "lock"]
    BY <1>3, Zenon DEF Requests
  <2>2. op' = [op EXCEPT ![c] = op'[c]]
    BY <1>3 DEF Requests
  <2>3. /\ op'[c] \in Request /\ op'[c].kind = k /\ op'[c].name = n /\ op'[c].pc = "lock"
        /\ op'[c].sp = op[c].sp /\ op'[c].new = op[c].new /\ op'[c].todo = op[c].todo
    BY <1>1, <1>2, <2>1, Zenon DEF Request, Labels
  <2>4. Legal(op'[c]) /\ ~Bound(op'[c])
    BY <2>3 DEF Legal, Bound, Updates
  <2> QED
    BY <1>1, <1>2, <1>3, <2>2, <2>3, <2>4, ReadFits DEF Fit
<1>4. ASSUME NEW n \in env.names, "delete" \in env.kinds, DeleteBegin(c, n) PROVE Requests'
  <2> DEFINE i == Query(n)
  <2>1. i \in SpaceId /\ Exists(i)
    BY <1>4, QueryFinds DEF DeleteBegin
  <2>2. i \in 1 .. made /\ space[i] \in SpaceRecord /\ i \in Nat
    BY <2>1, ExistsMade
  <2>3. /\ op' = [op EXCEPT ![c] = [@ EXCEPT !.kind = "delete", !.name = n, !.pc = "lock",
                     !.sid = i, !.sp = space[i]]]
        /\ home' = home /\ made' = made /\ env' = env
    BY <1>4 DEF DeleteBegin
  <2> HIDE DEF i
  <2>4. op'[c] = [op[c] EXCEPT !.kind = "delete", !.name = n, !.pc = "lock", !.sid = i,
                               !.sp = space[i]]
    BY <2>3 DEF Requests
  <2>5. op' = [op EXCEPT ![c] = op'[c]]
    BY <2>3 DEF Requests
  <2>6. /\ op'[c] \in Request /\ op'[c].kind = "delete" /\ op'[c].name = n /\ op'[c].pc = "lock"
        /\ op'[c].sid = i /\ op'[c].sp = space[i]
        /\ op'[c].new = op[c].new /\ op'[c].todo = op[c].todo
    BY <1>1, <1>2, <1>4, <2>2, <2>4, Zenon DEF Request, Labels, RequestKinds
  <2>7. Legal(op'[c])
    BY <2>6 DEF Legal
  <2>8. DOMAIN op'[c].sp.parts \subseteq DOMAIN home' /\ DOMAIN op'[c].new \subseteq DOMAIN home'
    BY <1>1, <2>1, <2>3, <2>6 DEF Fit, Ids
  <2>9. op'[c].kind \in env.kinds /\ op'[c].name \in Names /\ made' \in Nat /\ made <= made'
    BY <1>2, <1>4, <2>3, <2>6
  <2>10. op'[c].sid \in 1 .. made' /\ op'[c].sp \in SpaceRecord /\ DOMAIN home \subseteq DOMAIN home'
    BY <2>2, <2>3, <2>6
  <2> QED
    BY <1>2, <2>3, <2>5, <2>6, <2>7, <2>8, <2>9, <2>10, ReadFits, Zenon
<1>5. ASSUME "dropdb" \in env.kinds, DropBegin(c) PROVE Requests'
  <2>1. op'[c] = [op[c] EXCEPT !.kind = "dropdb", !.pc = "drop"]
    BY <1>5 DEF DropBegin, Requests
  <2>2. op' = [op EXCEPT ![c] = op'[c]] /\ home' = home /\ made' = made /\ env' = env
    BY <1>5, Zenon DEF DropBegin, Requests
  <2>3. /\ op'[c] \in Request /\ op'[c].kind = "dropdb" /\ op'[c].pc = "drop"
        /\ op'[c].sp = op[c].sp /\ op'[c].new = op[c].new /\ op'[c].todo = op[c].todo
    BY <1>1, <2>1, Zenon DEF Request, Labels, RequestKinds
  <2>4. Legal(op'[c]) /\ ~Bound(op'[c])
    BY <2>3 DEF Legal, Bound
  <2> QED
    BY <1>1, <1>2, <1>5, <2>2, <2>3, <2>4, ReadFits DEF Fit
<1>6. ASSUME NEW k \in env.kinds \cap {"add", "remove"}, MemberRead(c, k) PROVE Requests'
  <2> DEFINE Copy(p, s) == [space[home[p]] EXCEPT !.parts[p] =
                               IF k = "add" THEN @ \cup {s} ELSE @ \ {s}]
             lab == IF k = "add" THEN "copy" ELSE "raft"
  <2>1. PICK p \in partKey, s \in Servers :
            /\ Exists(home[p]) /\ p \in DOMAIN space[home[p]].parts
            /\ op' = [op EXCEPT ![c] = [@ EXCEPT !.kind = k, !.name = space[home[p]].name,
                         !.pc = lab, !.sid = home[p], !.new = Single(p, s), !.sp = Copy(p, s)]]
    BY <1>6, Zenon DEF MemberRead
  <2> DEFINE i == home[p]
             sp1 == Copy(p, s)
  <2>2. home' = home /\ made' = made /\ env' = env /\ made' \in Nat /\ made <= made'
    BY <1>2, <1>6 DEF MemberRead
  <2>3. p \in DOMAIN home /\ p \in Pid /\ i \in SpaceId /\ i \in Nat
    BY SpaceMetaAssumption DEF TypeOK, SpaceId
  <2>4. i \in 1 .. made /\ space[i] \in SpaceRecord
    BY <2>1, <2>3, ExistsMade
  <2>5. sp1 \in SpaceRecord /\ DOMAIN sp1.parts = DOMAIN space[i].parts
    <3> DEFINE f == space[i].parts
               g == [f EXCEPT ![p] = IF k = "add" THEN @ \cup {s} ELSE @ \ {s}]
    <3>1. f \in Parts
      BY <2>4, SpaceRecordIs
    <3> HIDE DEF f
    <3>2. f \in [DOMAIN f -> SUBSET Servers] /\ DOMAIN f \in SUBSET Pid
      BY <3>1, PartsType
    <3>3. g \in [DOMAIN f -> SUBSET Servers]
      BY <3>2, Zenon
    <3>4. g \in Parts /\ DOMAIN g = DOMAIN f
      BY <3>2, <3>3, PartsType
    <3>5. sp1 = [space[i] EXCEPT !.parts = g]
      BY DEF f
    <3> HIDE DEF g, sp1
    <3> QED
      BY <2>4, <3>4, <3>5, SpaceRecordIs DEF f
  <2>6. Single(p, s) \in Parts /\ DOMAIN Single(p, s) = {p}
    <3>1. Single(p, s) \in [{p} -> SUBSET Servers] /\ {p} \in SUBSET Pid
      BY <2>3 DEF Single
    <3> QED
      BY <3>1, PartsType
  <2> HIDE DEF sp1, i, Copy
  <2>7. op'[c] = [op[c] EXCEPT !.kind = k, !.name = space[i].name, !.pc = lab, !.sid = i,
                               !.new = Single(p, s), !.sp = sp1]
    BY <2>1 DEF Requests, sp1, i
  <2>8. op' = [op EXCEPT ![c] = op'[c]]
    BY <2>1 DEF Requests
  <2>9. lab \in Labels \ {"build"} /\ space[i].name \in Names
    BY <2>4, SpaceRecordIs DEF Labels
  <2> HIDE DEF lab
  <2>10. /\ op'[c] \in Request /\ op'[c].kind = k /\ op'[c].name = space[i].name
         /\ op'[c].pc = lab /\ op'[c].sid = i /\ op'[c].sp = sp1
         /\ op'[c].new = Single(p, s) /\ op'[c].todo = op[c].todo
    BY <1>1, <1>2, <2>3, <2>5, <2>6, <2>7, <2>9, Zenon DEF Request
  <2>11. Legal(op'[c])
    BY <2>10 DEF Legal, Updates, lab
  <2>12. /\ DOMAIN op'[c].sp.parts \subseteq DOMAIN home'
         /\ DOMAIN op'[c].new \subseteq DOMAIN home'
    BY <2>2, <2>3, <2>5, <2>6, <2>10 DEF Ids
  <2>13. /\ op'[c].kind \in env.kinds /\ op'[c].name \in Names /\ op'[c].pc # "build"
         /\ op'[c].sid \in 1 .. made' /\ op'[c].sp \in SpaceRecord
         /\ DOMAIN home \subseteq DOMAIN home'
    BY <2>2, <2>4, <2>5, <2>9, <2>10
  <2>14. \E q \in DOMAIN home', r \in Servers : op'[c].new = Single(q, r)
    BY <2>2, <2>3, <2>10
  <2> QED
    BY <1>2, <2>2, <2>8, <2>10, <2>11, <2>12, <2>13, <2>14, ReadFits
<1>7. Requests'
  <2>1. ASSUME NEW k \in env.kinds \cap {"expand", "config", "rename"}, NEW n \in env.names,
               UpdateBegin(c, k, n)
        PROVE  Requests'
    BY <1>3, <2>1, Zenon DEF UpdateBegin
  <2>2. ASSUME "create" \in env.kinds, NEW n \in env.names, CreateBegin(c, n) PROVE Requests'
    BY <1>3, <2>2, Zenon DEF CreateBegin
  <2> QED
    BY <1>4, <1>5, <1>6, <2>1, <2>2 DEF Begin
<1>8. UNCHANGED <<env, made, space, home>>
  BY Zenon DEF Begin, CreateBegin, DeleteBegin, UpdateBegin, DropBegin, MemberRead
<1> QED
  BY <1>7, <1>8 DEF Ids

-----------------------------------------------------------------------------
(* The type invariant.                                                     *)

\* what TypeOK says of the other variables
Stored ==
    /\ db \in BOOLEAN /\ conf \subseteq SpaceId
    /\ partKey \subseteq DOMAIN home /\ regs \subseteq DOMAIN home
    /\ ps \in [Servers -> SUBSET DOMAIN home] /\ hb \in [Servers -> SUBSET DOMAIN home]
    /\ raft \in [Pid -> SUBSET Servers]
    /\ held \subseteq LockKey \X Clients

\* The partitions and the spaces there are.
LEMMA IdsAre ==
    ASSUME Ids
    PROVE  /\ DOMAIN home \subseteq Pid /\ 1 .. made \subseteq SpaceId
           /\ \A p \in DOMAIN home : home[p] \in 1 .. made
<1>1. PICK n \in 0 .. MaxPids : home \in [1 .. n -> 1 .. made]
  BY DEF Ids
<1>2. 1 .. n \subseteq 1 .. MaxPids /\ 1 .. made \subseteq 1 .. MaxSpaces
  BY SpaceMetaAssumption DEF Ids
<1> QED
  BY <1>1, <1>2 DEF Pid, SpaceId

\* With the identifiers in their ranges, this is the type invariant.
LEMMA StoredIs == Ids => (TypeOK <=> Stored)
BY IdsAre, Zenon DEF Ids, TypeOK, Stored

\* A space is written with what a request knows of it, or deleted.
LEMMA SpaceSteps ==
    ASSUME Requests, Ids, NEW c \in Clients,
           \/ UndoSpace(c) \/ CreateEnable(c) \/ CreateEnableFails(c) \/ DeleteKey(c)
           \/ UpdateWrite(c)
    PROVE  Ids'
<1>1. op[c] \in Request /\ Fit(op[c])
  BY DEF Requests
<1>2. op[c].sid \in 1 .. made /\ op[c].sp \in SpaceRecord /\ UNCHANGED <<made, home, env>>
  BY <1>1 DEF Fit, Bound, UndoSpace, CreateEnable, CreateEnableFails, DeleteKey, UpdateWrite
<1>3. \E r \in SpaceRecord \cup {NoSpace} :
          /\ DOMAIN r.parts \subseteq DOMAIN home
          /\ space' \in {space, [space EXCEPT ![op[c].sid] = r]}
  <2>1. CASE UndoSpace(c) \/ CreateEnableFails(c) \/ DeleteKey(c)
    <3>1. DOMAIN NoSpace.parts \subseteq DOMAIN home
      BY NoPartsType DEF NoSpace
    <3>2. space' \in {space, [space EXCEPT ![op[c].sid] = NoSpace]}
      BY <2>1 DEF UndoSpace, CreateEnableFails, DeleteKey
    <3> QED
      BY <3>1, <3>2
  <2>2. ASSUME NEW r \in SpaceRecord, DOMAIN r.parts \subseteq DOMAIN home,
               space' = [space EXCEPT ![op[c].sid] = [r EXCEPT !.version = @ + 1]]
        PROVE  \E x \in SpaceRecord \cup {NoSpace} :
                  /\ DOMAIN x.parts \subseteq DOMAIN home
                  /\ space' \in {space, [space EXCEPT ![op[c].sid] = x]}
    <3> DEFINE x == [r EXCEPT !.version = @ + 1]
    <3>1. x \in SpaceRecord /\ x.parts = r.parts
      BY SpaceRecordIs
    <3> QED
      BY <2>2, <3>1, Zenon
  <2>3. CASE UpdateWrite(c)
    BY <1>1, <1>2, <2>2, <2>3, Zenon DEF UpdateWrite, UpdateSpaceData, Fit
  <2>4. CASE CreateEnable(c)
    <3> DEFINE x == [op[c].sp EXCEPT !.enabled = TRUE]
    <3>1. x \in SpaceRecord /\ x.parts = op[c].sp.parts
      BY <1>2, SpaceRecordIs, Zenon
    <3> QED
      BY <1>1, <2>2, <2>4, <3>1, Zenon DEF CreateEnable, UpdateSpaceData, Fit
  <2> QED
    BY <2>1, <2>3, <2>4
<1>4. PICK r \in SpaceRecord \cup {NoSpace} :
          /\ DOMAIN r.parts \subseteq DOMAIN home
          /\ space' \in {space, [space EXCEPT ![op[c].sid] = r]}
  BY <1>3
<1>5. space' \in [SpaceId -> SpaceRecord \cup {NoSpace}]
  BY <1>4 DEF Ids
<1>6. \A i \in SpaceId : space'[i] = space[i] \/ (i = op[c].sid /\ space'[i] = r)
  <2>1. DOMAIN space = SpaceId
    BY DEF Ids
  <2> QED
    BY <1>4, <2>1
<1>7. \A i \in SpaceId : i > made => i # op[c].sid
  BY <1>2 DEF Ids, SpaceId
<1> QED
  BY <1>2, <1>4, <1>5, <1>6, <1>7 DEF Ids

\* The other steps of requests do not touch them.
LEMMA IdsStep ==
    ASSUME Requests, Ids, NEW c \in Clients, Step(c)
    PROVE  Ids'
<1>1. \/ UndoSpace(c) \/ CreateEnable(c) \/ CreateEnableFails(c) \/ DeleteKey(c)
      \/ UpdateWrite(c) \/ CreatePut(c) \/ ExpandQuery(c) \/ UNCHANGED <<env, made, home, space>>
  BY Zenon DEF Step, CreateLock, CreateExists, CreateCheck, CreatePartition, Ready, NotReady,
         UndoPartition, UndoKey, CreateConf, DeleteLock, DeleteReplica, DeletePartitionKey,
         DeleteConf, UpdateLock, UpdateNone, ConfigQuery, Notify, UpdateWriteFails, DropDB,
         MemberCreate, MemberRaft, MemberRaftFails, MemberDelete, MemberQuery
<1>2. CASE UNCHANGED <<env, made, home, space>>
  BY <1>2 DEF Ids
<1> QED
  BY <1>1, <1>2, SpaceSteps, NewSteps

\* The types of requests along all of their steps.
LEMMA RequestsStep ==
    ASSUME Requests, Ids, NEW c \in Clients, Step(c)
    PROVE  Requests'
<1>1. made \in Nat
  BY DEF Ids
<1> QED
  BY <1>1, PlainSteps, PartitionSteps, NewSteps, ReadSteps DEF Step

\* What is put into the stores has an id.
LEMMA StoredStep ==
    ASSUME Requests, Ids, Stored, NEW c \in Clients, Step(c)
    PROVE  Stored'
<1>1. op[c] \in Request /\ Fit(op[c])
  BY DEF Requests
<1>2. Unlock(c) => held' \subseteq LockKey \X Clients
  BY DEF Unlock, Stored
<1>3. \A k \in LockKey : Lock(c, k) => held' \subseteq LockKey \X Clients
  BY DEF Lock, Stored
<1>4. Step(c) => held' \subseteq LockKey \X Clients
  <2>1. ~UNCHANGED held => Unlock(c) \/ \E k \in LockKey : Lock(c, k)
    <3>1. CreateLock(c) => Lock(c, "space_name") /\ "space_name" \in LockKey
      BY DEF CreateLock, CreateKey, LockKey
    <3>2. DeleteLock(c) \/ UpdateLock(c) => Lock(c, op[c].name) /\ op[c].name \in LockKey
      BY <1>1 DEF DeleteLock, UpdateLock, LockKey, Fit, Updates
    <3> QED
      BY <3>1, <3>2, Zenon
      DEF Step, CreateExists, CreateCheck, CreatePut, CreatePartition, Ready, NotReady,
          UndoPartition, UndoKey, UndoSpace, CreateEnable, CreateEnableFails, CreateConf,
          DeleteKey, DeleteReplica, DeletePartitionKey, DeleteConf, UpdateNone, ExpandQuery,
          ConfigQuery, Notify, UpdateWrite, UpdateWriteFails, DropDB, MemberCreate, MemberRaft,
          MemberRaftFails, MemberDelete, MemberQuery, Return
  <2> QED
    BY <1>2, <1>3, <2>1 DEF Stored
<1>5. ASSUME UNCHANGED <<home, ps, hb, raft, partKey, regs, conf>>, db' \in BOOLEAN
      PROVE  Stored'
  BY <1>4, <1>5 DEF Stored
<1>6. CASE \/ CreateLock(c) \/ CreateExists(c) \/ CreateCheck(c) \/ Ready(c) \/ NotReady(c)
           \/ UndoSpace(c) \/ CreateEnable(c) \/ CreateEnableFails(c) \/ DeleteLock(c)
           \/ DeleteKey(c) \/ UpdateLock(c) \/ UpdateNone(c) \/ ConfigQuery(c) \/ Notify(c)
           \/ UpdateWrite(c) \/ UpdateWriteFails(c) \/ DropDB(c) \/ MemberRaftFails(c)
           \/ MemberQuery(c)
  BY <1>5, <1>6, Zenon
  DEF Stored, CreateLock, CreateExists, CreateCheck, Ready, NotReady, UndoSpace, CreateEnable,
      CreateEnableFails, DeleteLock, DeleteKey, UpdateLock, UpdateNone, ConfigQuery, Notify,
      UpdateWrite, UpdateWriteFails, DropDB, MemberRaftFails, MemberQuery
<1>7. CASE CreatePut(c) \/ ExpandQuery(c)
  <2>1. DOMAIN home \subseteq DOMAIN home'
    BY <1>7, Zenon DEF CreatePut, ExpandQuery
  <2>2. UNCHANGED <<db, ps, hb, raft, partKey, regs, conf>>
    BY <1>7, Zenon DEF CreatePut, ExpandQuery
  <2> QED
    BY <1>4, <2>1, <2>2 DEF Stored
<1>8. CASE UndoKey(c) \/ DeletePartitionKey(c) \/ CreateConf(c) \/ DeleteConf(c)
  <2>1. UNCHANGED <<db, home, ps, hb, raft, regs>> /\ partKey' \subseteq partKey
    BY <1>8 DEF UndoKey, DeletePartitionKey, CreateConf, DeleteConf
  <2>2. CreateConf(c) => op[c].sid \in SpaceId
    BY <1>1, IdsAre DEF CreateConf, Fit, Bound
  <2>3. conf' \subseteq conf \cup SpaceId
    BY <1>8, <2>2 DEF UndoKey, DeletePartitionKey, CreateConf, DeleteConf
  <2> QED
    BY <1>4, <2>1, <2>3 DEF Stored
<1>9. ASSUME NEW p \in DOMAIN home, NEW s \in Servers, NEW R \in SUBSET Servers,
             ps' \in {ps, [ps EXCEPT ![s] = @ \cup {p}], [ps EXCEPT ![s] = @ \ {p}]},
             raft' \in {raft, [raft EXCEPT ![p] = R]},
             UNCHANGED <<db, home, hb, partKey, regs, conf>>
      PROVE  Stored'
  <2>1. ps' \in [Servers -> SUBSET DOMAIN home]
    BY <1>9 DEF Stored
  <2>2. raft' \in [Pid -> SUBSET Servers]
    BY <1>9 DEF Stored
  <2> QED
    BY <1>4, <1>9, <2>1, <2>2 DEF Stored
<1>10. CASE CreatePartition(c)
  <2>1. PICK t \in op[c].todo : CreatePartition(c)!2!(t)
    BY <1>10 DEF CreatePartition
  <2>2. t \in Pairs(op[c].new) /\ t[1] \in DOMAIN home
    BY <1>1, <1>10 DEF CreatePartition, Fit
  <2>3. t[2] \in Servers /\ t[1] \in DOMAIN op[c].new /\ op[c].new \in Parts
    BY <1>1, <2>2 DEF Pairs, Request
  <2>4. op[c].new[t[1]] \in SUBSET Servers
    BY <2>3, PartsType
  <2> QED
    BY <1>9, <1>10, <2>1, <2>2, <2>3, <2>4, Zenon DEF CreatePartition
<1>11. CASE UndoPartition(c) \/ DeleteReplica(c)
  <2>1. PICK t \in NextReplicas(c) : DeletePartition(t[1], t[2])
    BY <1>11 DEF UndoPartition, DeleteReplica
  <2>2. t \in op[c].todo /\ t[2] # "key" /\ t \in Pid \X (Servers \cup {"key"})
    BY <1>1, <2>1 DEF NextReplicas, Request
  <2>3. t[1] \in DOMAIN home /\ t[2] \in Servers
    BY <1>1, <2>2 DEF Fit
  <2> QED
    BY <1>9, <1>11, <2>1, <2>3 DEF UndoPartition, DeleteReplica, DeletePartition
<1>12. CASE MemberCreate(c) \/ MemberRaft(c) \/ MemberDelete(c)
  <2>1. PICK p \in DOMAIN home, s \in Servers : op[c].new = Single(p, s)
    BY <1>1, <1>12, Zenon DEF MemberCreate, MemberRaft, MemberDelete, Fit, Legal
  <2>2. Target(c)[1] = p /\ Target(c)[2] = s
    BY <2>1, TargetIs, IdsAre
  <2>3. raft[p] \cup {s} \in SUBSET Servers /\ raft[p] \ {s} \in SUBSET Servers
    BY <2>1, IdsAre DEF Stored
  <2> QED
    BY <1>9, <1>12, <2>2, <2>3, Zenon DEF MemberCreate, MemberRaft, MemberDelete
<1> QED
  BY <1>6, <1>7, <1>8, <1>10, <1>11, <1>12 DEF Step

\* New requests do not change the stores.
LEMMA BeginKeeps ==
    ASSUME NEW c \in Clients, Begin(c)
    PROVE  UNCHANGED <<env, db, space, made, home, partKey, conf, ps, raft, regs, held, hb, clean>>
BY Zenon DEF Begin, CreateBegin, DeleteBegin, UpdateBegin, DropBegin, MemberRead

\* Registrations, heartbeats and CleanTask.
LEMMA SystemSteps ==
    ASSUME Requests, Ids, Stored, Cleaning, System
    PROVE  Requests' /\ Ids' /\ Stored' /\ Cleaning'
<1>1. UNCHANGED <<env, db, made, home, conf, raft, held, op>>
  BY Zenon DEF System, RegisterMaster, RegisterPartition, Heartbeat, CleanTask, CleanBegin, Walk,
         WalkPartition, WalkSpace, WalkServer, RemovePartitionKey, RemoveSpaceKey,
         RemovePartition, Turn
<1>2. Requests'
  BY <1>1 DEF Requests, Fit, Bound
<1>3. \/ UNCHANGED space
      \/ space' = [i \in SpaceId |-> IF i \in clean.hit THEN NoSpace ELSE space[i]]
  BY Zenon DEF System, RegisterMaster, RegisterPartition, Heartbeat, CleanTask, CleanBegin, Walk,
         WalkPartition, WalkSpace, WalkServer, RemovePartitionKey, RemoveSpaceKey,
         RemovePartition, Turn
<1>4. Ids'
  <2>1. space' \in [SpaceId -> SpaceRecord \cup {NoSpace}]
    BY <1>3 DEF Ids
  <2>2. \A i \in SpaceId : space'[i] \in {space[i], NoSpace}
    BY <1>3 DEF Ids
  <2>3. DOMAIN NoSpace.parts = {}
    BY NoPartsType DEF NoSpace
  <2>4. \A i \in SpaceId : i > made => space'[i] = NoSpace
    BY <2>2 DEF Ids
  <2>5. \A i \in SpaceId : DOMAIN space'[i].parts \subseteq DOMAIN home
    BY <2>2, <2>3 DEF Ids
  <2> QED
    BY <1>1, <2>1, <2>4, <2>5 DEF Ids
<1>5. CASE \E p \in Pid : RegisterMaster(p) \/ RegisterPartition(p)
  <2>1. PICK p \in Pid : RegisterMaster(p) \/ RegisterPartition(p)
    BY <1>5
  <2>2. p \in DOMAIN home
    BY <2>1, ElectsSome, StoredIs DEF RegisterMaster, RegisterPartition, Stored
  <2>3. Stored'
    BY <2>1, <2>2 DEF RegisterMaster, RegisterPartition, Stored
  <2> QED
    BY <1>1, <1>2, <1>4, <2>1, <2>3 DEF RegisterMaster, RegisterPartition, Cleaning
<1>6. CASE \E s \in Servers : Heartbeat(s)
  BY <1>1, <1>2, <1>4, <1>6 DEF Heartbeat, Stored, Cleaning
<1>7. CASE CleanTask
  <2> DEFINE Is(q, T, H) == clean' = [pc |-> q, todo |-> T, hit |-> H]
  <2>1. CASE CleanBegin
    BY <1>1, <1>2, <1>4, <2>1 DEF CleanBegin, Stored, Cleaning
  <2>2. ASSUME NEW W, NEW item \in clean.todo, NEW b \in BOOLEAN, Walk(W, item, b)
        PROVE  Requests' /\ Ids' /\ Stored' /\ Cleaning'
    <3>1. Is(clean.pc, clean.todo \ {item}, IF b THEN {item} ELSE {})
      BY <2>2, Zenon DEF Walk, Cleaning
    <3>2. Cleaning'
      BY <1>1, <3>1 DEF Cleaning
    <3> QED
      BY <1>1, <1>2, <1>4, <2>2, <3>2 DEF Walk, Stored
  <2>3. CASE WalkPartition \/ WalkSpace \/ WalkServer
    BY <2>2, <2>3, Zenon DEF WalkPartition, WalkSpace, WalkServer, Exists, Stored
  <2>4. CASE RemovePartitionKey \/ RemoveSpaceKey \/ RemovePartition
    <3>1. Is(clean.pc, clean.todo, {})
      BY <2>4 DEF RemovePartitionKey, RemoveSpaceKey, RemovePartition, Cleaning
    <3>2. Cleaning'
      BY <1>1, <3>1 DEF Cleaning
    <3>3. ps' \in [Servers -> SUBSET DOMAIN home]
      BY <2>4
      DEF RemovePartitionKey, RemoveSpaceKey, RemovePartition, DeletePartition, Stored
    <3>4. partKey' \subseteq partKey /\ UNCHANGED <<regs, hb>>
      BY <2>4 DEF RemovePartitionKey, RemoveSpaceKey, RemovePartition
    <3> QED
      BY <1>1, <1>2, <1>4, <3>2, <3>3, <3>4 DEF Stored
  <2>5. CASE Turn("partitions", "spaces", {i \in SpaceId : Exists(i)})
    BY <1>1, <1>2, <1>4, <2>5 DEF Turn, Stored, Cleaning
  <2>6. CASE Turn("spaces", "servers", {t \in Pid \X Servers : t[1] \in hb[t[2]]})
    BY <1>1, <1>2, <1>4, <2>6 DEF Turn, Stored, Cleaning
  <2>7. CASE Turn("servers", "done", {})
    BY <1>1, <1>2, <1>4, <2>7 DEF Turn, Stored, Cleaning
  <2> QED
    BY <1>7, <2>1, <2>3, <2>4, <2>5, <2>6, <2>7, Zenon DEF CleanTask
<1> QED
  BY <1>5, <1>6, <1>7 DEF System

\* The typing holds at first.
LEMMA TInvInit == Init => TInv
<1> SUFFICES ASSUME Init PROVE TInv
  OBVIOUS
<1>1. PICK e \in Settings :
          LET P == IF e.first = "none" THEN {} ELSE 1 .. e.partitions IN
          \E S \in Placement(P) :
              /\ env = e /\ db = TRUE /\ made = (IF P = {} THEN 0 ELSE 1)
              /\ space = [i \in SpaceId |->
                             IF P # {} /\ i = 1
                             THEN [name |-> e.first, enabled |-> TRUE, version |-> 2, parts |-> S]
                             ELSE NoSpace]
              /\ home = [p \in P |-> 1] /\ partKey = P /\ conf = 1 .. made
              /\ ps = [s \in Servers |-> {p \in P : s \in S[p]}]
              /\ raft = [p \in Pid |-> IF p \in P THEN S[p] ELSE {}]
              /\ regs = {} /\ held = {} /\ op = [c \in Clients |-> Idle] /\ hb = ps
              /\ clean = [pc |-> "idle", todo |-> {}, hit |-> {}]
  BY Zenon DEF Init
<1> DEFINE P == IF e.first = "none" THEN {} ELSE 1 .. e.partitions
           n == IF e.first = "none" THEN 0 ELSE e.partitions
<1>2. /\ e \in Setting /\ n \in 0 .. MaxPids /\ P = 1 .. n /\ P \in SUBSET Pid
      /\ P # {} => e.first \in Names
  BY SpaceMetaAssumption DEF Setting, Pid
<1>3. PICK S \in Placement(P) :
          /\ env = e /\ db = TRUE /\ made = (IF P = {} THEN 0 ELSE 1)
          /\ space = [i \in SpaceId |->
                         IF P # {} /\ i = 1
                         THEN [name |-> e.first, enabled |-> TRUE, version |-> 2, parts |-> S]
                         ELSE NoSpace]
          /\ home = [p \in P |-> 1] /\ partKey = P /\ conf = 1 .. made
          /\ ps = [s \in Servers |-> {p \in P : s \in S[p]}]
          /\ raft = [p \in Pid |-> IF p \in P THEN S[p] ELSE {}]
          /\ regs = {} /\ held = {} /\ op = [c \in Clients |-> Idle] /\ hb = ps
          /\ clean = [pc |-> "idle", todo |-> {}, hit |-> {}]
  BY <1>1, Zenon
<1> HIDE DEF P, n
<1>4. S \in Parts /\ DOMAIN S = P /\ \A p \in P : S[p] \in SUBSET Servers
  BY <1>2, PlacementType DEF Placement
<1>5. DOMAIN home = P /\ 1 \in SpaceId
  BY <1>3, SpaceMetaAssumption, SMTT(30) DEF SpaceId
<1>6. Ids
  <2> DEFINE first == [name |-> e.first, enabled |-> TRUE, version |-> 2, parts |-> S]
  <2>1. P # {} => first \in SpaceRecord
    BY <1>2, <1>4, SpaceRecordIs
  <2>2. first.parts = S
    OBVIOUS
  <2> HIDE DEF first
  <2>3. \A i \in SpaceId : space[i] = IF P # {} /\ i = 1 THEN first ELSE NoSpace
    BY <1>3 DEF first
  <2>4. space \in [SpaceId -> SpaceRecord \cup {NoSpace}]
    BY <1>3, <2>1 DEF first
  <2>5. DOMAIN NoSpace.parts = {}
    BY NoPartsType DEF NoSpace
  <2>6. \A i \in SpaceId : DOMAIN space[i].parts \subseteq DOMAIN home
    BY <1>4, <1>5, <2>2, <2>3, <2>5, SMTT(30)
  <2>7. made \in 0 .. MaxSpaces /\ \A i \in SpaceId : i > made => space[i] = NoSpace
    BY <1>3, <2>3, SpaceMetaAssumption, SMTT(30) DEF SpaceId
  <2>8. home \in [1 .. n -> 1 .. made]
    BY <1>2, <1>3, SMTT(30)
  <2> QED
    BY <1>2, <1>3, <2>4, <2>6, <2>7, <2>8, Zenon DEF Ids
<1>7. Stored
  <2>1. ps \in [Servers -> SUBSET DOMAIN home]
    BY <1>3, <1>5
  <2>2. raft \in [Pid -> SUBSET Servers]
    BY <1>3, <1>4
  <2>3. 1 .. made \subseteq SpaceId
    BY <1>6, IdsAre
  <2> QED
    BY <1>3, <1>5, <2>1, <2>2, <2>3, SMTT(30) DEF Stored
<1>8. Requests
  <2>1. DOMAIN NoSpace.parts = {} /\ DOMAIN NoParts = {} /\ NoParts \in Parts
    BY NoPartsType DEF NoSpace
  <2>2. Idle \in Request
    BY <2>1 DEF Idle, Request, Labels
  <2>3. Fit(Idle)
    BY <2>1, Zenon DEF Fit, Legal, Bound, Idle, Updates
  <2> QED
    BY <1>3, <2>2, <2>3 DEF Requests
<1> QED
  BY <1>3, <1>6, <1>7, <1>8, StoredIs DEF TInv, Cleaning

\* Every step keeps the typing.
LEMMA TInvStep == TInv /\ [Next]_vars => TInv'
<1> SUFFICES ASSUME TInv, [Next]_vars PROVE TInv'
  OBVIOUS
<1>1. Requests /\ Ids /\ Stored /\ Cleaning
  BY StoredIs DEF TInv
<1>2. Requests' /\ Ids' /\ Stored' /\ Cleaning'
  <2>1. ASSUME NEW c \in Clients, Step(c)
        PROVE  Requests' /\ Ids' /\ Stored' /\ Cleaning'
    <3>1. UNCHANGED clean
      BY <2>1, Zenon
      DEF Step, CreateLock, CreateExists, CreateCheck, CreatePut, CreatePartition, Ready,
          NotReady, UndoPartition, UndoKey, UndoSpace, CreateEnable, CreateEnableFails,
          CreateConf, DeleteLock, DeleteKey, DeleteReplica, DeletePartitionKey, DeleteConf,
          UpdateLock, UpdateNone, ExpandQuery, ConfigQuery, Notify, UpdateWrite,
          UpdateWriteFails, DropDB, MemberCreate, MemberRaft, MemberRaftFails, MemberDelete,
          MemberQuery
    <3>2. DOMAIN home \subseteq DOMAIN home'
      BY <2>1, Zenon
      DEF Step, CreateLock, CreateExists, CreateCheck, CreatePut, CreatePartition, Ready,
          NotReady, UndoPartition, UndoKey, UndoSpace, CreateEnable, CreateEnableFails,
          CreateConf, DeleteLock, DeleteKey, DeleteReplica, DeletePartitionKey, DeleteConf,
          UpdateLock, UpdateNone, ExpandQuery, ConfigQuery, Notify, UpdateWrite,
          UpdateWriteFails, DropDB, MemberCreate, MemberRaft, MemberRaftFails, MemberDelete,
          MemberQuery
    <3>3. Cleaning'
      BY <1>1, <3>1, <3>2 DEF Cleaning
    <3> QED
      BY <1>1, <2>1, <3>3, RequestsStep, IdsStep, StoredStep
  <2>2. ASSUME NEW c \in Clients, Begin(c)
        PROVE  Requests' /\ Ids' /\ Stored' /\ Cleaning'
    <3>1. Stored' /\ Cleaning'
      BY <1>1, <2>2, BeginKeeps, SMTT(30) DEF Stored, Cleaning
    <3> QED
      BY <1>1, <2>2, <3>1, BeginSteps, StoredIs DEF TInv
  <2>3. CASE UNCHANGED vars
    BY <1>1, <2>3 DEF vars, Requests, Ids, Stored, Cleaning, Fit, Bound
  <2> QED
    BY <1>1, <2>1, <2>2, <2>3, SystemSteps DEF Next
<1>3. Ids' => (TypeOK' <=> Stored')
  BY StoredIs, PTL
<1> QED
  BY <1>2, <1>3 DEF TInv

\* The state is well formed in every behaviour.
THEOREM SpaceTypeCorrect == Spec => []TypeOK
<1>1. TInv => TypeOK
  BY DEF TInv
<1> QED
  BY <1>1, TInvInit, TInvStep, PTL DEF Spec

=============================================================================
