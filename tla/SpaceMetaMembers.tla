-------------------------- MODULE SpaceMetaMembers --------------------------
(***************************************************************************)
(* SpaceMeta: the names of spaces, and the members of the raft groups, which*)
(* ChangeMember and the creation of partitions change beside the metadata  *)
(* of the space.                                                           *)
(***************************************************************************)
EXTENDS SpaceMetaProofs

-----------------------------------------------------------------------------
(* Names.                                                                  *)

\* creations and deletions, whatever fails
Named1 == Only({"create", "delete"}, {"create", "rpc", "etcd"})

Claims(c) ==
    op[c].kind = "create" =>
        /\ op[c].pc = "put" => Named(op[c].name) = {}
        /\ op[c].pc \in {"build", "undo", "write"} =>
              op[c].sp.name = op[c].name /\ Named(op[c].name) \subseteq {op[c].sid}

\* a creation that has checked its name is the only one to use it
NameInv ==
    /\ \A i, j \in SpaceId : Exists(i) /\ Exists(j) /\ i # j => space[i].name # space[j].name
    /\ \A c \in Clients : Claims(c)

\* When spaces are only deleted, nothing is claimed.
LEMMA ClaimsStay ==
    ASSUME NameInv, \A i \in SpaceId : space'[i] \in {space[i], NoSpace},
           \A d \in Clients :
               \/ Claims(d)'
               \/ /\ op'[d].kind = op[d].kind /\ op'[d].name = op[d].name
                  /\ op'[d].pc \in {"build", "undo", "write"} => op[d].pc \in {"build", "undo", "write"}
                  /\ op'[d].pc = "put" => op[d].pc = "put"
                  /\ op'[d].sp = op[d].sp /\ op'[d].sid = op[d].sid
    PROVE  NameInv'
<1>1. \A i \in SpaceId : Exists(i)' => Exists(i) /\ space'[i] = space[i]
  BY DEF Exists, NoSpace
<1>2. \A n : Named(n)' \subseteq Named(n)
  BY <1>1 DEF Named
<1>3. ASSUME NEW d \in Clients PROVE Claims(d)'
  BY <1>2, <1>3 DEF NameInv, Claims
<1>4. \A i, j \in SpaceId : Exists(i)' /\ Exists(j)' /\ i # j => space'[i].name # space'[j].name
  BY <1>1 DEF NameInv
<1> QED
  BY <1>3, <1>4 DEF NameInv

\* Every step keeps the names apart.
LEMMA NameStep ==
    ASSUME Base, Named1, NameInv, [Next]_vars
    PROVE  NameInv'
<1>1. TInv /\ Locks /\ Requests /\ Ids /\ ~env.cleaning
  BY DEF Base, TInv, Named1, Only
<1>2. ASSUME NEW c \in Clients, Begin(c) PROVE NameInv'
  <2>1. UNCHANGED space /\ Others(c) /\ Claims(c)'
    BY <1>1, <1>2, BeginKeeps, BeginShape DEF Claims
  <2> QED
    BY <2>1, ClaimsStay DEF Others
<1>3. CASE System \/ UNCHANGED vars
  <2>1. UNCHANGED <<space, op>>
    BY <1>1, <1>3, NoCleaning DEF vars
  <2> QED
    BY <2>1, ClaimsStay
<1>4. ASSUME NEW c \in Clients, Step(c) PROVE NameInv'
  <2>1. /\ op[c] \in Request /\ Fit(op[c]) /\ op[c].kind \in {"create", "delete", "none"}
        /\ Legal(op[c])
    BY <1>1 DEF Requests, Fit, Named1, Only
  <2>2. CASE \/ CreateLock(c) \/ CreateExists(c) \/ UndoSpace(c) \/ CreateEnableFails(c)
             \/ CreateConf(c) \/ DeleteLock(c) \/ DeleteConf(c)
             \/ UpdateWriteFails(c)
    <3>1. Others(c) /\ (Ends(c) \/ (Keeps(c) /\ op'[c].pc \in {"check", "key"}))
      BY <1>1, <2>2, PlainShape, Zenon DEF Goes
    <3>2. \A i \in SpaceId : space'[i] \in {space[i], NoSpace}
      BY <1>1, <2>2
      DEF CreateLock, CreateExists, UndoSpace, CreateEnableFails, CreateConf, DeleteLock,
          DeleteConf, UpdateWriteFails, Ids
    <3>3. Claims(c)'
      BY <3>1 DEF Ends, Claims
    <3> QED
      BY <3>1, <3>2, <3>3, ClaimsStay DEF Others
  <2>3. CASE CreateCheck(c)
    <3>1. Others(c) /\ Goes(c, "put") /\ UNCHANGED space /\ Named(op[c].name) = {}
      BY <1>1, <2>3, PlainShape, Zenon DEF CreateCheck
    <3>2. Claims(c)'
      BY <3>1 DEF Claims, Goes, Keeps, Named, Exists
    <3> QED
      BY <3>1, <3>2, ClaimsStay DEF Others
  <2>4. CASE Ready(c) \/ CreatePartition(c) \/ UndoPartition(c) \/ UndoKey(c) \/ NotReady(c)
    <3>1. /\ Others(c) /\ UNCHANGED space /\ op[c].pc \in {"build", "undo"}
          /\ (Ends(c) \/ (Keeps(c) /\ op'[c].pc \in {"build", "undo", "write"}))
      BY <1>1, <2>4, PlainShape, TodoShape, Zenon
      DEF Goes, Ready, CreatePartition, UndoPartition, UndoKey, NotReady
    <3>2. CASE Ends(c)
      <4>1. Claims(c)'
        BY <3>2 DEF Ends, Claims
      <4> QED
        BY <3>1, <4>1, ClaimsStay DEF Others
    <3>3. CASE Keeps(c) /\ op'[c].pc \in {"build", "undo", "write"}
      BY <3>1, <3>3, ClaimsStay DEF Others, Keeps
    <3> QED
      BY <3>1, <3>2, <3>3
  <2>5. CASE DeleteKey(c) \/ DeleteReplica(c) \/ DeletePartitionKey(c)
    <3>1. Others(c) /\ (Ends(c) \/ Keeps(c)) /\ op[c].kind = "delete"
      BY <1>1, <2>1, <2>5, TodoShape DEF DeleteKey, DeleteReplica, DeletePartitionKey, Legal
    <3>2. \A i \in SpaceId : space'[i] \in {space[i], NoSpace}
      BY <1>1, <2>5 DEF DeleteKey, DeleteReplica, DeletePartitionKey, Ids
    <3>3. Claims(c)'
      BY <3>1 DEF Ends, Keeps, Claims
    <3> QED
      BY <3>1, <3>2, <3>3, ClaimsStay DEF Others
  <2>6. CASE CreatePut(c) \/ CreateEnable(c)
    <3>1. op[c].kind = "create" /\ op[c].pc \in Creating
      BY <2>1, <2>6, Zenon DEF CreatePut, CreateEnable, Legal, Creating
    <3>2. \A d \in Clients \ {c} : ~(op[d].kind = "create" /\ op[d].pc \in Creating)
      BY <1>1, <3>1, OneCreates
    <3>3. \A d \in Clients \ {c} : op'[d] = op[d]
      BY <1>1, <2>6, PutShape, PlainShape, Zenon DEF Others
    <3>4. ASSUME NEW d \in Clients \ {c} PROVE Claims(d)'
      BY <3>2, <3>3 DEF Claims, Creating
    <3>5. \E i \in SpaceId :
             /\ Named(op[c].name) \subseteq {i}
             /\ \A j \in SpaceId : j # i => space'[j] = space[j]
             /\ space'[i].name = op[c].name
             /\ op'[c].pc = "build" => op'[c].sid = i
      <4>1. CASE CreatePut(c)
        <5>1. made + 1 \in SpaceId
          BY <1>1, <4>1, SpaceMetaAssumption DEF CreatePut, Ids, SpaceId
        <5>2. Named(op[c].name) = {}
          BY <3>1, <4>1, Zenon DEF NameInv, Claims, CreatePut
        <5>3. space'[made + 1].name = op[c].name
          BY <1>1, <4>1, <5>1 DEF CreatePut, Ids
        <5>4. \A j \in SpaceId : j # made + 1 => space'[j] = space[j]
          BY <1>1, <4>1, <5>1 DEF CreatePut, Ids
        <5> QED
          BY <1>1, <4>1, <5>1, <5>2, <5>3, <5>4, PutShape
      <4>2. CASE CreateEnable(c)
        <5>1. op[c].sid \in SpaceId /\ op[c].sp \in SpaceRecord
          BY <1>1, <2>1, <4>2, IdsAre DEF CreateEnable, Fit, Bound
        <5>2. Named(op[c].name) \subseteq {op[c].sid} /\ op[c].sp.name = op[c].name
          BY <3>1, <4>2 DEF NameInv, Claims, CreateEnable
        <5> DEFINE e == [op[c].sp EXCEPT !.enabled = TRUE]
        <5>3. e.name = op[c].sp.name /\ e \in SpaceRecord
          BY <5>1, SpaceRecordIs, Zenon
        <5>4. space' = [space EXCEPT ![op[c].sid] = [e EXCEPT !.version = @ + 1]]
          BY <4>2 DEF CreateEnable, UpdateSpaceData
        <5> HIDE DEF e
        <5>5. [e EXCEPT !.version = @ + 1].name = e.name
          BY <5>3, SpaceRecordIs
        <5>6. space'[op[c].sid].name = op[c].name
          BY <1>1, <5>1, <5>2, <5>3, <5>4, <5>5 DEF Ids
        <5>7. \A j \in SpaceId : j # op[c].sid => space'[j] = space[j]
          BY <1>1, <5>1, <5>4 DEF Ids
        <5>8. op'[c].pc = "conf"
          BY <1>1, <4>2, PlainShape, Zenon DEF Goes
        <5> QED
          BY <5>1, <5>2, <5>6, <5>7, <5>8
      <4> QED
        BY <2>6, <4>1, <4>2
    <3>6. PICK i \in SpaceId :
             /\ Named(op[c].name) \subseteq {i}
             /\ \A j \in SpaceId : j # i => space'[j] = space[j]
             /\ space'[i].name = op[c].name
             /\ op'[c].pc = "build" => op'[c].sid = i
      BY <3>5
    <3>7. \A j \in SpaceId : j # i /\ Exists(j)' => Exists(j) /\ space'[j].name = space[j].name
                                                   /\ space'[j].name # op[c].name
      BY <3>6 DEF Exists, Named
    <3>8. \A j, k \in SpaceId : Exists(j)' /\ Exists(k)' /\ j # k => space'[j].name # space'[k].name
      BY <3>6, <3>7 DEF NameInv
    <3>9. Claims(c)'
      <4>1. CASE CreatePut(c)
        <5>1. /\ op'[c].pc = "build" /\ op'[c].name = op[c].name /\ op'[c].sp.name = op[c].name
              /\ op'[c].sid = i
          BY <1>1, <3>6, <4>1, PutShape
        <5>2. Named(op[c].name)' \subseteq {i}
          BY <3>7, <5>1 DEF Named
        <5> QED
          BY <5>1, <5>2 DEF Claims
      <4>2. CASE CreateEnable(c)
        BY <1>1, <4>2, PlainShape, Zenon DEF Goes, Claims
      <4> QED
        BY <2>6, <4>1, <4>2
    <3> QED
      BY <3>4, <3>8, <3>9 DEF NameInv
  <2> QED
    BY <1>4, <2>1, <2>2, <2>3, <2>4, <2>5, <2>6, Zenon
    DEF Step, UpdateLock, UpdateNone, ExpandQuery, ConfigQuery, Notify, UpdateWrite, DropDB,
        MemberCreate, MemberRaft, MemberRaftFails, MemberDelete, MemberQuery, Legal, Updates
<1> QED
  BY <1>2, <1>3, <1>4 DEF Next

\* No two spaces have the same name: the check of the name and the writing of the
\* space, in CreateSpace, are under one lock whatever the name.
THEOREM NamesUnique == Spec => []UniqueNames
<1>1. Init => Base /\ (Named1 => NameInv)
  <2> SUFFICES ASSUME Init PROVE NameInv
    BY BaseInit
  <2>1. \A c \in Clients : op[c] = Idle
    BY DEF Init
  <2>2. \A i \in SpaceId : Exists(i) => i = 1
    BY DEF Init, Exists, NoSpace
  <2> QED
    BY <2>1, <2>2 DEF NameInv, Claims, Idle
<1>2. Base /\ (Named1 => NameInv) /\ [Next]_vars => (Base /\ (Named1 => NameInv))'
  BY BaseStep, NameStep, EnvStays DEF Named1, Only
<1>3. Base /\ (Named1 => NameInv) => UniqueNames
  BY DEF NameInv, UniqueNames, Named1
<1> QED
  BY <1>1, <1>2, <1>3, PTL DEF Spec

-----------------------------------------------------------------------------
(* Members of raft groups.                                                 *)

Joined == Only({"add", "config", "expand"}, {})

Solid(p) == \A s \in raft[p] : p \in ps[s]

\* a partition that an expansion is creating: not in the space yet
Fresh(p) == \E c \in Clients : op[c].kind = "expand" /\ op[c].pc = "build" /\ p \in DOMAIN op[c].new

Joins(c) ==
    /\ op[c].kind = "add" =>
          \E p \in DOMAIN op[c].sp.parts, s \in Servers :
              op[c].new = Single(p, s) /\ (op[c].pc # "copy" => p \in ps[s])
    /\ op[c].kind = "add" \/ Writing(c) =>
          \A p \in DOMAIN op[c].sp.parts :
             \/ Solid(p) /\ ~Fresh(p)
             \/ op[c].pc = "build" /\ p \in DOMAIN op[c].new
    /\ op[c].pc = "build" =>
          \A p \in DOMAIN op[c].new :
              /\ raft[p] \subseteq op[c].new[p]
              /\ \A s \in op[c].new[p] : p \in ps[s] \/ <<p, s>> \in op[c].todo

MemberInv ==
    /\ \A p \in Pid \ DOMAIN home : raft[p] = {}
    /\ Exists(1) => \A p \in DOMAIN space[1].parts : Solid(p) /\ ~Fresh(p)
    /\ \A c \in Clients : Joins(c)

\* The steps of requests in this setting.
LEMMA JoinSteps ==
    ASSUME Base, Joined, NEW c \in Clients, Step(c)
    PROVE  /\ op[c].kind \in {"expand", "config", "add"} /\ env.faults = {} /\ Updated
           /\ \/ CreatePartition(c) \/ Ready(c) \/ NotReady(c)
              \/ UpdateLock(c) \/ UpdateNone(c) \/ ExpandQuery(c)
              \/ ConfigQuery(c) \/ Notify(c) \/ UpdateWrite(c)
              \/ MemberCreate(c) \/ MemberRaft(c) \/ MemberRaftFails(c) \/ MemberQuery(c)
<1>1. Updated /\ op[c].kind \in {"expand", "config", "add", "none"} /\ Legal(op[c])
  BY DEF Base, TInv, Requests, Fit, Joined, Updated, Only
<1>2. op[c].kind \in {"expand", "config", "add"}
  BY <1>1, UpdateSteps, Zenon
<1> QED
  BY <1>1, <1>2, UpdateSteps, Zenon
  DEF DeleteLock, DeleteKey, DeleteReplica, DeletePartitionKey, DeleteConf, Legal

\* Steps that add no raft member and no new partition.
LEMMA JoinsStay ==
    ASSUME Requests, Ids, Stored, MemberInv, UNCHANGED <<raft, home>>,
           \A s \in Servers : ps[s] \subseteq ps'[s],
           \A p : Fresh(p)' => Fresh(p),
           Exists(1)' => \A p \in DOMAIN space'[1].parts : Solid(p)' /\ ~Fresh(p)',
           \A d \in Clients : op'[d] = op[d] \/ Joins(d)'
    PROVE  MemberInv'
<1>1. ASSUME NEW d \in Clients, op'[d] = op[d] PROVE Joins(d)'
  <2>1. op[d].new \in Parts /\ DOMAIN op[d].sp.parts \subseteq DOMAIN home
    BY Zenon DEF Requests, Request, Fit
  <2>2. \A p \in DOMAIN op[d].new : op[d].new[p] \subseteq Servers
    BY <2>1, PartsType
  <2>3. \A p \in DOMAIN op[d].sp.parts : Solid(p) => Solid(p)'
    <3>1. \A p \in DOMAIN op[d].sp.parts : raft[p] \subseteq Servers
      BY <2>1, IdsAre DEF Stored
    <3> QED
      BY <3>1, Zenon DEF Solid
  <2> QED
    BY <1>1, <2>2, <2>3, SMTT(30) DEF MemberInv, Joins, Writing
<1> QED
  BY <1>1, Zenon DEF MemberInv

\* No new partition comes to be created.
LEMMA FreshStays ==
    ASSUME NEW c \in Clients, Others(c),
           ~(op'[c].kind = "expand" /\ op'[c].pc = "build")
           \/ (op[c].kind = "expand" /\ op[c].pc = "build" /\ op'[c].new = op[c].new)
    PROVE  \A p : Fresh(p)' => Fresh(p)
BY DEF Fresh, Others

\* A member that joins a group has the partition.
LEMMA RaftJoins ==
    ASSUME Requests, Ids, Stored, MemberInv, Updated, NEW c \in Clients, MemberRaft(c),
           op[c].kind # "remove"
    PROVE  MemberInv'
<1>1. op[c] \in Request /\ Fit(op[c]) /\ Joins(c)
  BY DEF Requests, MemberInv
<1>2. op[c].kind = "add" /\ op[c].pc = "raft" /\ UNCHANGED <<space, home, ps>>
  BY <1>1, Zenon DEF MemberRaft, Fit, Legal
<1>3. PICK p \in DOMAIN op[c].sp.parts, s \in Servers : op[c].new = Single(p, s) /\ p \in ps[s]
  BY <1>1, <1>2, Zenon DEF Joins
<1>4. DOMAIN op[c].sp.parts \subseteq DOMAIN home /\ DOMAIN home \subseteq Pid
  BY <1>1, IdsAre, Zenon DEF Fit
<1>5. Target(c) = <<p, s>>
  BY <1>3, <1>4, TargetIs
<1>6. raft' = [raft EXCEPT ![p] = @ \cup {s}]
  BY <1>2, <1>5 DEF MemberRaft
<1>7. raft'[p] = raft[p] \cup {s} /\ \A q \in Pid : q # p => raft'[q] = raft[q]
  BY <1>3, <1>4, <1>6 DEF Stored
<1>8. Goes(c, "lock") /\ Others(c)
  BY <1>2, PlainShape, Zenon
<1>9. \A q : Fresh(q)' => Fresh(q)
  BY <1>8, FreshStays, Zenon DEF Goes
<1>10. \A q \in Pid : Solid(q) => Solid(q)'
  BY <1>2, <1>3, <1>7 DEF Solid
<1>11. ~Fresh(p)
  BY <1>1, <1>2, Zenon DEF Joins
<1>12. Joins(c)'
  BY <1>1, <1>2, <1>3, <1>4, <1>8, <1>9, <1>10, Zenon DEF Joins, Goes, Keeps, Writing
<1>13. ASSUME NEW d \in Clients, d # c PROVE Joins(d)'
  <2>1. op'[d] = op[d] /\ Joins(d) /\ Fit(op[d])
    BY <1>8, <1>13 DEF Others, MemberInv, Requests
  <2>2. DOMAIN op[d].sp.parts \subseteq Pid /\ DOMAIN op[d].new \subseteq Pid
    BY <1>4, <2>1, Zenon DEF Fit
  <2>3. op[d].pc = "build" => op[d].kind = "expand"
    BY <2>1, Zenon DEF Fit, Legal, Updated, Only
  <2>4. op[d].pc = "build" => \A q \in DOMAIN op[d].new : raft'[q] = raft[q]
    BY <1>7, <1>11, <2>2, <2>3 DEF Fresh
  <2> QED
    BY <1>2, <1>9, <1>10, <2>1, <2>2, <2>4, Zenon DEF Joins, Writing
<1>14. Exists(1)' => \A q \in DOMAIN space'[1].parts : Solid(q)' /\ ~Fresh(q)'
  <2>1. 1 \in SpaceId
    BY SpaceMetaAssumption DEF SpaceId
  <2>2. DOMAIN space[1].parts \subseteq Pid
    BY <1>4, <2>1 DEF Ids
  <2> QED
    BY <1>2, <1>9, <1>10, <2>2 DEF MemberInv, Exists
<1>15. \A q \in Pid \ DOMAIN home' : raft'[q] = {}
  BY <1>2, <1>3, <1>4, <1>7 DEF MemberInv
<1> QED
  BY <1>12, <1>13, <1>14, <1>15 DEF MemberInv

\* A new partition has no members yet.
LEMMA ExpandJoins ==
    ASSUME Requests, Ids, Stored, MemberInv, UpdateInv, NEW c \in Clients, ExpandQuery(c)
    PROVE  MemberInv'
<1> DEFINE P == NewPids(1)
<1>1. UNCHANGED <<space, ps, raft>> /\ op[c].kind = "expand"
  BY DEF ExpandQuery
<1>2. PICK i \in SpaceId :
       /\ Exists(i) /\ Others(c) /\ op'[c].kind = op[c].kind
       /\ op'[c].pc = "build" /\ op'[c].new \in Placement(P)
       /\ op'[c].todo = Pairs(op'[c].new)
       /\ DOMAIN op'[c].sp.parts = DOMAIN space[i].parts \cup P
  BY ExpandShape
<1>3. i = 1
  BY <1>2 DEF UpdateInv
<1>4. P \in SUBSET Pid /\ P \cap DOMAIN home = {}
  <2>1. P \subseteq 1 .. env.pids /\ env.pids \in 0 .. MaxPids
    BY SpaceMetaAssumption DEF ExpandQuery, Ids, Setting
  <2>2. P \cap DOMAIN home = {}
    BY NewPidsNew
  <2> QED
    BY <2>1, <2>2, SpaceMetaAssumption DEF Pid
<1>5. /\ op'[c].new \in Parts /\ DOMAIN op'[c].new = P
      /\ \A p \in P : op'[c].new[p] \subseteq Servers
  BY <1>2, <1>4, PlacementType, Zenon
<1>6. DOMAIN home' = DOMAIN home \cup P
  BY DEF ExpandQuery
<1> HIDE DEF P
<1>7. \A q : Fresh(q)' => Fresh(q) \/ q \in P
  BY <1>2, <1>5 DEF Fresh, Others
<1>8. \A q : Solid(q)' <=> Solid(q)
  BY <1>1 DEF Solid
<1>9. Exists(1)' => \A q \in DOMAIN space'[1].parts : Solid(q)' /\ ~Fresh(q)'
  <2>1. Exists(1) => DOMAIN space[1].parts \subseteq DOMAIN home
    BY <1>2, <1>3 DEF Ids
  <2> QED
    BY <1>1, <1>4, <1>7, <1>8, <2>1 DEF MemberInv, Exists
<1>10. Joins(c)'
  <2>1. \A q \in DOMAIN op'[c].sp.parts : (Solid(q)' /\ ~Fresh(q)') \/ q \in P
    BY <1>1, <1>2, <1>3, <1>9 DEF Exists
  <2>2. \A q \in P : raft'[q] = {}
    BY <1>1, <1>4 DEF MemberInv
  <2>3. \A q \in P : \A s \in op'[c].new[q] : <<q, s>> \in op'[c].todo
    BY <1>2, <1>5 DEF Pairs
  <2> QED
    BY <1>1, <1>2, <1>5, <2>1, <2>2, <2>3, Zenon DEF Joins
<1>11. ASSUME NEW d \in Clients, d # c PROVE Joins(d)'
  <2>1. op'[d] = op[d] /\ Joins(d) /\ DOMAIN op[d].sp.parts \subseteq DOMAIN home
    BY <1>2, <1>11, Zenon DEF Others, MemberInv, Requests, Fit
  <2> QED
    BY <1>1, <1>4, <1>7, <1>8, <2>1, Zenon DEF Joins, Writing
<1>12. \A q \in Pid \ DOMAIN home' : raft'[q] = {}
  BY <1>1, <1>6 DEF MemberInv
<1> QED
  BY <1>9, <1>10, <1>11, <1>12 DEF MemberInv

\* The group of a new partition is the one of its servers.
LEMMA CreateJoins ==
    ASSUME Requests, Ids, Stored, MemberInv, Updated, NEW c \in Clients, CreatePartition(c),
           \A d \in Clients \ {c} : op[d].pc # "build"
    PROVE  MemberInv'
<1>1. op[c] \in Request /\ op \in [Clients -> Request] /\ Fit(op[c]) /\ Joins(c)
  BY Zenon DEF Requests, MemberInv
<1>2. /\ op[c].pc = "build" /\ op[c].kind = "expand" /\ UNCHANGED <<space, home>>
      /\ env.faults = {}
  BY <1>1 DEF CreatePartition, Fit, Legal, Updated, Only
<1>3. PICK t \in op[c].todo :
        /\ ps' = [ps EXCEPT ![t[2]] = @ \cup {t[1]}]
        /\ raft' = [raft EXCEPT ![t[1]] = op[c].new[t[1]]]
        /\ op' = [op EXCEPT ![c].todo = op[c].todo \ {t}]
  BY <1>2 DEF CreatePartition
<1>4. /\ t \in Pairs(op[c].new) /\ t[1] \in DOMAIN home /\ t[1] \in DOMAIN op[c].new
      /\ t[2] \in Servers /\ t = <<t[1], t[2]>> /\ DOMAIN home \subseteq Pid
      /\ DOMAIN op[c].new \subseteq Pid
  BY <1>1, <1>2, IdsAre DEF Fit, Pairs
<1>5. /\ \A s \in Servers : ps[s] \subseteq ps'[s]
      /\ t[1] \in ps'[t[2]] /\ raft'[t[1]] = op[c].new[t[1]]
      /\ \A q \in Pid : q # t[1] => raft'[q] = raft[q]
  BY <1>3, <1>4 DEF Stored
<1>6. op'[c].todo = op[c].todo \ {t}
  BY <1>1, <1>3 DEF Request
<1>7. Keeps(c) /\ op'[c].pc = "build" /\ Others(c)
  BY <1>2, TodoShape, Zenon
<1>8. \A q : (Fresh(q)' <=> Fresh(q)) /\ (Fresh(q) <=> q \in DOMAIN op[c].new)
  BY <1>2, <1>7, Zenon DEF Fresh, Others, Keeps
<1>9. \A q \in Pid : Solid(q) /\ ~Fresh(q) => Solid(q)' /\ ~Fresh(q)'
  <2>1. \A q \in Pid : raft[q] \subseteq Servers
    BY DEF Stored
  <2>2. \A q \in Pid : ~Fresh(q) => raft'[q] = raft[q]
    BY <1>4, <1>5, <1>8
  <2> QED
    BY <1>5, <1>8, <2>1, <2>2, Zenon DEF Solid
<1>10. Joins(c)'
  <2>1. DOMAIN op[c].sp.parts \subseteq Pid
    BY <1>1, <1>4 DEF Fit
  <2>2. \A q \in DOMAIN op'[c].sp.parts : (Solid(q)' /\ ~Fresh(q)') \/ q \in DOMAIN op'[c].new
    BY <1>1, <1>2, <1>7, <1>9, <2>1, Zenon DEF Joins, Keeps, Writing
  <2>3. \A q \in DOMAIN op[c].new : op[c].new[q] \subseteq Servers
    BY <1>1, PartsType DEF Request
  <2>4. \A q \in DOMAIN op[c].new : raft'[q] \subseteq op[c].new[q]
    BY <1>1, <1>2, <1>4, <1>5 DEF Joins
  <2>5. ASSUME NEW q \in DOMAIN op[c].new, NEW s \in op[c].new[q]
        PROVE  q \in ps'[s] \/ <<q, s>> \in op'[c].todo
    <3>1. CASE <<q, s>> = t
      BY <1>4, <1>5, <3>1
    <3>2. CASE <<q, s>> # t
      BY <1>1, <1>2, <1>5, <1>6, <2>3, <3>2 DEF Joins
    <3> QED
      BY <3>1, <3>2
  <2> QED
    BY <1>2, <1>7, <2>2, <2>4, <2>5, Zenon DEF Joins, Keeps
<1>11. ASSUME NEW d \in Clients, d # c PROVE Joins(d)'
  <2>1. op'[d] = op[d] /\ Joins(d) /\ DOMAIN op[d].sp.parts \subseteq Pid /\ op[d].pc # "build"
    BY <1>4, <1>7, <1>11 DEF Others, MemberInv, Requests, Fit
  <2> QED
    BY <1>5, <1>9, <2>1, Zenon DEF Joins, Writing
<1>12. Exists(1)' => \A q \in DOMAIN space'[1].parts : Solid(q)' /\ ~Fresh(q)'
  <2>1. 1 \in SpaceId
    BY SpaceMetaAssumption DEF SpaceId
  <2>2. DOMAIN space[1].parts \subseteq Pid
    BY <1>4, <2>1 DEF Ids
  <2> QED
    BY <1>2, <1>9, <2>2, Zenon DEF MemberInv, Exists
<1>13. \A q \in Pid \ DOMAIN home' : raft'[q] = {}
  BY <1>2, <1>4, <1>5 DEF MemberInv
<1> QED
  BY <1>10, <1>11, <1>12, <1>13, Zenon DEF MemberInv

\* Every step keeps the members of the groups.
LEMMA MemberStep ==
    ASSUME Base, Joined, UpdateInv, MemberInv, [Next]_vars
    PROVE  MemberInv'
<1>1. /\ TInv /\ Requests /\ Ids /\ ~env.cleaning /\ Updated /\ Stored /\ 1 \in SpaceId
      /\ env.faults = {}
  BY StoredIs, SpaceMetaAssumption DEF Base, TInv, Joined, Updated, Only, SpaceId
<1>2. Exists(1) => \A p \in DOMAIN space[1].parts : raft[p] \subseteq Servers /\ p \in DOMAIN home
  BY <1>1, IdsAre DEF Ids, Stored
<1>3. ASSUME UNCHANGED <<space, raft, home>>, \A s \in Servers : ps[s] \subseteq ps'[s],
             \A p : Fresh(p)' => Fresh(p),
             NEW c \in Clients, Others(c), Joins(c)'
      PROVE  MemberInv'
  <2>1. Exists(1)' => \A p \in DOMAIN space'[1].parts : Solid(p)' /\ ~Fresh(p)'
    BY <1>2, <1>3 DEF MemberInv, Exists, Solid
  <2> QED
    BY <1>1, <1>3, <2>1, JoinsStay DEF Others
<1>4. ASSUME NEW c \in Clients, Begin(c) PROVE MemberInv'
  <2>1. UNCHANGED <<space, raft, home, ps>> /\ Others(c) /\ op'[c].pc \in {"lock", "drop", "copy", "raft"}
    BY <1>1, <1>4, BeginKeeps, BeginShape
  <2>2. \A p : Fresh(p)' => Fresh(p)
    BY <2>1, FreshStays
  <2>3. ASSUME op'[c].kind = "add"
        PROVE  /\ \E p \in DOMAIN op'[c].sp.parts, s \in Servers :
                      op'[c].new = Single(p, s) /\ op'[c].pc = "copy"
               /\ \A p \in DOMAIN op'[c].sp.parts : Solid(p)' /\ ~Fresh(p)'
    <3>1. PICK p \in partKey, s \in Servers :
              /\ Exists(home[p]) /\ op'[c].new = Single(p, s) /\ op'[c].pc = "copy"
              /\ DOMAIN op'[c].sp.parts = DOMAIN space[home[p]].parts
              /\ p \in DOMAIN space[home[p]].parts
      BY <1>1, <1>4, <2>3, BeginShape, Zenon
    <3>2. home[p] = 1
      BY <1>1, <3>1 DEF TInv, TypeOK, UpdateInv
    <3>3. \A q \in DOMAIN space[1].parts : Solid(q)' /\ ~Fresh(q)'
      BY <2>1, <2>2, <3>1, <3>2, Zenon DEF MemberInv, Solid
    <3> QED
      BY <3>1, <3>2, <3>3
  <2>4. Joins(c)'
    BY <2>1, <2>3 DEF Joins, Writing
  <2> QED
    BY <1>3, <2>1, <2>2, <2>4
<1>5. CASE System \/ UNCHANGED vars
  <2>1. UNCHANGED <<space, raft, home, ps, op>>
    BY <1>1, <1>5, NoCleaning, Zenon DEF vars
  <2>2. \A p : (Fresh(p)' <=> Fresh(p)) /\ (Solid(p)' <=> Solid(p))
    BY <2>1 DEF Fresh, Solid
  <2> QED
    BY <2>1, <2>2 DEF MemberInv, Joins, Writing, Exists
<1>6. ASSUME NEW c \in Clients, Step(c) PROVE MemberInv'
  <2>1. /\ Others(c) /\ op[c] \in Request /\ Fit(op[c]) /\ Knows(c) /\ Joins(c)
        /\ op[c].kind \in {"expand", "config", "add"}
    BY <1>1, <1>6, HasStep, JoinSteps, Zenon DEF Base, Locks, Has, Requests, UpdateInv, MemberInv
  <2>2. CASE NotReady(c) \/ UpdateNone(c) \/ MemberRaftFails(c)
    <3>1. UNCHANGED <<space, raft, home, ps>> /\ Ends(c)
      BY <1>1, <2>1, <2>2, PlainShape, TodoShape DEF NotReady, UpdateNone, MemberRaftFails
    <3>2. Joins(c)' /\ \A p : Fresh(p)' => Fresh(p)
      BY <2>1, <3>1, FreshStays, Zenon DEF Joins, Ends, Writing
    <3> QED
      BY <1>3, <2>1, <3>1, <3>2, Zenon
  <2>3. CASE UpdateLock(c) \/ Notify(c)
    <3>1. UNCHANGED <<space, raft, home, ps>>
      BY <2>3 DEF UpdateLock, Notify
    <3>2. Ends(c) \/ (Keeps(c) /\ op'[c].pc \in {"query", "write"})
      BY <1>1, <2>3, PlainShape, Zenon DEF Goes
    <3>3. \A p : Fresh(p)' => Fresh(p)
      BY <2>1, <3>2, FreshStays, Zenon DEF Ends
    <3>4. op[c].pc # "copy" /\ op[c].pc # "build" /\ (Writing(c)' => Writing(c) \/ Ends(c))
      BY <1>1, <2>3, PlainShape, Zenon DEF UpdateLock, Notify, Writing, Goes
    <3>5. \A p : Solid(p)' <=> Solid(p)
      BY <3>1, Zenon DEF Solid
    <3>6. Joins(c)'
      <4>1. CASE Ends(c)
        BY <4>1 DEF Ends, Joins, Writing
      <4>2. CASE Keeps(c) /\ op'[c].pc \in {"query", "write"} /\ ~Ends(c)
        BY <2>1, <3>1, <3>3, <3>4, <3>5, <4>2, Zenon DEF Keeps, Joins
      <4> QED
        BY <3>2, <4>1, <4>2, Zenon
    <3> QED
      BY <1>3, <2>1, <3>1, <3>3, <3>6, Zenon
  <2>4. CASE MemberCreate(c)
    <3>1. op[c].kind = "add" /\ op[c].pc = "copy" /\ UNCHANGED <<space, raft, home>>
      BY <2>1, <2>4, Zenon DEF MemberCreate, Fit, Legal
    <3>2. PICK p \in DOMAIN op[c].sp.parts, s \in Servers : op[c].new = Single(p, s)
      BY <2>1, <3>1, Zenon DEF Joins
    <3>3. DOMAIN op[c].sp.parts \subseteq DOMAIN home /\ DOMAIN home \subseteq Pid
      BY <1>1, <2>1, IdsAre, Zenon DEF Fit
    <3>4. Target(c) = <<p, s>>
      BY <3>2, <3>3, TargetIs, Zenon
    <3>5. ps' = [ps EXCEPT ![s] = @ \cup {p}]
      BY <2>4, <3>4 DEF MemberCreate
    <3>6. p \in ps'[s] /\ \A r \in Servers : ps[r] \subseteq ps'[r]
      BY <1>1, <3>5 DEF Stored
    <3>7. Goes(c, "raft")
      BY <1>1, <2>4, PlainShape, Zenon
    <3>8. \A q : Fresh(q)' => Fresh(q)
      BY <2>1, <3>7, FreshStays, Zenon DEF Goes
    <3>9. \A q \in DOMAIN op[c].sp.parts : Solid(q)' /\ ~Fresh(q)'
      <4>1. \A q \in DOMAIN op[c].sp.parts : raft[q] \subseteq Servers
        BY <1>1, <3>3, Zenon DEF Stored
      <4> QED
        BY <2>1, <3>1, <3>6, <3>8, <4>1, Zenon DEF Joins, Solid
    <3>10. Joins(c)'
      BY <3>1, <3>2, <3>6, <3>7, <3>9, Zenon DEF Joins, Goes, Keeps, Writing
    <3> QED
      BY <1>3, <2>1, <3>1, <3>6, <3>8, <3>10, Zenon
  <2>5. CASE MemberRaft(c)
    BY <1>1, <1>6, <2>1, <2>5, RaftJoins
  <2>6. CASE MemberQuery(c)
    <3>1. op[c].kind = "add" /\ op[c].pc = "query" /\ UNCHANGED <<space, raft, home, ps>>
      BY <2>1, <2>6 DEF MemberQuery
    <3>2. \/ Ends(c)
          \/ /\ op'[c].kind = op[c].kind /\ op'[c].pc = "notify" /\ op'[c].new = op[c].new
             /\ op'[c].sp.parts = op[c].sp.parts
      BY <1>1, <2>6, MemberShape, Zenon
    <3>3. \A q : (Fresh(q)' => Fresh(q)) /\ (Solid(q) => Solid(q)')
      BY <2>1, <3>1, <3>2, FreshStays DEF Ends, Solid
    <3>4. Joins(c)'
      <4>1. CASE Ends(c)
        BY <4>1 DEF Ends, Joins, Writing
      <4>2. CASE ~Ends(c)
        BY <2>1, <3>1, <3>2, <3>3, <4>2, Zenon DEF Joins
      <4> QED
        BY <4>1, <4>2
    <3> QED
      BY <1>3, <2>1, <3>1, <3>3, <3>4, Zenon
  <2>7. CASE ConfigQuery(c)
    <3>1. op[c].kind = "config" /\ UNCHANGED <<space, raft, home, ps>>
      BY <2>1, <2>7 DEF ConfigQuery
    <3>2. PICK i \in SpaceId :
              /\ Exists(i) /\ op'[c].kind = op[c].kind /\ op'[c].pc = "notify"
              /\ op'[c].sp.parts = space[i].parts
      BY <1>1, <2>7, ConfigShape, Zenon
    <3>3. i = 1
      BY <3>2 DEF UpdateInv
    <3>4. \A q : (Fresh(q)' => Fresh(q)) /\ (Solid(q) => Solid(q)')
      BY <2>1, <3>1, <3>2, FreshStays, Zenon DEF Solid
    <3>5. Joins(c)'
      BY <3>1, <3>2, <3>3, <3>4, Zenon DEF MemberInv, Joins
    <3> QED
      BY <1>3, <2>1, <3>1, <3>4, <3>5, Zenon
  <2>8. CASE ExpandQuery(c)
    BY <1>1, <2>1, <2>8, ExpandJoins, Zenon
  <2>9. CASE CreatePartition(c)
    <3>1. \A d \in Clients \ {c} : op[d].pc # "build"
      BY <1>1, <2>9, OneUpdates DEF CreatePartition, Writing
    <3> QED
      BY <1>1, <2>1, <2>9, <3>1, CreateJoins
  <2>10. CASE Ready(c)
    <3>1. /\ Goes(c, "write") /\ op[c].pc = "build" /\ op[c].todo = {}
          /\ UNCHANGED <<space, raft, home, ps>>
      BY <1>1, <2>10, PlainShape, Zenon DEF Ready
    <3>2. \A d \in Clients \ {c} : op[d].pc # "build"
      BY <1>1, <3>1, OneUpdates DEF Writing
    <3>3. \A q : ~Fresh(q)'
      BY <2>1, <3>1, <3>2, Zenon DEF Fresh, Others, Goes
    <3>4. \A q \in DOMAIN op[c].new : Solid(q)'
      BY <2>1, <3>1, Zenon DEF Joins, Solid
    <3>5. \A q : Solid(q) => Solid(q)'
      BY <3>1 DEF Solid
    <3>6. \A q \in DOMAIN op'[c].sp.parts : Solid(q)' /\ ~Fresh(q)'
      BY <2>1, <3>1, <3>3, <3>4, <3>5, Zenon DEF Joins, Goes, Keeps, Writing
    <3>7. op[c].kind # "add"
      BY <2>1, <3>1, Zenon DEF Fit, Legal
    <3>8. Joins(c)'
      BY <3>1, <3>6, <3>7, Zenon DEF Joins, Goes, Keeps
    <3> QED
      BY <1>3, <2>1, <3>1, <3>3, <3>8
  <2>11. CASE UpdateWrite(c)
    <3>1. UNCHANGED <<raft, home, ps>> /\ Ends(c)
      BY <1>1, <2>11, PlainShape, Zenon DEF UpdateWrite
    <3>2. Writing(c) /\ op[c].pc = "write" /\ space'[1].parts = op[c].sp.parts
      BY <1>1, <1>6, <2>11, UpdateSpaces, Zenon DEF UpdateWrite, DeleteKey
    <3>3. \A q : (Fresh(q)' => Fresh(q)) /\ (Solid(q) => Solid(q)')
      BY <2>1, <3>1, FreshStays, Zenon DEF Ends, Solid
    <3>4. \A q \in DOMAIN space'[1].parts : Solid(q)' /\ ~Fresh(q)'
      BY <2>1, <3>2, <3>3, Zenon DEF Joins
    <3>5. Joins(c)'
      BY <3>1, Zenon DEF Joins, Ends, Writing
    <3> QED
      BY <1>1, <2>1, <3>1, <3>3, <3>4, <3>5, JoinsStay, Zenon DEF Others
  <2> QED
    BY <1>6, <2>2, <2>3, <2>4, <2>5, <2>6, <2>7, <2>8, <2>9, <2>10, <2>11, JoinSteps, Zenon
<1> QED
  BY <1>4, <1>5, <1>6 DEF Next

\* They have the partitions at first.
LEMMA MemberInit == Init => MemberInv
<1> SUFFICES ASSUME Init PROVE MemberInv
  OBVIOUS
<1>1. PICK S \in Parts :
              /\ \A i \in SpaceId : Exists(i) => space[i].parts = S
              /\ home = [p \in DOMAIN S |-> 1]
              /\ ps = [s \in Servers |-> {p \in DOMAIN S : s \in S[p]}]
              /\ raft = [p \in Pid |-> IF p \in DOMAIN S THEN S[p] ELSE {}]
  BY InitIs
<1>2. \A p \in DOMAIN S : S[p] \subseteq Servers /\ p \in Pid
  BY PartsType DEF Parts
<1>3. \A p \in DOMAIN S : Solid(p)
  BY <1>1, <1>2 DEF Solid
<1>4. \A c \in Clients : op[c].pc = "idle" /\ op[c].kind = "none"
  BY SMTT(30) DEF Init, Idle
<1>5. \A p : ~Fresh(p)
  BY <1>4 DEF Fresh
<1>6. \A p \in Pid \ DOMAIN home : raft[p] = {}
  BY <1>1
<1>7. 1 \in SpaceId
  BY SpaceMetaAssumption DEF SpaceId
<1>8. \A c \in Clients : Joins(c)
  BY <1>4, Zenon DEF Joins, Writing
<1> QED
  BY <1>1, <1>3, <1>5, <1>6, <1>7, <1>8 DEF MemberInv

MemberAll == UpdateAll /\ (Joined => MemberInv)

\* Every member of the raft group of a partition of a space has that partition:
\* ChangeMember creates it on the server before the raft change, and the group of
\* a new partition is made of the servers that were asked to create it, also when
\* member changes, expansions and configuration updates interleave.
THEOREM MembersHaveIt == Spec => []MembersHosted
<1>1. Init => MemberAll
  BY BaseInit, UpdateInit, MemberInit DEF MemberAll, UpdateAll
<1>2. MemberAll /\ [Next]_vars => MemberAll'
  <2> SUFFICES ASSUME MemberAll, [Next]_vars PROVE MemberAll'
    OBVIOUS
  <2>1. Joined => Updated
    BY DEF Joined, Updated, Only
  <2>2. UpdateAll'
    BY BaseStep, UpdateStep, EnvStays DEF MemberAll, UpdateAll, Updated, Only
  <2>3. Joined' <=> Joined
    BY EnvStays DEF Joined, Only
  <2>4. Joined => MemberInv'
    BY <2>1, MemberStep DEF MemberAll, UpdateAll
  <2> QED
    BY <2>2, <2>3, <2>4 DEF MemberAll
<1>3. MemberAll => MembersHosted
  <2> SUFFICES ASSUME MemberAll, Joined, NEW i \in SpaceId, Exists(i),
                      NEW p \in DOMAIN space[i].parts
               PROVE  Solid(p)
    BY DEF MembersHosted, Joined, Solid
  <2>1. Updated
    BY DEF Joined, Updated, Only
  <2>2. i = 1
    BY <2>1 DEF MemberAll, UpdateAll, UpdateInv
  <2> QED
    BY <2>2 DEF MemberAll, MemberInv
<1> QED
  BY <1>1, <1>2, <1>3, PTL DEF Spec

=============================================================================
