-------------------------- MODULE SpaceMetaProofs ---------------------------
(***************************************************************************)
(* SpaceMeta: locks, creations that fail beside CleanTask, and updates and *)
(* deletions, each of which reads the metadata under its lock, or before   *)
(* it (ChangeMember).                                                      *)
(***************************************************************************)
EXTENDS SpaceMetaInv

-----------------------------------------------------------------------------
(* How the steps change a request.                                         *)

Keeps(c) ==
    /\ op'[c].kind = op[c].kind /\ op'[c].name = op[c].name /\ op'[c].sid = op[c].sid
    /\ op'[c].sp = op[c].sp /\ op'[c].new = op[c].new

Goes(c, q) == Keeps(c) /\ op'[c].pc = q /\ op'[c].todo = op[c].todo /\ op'[c].bad = op[c].bad

Ends(c) == op'[c].kind = "none" /\ op'[c].pc = "done"

Others(c) == \A d \in Clients \ {c} : op'[d] = op[d]

\* A request that moves on or ends leaves the others alone.
LEMMA GoesEnds ==
    ASSUME Requests, NEW c \in Clients
    PROVE  /\ Done(c) => Ends(c) /\ Others(c)
           /\ \A q : Go(c, q) => Goes(c, q) /\ Others(c)
<1>1. op[c] \in Request /\ op \in [Clients -> Request]
  BY DEF Requests
<1>2. Done(c) => Ends(c) /\ Others(c)
  BY <1>1 DEF Done, Ends, Others, Idle
<1>3. \A q : Go(c, q) => Goes(c, q) /\ Others(c)
  BY <1>1 DEF Go, Goes, Keeps, Others, Request
<1> QED
  BY <1>2, <1>3

\* A request that goes on, or returns.
LEMMA PlainShape ==
    ASSUME Requests, NEW c \in Clients
    PROVE  /\ CreateLock(c) => Goes(c, "check") /\ Others(c)
           /\ CreateCheck(c) => Goes(c, "put") /\ Others(c)
           /\ Ready(c) => Goes(c, "write") /\ Others(c)
           /\ CreateEnable(c) => Goes(c, "conf") /\ Others(c)
           /\ DeleteLock(c) => Goes(c, "key") /\ Others(c)
           /\ UpdateLock(c) => Goes(c, "query") /\ Others(c)
           /\ Notify(c) => (Goes(c, "write") \/ Ends(c)) /\ Others(c)
           /\ MemberCreate(c) => Goes(c, "raft") /\ Others(c)
           /\ MemberRaft(c) => Goes(c, IF op[c].kind = "add" THEN "lock" ELSE "replica") /\ Others(c)
           /\ MemberDelete(c) => Goes(c, "lock") /\ Others(c)
           /\ \/ CreateExists(c) \/ UndoSpace(c) \/ CreateEnableFails(c) \/ CreateConf(c)
              \/ DeleteConf(c) \/ UpdateNone(c) \/ UpdateWrite(c) \/ UpdateWriteFails(c)
              \/ DropDB(c) \/ MemberRaftFails(c)
              => Ends(c) /\ Others(c)
BY GoesEnds
DEF CreateLock, CreateCheck, Ready, CreateEnable, DeleteLock, UpdateLock, Notify, MemberCreate,
    MemberRaft, MemberDelete, CreateExists, UndoSpace, CreateEnableFails, CreateConf, DeleteConf,
    UpdateNone, UpdateWrite, UpdateWriteFails, DropDB, MemberRaftFails, Return

\* A request that works through its replicas.
LEMMA TodoShape ==
    ASSUME Requests, NEW c \in Clients
    PROVE  /\ CreatePartition(c) \/ UndoPartition(c) \/ UndoKey(c) \/ DeleteReplica(c) =>
                Keeps(c) /\ op'[c].pc = op[c].pc /\ Others(c)
           /\ NotReady(c) =>
                /\ Others(c)
                /\ IF op[c].kind = "create"
                   THEN Keeps(c) /\ op'[c].pc = "undo" /\ op'[c].todo = Sweep(op[c].new)
                   ELSE Ends(c)
           /\ DeleteKey(c) =>
                /\ Others(c)
                /\ IF Exists(op[c].sid)
                   THEN Keeps(c) /\ op'[c].pc = "sweep" /\ op'[c].todo = Sweep(op[c].sp.parts)
                   ELSE Ends(c)
           /\ DeletePartitionKey(c) =>
                /\ Others(c)
                /\ IF NextPart(c) \in partKey THEN Keeps(c) /\ op'[c].pc = op[c].pc ELSE Ends(c)
<1>1. op[c] \in Request /\ op \in [Clients -> Request]
  BY DEF Requests
<1>2. \A T : op' = [op EXCEPT ![c].todo = T] => Keeps(c) /\ op'[c].pc = op[c].pc /\ Others(c)
  BY <1>1 DEF Keeps, Others, Request
<1>3. \A T : op' = [op EXCEPT ![c].todo = T, ![c].bad = TRUE] =>
                Keeps(c) /\ op'[c].pc = op[c].pc /\ Others(c)
  BY <1>1 DEF Keeps, Others, Request
<1>4. \A q, T : op' = [op EXCEPT ![c].pc = q, ![c].todo = T] =>
                  Keeps(c) /\ op'[c].pc = q /\ op'[c].todo = T /\ Others(c)
  BY <1>1 DEF Keeps, Others, Request
<1>5. CreatePartition(c) => Keeps(c) /\ op'[c].pc = op[c].pc /\ Others(c)
  <2>1. ASSUME CreatePartition(c)
        PROVE  \E T : \/ op' = [op EXCEPT ![c].todo = T]
                      \/ op' = [op EXCEPT ![c].todo = T, ![c].bad = TRUE]
    BY <2>1, Zenon DEF CreatePartition
  <2> QED
    BY <1>2, <1>3, <2>1, Zenon
<1>6. UndoPartition(c) \/ UndoKey(c) \/ DeleteReplica(c) =>
         Keeps(c) /\ op'[c].pc = op[c].pc /\ Others(c)
  BY <1>2 DEF UndoPartition, UndoKey, DeleteReplica
<1>7. NotReady(c) => 
        /\ Others(c)
        /\ IF op[c].kind = "create"
           THEN Keeps(c) /\ op'[c].pc = "undo" /\ op'[c].todo = Sweep(op[c].new)
           ELSE Ends(c)
  BY <1>4, GoesEnds DEF NotReady, Return
<1>8. DeleteKey(c) => 
        /\ Others(c)
        /\ IF Exists(op[c].sid)
           THEN Keeps(c) /\ op'[c].pc = "sweep" /\ op'[c].todo = Sweep(op[c].sp.parts)
           ELSE Ends(c)
  BY <1>4, GoesEnds, Zenon DEF DeleteKey, Return
<1>9. DeletePartitionKey(c) =>
        /\ Others(c)
        /\ IF NextPart(c) \in partKey THEN Keeps(c) /\ op'[c].pc = op[c].pc ELSE Ends(c)
  BY <1>2, GoesEnds DEF DeletePartitionKey, Return
<1> QED
  BY <1>5, <1>6, <1>7, <1>8, <1>9

\* A creation puts its space, and the others read theirs.
LEMMA PutShape ==
    ASSUME Requests, NEW c \in Clients, CreatePut(c)
    PROVE  /\ Others(c) /\ op'[c].kind = op[c].kind /\ op'[c].name = op[c].name
           /\ op'[c].pc = "build" /\ op'[c].sid = made + 1
           /\ op'[c].new \in Placement(NewPids(env.partitions))
           /\ op'[c].todo = Pairs(op'[c].new)
           /\ op'[c].sp.name = op[c].name /\ op'[c].sp.parts = op'[c].new
<1>1. op[c] \in Request /\ op \in [Clients -> Request]
  BY DEF Requests
<1> DEFINE P == NewPids(env.partitions)
           sp == [name |-> op[c].name, enabled |-> FALSE, version |-> 1,
                  parts |-> [p \in P |-> {}]]
<1>2. PICK new \in Placement(P) :
          op' = [op EXCEPT ![c] = [@ EXCEPT !.pc = "build", !.sid = made + 1,
                    !.sp = [sp EXCEPT !.parts = new], !.new = new, !.todo = Pairs(new)]]
  BY Zenon DEF CreatePut
<1> DEFINE sp1 == [sp EXCEPT !.parts = new]
<1>3. sp1.name = op[c].name /\ sp1.parts = new
  OBVIOUS
<1> HIDE DEF sp1, P
<1>4. op' = [op EXCEPT ![c] = [op[c] EXCEPT !.pc = "build", !.sid = made + 1, !.sp = sp1,
                                            !.new = new, !.todo = Pairs(new)]]
  BY <1>2 DEF sp1
<1>5. /\ op'[c].kind = op[c].kind /\ op'[c].name = op[c].name /\ op'[c].pc = "build"
      /\ op'[c].sid = made + 1 /\ op'[c].sp = sp1 /\ op'[c].new = new /\ op'[c].todo = Pairs(new)
  BY <1>1, <1>4 DEF Request
<1> QED
  BY <1>1, <1>3, <1>4, <1>5 DEF Others, P

\* What expandPartitions plans.
LEMMA ExpandShape ==
    ASSUME Requests, Ids, NEW c \in Clients, ExpandQuery(c)
    PROVE  \E i \in SpaceId :
           /\ i = Query(op[c].name) /\ Exists(i) /\ space[i].name = op[c].name
           /\ Others(c) /\ op'[c].kind = op[c].kind /\ op'[c].name = op[c].name
           /\ op'[c].pc = "build" /\ op'[c].sid = i
           /\ op'[c].new \in Placement(NewPids(1))
           /\ op'[c].todo = Pairs(op'[c].new)
           /\ op'[c].sp.name = space[i].name /\ op'[c].sp.version = space[i].version
           /\ DOMAIN op'[c].sp.parts = DOMAIN space[i].parts \cup NewPids(1)
           /\ \A p \in DOMAIN op'[c].sp.parts :
                 op'[c].sp.parts[p] = IF p \in NewPids(1) THEN op'[c].new[p] ELSE space[i].parts[p]
<1>1. op[c] \in Request /\ op \in [Clients -> Request]
  BY DEF Requests
<1> DEFINE P == NewPids(1)
           i == Query(op[c].name)
           Wider(f, g) == [p \in DOMAIN f \cup P |-> IF p \in P THEN g[p] ELSE f[p]]
<1>2. PICK new \in Placement(P) :
          op' = [op EXCEPT ![c] = [@ EXCEPT !.pc = "build", !.sid = i, !.new = new,
                    !.sp = [space[i] EXCEPT !.parts = Wider(@, new)], !.todo = Pairs(new)]]
  BY Zenon DEF ExpandQuery
<1>3. i \in SpaceId /\ Exists(i) /\ space[i].name = op[c].name /\ space[i] \in SpaceRecord
  BY QueryFinds, ExistsMade DEF ExpandQuery
<1> DEFINE w == Wider(space[i].parts, new)
           sp1 == [space[i] EXCEPT !.parts = w]
<1>4. /\ DOMAIN w = DOMAIN space[i].parts \cup P
      /\ \A p \in DOMAIN w : w[p] = IF p \in P THEN new[p] ELSE space[i].parts[p]
  OBVIOUS
<1> HIDE DEF w, i, P
<1>5. sp1.name = space[i].name /\ sp1.version = space[i].version /\ sp1.parts = w
  BY <1>3, SpaceRecordIs
<1>6. op' = [op EXCEPT ![c] = [op[c] EXCEPT !.pc = "build", !.sid = i, !.new = new, !.sp = sp1,
                                            !.todo = Pairs(new)]]
  BY <1>2 DEF w
<1> HIDE DEF sp1
<1>7. /\ op'[c].kind = op[c].kind /\ op'[c].name = op[c].name /\ op'[c].pc = "build"
      /\ op'[c].sid = i /\ op'[c].sp = sp1 /\ op'[c].new = new /\ op'[c].todo = Pairs(new)
  BY <1>1, <1>6 DEF Request
<1>8. Others(c)
  BY <1>1, <1>6 DEF Others
<1>9. /\ DOMAIN op'[c].sp.parts = DOMAIN space[i].parts \cup P
      /\ \A p \in DOMAIN op'[c].sp.parts :
            op'[c].sp.parts[p] = IF p \in P THEN op'[c].new[p] ELSE space[i].parts[p]
  BY <1>4, <1>5, <1>7
<1> QED
  BY <1>3, <1>5, <1>7, <1>8, <1>9 DEF i, P

\* What UpdateSpace reads.
LEMMA ConfigShape ==
    ASSUME Requests, Ids, NEW c \in Clients, ConfigQuery(c)
    PROVE  \E i \in SpaceId :
           /\ i = Query(op[c].name) /\ Exists(i) /\ space[i].name = op[c].name
           /\ Others(c) /\ op'[c].kind = op[c].kind /\ op'[c].name = op[c].name
           /\ op'[c].pc = "notify" /\ op'[c].sid = i
           /\ op'[c].sp.version = space[i].version /\ op'[c].sp.parts = space[i].parts
           /\ op[c].kind = "config" => op'[c].sp.name = op[c].name
<1>1. op[c] \in Request /\ op \in [Clients -> Request]
  BY DEF Requests
<1> DEFINE i == Query(op[c].name)
<1>2. PICK n \in env.names, e \in BOOLEAN :
          /\ op[c].kind # "rename" => n = op[c].name
          /\ op' = [op EXCEPT ![c] = [@ EXCEPT !.pc = "notify", !.sid = i,
                    !.sp = [space[i] EXCEPT !.name = n, !.enabled = e]]]
  BY Zenon DEF ConfigQuery
<1>3. i \in SpaceId /\ Exists(i) /\ space[i].name = op[c].name /\ space[i] \in SpaceRecord
  BY QueryFinds, ExistsMade DEF ConfigQuery
<1> DEFINE sp1 == [space[i] EXCEPT !.name = n, !.enabled = e]
<1> HIDE DEF i
<1>4. sp1.name = n /\ sp1.version = space[i].version /\ sp1.parts = space[i].parts
  BY <1>3, SpaceRecordIs
<1>5. op' = [op EXCEPT ![c] = [op[c] EXCEPT !.pc = "notify", !.sid = i, !.sp = sp1]]
  BY <1>2
<1> HIDE DEF sp1
<1>6. /\ op'[c].kind = op[c].kind /\ op'[c].name = op[c].name /\ op'[c].pc = "notify"
      /\ op'[c].sid = i /\ op'[c].sp = sp1
  BY <1>1, <1>5 DEF Request
<1>7. Others(c)
  BY <1>1, <1>5 DEF Others
<1> QED
  BY <1>2, <1>3, <1>4, <1>6, <1>7 DEF i

\* What ChangeMember reads once it has the lock.
LEMMA MemberShape ==
    ASSUME Requests, Ids, NEW c \in Clients, MemberQuery(c)
    PROVE  /\ Others(c)
           /\ \/ Ends(c) /\ Return(c)
              \/ \E i \in SpaceId :
                 /\ i = Query(op[c].name) /\ Exists(i) /\ space[i].name = op[c].name
                 /\ op'[c].kind = op[c].kind /\ op'[c].name = op[c].name
                 /\ op'[c].pc = "notify" /\ op'[c].sid = i /\ op'[c].new = op[c].new
                 /\ op'[c].sp.version = space[i].version /\ op'[c].sp.name = op[c].sp.name
                 /\ op'[c].sp.parts = op[c].sp.parts /\ UNCHANGED held
                 /\ Cardinality(DOMAIN op[c].sp.parts) = Cardinality(DOMAIN space[i].parts)
<1>1. op[c] \in Request /\ op \in [Clients -> Request] /\ Fit(op[c])
  BY DEF Requests
<1> DEFINE i == Query(op[c].name)
<1>2. i \in SpaceId /\ Exists(i) /\ space[i].name = op[c].name /\ space[i] \in SpaceRecord
  BY QueryFinds, ExistsMade DEF MemberQuery
<1>3. op[c].sp \in SpaceRecord
  BY <1>1 DEF Fit, Bound, MemberQuery
<1> DEFINE sp1 == [op[c].sp EXCEPT !.version = space[i].version]
<1> HIDE DEF i
<1>4. /\ sp1.name = op[c].sp.name /\ sp1.version = space[i].version
      /\ sp1.parts = op[c].sp.parts
  BY <1>3, SpaceRecordIs
<1>5. CASE Return(c)
  BY <1>5, GoesEnds DEF Return
<1>6. CASE ~Return(c)
  <2>1. /\ op' = [op EXCEPT ![c] = [op[c] EXCEPT !.pc = "notify", !.sid = i, !.sp = sp1]]
        /\ Cardinality(DOMAIN op[c].sp.parts) = Cardinality(DOMAIN space[i].parts)
        /\ UNCHANGED held
    BY <1>6 DEF MemberQuery, i
  <2> HIDE DEF sp1
  <2>2. /\ op'[c].kind = op[c].kind /\ op'[c].name = op[c].name /\ op'[c].pc = "notify"
        /\ op'[c].sid = i /\ op'[c].sp = sp1 /\ op'[c].new = op[c].new
    BY <1>1, <2>1 DEF Request
  <2>3. Others(c)
    BY <1>1, <2>1 DEF Others
  <2> QED
    BY <1>2, <1>4, <2>1, <2>2, <2>3 DEF i
<1> QED
  BY <1>5, <1>6

\* A request that comes in.
LEMMA BeginShape ==
    ASSUME TInv, NEW c \in Clients, Begin(c)
    PROVE  /\ Others(c) /\ op[c].pc = "idle"
           /\ op'[c].pc \in {"lock", "drop", "copy", "raft"} /\ op'[c].kind \in env.kinds
           /\ op'[c].kind = "delete" =>
                op'[c].sid \in SpaceId /\ Exists(op'[c].sid) /\ op'[c].name = space[op'[c].sid].name
           /\ op'[c].kind \in {"add", "remove"} =>
                \E p \in partKey, s \in Servers :
                    /\ op'[c].sid = home[p] /\ Exists(home[p]) /\ op'[c].name = space[home[p]].name
                    /\ op'[c].sp.name = space[home[p]].name /\ op'[c].new = Single(p, s)
                    /\ DOMAIN op'[c].sp.parts = DOMAIN space[home[p]].parts
                    /\ p \in DOMAIN space[home[p]].parts
                    /\ op'[c].kind = "add" => op'[c].pc = "copy"
<1>1. op[c] \in Request /\ op \in [Clients -> Request]
  BY DEF TInv, Requests
<1>2. CASE \E n \in env.names : "create" \in env.kinds /\ CreateBegin(c, n)
  <2>1. PICK n \in env.names : "create" \in env.kinds /\ CreateBegin(c, n)
    BY <1>2
  <2>2. op' \in {[op EXCEPT ![c].kind = "create", ![c].name = n, ![c].pc = "lock"]}
    BY <2>1 DEF CreateBegin
  <2>3. Others(c) /\ op'[c].kind = "create" /\ op'[c].pc = "lock"
    BY <1>1, <2>2 DEF Others, Request
  <2> QED
    BY <2>1, <2>3 DEF CreateBegin
<1>3. CASE \E n \in env.names, k \in env.kinds \cap {"expand", "config", "rename"} :
             UpdateBegin(c, k, n)
  <2>1. PICK n \in env.names, k \in env.kinds \cap {"expand", "config", "rename"} :
            UpdateBegin(c, k, n)
    BY <1>3
  <2>2. op' \in {[op EXCEPT ![c].kind = k, ![c].name = n, ![c].pc = "lock"]}
    BY <2>1 DEF UpdateBegin
  <2>3. Others(c) /\ op'[c].kind = k /\ op'[c].pc = "lock"
    BY <1>1, <2>2 DEF Others, Request
  <2> QED
    BY <2>1, <2>3 DEF UpdateBegin
<1>4. CASE "dropdb" \in env.kinds /\ DropBegin(c)
  <2>1. \A k, q : op' = [op EXCEPT ![c].kind = k, ![c].pc = q] =>
            Others(c) /\ op'[c].kind = k /\ op'[c].pc = q
    BY <1>1 DEF Others, Request
  <2> QED
    BY <1>4, <2>1, Zenon DEF DropBegin
<1>5. CASE \E n \in env.names : "delete" \in env.kinds /\ DeleteBegin(c, n)
  <2>1. PICK n \in env.names : "delete" \in env.kinds /\ DeleteBegin(c, n)
    BY <1>5
  <2>2. Query(n) \in SpaceId /\ Exists(Query(n)) /\ space[Query(n)].name = n
    BY <2>1, QueryFinds DEF DeleteBegin
  <2>3. \A i, sp : op' = [op EXCEPT ![c] = [@ EXCEPT !.kind = "delete", !.name = n, !.pc = "lock",
                                                      !.sid = i, !.sp = sp]] =>
            Others(c) /\ op'[c].kind = "delete" /\ op'[c].pc = "lock" /\ op'[c].sid = i
            /\ op'[c].name = n
    BY <1>1 DEF Others, Request
  <2> QED
    BY <2>1, <2>2, <2>3, Zenon DEF DeleteBegin
<1>6. ASSUME NEW k \in env.kinds \cap {"add", "remove"}, MemberRead(c, k)
      PROVE  /\ Others(c) /\ op[c].pc = "idle"
             /\ op'[c].kind = k /\ op'[c].pc = (IF k = "add" THEN "copy" ELSE "raft")
             /\ \E p \in partKey, s \in Servers :
                    /\ op'[c].sid = home[p] /\ Exists(home[p]) /\ op'[c].name = space[home[p]].name
                    /\ op'[c].sp.name = space[home[p]].name /\ op'[c].new = Single(p, s)
                    /\ DOMAIN op'[c].sp.parts = DOMAIN space[home[p]].parts
                    /\ p \in DOMAIN space[home[p]].parts
  <2> DEFINE R(i, p, s) == IF k = "add" THEN space[i].parts[p] \cup {s} ELSE space[i].parts[p] \ {s}
  <2>1. PICK p \in partKey, s \in Servers :
          /\ Exists(home[p]) /\ p \in DOMAIN space[home[p]].parts
          /\ op' = [op EXCEPT ![c] = [@ EXCEPT !.kind = k, !.name = space[home[p]].name,
                      !.pc = IF k = "add" THEN "copy" ELSE "raft", !.sid = home[p],
                      !.new = Single(p, s),
                      !.sp = [space[home[p]] EXCEPT !.parts[p] =
                                 IF k = "add" THEN @ \cup {s} ELSE @ \ {s}]]]
    BY <1>6, Zenon DEF MemberRead
  <2> DEFINE i == home[p]
             new == Single(p, s)
             w == [space[i].parts EXCEPT ![p] = R(i, p, s)]
             sp1 == [space[i] EXCEPT !.parts = w]
             q == IF k = "add" THEN "copy" ELSE "raft"
  <2>2. i \in SpaceId
    BY IdsAre DEF TInv, TypeOK
  <2>3. space[i] \in SpaceRecord
    BY <2>1, <2>2, ExistsMade DEF TInv
  <2>4. op' = [op EXCEPT ![c] = [op[c] EXCEPT !.kind = k, !.name = space[i].name, !.pc = q,
                                  !.sid = i, !.new = new, !.sp = sp1]]
    BY <2>1, <2>3, SpaceRecordIs
  <2>5. DOMAIN w = DOMAIN space[i].parts
    OBVIOUS
  <2> HIDE DEF w
  <2>6. sp1.name = space[i].name /\ sp1.parts = w
    BY <2>3, SpaceRecordIs
  <2> HIDE DEF sp1, q, i, new
  <2>7. /\ op'[c].kind = k /\ op'[c].name = space[i].name /\ op'[c].pc = q /\ op'[c].sid = i
        /\ op'[c].new = new /\ op'[c].sp = sp1
    BY <1>1, <2>4 DEF Request
  <2>8. Others(c)
    BY <1>1, <2>4 DEF Others
  <2>9. op[c].pc = "idle"
    BY <1>6 DEF MemberRead
  <2>10. op'[c].pc = IF k = "add" THEN "copy" ELSE "raft"
    BY <2>7 DEF q
  <2>11. /\ op'[c].sid = home[p] /\ op'[c].name = space[home[p]].name
         /\ op'[c].sp.name = space[home[p]].name /\ op'[c].new = Single(p, s)
         /\ DOMAIN op'[c].sp.parts = DOMAIN space[home[p]].parts
    BY <2>5, <2>6, <2>7 DEF i, new
  <2> QED
    BY <2>1, <2>7, <2>8, <2>9, <2>10, <2>11
<1>7. CASE \E k \in env.kinds \cap {"add", "remove"} : MemberRead(c, k)
  BY <1>6, <1>7
<1> QED
  BY <1>2, <1>3, <1>4, <1>5, <1>7 DEF Begin

-----------------------------------------------------------------------------
(* The locks.                                                              *)

\* A step takes a lock that is free, or gives up its own.
LEMMA HeldStep ==
    ASSUME NEW c \in Clients, Step(c)
    PROVE  held' = held \/ Unlock(c) \/ \E k : Lock(c, k)
BY Zenon DEF Step, CreateLock, CreateExists, CreateCheck, CreatePut, CreatePartition, Ready,
       NotReady, UndoPartition, UndoKey, UndoSpace, CreateEnable, CreateEnableFails, CreateConf,
       DeleteLock, DeleteKey, DeleteReplica, DeletePartitionKey, DeleteConf, UpdateLock,
       UpdateNone, ExpandQuery, ConfigQuery, Notify, UpdateWrite, UpdateWriteFails, DropDB,
       MemberCreate, MemberRaft, MemberRaftFails, MemberDelete, MemberQuery, Return

Has(c) ==
    /\ op[c].kind = "create" /\ op[c].pc \in Creating => <<"space_name", c>> \in held
    /\ op[c].kind \in Updates \cup {"delete"} /\ op[c].pc \in Updating =>
          <<op[c].name, c>> \in held

\* A request goes where it needs a lock only with the lock.
LEMMA HasStep ==
    ASSUME TInv, NEW c \in Clients, Has(c), Step(c)
    PROVE  Has(c)' /\ Others(c)
<1>1. Requests /\ Ids /\ op[c] \in Request /\ Legal(op[c])
  BY DEF TInv, Requests, Fit
<1>2. CASE \/ CreateExists(c) \/ UndoSpace(c) \/ CreateEnableFails(c) \/ CreateConf(c)
           \/ DeleteConf(c) \/ UpdateNone(c) \/ UpdateWrite(c) \/ UpdateWriteFails(c)
           \/ DropDB(c) \/ MemberRaftFails(c)
  BY <1>1, <1>2, PlainShape DEF Ends, Has, Updates
<1>3. CASE CreateLock(c) \/ CreateCheck(c) \/ Ready(c) \/ CreateEnable(c)
  <2>1. CASE CreateLock(c)
    BY <1>1, <2>1, PlainShape, Zenon DEF CreateLock, CreateKey, Lock, Goes, Keeps, Has, Updates
  <2>2. CASE CreateCheck(c) \/ Ready(c)
    <3>1. UNCHANGED held
      BY <2>2, Zenon DEF CreateCheck, Ready
    <3> QED
      BY <1>1, <2>2, <3>1, PlainShape, Zenon
      DEF CreateCheck, Ready, Goes, Keeps, Has, Updates, Creating, Updating, Legal
  <2>3. CASE CreateEnable(c)
    BY <1>1, <2>3, PlainShape, Zenon DEF Goes, Keeps, Has, Updates, Creating, Updating
  <2> QED
    BY <1>3, <2>1, <2>2, <2>3
<1>4. CASE DeleteLock(c) \/ UpdateLock(c)
  <2>1. <<op[c].name, c>> \in held'
    BY <1>4 DEF DeleteLock, UpdateLock, Lock
  <2> QED
    BY <1>1, <1>4, <2>1, PlainShape, Zenon DEF DeleteLock, UpdateLock, Goes, Keeps, Has, Updates, Creating
<1>5. CASE Notify(c) \/ MemberCreate(c) \/ MemberRaft(c) \/ MemberDelete(c)
  <2>1. Others(c) /\ (Ends(c) \/ Goes(c, "lock") \/ Goes(c, "raft") \/ Goes(c, "replica")
                      \/ (Notify(c) /\ Goes(c, "write")))
    BY <1>1, <1>5, PlainShape
  <2>2. CASE Ends(c) \/ Goes(c, "lock") \/ Goes(c, "raft") \/ Goes(c, "replica")
    BY <2>1, <2>2 DEF Ends, Goes, Has, Updates, Creating, Updating
  <2>3. CASE Notify(c) /\ Goes(c, "write")
    <3>1. op'[c].pc # "done" /\ ~Ends(c)
      BY <2>3 DEF Goes, Ends
    <3>2. UNCHANGED held
      BY <1>1, <2>3, <3>1, GoesEnds DEF Notify, Return
    <3> QED
      BY <1>1, <2>1, <2>3, <3>2 DEF Notify, Goes, Keeps, Has, Updates, Updating, Legal
  <2> QED
    BY <2>1, <2>2, <2>3
<1>6. CASE CreatePartition(c) \/ UndoPartition(c) \/ UndoKey(c) \/ DeleteReplica(c)
  BY <1>1, <1>6, TodoShape, Zenon
  DEF CreatePartition, UndoPartition, UndoKey, DeleteReplica, Keeps, Has
<1>7. CASE NotReady(c) \/ DeleteKey(c) \/ DeletePartitionKey(c)
  <2>1. Others(c) /\ (Ends(c) \/ Keeps(c))
    BY <1>1, <1>7, TodoShape
  <2>2. CASE Ends(c)
    BY <2>1, <2>2 DEF Ends, Has, Updates
  <2>3. CASE ~Ends(c)
    <3>1. UNCHANGED held
      BY <1>1, <1>7, <2>3, GoesEnds DEF NotReady, DeleteKey, DeletePartitionKey, Return
    <3> QED
      BY <1>1, <1>7, <2>1, <2>3, <3>1, TodoShape
      DEF NotReady, DeleteKey, DeletePartitionKey, Keeps, Has, Updates, Creating, Updating, Legal
  <2> QED
    BY <2>2, <2>3
<1>8. CASE CreatePut(c) \/ ExpandQuery(c) \/ ConfigQuery(c)
  <2>1. UNCHANGED held
    BY <1>8, Zenon DEF CreatePut, ExpandQuery, ConfigQuery
  <2>2. Others(c) /\ op'[c].kind = op[c].kind /\ op'[c].name = op[c].name
    BY <1>1, <1>8, PutShape, ExpandShape, ConfigShape
  <2>3. \/ op[c].pc \in Creating /\ op[c].kind = "create"
        \/ op[c].pc \in Updating /\ op[c].kind \in Updates
    BY <1>1, <1>8, Zenon DEF CreatePut, ExpandQuery, ConfigQuery, Legal, Updates, Creating, Updating
  <2> QED
    BY <2>1, <2>2, <2>3 DEF Has, Updates
<1>9. CASE MemberQuery(c)
  <2>1. op[c].kind \in Updates /\ op[c].pc \in Updating
    BY <1>9 DEF MemberQuery, Updates, Updating
  <2> QED
    BY <1>1, <1>9, <2>1, MemberShape DEF Ends, Has, Updates
<1> QED
  BY <1>2, <1>3, <1>4, <1>5, <1>6, <1>7, <1>8, <1>9 DEF Step

\* Every step keeps the locks.
LEMMA LocksStep ==
    ASSUME TInv, Locks, [Next]_vars
    PROVE  Locks'
<1>1. \A c \in Clients : Has(c)
  BY Zenon DEF Locks, Has
<1>2. ASSUME NEW c \in Clients, Others(c), held' = held \/ Unlock(c) \/ \E k : Lock(c, k),
             Has(c)'
      PROVE  Locks'
  <2>1. \A g, h \in held' : g[1] = h[1] => g = h
    BY <1>2 DEF Locks, Unlock, Lock
  <2>2. ASSUME NEW d \in Clients, d # c
        PROVE  Has(d)'
    <3>1. op'[d] = op[d]
      BY <1>2, <2>2 DEF Others
    <3>2. \A k : <<k, d>> \in held => <<k, d>> \in held'
      BY <1>2, <2>2 DEF Unlock, Lock
    <3> QED
      BY <1>1, <3>1, <3>2 DEF Has
  <2> QED
    BY <1>2, <2>1, <2>2 DEF Locks, Has
<1>3. ASSUME NEW c \in Clients, Begin(c)
      PROVE  Locks'
  <2>1. Has(c)'
    BY <1>3, BeginShape DEF Has, Creating, Updating
  <2> QED
    BY <1>2, <1>3, <2>1, BeginShape, BeginKeeps
<1>4. ASSUME NEW c \in Clients, Step(c)
      PROVE  Locks'
  BY <1>1, <1>2, <1>4, HasStep, HeldStep
<1>5. CASE System \/ UNCHANGED vars
  <2>1. UNCHANGED <<op, held>>
    BY <1>5, Zenon
    DEF System, RegisterMaster, RegisterPartition, Heartbeat, CleanTask, CleanBegin, Walk,
        WalkPartition, WalkSpace, WalkServer, RemovePartitionKey, RemoveSpaceKey,
        RemovePartition, Turn, vars
  <2> QED
    BY <2>1 DEF Locks
<1> QED
  BY <1>3, <1>4, <1>5 DEF Next

-----------------------------------------------------------------------------
(* What every proof builds on: typing and locks.                           *)

\* CleanTask stands still where it is not called
Base == TInv /\ Locks /\ (clean.pc = "idle" \/ env.cleaning)

\* Typing and locks hold at first.
LEMMA BaseInit == Init => Base
<1> SUFFICES ASSUME Init PROVE Base
  OBVIOUS
<1>1. held = {} /\ clean.pc = "idle" /\ \A c \in Clients : op[c] = Idle
  BY DEF Init
<1>2. Locks
  BY <1>1 DEF Locks, Idle, Updates
<1> QED
  BY <1>1, <1>2, TInvInit DEF Base

\* The setting does not change.
LEMMA EnvStays == [Next]_vars => env' = env
<1>1. ASSUME NEW c \in Clients, Step(c) PROVE env' = env
  BY <1>1, Zenon
  DEF Step, CreateLock, CreateExists, CreateCheck, CreatePut, CreatePartition, Ready, NotReady,
      UndoPartition, UndoKey, UndoSpace, CreateEnable, CreateEnableFails, CreateConf, DeleteLock,
      DeleteKey, DeleteReplica, DeletePartitionKey, DeleteConf, UpdateLock, UpdateNone,
      ExpandQuery, ConfigQuery, Notify, UpdateWrite, UpdateWriteFails, DropDB, MemberCreate,
      MemberRaft, MemberRaftFails, MemberDelete, MemberQuery
<1>2. System \/ UNCHANGED vars => env' = env
  BY Zenon DEF System, RegisterMaster, RegisterPartition, Heartbeat, CleanTask, CleanBegin, Walk,
         WalkPartition, WalkSpace, WalkServer, RemovePartitionKey, RemoveSpaceKey,
         RemovePartition, Turn, vars
<1> QED
  BY <1>1, <1>2, BeginKeeps DEF Next

\* Every step keeps typing and locks.
LEMMA BaseStep == Base /\ [Next]_vars => Base'
<1> SUFFICES ASSUME Base, [Next]_vars PROVE Base'
  OBVIOUS
<1>1. TInv' /\ Locks'
  BY TInvStep, LocksStep DEF Base
<1>2. UNCHANGED clean \/ clean.pc # "idle" \/ env.cleaning
  <2>1. ASSUME NEW c \in Clients, Step(c) PROVE UNCHANGED clean
    BY <2>1, Zenon
    DEF Step, CreateLock, CreateExists, CreateCheck, CreatePut, CreatePartition, Ready, NotReady,
        UndoPartition, UndoKey, UndoSpace, CreateEnable, CreateEnableFails, CreateConf, DeleteLock,
        DeleteKey, DeleteReplica, DeletePartitionKey, DeleteConf, UpdateLock, UpdateNone,
        ExpandQuery, ConfigQuery, Notify, UpdateWrite, UpdateWriteFails, DropDB, MemberCreate,
        MemberRaft, MemberRaftFails, MemberDelete, MemberQuery
  <2>2. System \/ UNCHANGED vars => UNCHANGED clean \/ clean.pc # "idle" \/ env.cleaning
    BY Zenon DEF System, RegisterMaster, RegisterPartition, Heartbeat, CleanTask, CleanBegin, Walk,
           WalkPartition, WalkSpace, WalkServer, RemovePartitionKey, RemoveSpaceKey,
           RemovePartition, Turn, vars
  <2> QED
    BY <2>1, <2>2, BeginKeeps DEF Next
<1> QED
  BY <1>1, <1>2, EnvStays DEF Base

\* CleanTask does nothing where it is not called.
LEMMA NoCleaning ==
    ASSUME Base, ~env.cleaning, System
    PROVE  /\ UNCHANGED <<space, home, ps, raft, made, db, op>>
           /\ \E p \in Pid : partKey' \in {partKey, partKey \cup {p}}
           /\ partKey \subseteq partKey'
<1>1. ~CleanTask
  BY Zenon DEF Base, CleanTask, CleanBegin, Walk, WalkPartition, WalkSpace, WalkServer,
         RemovePartitionKey, RemoveSpaceKey, RemovePartition, Turn
<1>2. CASE \E p \in Pid : RegisterMaster(p) \/ RegisterPartition(p)
  BY <1>2 DEF RegisterMaster, RegisterPartition
<1>3. CASE \E s \in Servers : Heartbeat(s)
  <2>1. FALSE
    BY <1>3 DEF Heartbeat
  <2> QED
    BY <2>1
<1> QED
  BY <1>1, <1>2, <1>3 DEF System

\* One request at a time is in the section of a lock.
LEMMA OneCreates ==
    ASSUME Locks, NEW c \in Clients, NEW d \in Clients,
           op[c].kind = "create", op[c].pc \in Creating,
           op[d].kind = "create", op[d].pc \in Creating
    PROVE  c = d
<1>1. <<"space_name", c>> \in held /\ <<"space_name", d>> \in held
  BY Zenon DEF Locks
<1>2. <<"space_name", c>>[1] = <<"space_name", d>>[1]
  OBVIOUS
<1>3. <<"space_name", c>> = <<"space_name", d>>
  BY <1>1, <1>2 DEF Locks
<1> QED
  BY <1>3

\* New partition ids are new.
LEMMA NewPidsNew ==
    ASSUME Ids, NEW k \in Nat
    PROVE  NewPids(k) \cap DOMAIN home = {}
<1>1. PICK n \in 0 .. MaxPids : home \in [1 .. n -> 1 .. made]
  BY DEF Ids
<1>2. NewPids(k) = n + 1 .. n + k
  BY <1>1, NewPidsFollow
<1> QED
  BY <1>1, <1>2

\* What is there at first: no space, or space 1 with its partitions.
LEMMA InitIs ==
    ASSUME Init
    PROVE  \E S \in Parts :
              /\ \A i \in SpaceId : Exists(i) =>
                    /\ i = 1 /\ space[i].name = env.first /\ space[i].parts = S
                    /\ DOMAIN S # {}
              /\ DOMAIN S # {} => Exists(1)
              /\ \A p \in DOMAIN S : S[p] # {}
              /\ home = [p \in DOMAIN S |-> 1] /\ partKey = DOMAIN S
              /\ ps = [s \in Servers |-> {p \in DOMAIN S : s \in S[p]}]
              /\ raft = [p \in Pid |-> IF p \in DOMAIN S THEN S[p] ELSE {}]
<1>1. PICK e \in Settings :
          LET P == IF e.first = "none" THEN {} ELSE 1 .. e.partitions IN
          \E S \in Placement(P) :
              /\ env = e
              /\ space = [i \in SpaceId |->
                             IF P # {} /\ i = 1
                             THEN [name |-> e.first, enabled |-> TRUE, version |-> 2, parts |-> S]
                             ELSE NoSpace]
              /\ home = [p \in P |-> 1] /\ partKey = P
              /\ ps = [s \in Servers |-> {p \in P : s \in S[p]}]
              /\ raft = [p \in Pid |-> IF p \in P THEN S[p] ELSE {}]
  BY Zenon DEF Init
<1> DEFINE P == IF e.first = "none" THEN {} ELSE 1 .. e.partitions
<1>2. P \in SUBSET Pid
  <2>1. e.first # "none" => e.partitions \in Nat /\ e.partitions <= MaxPids
    BY SpaceMetaAssumption DEF Setting
  <2> QED
    BY <2>1, SpaceMetaAssumption DEF Pid
<1>3. PICK S \in Placement(P) :
          /\ env = e
          /\ space = [i \in SpaceId |->
                         IF P # {} /\ i = 1
                         THEN [name |-> e.first, enabled |-> TRUE, version |-> 2, parts |-> S]
                         ELSE NoSpace]
          /\ home = [p \in P |-> 1] /\ partKey = P
          /\ ps = [s \in Servers |-> {p \in P : s \in S[p]}]
          /\ raft = [p \in Pid |-> IF p \in P THEN S[p] ELSE {}]
  BY <1>1, Zenon
<1> HIDE DEF P
<1>4. S \in Parts /\ DOMAIN S = P /\ \A p \in P : S[p] # {}
  BY <1>2, PlacementType
<1>5. 1 \in SpaceId
  BY SpaceMetaAssumption DEF SpaceId
<1>6. \A i \in SpaceId : Exists(i) => i = 1 /\ space[i].name = env.first /\ space[i].parts = S
                                      /\ DOMAIN S # {}
  BY <1>3, <1>4 DEF Exists, NoSpace
<1>7. P # {} => Exists(1)
  BY <1>3, <1>5, SMTT(30) DEF Exists
<1> QED
  BY <1>3, <1>4, <1>6, <1>7, Zenon

-----------------------------------------------------------------------------
(* Creations that fail.                                                    *)

InSection(c) == op[c].pc \in {"build", "undo", "write"}

\* creations only, any of which may fail, beside CleanTask
Creates == env.kinds \subseteq {"create"} /\ env.faults \subseteq {"create"}

\* a creation finds the space that it put, and CleanTask none of the spaces whose
\* partitions it removes
CreateInv ==
    /\ db
    /\ \A c \in Clients : InSection(c) => Exists(op[c].sid)
    /\ clean.pc = "partitions" => \A p \in clean.hit : ~Exists(home[p])
    /\ clean.pc = "spaces" => clean.hit = {}

\* The steps of requests where there are only creations.
LEMMA CreateSteps ==
    ASSUME Base, Creates, NEW c \in Clients, Step(c)
    PROVE  /\ op[c].kind = "create" /\ "etcd" \notin env.faults /\ "rpc" \notin env.faults
           /\ \/ CreateLock(c) \/ CreateExists(c) \/ CreateCheck(c) \/ CreatePut(c)
              \/ CreatePartition(c) \/ Ready(c) \/ NotReady(c) \/ UndoPartition(c) \/ UndoKey(c)
              \/ UndoSpace(c) \/ CreateEnable(c) \/ CreateConf(c)
<1>1. op[c] \in Request /\ Legal(op[c]) /\ op[c].kind \in {"create", "none"}
  BY DEF Base, TInv, Requests, Fit, Creates
<1>2. op[c].pc \notin {"idle", "done"}
  BY Zenon DEF Step, CreateLock, CreateExists, CreateCheck, CreatePut, CreatePartition, Ready, NotReady,
         UndoPartition, UndoKey, UndoSpace, CreateEnable, CreateEnableFails, CreateConf,
         DeleteLock, DeleteKey, DeleteReplica, DeletePartitionKey, DeleteConf, UpdateLock,
         UpdateNone, ExpandQuery, ConfigQuery, Notify, UpdateWrite, UpdateWriteFails, DropDB,
         MemberCreate, MemberRaft, MemberRaftFails, MemberDelete, MemberQuery
<1>3. op[c].kind = "create" /\ "etcd" \notin env.faults /\ "rpc" \notin env.faults
  BY <1>1, <1>2 DEF Legal, Creates
<1> QED
  BY <1>1, <1>3
  DEF Step, CreateEnableFails, DeleteLock, DeleteKey, DeleteReplica, DeletePartitionKey,
      DeleteConf, UpdateLock, UpdateNone, ExpandQuery, ConfigQuery, Notify, UpdateWrite,
      UpdateWriteFails, DropDB, MemberCreate, MemberRaft, MemberRaftFails, MemberDelete,
      MemberQuery, Legal, Updates

\* A creation that is in its section is alone in it.
LEMMA SectionAlone ==
    ASSUME Base, Creates, NEW c \in Clients, op[c].kind = "create", op[c].pc \in Creating
    PROVE  \A d \in Clients \ {c} : ~InSection(d)
<1> TAKE d \in Clients \ {c}
<1>1. Legal(op[d]) /\ op[d].kind \in {"create", "none"}
  BY DEF Base, TInv, Requests, Fit, Creates
<1>2. InSection(d) => op[d].kind = "create" /\ op[d].pc \in Creating
  BY <1>1 DEF InSection, Legal, Creating
<1> QED
  BY <1>2, OneCreates DEF Base

\* What the steps of creations do to the spaces.
LEMMA CreateSpaces ==
    ASSUME Base, Creates, CreateInv, NEW c \in Clients, Step(c)
    PROVE  /\ UNCHANGED <<db, clean>> /\ \A p \in DOMAIN home : home'[p] = home[p]
           /\ \A i \in 1 .. made : ~Exists(i) => ~Exists(i)'
           /\ \A i \in SpaceId : Exists(i)' \/ ~Exists(i) \/ (UndoSpace(c) /\ i = op[c].sid)
           /\ CreatePut(c) => Exists(made)' /\ made' = made + 1
<1>1. Requests /\ Ids /\ op[c] \in Request /\ Fit(op[c])
  BY DEF Base, TInv, Requests
<1>2. CASE CreatePut(c)
  <2>1. made + 1 \in SpaceId /\ made \in Nat
    BY <1>1, <1>2, SpaceMetaAssumption DEF CreatePut, Ids, SpaceId
  <2>2. \A j \in SpaceId : j # made + 1 => space'[j] = space[j]
    BY <1>1, <1>2, <2>1 DEF CreatePut, Ids
  <2>3. space'[made + 1].version = 1 /\ made' = made + 1
    BY <1>1, <1>2, <2>1 DEF CreatePut, Ids
  <2>4. \A p \in DOMAIN home : home'[p] = home[p]
    <3> DEFINE P == NewPids(env.partitions)
    <3>1. home' = [p \in DOMAIN home \cup P |-> IF p \in P THEN made + 1 ELSE home[p]]
      BY <1>2 DEF CreatePut
    <3>2. PICK n \in 0 .. MaxPids : home \in [1 .. n -> 1 .. made]
      BY <1>1 DEF Ids
    <3>3. env.partitions \in Nat \ {0}
      BY <1>1, SpaceMetaAssumption DEF Ids, Setting
    <3>4. P = n + 1 .. n + env.partitions
      BY <3>2, <3>3, NewPidsFollow
    <3>5. \A p \in DOMAIN home : p \notin P
      BY <3>2, <3>3, <3>4
    <3> QED
      BY <3>1, <3>5
  <2>5. UNCHANGED <<db, clean>> /\ ~UndoSpace(c)
    BY <1>2 DEF CreatePut, UndoSpace
  <2>6. 1 .. made \subseteq SpaceId /\ \A i \in 1 .. made : i # made + 1
    BY <1>1, <2>1, IdsAre
  <2> QED
    BY <2>1, <2>2, <2>3, <2>4, <2>5, <2>6 DEF Exists
<1>3. CASE CreateEnable(c)
  <2>1. op[c].sid \in SpaceId /\ op[c].sp \in SpaceRecord /\ Exists(op[c].sid)
    BY <1>1, <1>3, IdsAre DEF CreateEnable, Fit, Bound, CreateInv, InSection
  <2> DEFINE e == [op[c].sp EXCEPT !.enabled = TRUE]
  <2>2. e \in SpaceRecord
    BY <2>1, SpaceRecordIs, Zenon
  <2>3. space' = [space EXCEPT ![op[c].sid] = [e EXCEPT !.version = @ + 1]]
    BY <1>3 DEF CreateEnable, UpdateSpaceData
  <2> HIDE DEF e
  <2>4. [e EXCEPT !.version = @ + 1].version > 0
    BY <2>2, SpaceRecordIs
  <2>5. /\ \A j \in SpaceId : j # op[c].sid => space'[j] = space[j]
        /\ space'[op[c].sid].version > 0
    BY <1>1, <2>1, <2>3, <2>4 DEF Ids
  <2>6. UNCHANGED <<db, clean, home>>
    BY <1>3 DEF CreateEnable
  <2>7. 1 .. made \subseteq SpaceId /\ ~CreatePut(c)
    BY <1>1, <1>3, IdsAre DEF CreateEnable, CreatePut
  <2> QED
    BY <2>1, <2>5, <2>6, <2>7 DEF Exists
<1>4. CASE UndoSpace(c)
  <2>1. /\ UNCHANGED <<db, clean, home>> /\ ~CreatePut(c)
        /\ space' = [space EXCEPT ![op[c].sid] = NoSpace]
    BY <1>4 DEF UndoSpace, CreatePut
  <2>2. \A j \in SpaceId : space'[j] = NoSpace \/ space'[j] = space[j]
    BY <1>1, <2>1 DEF Ids
  <2>3. \A j \in SpaceId : j # op[c].sid => space'[j] = space[j]
    BY <1>1, <2>1 DEF Ids
  <2>4. 1 .. made \subseteq SpaceId
    BY <1>1, IdsAre
  <2> QED
    BY <1>4, <2>1, <2>2, <2>3, <2>4 DEF Exists, NoSpace
<1>5. CASE \/ CreateLock(c) \/ CreateExists(c) \/ CreateCheck(c)
           \/ CreatePartition(c) \/ Ready(c) \/ NotReady(c) \/ UndoPartition(c) \/ UndoKey(c)
           \/ CreateConf(c)
  <2>1. UNCHANGED <<db, clean, home, space>> /\ ~CreatePut(c)
    BY <1>5, Zenon
    DEF CreateLock, CreateExists, CreateCheck, CreatePartition, Ready, NotReady, UndoPartition,
        UndoKey, CreateConf, CreatePut
  <2> QED
    BY <2>1 DEF Exists
<1> QED
  BY <1>2, <1>3, <1>4, <1>5, CreateSteps, Zenon

\* Every step keeps what creations rely on.
LEMMA CreateStep ==
    ASSUME Base, Creates, CreateInv, [Next]_vars
    PROVE  CreateInv'
<1>1. TInv /\ Requests /\ Ids /\ Cleaning /\ TypeOK
  BY DEF Base, TInv
<1>2. ASSUME NEW c \in Clients, Begin(c) PROVE CreateInv'
  <2>1. UNCHANGED <<db, clean, home, space>> /\ Others(c) /\ ~InSection(c)'
    BY <1>1, <1>2, BeginKeeps, BeginShape, Zenon DEF InSection
  <2> QED
    BY <2>1 DEF CreateInv, Others, InSection, Exists
<1>3. ASSUME NEW c \in Clients, Step(c) PROVE CreateInv'
  <2>1. clean.pc = "partitions" => \A p \in clean.hit : p \in DOMAIN home /\ home[p] \in 1 .. made
    BY <1>1, IdsAre DEF Cleaning
  <2>2. /\ UNCHANGED <<db, clean>> /\ \A p \in DOMAIN home : home'[p] = home[p]
        /\ \A i \in 1 .. made : ~Exists(i) => ~Exists(i)'
        /\ \A i \in SpaceId : Exists(i)' \/ ~Exists(i) \/ (UndoSpace(c) /\ i = op[c].sid)
        /\ CreatePut(c) => Exists(made)' /\ made' = made + 1
    BY <1>3, CreateSpaces
  <2>3. ASSUME NEW d \in Clients, InSection(d)' PROVE Exists(op[d].sid)'
    <3>1. Others(c) /\ op[c].kind = "create"
      BY <1>1, <1>3, HasStep, CreateSteps, Zenon DEF Base, Locks, Has
    <3>2. \A e \in Clients : InSection(e) => op[e].sid \in SpaceId
      BY <1>1, IdsAre DEF InSection, Requests, Fit, Bound
    <3>3. CASE d # c
      <4>1. InSection(d) /\ op'[d] = op[d]
        BY <2>3, <3>1, <3>3 DEF Others, InSection
      <4>2. ~UndoSpace(c)
        BY <3>1, <3>3, <4>1, SectionAlone DEF UndoSpace, Creating
      <4> QED
        BY <2>2, <3>2, <4>1, <4>2 DEF CreateInv
    <3>4. CASE d = c
      <4>1. CASE CreatePut(c)
        BY <1>1, <2>2, <3>4, <4>1, PutShape
      <4>2. CASE ~CreatePut(c)
        <5>1. InSection(c) /\ op'[c].sid = op[c].sid /\ ~UndoSpace(c)
          BY <1>1, <1>3, <2>3, <3>1, <3>4, <4>2, CreateSteps, PlainShape, TodoShape, Zenon
          DEF InSection, Goes, Ends, Keeps, Ready, NotReady, CreatePartition, UndoPartition, UndoKey
        <5> QED
          BY <2>2, <3>2, <3>4, <5>1 DEF CreateInv
      <4> QED
        BY <4>1, <4>2
    <3> QED
      BY <3>3, <3>4
  <2> QED
    BY <2>1, <2>2, <2>3 DEF CreateInv
<1>4. ASSUME UNCHANGED <<db, space, op, home>>,
             clean'.pc = "partitions" => \A p \in clean'.hit : ~Exists(home[p]),
             clean'.pc = "spaces" => clean'.hit = {}
      PROVE  CreateInv'
  BY <1>4 DEF CreateInv, InSection, Exists
<1>5. CASE System \/ UNCHANGED vars
  <2>1. CASE UNCHANGED vars
    BY <2>1, <1>4 DEF vars, CreateInv
  <2>2. CASE \E p \in Pid : RegisterMaster(p) \/ RegisterPartition(p)
    BY <2>2, <1>4, Zenon DEF RegisterMaster, RegisterPartition, CreateInv
  <2>3. CASE \E s \in Servers : Heartbeat(s)
    BY <2>3, <1>4 DEF Heartbeat, CreateInv
  <2>4. CASE CleanTask
    <3>1. "etcd" \notin env.faults
      BY DEF Creates
    <3>2. ~RemoveSpaceKey
      BY Zenon DEF RemoveSpaceKey, CreateInv
    <3>3. CASE CleanBegin
      BY <3>3, <1>4 DEF CleanBegin
    <3>4. CASE RemovePartitionKey \/ RemovePartition
      <4>1. clean' = [clean EXCEPT !.hit = {}] /\ UNCHANGED <<db, space, op, home>>
        BY <3>4 DEF RemovePartitionKey, RemovePartition
      <4>2. clean'.hit = {}
        BY <1>1, <4>1 DEF Cleaning
      <4> QED
        BY <4>1, <4>2, <1>4
    <3>5. ASSUME NEW W, NEW q, NEW items, Turn(W, q, items) PROVE CreateInv'
      BY <3>5, <1>4 DEF Turn
    <3>6. ASSUME NEW W, NEW item, NEW b \in BOOLEAN, Walk(W, item, b),
                 W = "partitions" /\ b => ~Exists(home[item]), W = "spaces" => ~b
          PROVE  CreateInv'
      <4>1. clean' = [clean EXCEPT !.todo = @ \ {item}, !.hit = IF b THEN {item} ELSE {}]
        BY <3>6 DEF Walk
      <4>2. clean'.pc = W /\ clean'.hit = IF b THEN {item} ELSE {}
        BY <1>1, <3>6, <4>1 DEF Walk, Cleaning
      <4> QED
        BY <1>4, <3>6, <4>2 DEF Walk
    <3>7. CASE WalkPartition \/ WalkSpace \/ WalkServer
      BY <1>1, <3>1, <3>6, <3>7, Zenon DEF WalkPartition, WalkSpace, WalkServer, CreateInv, Exists
    <3> QED
      BY <2>4, <3>2, <3>3, <3>4, <3>5, <3>7 DEF CleanTask
  <2> QED
    BY <1>5, <2>1, <2>2, <2>3, <2>4 DEF System
<1> QED
  BY <1>2, <1>3, <1>5 DEF Next

\* It holds at first.
LEMMA CreateInit == Init => CreateInv
BY DEF Init, CreateInv, InSection, Idle

\* CleanTask removes only keys of partitions without a space: between the query
\* of walkPartitions and the deletion no creation brings the space back.
THEOREM CleaningSafe == Spec => CleanSafe
<1> DEFINE I == Base /\ (Creates => CreateInv)
<1>1. Init => I
  BY BaseInit, CreateInit
<1>2. I /\ [Next]_vars => I'
  BY BaseStep, CreateStep, EnvStays DEF Creates
<1>3. I /\ [Next]_vars =>
        [env.kinds \subseteq {"create"} /\ env.faults \subseteq {"create"} =>
            (RemovePartitionKey => \A p \in partKey \ partKey' : ~Exists(home[p]))]_vars
  BY DEF Creates, CreateInv, RemovePartitionKey
<1> QED
  BY <1>1, <1>2, <1>3, PTL DEF Spec, CleanSafe

-----------------------------------------------------------------------------
(* Updates and deletions of the space that is there at first.              *)

Updated == Only({"expand", "config", "delete", "add"}, {})

Writing(c) == op[c].pc \in {"build", "notify", "write"}

\* what a request knows of the space is true as long as it holds the lock, except
\* for the partitions of a ChangeMember, which copied them earlier: some may be new
Knows(c) ==
    /\ op[c].kind \in {"delete", "add"} => op[c].sid = 1 /\ op[c].name = env.first
    /\ op[c].kind = "add" =>
          /\ op[c].sp.name = env.first
          /\ Exists(1) => DOMAIN op[c].sp.parts \subseteq DOMAIN space[1].parts
    /\ op[c].pc = "sweep" => ~Exists(1)
    /\ Writing(c) =>
          /\ op[c].sid = 1 /\ op[c].name = env.first /\ op[c].sp.name = env.first
          /\ Exists(1) /\ op[c].sp.version = space[1].version
          /\ DOMAIN space[1].parts \subseteq DOMAIN op[c].sp.parts

UpdateInv ==
    /\ \A i \in SpaceId : Exists(i) => i = 1 /\ space[i].name = env.first
    /\ \A c \in Clients : Knows(c)

\* The steps of requests in these settings.
LEMMA UpdateSteps ==
    ASSUME Base, Updated, NEW c \in Clients, Step(c)
    PROVE  /\ op[c].kind \in {"expand", "config", "delete", "add"} /\ env.faults = {}
           /\ \/ CreatePartition(c) \/ Ready(c) \/ NotReady(c)
              \/ DeleteLock(c) \/ DeleteKey(c) \/ DeleteReplica(c) \/ DeletePartitionKey(c)
              \/ DeleteConf(c) \/ UpdateLock(c) \/ UpdateNone(c) \/ ExpandQuery(c)
              \/ ConfigQuery(c) \/ Notify(c) \/ UpdateWrite(c)
              \/ MemberCreate(c) \/ MemberRaft(c) \/ MemberRaftFails(c) \/ MemberQuery(c)
<1>1. /\ op[c] \in Request /\ Legal(op[c]) /\ env.faults = {}
      /\ op[c].kind \in {"expand", "config", "delete", "add", "none"}
  BY DEF Base, TInv, Requests, Fit, Updated, Only
<1>2. op[c].pc \notin {"idle", "done"}
  BY Zenon DEF Step, CreateLock, CreateExists, CreateCheck, CreatePut, CreatePartition, Ready, NotReady,
         UndoPartition, UndoKey, UndoSpace, CreateEnable, CreateEnableFails, CreateConf,
         DeleteLock, DeleteKey, DeleteReplica, DeletePartitionKey, DeleteConf, UpdateLock,
         UpdateNone, ExpandQuery, ConfigQuery, Notify, UpdateWrite, UpdateWriteFails, DropDB,
         MemberCreate, MemberRaft, MemberRaftFails, MemberDelete, MemberQuery
<1>3. op[c].kind \in {"expand", "config", "delete", "add"}
  BY <1>1, <1>2 DEF Legal
<1> QED
  BY <1>1, <1>3, Zenon
  DEF Step, CreateLock, CreateExists, CreateCheck, CreatePut, UndoPartition, UndoKey, UndoSpace,
      CreateEnable, CreateEnableFails, CreateConf, UpdateWriteFails, DropDB, MemberDelete, Legal

\* One request at a time works on the space.
LEMMA OneUpdates ==
    ASSUME Base, Updated, UpdateInv, NEW c \in Clients, NEW d \in Clients,
           Writing(c) \/ op[c].pc \in {"key", "sweep"},
           Writing(d) \/ op[d].pc \in {"key", "sweep"}
    PROVE  c = d
<1>1. ASSUME NEW b \in Clients, Writing(b) \/ op[b].pc \in {"key", "sweep"}
      PROVE  <<env.first, b>> \in held
  <2>1. Legal(op[b]) /\ op[b].kind \in {"expand", "config", "delete", "add", "none"}
    BY DEF Base, TInv, Requests, Fit, Updated, Only
  <2>2. op[b].kind \in Updates \cup {"delete"} /\ op[b].pc \in Updating
    BY <1>1, <2>1 DEF Legal, Writing, Updates, Updating
  <2>3. op[b].name = env.first
    BY <1>1, <2>1 DEF UpdateInv, Knows, Legal
  <2> QED
    BY <2>2, <2>3, Zenon DEF Base, Locks
<1>2. <<env.first, c>> \in held /\ <<env.first, d>> \in held
  BY <1>1
<1>3. <<env.first, c>>[1] = <<env.first, d>>[1]
  OBVIOUS
<1>4. <<env.first, c>> = <<env.first, d>>
  BY <1>2, <1>3 DEF Base, Locks
<1> QED
  BY <1>4

\* The space is written by the holder of its lock only.
LEMMA UpdateSpaces ==
    ASSUME Base, Updated, UpdateInv, NEW c \in Clients, Step(c)
    PROVE  \/ UNCHANGED space /\ ~UpdateWrite(c)
           \/ /\ DeleteKey(c) /\ op[c].pc = "key" /\ Exists(1)
              /\ \A i \in SpaceId : space'[i] = IF i = 1 THEN NoSpace ELSE space[i]
           \/ /\ UpdateWrite(c) /\ Writing(c) /\ op[c].pc = "write"
              /\ \A i \in SpaceId : i # 1 => space'[i] = space[i]
              /\ space'[1].version = space[1].version + 1 /\ space'[1].name = env.first
              /\ space'[1].parts = op[c].sp.parts /\ Exists(1)'
<1>1. Requests /\ Ids /\ op[c] \in Request /\ Fit(op[c]) /\ Knows(c)
  BY DEF Base, TInv, Requests, UpdateInv
<1>2. 1 \in SpaceId
  BY SpaceMetaAssumption DEF SpaceId
<1>3. CASE DeleteKey(c) /\ Exists(op[c].sid)
  <2>1. op[c].sid = 1 /\ op[c].pc = "key"
    BY <1>1, <1>3 DEF DeleteKey, Fit, Legal, Knows
  <2>2. space' = [space EXCEPT ![1] = NoSpace]
    BY <1>3, <2>1 DEF DeleteKey
  <2> QED
    BY <1>1, <1>3, <2>1, <2>2 DEF Ids
<1>4. CASE UpdateWrite(c)
  <2>1. /\ op[c].pc = "write" /\ Writing(c) /\ op[c].sid = 1 /\ op[c].sp.name = env.first
        /\ op[c].sp.version = space[1].version /\ op[c].sp \in SpaceRecord
    BY <1>1, <1>4, Zenon DEF UpdateWrite, Writing, Knows, Fit, Bound
  <2> DEFINE f == [op[c].sp EXCEPT !.version = @ + 1]
  <2>2. space' = [space EXCEPT ![1] = f]
    BY <1>4, <2>1 DEF UpdateWrite, UpdateSpaceData
  <2>3. /\ f.version = op[c].sp.version + 1 /\ f.name = op[c].sp.name /\ f.parts = op[c].sp.parts
        /\ f.version > 0
    BY <2>1, SpaceRecordIs
  <2> HIDE DEF f
  <2>4. space'[1] = f /\ \A i \in SpaceId : i # 1 => space'[i] = space[i]
    BY <1>1, <1>2, <2>2 DEF Ids
  <2> QED
    BY <1>4, <2>1, <2>3, <2>4 DEF Exists
<1>5. CASE ~UpdateWrite(c) /\ ~(DeleteKey(c) /\ Exists(op[c].sid))
  BY <1>5, UpdateSteps, Zenon
  DEF CreatePartition, Ready, NotReady, DeleteLock, DeleteKey, DeleteReplica, DeletePartitionKey,
      DeleteConf, UpdateLock, UpdateNone, ExpandQuery, ConfigQuery, Notify, MemberCreate,
      MemberRaft, MemberRaftFails, MemberQuery
<1> QED
  BY <1>3, <1>4, <1>5, Zenon

\* A request learns of the space.
LEMMA QueryKnows ==
    ASSUME Base, Updated, UpdateInv, NEW c \in Clients,
           ExpandQuery(c) \/ ConfigQuery(c) \/ MemberQuery(c)
    PROVE  Knows(c)'
<1>1. Requests /\ Ids /\ op[c] \in Request /\ Fit(op[c]) /\ Knows(c)
  BY DEF Base, TInv, Requests, UpdateInv
<1>2. UNCHANGED <<space, env>> /\ op[c].pc = "query"
  BY Zenon DEF ExpandQuery, ConfigQuery, MemberQuery
<1>3. CASE ExpandQuery(c)
  <2>1. op[c].kind = "expand"
    BY <1>3, Zenon DEF ExpandQuery
  <2>2. PICK i \in SpaceId :
               /\ Exists(i) /\ space[i].name = op[c].name
               /\ op'[c].kind = op[c].kind /\ op'[c].name = op[c].name
               /\ op'[c].pc = "build" /\ op'[c].sid = i
               /\ op'[c].sp.name = space[i].name /\ op'[c].sp.version = space[i].version
               /\ DOMAIN op'[c].sp.parts = DOMAIN space[i].parts \cup NewPids(1)
    BY <1>1, <1>3, ExpandShape, Zenon
  <2>3. i = 1 /\ op[c].name = env.first
    BY <2>2, Zenon DEF UpdateInv
  <2>4. op'[c].kind = "expand" /\ op'[c].pc = "build" /\ op'[c].sid = 1
        /\ op'[c].name = env'.first /\ op'[c].sp.name = env'.first
        /\ space'[1] = space[1] /\ Exists(1) /\ op'[c].sp.version = space'[1].version
        /\ DOMAIN space'[1].parts \subseteq DOMAIN op'[c].sp.parts
    BY <1>2, <2>1, <2>2, <2>3, Zenon
  <2> QED
    BY <2>4, Zenon DEF Knows, Writing, Exists
<1>4. CASE ConfigQuery(c)
  <2>1. op[c].kind = "config"
    BY <1>1, <1>4, Zenon DEF ConfigQuery, Fit, Updated, Only
  <2>2. PICK i \in SpaceId :
               /\ Exists(i) /\ space[i].name = op[c].name
               /\ op'[c].kind = op[c].kind /\ op'[c].name = op[c].name
               /\ op'[c].pc = "notify" /\ op'[c].sid = i
               /\ op'[c].sp.version = space[i].version /\ op'[c].sp.parts = space[i].parts
               /\ op'[c].sp.name = op[c].name
    BY <1>1, <1>4, <2>1, ConfigShape, Zenon
  <2>3. i = 1 /\ op[c].name = env.first
    BY <2>2, Zenon DEF UpdateInv
  <2>4. op'[c].kind = "config" /\ op'[c].pc = "notify" /\ op'[c].sid = 1
        /\ op'[c].name = env'.first /\ op'[c].sp.name = env'.first
        /\ space'[1] = space[1] /\ Exists(1) /\ op'[c].sp.version = space'[1].version
        /\ DOMAIN space'[1].parts \subseteq DOMAIN op'[c].sp.parts
    BY <1>2, <2>1, <2>2, <2>3, Zenon
  <2> QED
    BY <2>4, Zenon DEF Knows, Writing, Exists
<1>5. CASE MemberQuery(c)
  <2>1. op[c].kind = "add"
    BY <1>1, <1>5 DEF MemberQuery, Fit, Updated, Only
  <2>2. CASE Ends(c)
    BY <2>2, Zenon DEF Ends, Knows, Writing
  <2>3. CASE ~Ends(c)
    <3>1. PICK i \in SpaceId :
                 /\ i = Query(op[c].name) /\ Exists(i) /\ space[i].name = op[c].name
                 /\ op'[c].kind = op[c].kind /\ op'[c].name = op[c].name
                 /\ op'[c].pc = "notify" /\ op'[c].sid = i /\ op'[c].new = op[c].new
                 /\ op'[c].sp.version = space[i].version /\ op'[c].sp.name = op[c].sp.name
                 /\ op'[c].sp.parts = op[c].sp.parts
                 /\ Cardinality(DOMAIN op[c].sp.parts) = Cardinality(DOMAIN space[i].parts)
      BY <1>1, <1>5, <2>3, MemberShape, Zenon
    <3>2. i = 1 /\ DOMAIN op[c].sp.parts \subseteq DOMAIN space[1].parts
      BY <1>1, <2>1, <3>1, Zenon DEF UpdateInv, Knows
    <3>3. IsFiniteSet(DOMAIN space[1].parts)
      <4>1. DOMAIN space[1].parts \subseteq Pid
        BY <1>1, <3>1, <3>2, ExistsMade, SpaceRecordIs, PartsType
      <4>2. IsFiniteSet(Pid)
        BY SpaceMetaAssumption, FS_Interval DEF Pid
      <4> QED
        BY <4>1, <4>2, FS_Subset
    <3>4. DOMAIN op[c].sp.parts = DOMAIN space[1].parts
      BY <3>1, <3>2, <3>3, FS_Subset
    <3> QED
      BY <1>1, <1>2, <2>1, <3>1, <3>2, <3>4, Zenon DEF Knows, Writing, Exists
  <2> QED
    BY <2>2, <2>3
<1> QED
  BY <1>3, <1>4, <1>5

\* Every step keeps what updates know.
LEMMA UpdateStep ==
    ASSUME Base, Updated, UpdateInv, [Next]_vars
    PROVE  UpdateInv'
<1>1. TInv /\ Requests /\ Ids /\ ~env.cleaning /\ env' = env
  BY EnvStays DEF Base, TInv, Updated, Only
<1>2. ASSUME UNCHANGED space, NEW c \in Clients, Others(c), Knows(c)'
      PROVE  UpdateInv'
  BY <1>1, <1>2 DEF UpdateInv, Knows, Writing, Others, Exists
<1>3. ASSUME NEW c \in Clients, Begin(c) PROVE UpdateInv'
  <2>1. UNCHANGED space /\ Others(c)
    BY <1>1, <1>3, BeginKeeps, BeginShape, Zenon
  <2>2. op'[c].kind = "delete" => op'[c].sid = 1 /\ op'[c].name = env.first
    BY <1>1, <1>3, BeginShape DEF UpdateInv
  <2>3. op'[c].kind = "add" => /\ op'[c].sid = 1 /\ op'[c].name = env.first
                               /\ op'[c].sp.name = env.first
                               /\ DOMAIN op'[c].sp.parts = DOMAIN space[1].parts
    <3> SUFFICES ASSUME op'[c].kind = "add"
                 PROVE  /\ op'[c].sid = 1 /\ op'[c].name = env.first /\ op'[c].sp.name = env.first
                        /\ DOMAIN op'[c].sp.parts = DOMAIN space[1].parts
      OBVIOUS
    <3>1. PICK p \in partKey :
              /\ op'[c].sid = home[p] /\ Exists(home[p]) /\ op'[c].name = space[home[p]].name
              /\ op'[c].sp.name = space[home[p]].name
              /\ DOMAIN op'[c].sp.parts = DOMAIN space[home[p]].parts
      BY <1>1, <1>3, BeginShape
    <3>2. home[p] \in SpaceId
      BY <1>1 DEF TInv, TypeOK
    <3> QED
      BY <3>1, <3>2 DEF UpdateInv
  <2>4. ~Writing(c)' /\ op'[c].pc # "sweep"
    BY <1>1, <1>3, BeginShape DEF Writing
  <2>5. Knows(c)'
    BY <1>1, <2>1, <2>2, <2>3, <2>4 DEF Knows
  <2> QED
    BY <1>2, <2>1, <2>5
<1>4. CASE System \/ UNCHANGED vars
  <2>1. UNCHANGED <<space, op>>
    BY <1>1, <1>4, NoCleaning DEF vars
  <2> QED
    BY <1>1, <2>1 DEF UpdateInv, Knows, Writing, Exists
<1>5. ASSUME NEW c \in Clients, Step(c) PROVE UpdateInv'
  <2>1. Others(c) /\ op[c] \in Request /\ Legal(op[c]) /\ Knows(c)
    BY <1>1, <1>5, HasStep, Zenon DEF Base, Locks, Has, Requests, Fit, UpdateInv
  <2>2. CASE UNCHANGED space /\ ~UpdateWrite(c)
    <3>1. CASE ExpandQuery(c) \/ ConfigQuery(c) \/ MemberQuery(c)
      BY <1>2, <2>1, <2>2, <3>1, QueryKnows
    <3>2. ASSUME Ends(c) \/ (Keeps(c) /\ (op'[c].pc \in {op[c].pc, "key", "query", "raft", "lock"}
                                         \/ (Writing(c) /\ op'[c].pc = "write")
                                         \/ (op'[c].pc = "sweep" /\ ~Exists(1))))
          PROVE  UpdateInv'
      <4> SUFFICES Knows(c)'
        BY <1>2, <2>1, <2>2, Zenon
      <4>1. CASE Ends(c)
        BY <4>1, Zenon DEF Ends, Knows, Writing
      <4>2. CASE ~Ends(c)
        <5>1. Keeps(c) /\ UNCHANGED <<space, env>> /\ Knows(c)
          BY <1>1, <2>1, <2>2, <3>2, <4>2, Zenon
        <5>2. (Exists(1)' <=> Exists(1)) /\ (Writing(c)' => Writing(c))
          BY <3>2, <4>2, <5>1 DEF Exists, Writing
        <5>3. op'[c].pc = "sweep" => ~Exists(1)
          BY <3>2, <4>2, <5>1 DEF Knows
        <5> QED
          BY <5>1, <5>2, <5>3, Zenon DEF Knows, Keeps
      <4> QED
        BY <4>1, <4>2, Zenon
    <3>3. CASE Ready(c) \/ DeleteLock(c) \/ UpdateLock(c) \/ Notify(c) \/ DeleteConf(c)
               \/ UpdateNone(c) \/ MemberRaftFails(c) \/ MemberCreate(c)
      <4>1. Ready(c) \/ Notify(c) => Writing(c)
        BY DEF Ready, Notify, Writing
      <4> QED
        BY <1>1, <3>2, <3>3, <4>1, PlainShape, Zenon DEF Goes
    <3>4. CASE MemberRaft(c)
      <4>1. op[c].kind = "add"
        BY <1>5, <2>1, <3>4, UpdateSteps, Zenon DEF MemberRaft, Legal
      <4> QED
        BY <1>1, <3>2, <3>4, <4>1, PlainShape, Zenon DEF Goes
    <3>5. CASE CreatePartition(c) \/ DeleteReplica(c) \/ DeletePartitionKey(c)
      BY <1>1, <3>2, <3>5, TodoShape, Zenon
    <3>6. CASE NotReady(c)
      <4>1. op[c].kind # "create"
        BY <1>5, UpdateSteps, Zenon
      <4> QED
        BY <1>1, <3>2, <3>6, <4>1, TodoShape, Zenon
    <3>7. CASE DeleteKey(c)
      <4>1. CASE ~Exists(op[c].sid)
        BY <1>1, <3>2, <3>7, <4>1, TodoShape, Zenon
      <4>2. CASE Exists(op[c].sid)
        <5>1. op[c].sid = 1 /\ 1 \in SpaceId
          BY <2>1, <3>7, SpaceMetaAssumption DEF DeleteKey, Legal, Knows, SpaceId
        <5>2. space'[1] = NoSpace
          BY <1>1, <3>7, <4>2, <5>1 DEF DeleteKey, Ids
        <5>3. FALSE
          BY <2>2, <4>2, <5>1, <5>2 DEF Exists, NoSpace
        <5> QED
          BY <5>3
      <4> QED
        BY <4>1, <4>2
    <3> QED
      BY <1>5, <2>2, <3>1, <3>3, <3>4, <3>5, <3>6, <3>7, UpdateSteps
  <2>3. CASE /\ DeleteKey(c) /\ op[c].pc = "key" /\ Exists(1)
             /\ \A i \in SpaceId : space'[i] = IF i = 1 THEN NoSpace ELSE space[i]
    <3>1. 1 \in SpaceId /\ ~Exists(1)'
      BY <2>3, SpaceMetaAssumption DEF SpaceId, Exists, NoSpace
    <3>2. \A i \in SpaceId : ~Exists(i)'
      BY <2>3, <3>1 DEF UpdateInv, Exists
    <3>3. ASSUME NEW d \in Clients PROVE Knows(d)'
      <4>1. CASE d = c
        <5>1. ~Writing(c)'
          BY <1>1, <2>3, TodoShape, Zenon DEF Writing, Ends
        <5>2. op[c].kind = "delete" /\ (Ends(c) \/ Keeps(c))
          BY <1>1, <2>1, <2>3, TodoShape, Zenon DEF Legal
        <5> QED
          BY <1>1, <2>1, <3>1, <4>1, <5>1, <5>2, Zenon DEF Knows, Ends, Keeps
      <4>2. CASE d # c
        <5>1. ~Writing(d) /\ op'[d] = op[d]
          BY <2>1, <2>3, <4>2, OneUpdates DEF Others
        <5>2. Knows(d)
          BY DEF UpdateInv
        <5> QED
          BY <1>1, <3>1, <5>1, <5>2, Zenon DEF Knows, Writing
      <4> QED
        BY <4>1, <4>2
    <3> QED
      BY <3>2, <3>3 DEF UpdateInv
  <2>4. CASE /\ UpdateWrite(c) /\ Writing(c) /\ op[c].pc = "write"
             /\ \A i \in SpaceId : i # 1 => space'[i] = space[i]
             /\ space'[1].version = space[1].version + 1 /\ space'[1].name = env.first
             /\ space'[1].parts = op[c].sp.parts /\ Exists(1)'
    <3>1. DOMAIN space[1].parts \subseteq DOMAIN space'[1].parts /\ Exists(1)
      BY <2>1, <2>4 DEF Knows
    <3>2. ASSUME NEW d \in Clients PROVE Knows(d)'
      <4>1. CASE d = c
        BY <1>1, <2>4, <4>1, PlainShape, Zenon DEF Ends, Knows, Writing
      <4>2. CASE d # c
        <5>1. ~Writing(d) /\ op[d].pc # "sweep" /\ op'[d] = op[d]
          BY <2>1, <2>4, <4>2, OneUpdates DEF Others
        <5>2. Knows(d)
          BY DEF UpdateInv
        <5> QED
          BY <1>1, <3>1, <5>1, <5>2, Zenon DEF Knows, Writing
      <4> QED
        BY <4>1, <4>2
    <3>3. \A i \in SpaceId : Exists(i)' => i = 1 /\ space'[i].name = env'.first
      BY <1>1, <2>4 DEF UpdateInv, Exists
    <3> QED
      BY <3>2, <3>3 DEF UpdateInv
  <2> QED
    BY <1>5, <2>2, <2>3, <2>4, UpdateSpaces
<1> QED
  BY <1>3, <1>4, <1>5 DEF Next

\* It holds at first.
LEMMA UpdateInit == Init => UpdateInv
<1> SUFFICES ASSUME Init PROVE UpdateInv
  OBVIOUS
<1>1. \A i \in SpaceId : Exists(i) => i = 1 /\ space[i].name = env.first
  BY InitIs
<1>2. \A c \in Clients : op[c] = Idle
  BY DEF Init
<1> QED
  BY <1>1, <1>2 DEF UpdateInv, Knows, Writing, Idle

UpdateAll == Base /\ (Updated => UpdateInv)

\* It always holds.
LEMMA UpdateAlways == Spec => []UpdateAll
<1>1. Init => UpdateAll
  BY BaseInit, UpdateInit DEF UpdateAll
<1>2. UpdateAll /\ [Next]_vars => UpdateAll'
  BY BaseStep, UpdateStep, EnvStays DEF UpdateAll, Updated, Only
<1> QED
  BY <1>1, <1>2, PTL DEF Spec

\* What one step may do to the space.
LEMMA SpaceChanges ==
    ASSUME UpdateAll, Updated, [Next]_vars
    PROVE  /\ \A i \in SpaceId : ~Exists(i) => ~Exists(i)'
           /\ \A i \in SpaceId : Exists(i) /\ Exists(i)' /\ space'[i] # space[i] =>
                 /\ space'[i].version > space[i].version
                 /\ DOMAIN space[i].parts \subseteq DOMAIN space'[i].parts
<1>1. Base /\ Ids /\ UpdateInv /\ ~env.cleaning
  BY DEF UpdateAll, Base, TInv, Updated, Only
<1>2. CASE UNCHANGED space
  BY <1>2 DEF Exists
<1>3. ASSUME NEW c \in Clients, Step(c), ~UNCHANGED space
      PROVE  /\ \A i \in SpaceId : ~Exists(i) => ~Exists(i)'
             /\ \A i \in SpaceId : Exists(i) /\ Exists(i)' /\ space'[i] # space[i] =>
                   /\ space'[i].version > space[i].version
                   /\ DOMAIN space[i].parts \subseteq DOMAIN space'[i].parts
  <2>1. CASE /\ DeleteKey(c) /\ op[c].pc = "key" /\ Exists(1)
             /\ \A i \in SpaceId : space'[i] = IF i = 1 THEN NoSpace ELSE space[i]
    BY <2>1 DEF Exists, NoSpace
  <2>2. CASE /\ UpdateWrite(c) /\ Writing(c) /\ op[c].pc = "write"
             /\ \A i \in SpaceId : i # 1 => space'[i] = space[i]
             /\ space'[1].version = space[1].version + 1 /\ space'[1].name = env.first
             /\ space'[1].parts = op[c].sp.parts /\ Exists(1)'
    <3>1. Exists(1) /\ DOMAIN space[1].parts \subseteq DOMAIN space'[1].parts
      BY <1>1, <2>2 DEF UpdateInv, Knows
    <3>2. 1 \in SpaceId
      BY SpaceMetaAssumption DEF SpaceId
    <3>3. space[1].version \in Nat
      BY <1>1, <3>1, <3>2, ExistsMade, SpaceRecordIs
    <3>4. space'[1].version > space[1].version
      BY <2>2, <3>3
    <3> QED
      BY <2>2, <3>1, <3>4 DEF Exists
  <2> QED
    BY <1>1, <1>3, <2>1, <2>2, UpdateSpaces
<1> QED
  BY <1>1, <1>2, <1>3, NoCleaning, BeginKeeps DEF Next, vars

\* A space that is deleted stays deleted: an update reads the space and writes it
\* under the lock that a deletion takes too.
THEOREM DeletionsStay == Spec => DeletedStays
<1>1. UpdateAll /\ [Next]_vars => [Only({"expand", "config", "delete"}, {}) => NotRevived]_vars
  <2> SUFFICES ASSUME UpdateAll, [Next]_vars, Only({"expand", "config", "delete"}, {})
               PROVE  NotRevived
    OBVIOUS
  <2>1. Updated /\ 1 .. made \subseteq SpaceId
    BY IdsAre DEF Updated, Only, UpdateAll, Base, TInv
  <2> QED
    BY <2>1, SpaceChanges DEF NotRevived
<1> QED
  BY <1>1, UpdateAlways, PTL DEF Spec, DeletedStays

\* A space that changes has a greater version, also when a ChangeMember, which read
\* the space before it had the lock, writes it; and it loses no partition:
\* handleConfigurationUpdate asks for as many as there are, and a ChangeMember has
\* no others.
THEOREM UpdatesKept == Spec => UpdatesKeep
<1>1. UpdateAll /\ [Next]_vars =>
        [Only({"expand", "config", "delete", "add"}, {}) =>
            \A i \in SpaceId : Exists(i) /\ Exists(i)' =>
                /\ space'[i] # space[i] => space'[i].version > space[i].version
                /\ DOMAIN space[i].parts \subseteq DOMAIN space'[i].parts]_vars
  BY SpaceChanges DEF Updated
<1> QED
  BY <1>1, UpdateAlways, PTL DEF Spec, UpdatesKeep

=============================================================================
