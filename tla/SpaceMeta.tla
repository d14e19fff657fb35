------------------------------ MODULE SpaceMeta ------------------------------
(***************************************************************************)
(* The metadata of the spaces of a database in etcd, and the partitions it *)
(* stands for on the partition servers (PS): CreateSpace, DeleteSpace,     *)
(* UpdateSpace (a new configuration, more partitions), ChangeMember,       *)
(* DeleteDB, CleanTask and the registration of partitions by their leaders.*)
(*                                                                         *)
(* A client serves one request, in the steps between which the others can  *)
(* see or change etcd or a PS.  Locks exclude (DistLock is about them).    *)
(* The Update of the store is a Put: it writes a key that was deleted too. *)
(* Its Delete fails when there is no key.                                  *)
(***************************************************************************)
EXTENDS Naturals, FiniteSets, FiniteSetsExt

CONSTANTS
    Clients,       \* requests
    Names,         \* names of spaces
    Servers,       \* partition servers
    ReplicaNum,
    MaxSpaces, MaxPids,
    Settings       \* what may happen together; one setting per behaviour

RequestKinds == {"create", "delete", "expand", "config", "rename", "dropdb", "add", "remove"}

\* kinds of the requests that are made and how many there are; the names they
\* use; the space that is there at first ("none" for no space); the partitions of
\* a new space and of all; whether CleanTask is called; what may fail: "create" a
\* partition, a "rpc", "etcd"
Setting == [kinds : SUBSET RequestKinds, requests : Nat, names : SUBSET Names,
            first : Names \cup {"none"}, partitions : Nat \ {0}, pids : 0 .. MaxPids,
            cleaning : BOOLEAN, faults : SUBSET {"create", "rpc", "etcd"}]

ASSUME SpaceMetaAssumption ==
    /\ IsFiniteSet(Servers) /\ "key" \notin Servers
    /\ ReplicaNum \in 1 .. Cardinality(Servers)
    /\ MaxSpaces \in Nat \ {0} /\ MaxPids \in Nat
    /\ Names \cap {"none", "space_name"} = {}
    /\ \A e \in Settings : e \in Setting /\ (e.first # "none" => e.partitions <= e.pids)

VARIABLES
    db,       \* whether the database exists
    space,    \* the space keys
    made,     \* number of space ids given
    home,     \* SpaceId of every partition id given
    partKey,  \* the partition keys
    conf,     \* the space config keys
    ps,       \* partitions on each PS
    raft,     \* members of the raft group of each partition
    regs,     \* registrations under way
    held,     \* the locks, with their holders
    op,       \* the requests
    hb,       \* PartitionIds of each server, as of its last heartbeat
    clean,    \* CleanTask
    env       \* the setting

vars == <<db, space, made, home, partKey, conf, ps, raft, regs, held, op, hb, clean, env>>

SpaceId == 1 .. MaxSpaces

Pid == 1 .. MaxPids

LockKey == Names \cup {"space_name"}

NoParts == [p \in {} |-> {}]

NoSpace == [name |-> "none", enabled |-> FALSE, version |-> 0, parts |-> NoParts]

Exists(i) == space[i].version > 0

\* the requests that end in UpdateSpace
Updates == {"expand", "config", "rename", "add", "remove"}

\* QuerySpaceByName takes the first space of that name
Named(n) == {i \in SpaceId : Exists(i) /\ space[i].name = n}

Query(n) == Min(Named(n))

\* the replicas of partitions, and what a removal goes through: the replicas of
\* a partition and then its key
Pairs(parts) == {t \in (DOMAIN parts) \X Servers : t[2] \in parts[t[1]]}

Sweep(parts) == Pairs(parts) \cup ((DOMAIN parts) \X {"key"})

\* NewIDGenerate
NewPids(k) == {Cardinality(DOMAIN home) + j : j \in 1 .. k}

\* filterAndSortServer and selectServersForPartition take the servers with the
\* fewest partitions: here, any
Placement(P) == [P -> {S \in SUBSET Servers : Cardinality(S) = ReplicaNum}]

Idle == [kind |-> "none", name |-> "none", pc |-> "idle", sid |-> 0, sp |-> NoSpace,
         new |-> NoParts, todo |-> {}, bad |-> FALSE]

Init ==
    \E e \in Settings : LET P == IF e.first = "none" THEN {} ELSE 1 .. e.partitions IN
    \E S \in Placement(P) :
        /\ env = e
        /\ db = TRUE
        /\ made = IF P = {} THEN 0 ELSE 1
        /\ space = [i \in SpaceId |->
                       IF P # {} /\ i = 1
                       THEN [name |-> e.first, enabled |-> TRUE, version |-> 2, parts |-> S]
                       ELSE NoSpace]
        /\ home = [p \in P |-> 1]
        /\ partKey = P
        /\ conf = 1 .. made
        /\ ps = [s \in Servers |-> {p \in P : s \in S[p]}]
        /\ raft = [p \in Pid |-> IF p \in P THEN S[p] ELSE {}]
        /\ regs = {}
        /\ held = {}
        /\ op = [c \in Clients |-> Idle]
        /\ hb = ps
        /\ clean = [pc |-> "idle", todo |-> {}, hit |-> {}]

----------------------------------------------------------------------------
(* What the requests share.                                                *)

Go(c, q) == op' = [op EXCEPT ![c].pc = q]

Done(c) == op' = [op EXCEPT ![c] = [Idle EXCEPT !.pc = "done"]]

Unlock(c) == held' = {h \in held : h[2] # c}

\* a request returns and gives up its lock
Return(c) == Done(c) /\ Unlock(c)

Lock(c, k) ==
    /\ \A h \in held : h[1] # k
    /\ held' = held \cup {<<k, c>>}

\* raft elects a leader when a majority of the members has the partition
Elects(p) ==
    LET alive == {s \in raft[p] : p \in ps[s]} IN
    2 * Cardinality(alive) > Cardinality(raft[p])

\* slip: the version is not increased
UpdateSpaceDataSame(i, sp) == space' = [space EXCEPT ![i] = sp]

\* UpdateSpaceData: a Put of the next version
UpdateSpaceData(i, sp) == space' = [space EXCEPT ![i] = [sp EXCEPT !.version = @ + 1]]

\* DeletePartition of the PS; a call that fails is logged
DeletePartition(p, s) ==
    \/ ps' = [ps EXCEPT ![s] = @ \ {p}]
    \/ "rpc" \in env.faults /\ UNCHANGED ps

\* one call of createPartitionOnServers: an error, also one after the server has
\* stored the partition, ends the goroutine of that partition and is sent to
\* waitForPartitionsReady
CreatePartition(c) ==
    /\ op[c].pc = "build"
    /\ \E t \in op[c].todo :
         \/ /\ ps' = [ps EXCEPT ![t[2]] = @ \cup {t[1]}]
            /\ raft' = [raft EXCEPT ![t[1]] = op[c].new[t[1]]]
            /\ op' = [op EXCEPT ![c].todo = @ \ {t}]
         \/ /\ "create" \in env.faults
            /\ op' = [op EXCEPT ![c].todo = {u \in @ : u[1] # t[1]}, ![c].bad = TRUE]
            /\ \/ UNCHANGED <<ps, raft>>
               \/ /\ ps' = [ps EXCEPT ![t[2]] = @ \cup {t[1]}]
                  /\ raft' = [raft EXCEPT ![t[1]] = op[c].new[t[1]]]
    /\ UNCHANGED <<env, db, space, made, home, partKey, conf, regs, held, hb, clean>>

\* slip: nobody waits for the leaders
ReadyEarly(c) ==
    /\ op[c].pc = "build"
    /\ op[c].todo = {}
    /\ ~op[c].bad
    /\ Go(c, "write")
    /\ UNCHANGED <<env, db, space, made, home, partKey, conf, ps, raft, regs, held, hb, clean>>

\* waitForPartitionsReady returns: every partition has a leader that registered
Ready(c) ==
    /\ op[c].pc = "build"
    /\ op[c].todo = {}
    /\ ~op[c].bad
    /\ DOMAIN op[c].new \subseteq partKey
    /\ Go(c, "write")
    /\ UNCHANGED <<env, db, space, made, home, partKey, conf, ps, raft, regs, held, hb, clean>>

\* slip: the partitions that were created are kept
NotReadyKeeps(c) ==
    /\ op[c].pc = "build"
    /\ op[c].todo = {}
    /\ op[c].bad
    /\ op' = [op EXCEPT ![c].pc = "undo"]
    /\ UNCHANGED <<env, db, space, made, home, partKey, conf, ps, raft, regs, held, hb, clean>>

\* ... or fails, also on a query that does (the context of the API is never
\* done, so that it may as well wait for ever): CreateSpace removes the partitions, expandPartitions does not
NotReady(c) ==
    /\ op[c].pc = "build"
    /\ op[c].todo = {}
    /\ op[c].bad \/ "etcd" \in env.faults
    /\ IF op[c].kind = "create"
       THEN /\ op' = [op EXCEPT ![c].pc = "undo", ![c].todo = Sweep(op[c].new)]
            /\ UNCHANGED held
       ELSE Return(c)
    /\ UNCHANGED <<env, db, space, made, home, partKey, conf, ps, raft, regs, hb, clean>>

----------------------------------------------------------------------------
(* CreateSpace.                                                            *)

CreateBegin(c, n) ==
    /\ op[c].pc = "idle"
    /\ db
    /\ op' = [op EXCEPT ![c].kind = "create", ![c].name = n, ![c].pc = "lock"]
    /\ UNCHANGED <<env, db, space, made, home, partKey, conf, ps, raft, regs, held, hb, clean>>

\* the lock is that of the package's constant spaceName, whatever the space
CreateKey(c) == "space_name"

\* slip: the name is checked without the lock
CreateLockNot(c) ==
    /\ op[c].kind = "create"
    /\ op[c].pc = "lock"
    /\ Go(c, "check")
    /\ UNCHANGED <<env, db, space, made, home, partKey, conf, ps, raft, regs, held, hb, clean>>

CreateLock(c) ==
    /\ op[c].kind = "create"
    /\ op[c].pc = "lock"
    /\ Lock(c, CreateKey(c))
    /\ Go(c, "check")
    /\ UNCHANGED <<env, db, space, made, home, partKey, conf, ps, raft, regs, hb, clean>>

\* the name is taken: SPACE_EXIST
CreateExists(c) ==
    /\ op[c].kind = "create"
    /\ op[c].pc = "check"
    /\ Named(op[c].name) # {}
    /\ Return(c)
    /\ UNCHANGED <<env, db, space, made, home, partKey, conf, ps, raft, regs, hb, clean>>

CreateCheck(c) ==
    /\ op[c].kind = "create"
    /\ op[c].pc = "check"
    /\ Named(op[c].name) = {}
    /\ Go(c, "put")
    /\ UNCHANGED <<env, db, space, made, home, partKey, conf, ps, raft, regs, held, hb, clean>>

\* the disabled space is written before its servers are chosen
CreatePut(c) ==
    LET P == NewPids(env.partitions)
        i == made + 1
        sp == [name |-> op[c].name, enabled |-> FALSE, version |-> 1,
               parts |-> [p \in P |-> {}]]
    IN
    /\ op[c].pc = "put"
    /\ i <= MaxSpaces /\ P \subseteq 1 .. env.pids
    /\ made' = i
    /\ home' = [p \in DOMAIN home \cup P |-> IF p \in P THEN i ELSE home[p]]
    /\ space' = [space EXCEPT ![i] = sp]
    /\ \E new \in Placement(P) :
         op' = [op EXCEPT ![c] = [@ EXCEPT !.pc = "build", !.sid = i,
                   !.sp = [sp EXCEPT !.parts = new], !.new = new, !.todo = Pairs(new)]]
    /\ UNCHANGED <<env, db, partKey, conf, ps, raft, regs, held, hb, clean>>

\* a removal: the next replica, and the next partition key
NextPart(c) == Min({t[1] : t \in op[c].todo})

NextReplicas(c) == {t \in op[c].todo : t[1] = NextPart(c) /\ t[2] # "key"}

UndoPartition(c) ==
    /\ op[c].pc = "undo"
    /\ op[c].todo # {}
    /\ \E t \in NextReplicas(c) :
         /\ DeletePartition(t[1], t[2])
         /\ op' = [op EXCEPT ![c].todo = @ \ {t}]
    /\ UNCHANGED <<env, db, space, made, home, partKey, conf, raft, regs, held, hb, clean>>

UndoKey(c) ==
    /\ op[c].pc = "undo"
    /\ op[c].todo # {}
    /\ NextReplicas(c) = {}
    /\ partKey' = partKey \ {NextPart(c)}
    /\ op' = [op EXCEPT ![c].todo = @ \ {<<NextPart(c), "key">>}]
    /\ UNCHANGED <<env, db, space, made, home, conf, ps, raft, regs, held, hb, clean>>

\* the deferred functions delete the disabled space and unlock
UndoSpace(c) ==
    /\ op[c].pc = "undo"
    /\ op[c].todo = {}
    /\ space' = [space EXCEPT ![op[c].sid] = NoSpace]
    /\ Return(c)
    /\ UNCHANGED <<env, db, made, home, partKey, conf, ps, raft, regs, hb, clean>>

CreateEnable(c) ==
    /\ op[c].kind = "create"
    /\ op[c].pc = "write"
    /\ UpdateSpaceData(op[c].sid, [op[c].sp EXCEPT !.enabled = TRUE])
    /\ Unlock(c)
    /\ Go(c, "conf")
    /\ UNCHANGED <<env, db, made, home, partKey, conf, ps, raft, regs, hb, clean>>

\* the Put fails, the deferred Delete does not
CreateEnableFails(c) ==
    /\ "etcd" \in env.faults
    /\ op[c].kind = "create"
    /\ op[c].pc = "write"
    /\ space' = [space EXCEPT ![op[c].sid] = NoSpace]
    /\ Return(c)
    /\ UNCHANGED <<env, db, made, home, partKey, conf, ps, raft, regs, hb, clean>>

\* createSpace of the API asks a partition for its configuration and writes it
CreateConf(c) ==
    /\ op[c].pc = "conf"
    /\ conf' = IF Named(op[c].name) = {} THEN conf ELSE conf \cup {op[c].sid}
    /\ Done(c)
    /\ UNCHANGED <<env, db, space, made, home, partKey, ps, raft, regs, held, hb, clean>>

----------------------------------------------------------------------------
(* DeleteSpace.                                                            *)

\* the space is queried before the lock is taken
DeleteBegin(c, n) ==
    /\ op[c].pc = "idle"
    /\ db
    /\ Named(n) # {}
    /\ op' = [op EXCEPT ![c] = [@ EXCEPT !.kind = "delete", !.name = n, !.pc = "lock",
                 !.sid = Query(n), !.sp = space[Query(n)]]]
    /\ UNCHANGED <<env, db, space, made, home, partKey, conf, ps, raft, regs, held, hb, clean>>

DeleteLock(c) ==
    /\ op[c].kind = "delete"
    /\ op[c].pc = "lock"
    /\ Lock(c, op[c].name)
    /\ Go(c, "key")
    /\ UNCHANGED <<env, db, space, made, home, partKey, conf, ps, raft, regs, hb, clean>>

DeleteKey(c) ==
    /\ op[c].pc = "key"
    /\ IF Exists(op[c].sid)
       THEN /\ space' = [space EXCEPT ![op[c].sid] = NoSpace]
            /\ op' = [op EXCEPT ![c].pc = "sweep", ![c].todo = Sweep(op[c].sp.parts)]
            /\ UNCHANGED held
       ELSE Return(c) /\ UNCHANGED space
    /\ UNCHANGED <<env, db, made, home, partKey, conf, ps, raft, regs, hb, clean>>

DeleteReplica(c) ==
    /\ op[c].pc = "sweep"
    /\ op[c].todo # {}
    /\ \E t \in NextReplicas(c) :
         /\ DeletePartition(t[1], t[2])
         /\ op' = [op EXCEPT ![c].todo = @ \ {t}]
    /\ UNCHANGED <<env, db, space, made, home, partKey, conf, raft, regs, held, hb, clean>>

\* a partition without a key ends the request
DeletePartitionKey(c) ==
    LET p == NextPart(c) IN
    /\ op[c].pc = "sweep"
    /\ op[c].todo # {}
    /\ NextReplicas(c) = {}
    /\ partKey' = partKey \ {p}
    /\ IF p \in partKey
       THEN op' = [op EXCEPT ![c].todo = @ \ {<<p, "key">>}] /\ UNCHANGED held
       ELSE Return(c)
    /\ UNCHANGED <<env, db, space, made, home, conf, ps, raft, regs, hb, clean>>

DeleteConf(c) ==
    /\ op[c].pc = "sweep"
    /\ op[c].todo = {}
    /\ conf' = conf \ {op[c].sid}
    /\ Return(c)
    /\ UNCHANGED <<env, db, space, made, home, partKey, ps, raft, regs, hb, clean>>

----------------------------------------------------------------------------
(* UpdateSpace: expandPartitions and handleConfigurationUpdate.            *)

UpdateBegin(c, k, n) ==
    /\ op[c].pc = "idle"
    /\ op' = [op EXCEPT ![c].kind = k, ![c].name = n, ![c].pc = "lock"]
    /\ UNCHANGED <<env, db, space, made, home, partKey, conf, ps, raft, regs, held, hb, clean>>

\* slip: an update without the lock
UpdateLockNot(c) ==
    /\ op[c].kind \in Updates
    /\ op[c].pc = "lock"
    /\ Go(c, "query")
    /\ UNCHANGED <<env, db, space, made, home, partKey, conf, ps, raft, regs, held, hb, clean>>

UpdateLock(c) ==
    /\ op[c].kind \in Updates
    /\ op[c].pc = "lock"
    /\ Lock(c, op[c].name)
    /\ Go(c, "query")
    /\ UNCHANGED <<env, db, space, made, home, partKey, conf, ps, raft, regs, hb, clean>>

\* no database, no such space
UpdateNone(c) ==
    /\ op[c].pc = "query"
    /\ ~db \/ Named(op[c].name) = {}
    /\ Return(c)
    /\ UNCHANGED <<env, db, space, made, home, partKey, conf, ps, raft, regs, hb, clean>>

ExpandQuery(c) ==
    LET i == Query(op[c].name)
        P == NewPids(1)
    IN
    /\ op[c].kind = "expand"
    /\ op[c].pc = "query"
    /\ db /\ Named(op[c].name) # {}
    /\ P \subseteq 1 .. env.pids
    /\ home' = [p \in DOMAIN home \cup P |-> IF p \in P THEN i ELSE home[p]]
    /\ \E new \in Placement(P) :
         op' = [op EXCEPT ![c] = [@ EXCEPT !.pc = "build", !.sid = i, !.new = new,
                   !.sp = [space[i] EXCEPT !.parts =
                              [p \in DOMAIN @ \cup P |-> IF p \in P THEN new[p] ELSE @[p]]],
                   !.todo = Pairs(new)]]
    /\ UNCHANGED <<env, db, space, made, partKey, conf, ps, raft, regs, held, hb, clean>>

\* a change of the name asks for no other space of that name
ConfigQuery(c) ==
    LET i == Query(op[c].name) IN
    /\ op[c].kind \in {"config", "rename"}
    /\ op[c].pc = "query"
    /\ db /\ Named(op[c].name) # {}
    /\ \E n \in env.names, e \in BOOLEAN :
         /\ IF op[c].kind = "rename" THEN e = space[i].enabled ELSE n = op[c].name
         /\ op' = [op EXCEPT ![c] = [@ EXCEPT !.pc = "notify", !.sid = i,
                       !.sp = [space[i] EXCEPT !.name = n, !.enabled = e]]]
    /\ UNCHANGED <<env, db, space, made, home, partKey, conf, ps, raft, regs, held, hb, clean>>

\* notifyPartitionsConfigUpdate needs the key and the leader of every partition
Notify(c) ==
    /\ op[c].pc = "notify"
    /\ IF \A p \in DOMAIN op[c].sp.parts : p \in partKey /\ Elects(p)
       THEN Go(c, "write") /\ UNCHANGED held
       ELSE Return(c)
    /\ UNCHANGED <<env, db, space, made, home, partKey, conf, ps, raft, regs, hb, clean>>

UpdateWrite(c) ==
    /\ op[c].kind \in Updates
    /\ op[c].pc = "write"
    /\ UpdateSpaceData(op[c].sid, op[c].sp)
    /\ Return(c)
    /\ UNCHANGED <<env, db, made, home, partKey, conf, ps, raft, regs, hb, clean>>

UpdateWriteFails(c) ==
    /\ "etcd" \in env.faults
    /\ op[c].kind # "create"
    /\ op[c].pc = "write"
    /\ Return(c)
    /\ UNCHANGED <<env, db, space, made, home, partKey, conf, ps, raft, regs, hb, clean>>

----------------------------------------------------------------------------
(* DeleteDB, and the registration of a partition by the PS of its leader.  *)

\* no space is found
DropBegin(c) ==
    /\ op[c].pc = "idle"
    /\ db
    /\ \A i \in SpaceId : ~Exists(i)
    /\ op' = [op EXCEPT ![c].kind = "dropdb", ![c].pc = "drop"]
    /\ UNCHANGED <<env, db, space, made, home, partKey, conf, ps, raft, regs, held, hb, clean>>

DropDB(c) ==
    /\ op[c].pc = "drop"
    /\ db' = FALSE
    /\ Done(c)
    /\ UNCHANGED <<env, space, made, home, partKey, conf, ps, raft, regs, held, hb, clean>>

\* registerMaster finds the partition on its PS ...
RegisterMaster(p) ==
    /\ p \notin regs
    /\ Elects(p)
    /\ regs' = regs \cup {p}
    /\ UNCHANGED <<env, db, space, made, home, partKey, conf, ps, raft, held, op, hb, clean>>

\* ... and the master puts its key
RegisterPartition(p) ==
    /\ p \in regs
    /\ regs' = regs \ {p}
    /\ partKey' = partKey \cup {p}
    /\ UNCHANGED <<env, db, space, made, home, conf, ps, raft, held, op, hb, clean>>

Heartbeat(s) ==
    /\ env.cleaning
    /\ hb[s] # ps[s]
    /\ hb' = [hb EXCEPT ![s] = ps[s]]
    /\ UNCHANGED <<env, db, space, made, home, partKey, conf, ps, raft, regs, held, op, clean>>

----------------------------------------------------------------------------
(* ChangeMember: a replica of a partition is added or removed.             *)

\* the partition and the server of a change, kept in op[c].new
Single(p, s) == [q \in {p} |-> {s}]

Target(c) == CHOOSE t \in Pid \X Servers : op[c].new = Single(t[1], t[2])

\* the space is copied, with the new replicas, before any lock is taken
MemberRead(c, k) ==
    /\ op[c].pc = "idle"
    /\ db
    /\ \E p \in partKey, s \in Servers :
         LET i == home[p] IN
         /\ Exists(i) /\ p \in DOMAIN space[i].parts
         /\ k = "add" => s \notin space[i].parts[p]
         /\ k = "remove" => s \in space[i].parts[p] /\ Cardinality(space[i].parts[p]) > 1
         /\ op' = [op EXCEPT ![c] = [@ EXCEPT !.kind = k, !.name = space[i].name,
                      !.pc = IF k = "add" THEN "copy" ELSE "raft", !.sid = i,
                      !.new = Single(p, s),
                      !.sp = [space[i] EXCEPT !.parts[p] =
                                 IF k = "add" THEN @ \cup {s} ELSE @ \ {s}]]]
    /\ UNCHANGED <<env, db, space, made, home, partKey, conf, ps, raft, regs, held, hb, clean>>

\* slip: the raft group changes before the partition is there
MemberCreateNot(c) ==
    /\ op[c].pc = "copy"
    /\ Go(c, "raft")
    /\ UNCHANGED <<env, db, space, made, home, partKey, conf, ps, raft, regs, held, hb, clean>>

\* CreatePartition on the server that is added
MemberCreate(c) ==
    LET p == Target(c)[1]
        s == Target(c)[2]
    IN
    /\ op[c].pc = "copy"
    /\ ps' = [ps EXCEPT ![s] = @ \cup {p}]
    /\ Go(c, "raft")
    /\ UNCHANGED <<env, db, space, made, home, partKey, conf, raft, regs, held, hb, clean>>

\* the leader commits the change of the raft group
MemberRaft(c) ==
    LET p == Target(c)[1]
        s == Target(c)[2]
    IN
    /\ op[c].pc = "raft"
    /\ Elects(p)
    /\ IF op[c].kind = "add"
       THEN raft' = [raft EXCEPT ![p] = @ \cup {s}] /\ Go(c, "lock")
       ELSE raft' = [raft EXCEPT ![p] = @ \ {s}] /\ Go(c, "replica")
    /\ UNCHANGED <<env, db, space, made, home, partKey, conf, ps, regs, held, hb, clean>>

\* or there is none
MemberRaftFails(c) ==
    /\ op[c].pc = "raft"
    /\ ~Elects(Target(c)[1])
    /\ Done(c)
    /\ UNCHANGED <<env, db, space, made, home, partKey, conf, ps, raft, regs, held, hb, clean>>

\* DeleteReplica on the server that is removed
MemberDelete(c) ==
    LET p == Target(c)[1]
        s == Target(c)[2]
    IN
    /\ op[c].pc = "replica"
    /\ ps' = [ps EXCEPT ![s] = @ \ {p}]
    /\ Go(c, "lock")
    /\ UNCHANGED <<env, db, space, made, home, partKey, conf, raft, regs, held, hb, clean>>

\* handleConfigurationUpdate takes the partitions of the copy, when they are as many
MemberQuery(c) ==
    LET i == Query(op[c].name) IN
    /\ op[c].kind \in {"add", "remove"}
    /\ op[c].pc = "query"
    /\ db /\ Named(op[c].name) # {}
    /\ IF Cardinality(DOMAIN op[c].sp.parts) = Cardinality(DOMAIN space[i].parts)
       THEN /\ op' = [op EXCEPT ![c] = [@ EXCEPT !.pc = "notify", !.sid = i,
                         !.sp = [op[c].sp EXCEPT !.version = space[i].version]]]
            /\ UNCHANGED held
       ELSE Return(c)
    /\ UNCHANGED <<env, db, space, made, home, partKey, conf, ps, raft, regs, hb, clean>>

----------------------------------------------------------------------------
(* CleanTask: walkPartitions, walkSpaces and walkServers, each over what it *)
(* read at first.  An item is looked up and, in another step, removed.     *)

CleanBegin ==
    /\ env.cleaning
    /\ clean.pc = "idle"
    /\ clean' = [pc |-> "partitions", todo |-> partKey, hit |-> {}]
    /\ UNCHANGED <<env, db, space, made, home, partKey, conf, ps, raft, regs, held, op, hb>>

\* the walk W goes on to the next item, which is absent, or not
Walk(W, item, absent) ==
    /\ clean.pc = W
    /\ clean.hit = {}
    /\ clean' = [clean EXCEPT !.todo = @ \ {item}, !.hit = IF absent THEN {item} ELSE {}]
    /\ UNCHANGED <<env, db, space, made, home, partKey, conf, ps, raft, regs, held, op, hb>>

\* slip: a space that is not enabled is taken for one that is not there
WalkPartitionEnabled ==
    \E p \in clean.todo : Walk("partitions", p, ~space[home[p]].enabled)

\* a query of the space that fails is taken for a space that is not there
WalkPartition ==
    \E p \in clean.todo :
        \/ Walk("partitions", p, ~Exists(home[p]))
        \/ "etcd" \in env.faults /\ Walk("partitions", p, TRUE)

WalkSpace == \E i \in clean.todo : Walk("spaces", i, ~db)

WalkServer == \E t \in clean.todo : Walk("servers", t, t[1] \notin partKey)

RemovePartitionKey ==
    /\ clean.pc = "partitions"
    /\ clean.hit # {}
    /\ partKey' = partKey \ clean.hit
    /\ clean' = [clean EXCEPT !.hit = {}]
    /\ UNCHANGED <<env, db, space, made, home, conf, ps, raft, regs, held, op, hb>>

RemoveSpaceKey ==
    /\ clean.pc = "spaces"
    /\ clean.hit # {}
    /\ space' = [i \in SpaceId |-> IF i \in clean.hit THEN NoSpace ELSE space[i]]
    /\ clean' = [clean EXCEPT !.hit = {}]
    /\ UNCHANGED <<env, db, made, home, partKey, conf, ps, raft, regs, held, op, hb>>

RemovePartition ==
    /\ clean.pc = "servers"
    /\ \E t \in clean.hit : DeletePartition(t[1], t[2])
    /\ clean' = [clean EXCEPT !.hit = {}]
    /\ UNCHANGED <<env, db, space, made, home, partKey, conf, raft, regs, held, op, hb>>

\* one walk ends and the next one reads its items
Turn(W, q, items) ==
    /\ clean.pc = W
    /\ clean.todo = {} /\ clean.hit = {}
    /\ clean' = [pc |-> q, todo |-> items, hit |-> {}]
    /\ UNCHANGED <<env, db, space, made, home, partKey, conf, ps, raft, regs, held, op, hb>>

CleanTask ==
    \/ CleanBegin
    \/ WalkPartition \/ RemovePartitionKey
    \/ Turn("partitions", "spaces", {i \in SpaceId : Exists(i)})
    \/ WalkSpace \/ RemoveSpaceKey
    \/ Turn("spaces", "servers", {t \in Pid \X Servers : t[1] \in hb[t[2]]})
    \/ WalkServer \/ RemovePartition
    \/ Turn("servers", "done", {})

----------------------------------------------------------------------------

\* one more request comes in
Begin(c) ==
    /\ Cardinality({d \in Clients : op[d].pc # "idle"}) < env.requests
    /\ \/ \E n \in env.names :
            \/ "create" \in env.kinds /\ CreateBegin(c, n)
            \/ "delete" \in env.kinds /\ DeleteBegin(c, n)
            \/ \E k \in env.kinds \cap {"expand", "config", "rename"} : UpdateBegin(c, k, n)
       \/ "dropdb" \in env.kinds /\ DropBegin(c)
       \/ \E k \in env.kinds \cap {"add", "remove"} : MemberRead(c, k)

Step(c) ==
    \/ CreateLock(c) \/ CreateExists(c) \/ CreateCheck(c) \/ CreatePut(c)
    \/ CreatePartition(c) \/ Ready(c) \/ NotReady(c)
    \/ UndoPartition(c) \/ UndoKey(c) \/ UndoSpace(c)
    \/ CreateEnable(c) \/ CreateEnableFails(c) \/ CreateConf(c)
    \/ DeleteLock(c) \/ DeleteKey(c) \/ DeleteReplica(c)
    \/ DeletePartitionKey(c) \/ DeleteConf(c)
    \/ UpdateLock(c) \/ UpdateNone(c) \/ ExpandQuery(c) \/ ConfigQuery(c)
    \/ Notify(c) \/ UpdateWrite(c) \/ UpdateWriteFails(c)
    \/ DropDB(c)
    \/ MemberCreate(c) \/ MemberRaft(c) \/ MemberRaftFails(c)
    \/ MemberDelete(c) \/ MemberQuery(c)

System ==
    \/ \E p \in Pid : RegisterMaster(p) \/ RegisterPartition(p)
    \/ \E s \in Servers : Heartbeat(s)
    \/ CleanTask

Next ==
    \/ \E c \in Clients : Begin(c) \/ Step(c)
    \/ System

Spec == Init /\ [][Next]_vars

----------------------------------------------------------------------------

SpaceRecord ==
    [name : Names, enabled : BOOLEAN, version : Nat \ {0},
     parts : UNION {[P -> SUBSET Servers] : P \in SUBSET Pid}]

\* the state is well formed
TypeOK ==
    /\ db \in BOOLEAN
    /\ \A i \in SpaceId : space[i] = NoSpace \/ space[i] \in SpaceRecord
    /\ made \in 0 .. MaxSpaces
    /\ DOMAIN home \subseteq Pid /\ \A p \in DOMAIN home : home[p] \in SpaceId
    /\ partKey \subseteq DOMAIN home /\ regs \subseteq DOMAIN home
    /\ conf \subseteq SpaceId
    /\ ps \in [Servers -> SUBSET DOMAIN home]
    /\ raft \in [Pid -> SUBSET Servers]
    /\ held \subseteq LockKey \X Clients
    /\ hb \in [Servers -> SUBSET DOMAIN home]

\* the requests are of the given kinds, only the given calls fail, and CleanTask
\* is not called
Only(kinds, faults) ==
    env.kinds \subseteq kinds /\ env.faults \subseteq faults /\ ~env.cleaning

\* no two spaces of a database have the same name, however many are created and
\* deleted at once and whatever fails: CreateSpace answers SPACE_EXIST
UniqueNames ==
    Only({"create", "delete"}, {"create", "rpc", "etcd"}) =>
        \A i, j \in SpaceId : Exists(i) /\ Exists(j) /\ i # j => space[i].name # space[j].name

\* an enabled space can serve: each of its partitions is registered, and is on
\* the servers the metadata names.  CreateSpace waits for the leaders; updates
\* and deletions exclude each other
EnabledHosted ==
    Only({"create"}, {"create"}) \/ Only({"expand", "config", "delete"}, {}) =>
        \A i \in SpaceId : Exists(i) /\ space[i].enabled =>
            \A p \in DOMAIN space[i].parts :
                /\ p \in partKey
                /\ space[i].parts[p] # {}
                /\ \A s \in space[i].parts[p] : p \in ps[s]

\* the members of a raft group have the partition, which is created before the
\* raft change, also when ChangeMember meets other updates
MembersHosted ==
    Only({"add", "config", "expand"}, {}) =>
        \A i \in SpaceId : Exists(i) =>
            \A p \in DOMAIN space[i].parts : \A s \in raft[p] : p \in ps[s]

AllDone == \A c \in Clients : op[c].pc \in {"idle", "done"}

\* when no creation is under way, every partition on a PS belongs to a space:
\* a creation that fails removes what it created
NothingLeft ==
    Only({"create"}, {"create"}) /\ AllDone =>
        \A s \in Servers : \A p \in ps[s] : p \in DOMAIN space[home[p]].parts

NotRevived == \A i \in 1 .. made : ~Exists(i) => ~Exists(i)'

\* updates of a space, which Put it unconditionally, do not bring it back
DeletedStays == [][Only({"expand", "config", "delete"}, {}) => NotRevived]_vars

\* two contents of a space have two versions, the later one the greater (routers
\* take a new content only when its version is greater), and a space does not
\* lose a partition, with the documents in it, to a request that read the space
\* before another added it
UpdatesKeep ==
    [][Only({"expand", "config", "delete", "add"}, {}) =>
        \A i \in SpaceId : Exists(i) /\ Exists(i)' =>
            /\ space'[i] # space[i] => space'[i].version > space[i].version
            /\ DOMAIN space[i].parts \subseteq DOMAIN space'[i].parts]_vars

\* CleanTask removes only the keys of partitions that belong to no space, beside
\* creations that fail and registrations that arrive late
CleanSafe ==
    [][env.kinds \subseteq {"create"} /\ env.faults \subseteq {"create"} =>
        (RemovePartitionKey => \A p \in partKey \ partKey' : ~Exists(home[p]))]_vars

=============================================================================
