------------------------------ MODULE MCMaster ------------------------------
(***************************************************************************)
(* The master: concurrent requests on users, roles, databases, aliases and *)
(* settings (MasterCatalog), or partition servers that stop and return     *)
(* with the masters and operators that move their partitions (ServerLife), *)
(* or changes of the indexes of a space (SpaceIndexes). about tells which  *)
(* of them a behaviour is about; the others stay in an initial state.      *)
(***************************************************************************)
EXTENDS MasterCatalog, ServerLife, SpaceIndexes

VARIABLE about

----------------------------------------------------------------------------
(* Three requests at once.                                                 *)

root == [name |-> "root", pw |-> "p0"]
ann == [name |-> "ann", pw |-> "p1"]

Base == (UserKey("root") :> [pw |-> "p0", role |-> "root"])

WithAnn == (UserKey("ann") :> [pw |-> "p1", role |-> "keeper"])
           @@ (RoleKey("keeper") :> (All("WriteRead", {"ResourceUser", "ResourceRole", "ResourceAlias"}) @@ ("ResourceDB" :> "ReadOnly"))) @@ Base

WithDB == (DBKeyName("db") :> 1) @@ (DBKeyId(1) :> "db") @@ (DBKeyBody(1) :> [name |-> "db", ps |-> {"h1"}]) @@ WithAnn

Scene(store, reqs) ==
    [req |-> reqs, kv |-> store, spaces |-> {}, lastId |-> 1, faults |-> 1, timeout |-> FALSE, limited |-> FALSE,
     memory |-> DefaultMemory, engine |-> <<>>, moving |-> {}]

Three(x, y, z) == ("c1" :> x) @@ ("c2" :> y) @@ ("c3" :> z)

Space == <<1, "sp">>

MCScenes == <<
    \* users
    [Scene(WithAnn, Three(createUser("bob", "p2", "keeper", ann), createUser("bob", "p3", "keeper", root), deleteUser("bob", root))) EXCEPT !.timeout = TRUE],
    Scene(WithAnn, Three(updateUser("ann", [role |-> "defaultSpaceAdmin"], root), updateUser("ann", [pw |-> "p4", old |-> "p1"], ann), getUser("ann", root))),
    Scene(WithAnn, Three(updateUser("ann", [pw |-> "p4"], root), deleteUser("ann", root), createUser("ann", "p5", "keeper", root))),
    Scene(<<>>, Three(startMaster("p0"), startMaster("p0"), deleteUser("root", root))),
    \* roles
    Scene(WithAnn, Three(changeRolePrivilege("keeper", "Grant", ("ResourceUser" :> "ReadOnly") @@ ("ResourceConfig" :> "WriteRead"), root),
                         changeRolePrivilege("keeper", "Revoke", ("ResourceUser" :> "WriteRead"), root),
                         deleteUser("ann", ann))),
    Scene(WithAnn, Three(deleteRole("keeper", root), createRole("keeper", ("ResourceDB" :> "WriteOnly"), root), updateUser("ann", [role |-> "keeper"], root))),
    Scene(WithAnn, Three(deleteRole("root", root), createRole("r2", <<>>, ann), getRole("r2", root))),
    \* databases
    [Scene(WithDB, Three(deleteDB("db", root), createDB("db", ann), getDB("db", root))) EXCEPT !.spaces = {Space}, !.moving = {Space}],
    Scene(WithDB, Three(modifyDB("1", "addIP", "h2", root), modifyDB("db", "removeIP", "h1", ann), deleteDB("1", root))),
    Scene(WithDB, Three(deleteDB("1", root), deleteDB("db", root), createDB("db", ann))),
    [Scene(WithAnn, Three(createDB("db", ann), createDB("db2", root), getDB("db", root))) EXCEPT !.limited = TRUE],
    \* aliases
    [Scene(WithDB, Three(createAlias("al", "db", "sp", ann), modifyAlias("al", "db", "sp2", root), deleteAlias("al", root)))
        EXCEPT !.spaces = {Space, <<1, "sp2">>}, !.moving = {Space}],
    [Scene(WithDB, Three(createAlias("al", "db", "sp", ann), getAlias("al", ann), deleteAlias("al", root))) EXCEPT !.spaces = {Space}],
    \* settings
    [Scene(WithAnn, Three(modifyRequestLimitCfg([on |-> TRUE, read |-> 7, write |-> 0], root), modifyRequestLimitCfg([on |-> FALSE, read |-> 8, write |-> 9], root),
                         modifySlowSearchIsolationCfg(TRUE))) EXCEPT !.timeout = TRUE],
    Scene(WithAnn, Three(modifyMemoryLimitCfg([on |-> TRUE, router |-> 70, ps |-> 0], root), modifyMemoryLimitCfg([on |-> TRUE, router |-> 0, ps |-> 60], root),
                         modifyRequestLimitCfg([on |-> TRUE, read |-> 1, write |-> 1], ann))),
    [Scene(WithDB, Three(modifySpaceConfig("db", "sp", [cache |-> 5], root), modifySpaceConfig("db", "sp", [cache |-> 6, path |-> 1], root), modifySlowSearchIsolationCfg(FALSE)))
        EXCEPT !.spaces = {Space}],
    \* locks removed by hand
    Scene(WithDB, Three(cleanLock(root), deleteDB("db", root), createDB("db", root)))
  >>

----------------------------------------------------------------------------
(* Four servers, the last of them without partitions.                      *)

Budget(c, f, b, w) == [crash |-> c, fault |-> f, beat |-> b, watch |-> w, lease |-> 0]

One == [p \in Parts |-> IF p = "p1" THEN {"s1", "s2", "s3"} ELSE {}]
Two == [p \in Parts |-> {"s1", "s2", "s3"}]

\* s1 stops for good; nobody recovers it
Story(masters, replicas, b) ==
    [masters |-> masters, replicas |-> replicas, stops |-> {"s1"}, down |-> {}, returns |-> {}, drops |-> {}, auto |-> FALSE, rnum |-> 3,
     zone |-> <<>>, oper |-> [op |-> "none", failed |-> "s1", new |-> "s4"], budget |-> b]
Auto(st) == [st EXCEPT !.auto = TRUE]
Returns(st) == [st EXCEPT !.returns = {"s1"}]
By(st, op) == [st EXCEPT !.oper.op = op]

MCStories == <<
    \* the records of a server that returns
    Returns(Story(Masters, One, Budget(1, 1, 0, 0))),
    Story(Masters, One, Budget(0, 1, 1, 0)),
    Returns(Story({"m1"}, One, Budget(1, 0, 1, 1))),
    \* recovery, also of a server that returns, in zones and of a partition that is dropped
    Auto(Story({"m1"}, One, Budget(1, 1, 0, 0))),
    Auto(Story(Masters, One, Budget(1, 0, 0, 0))),
    [Auto(Story(Masters, One, Budget(0, 0, 0, 0))) EXCEPT !.down = {"s1"}, !.budget.lease = 1],
    Auto(Returns(Story({"m1"}, One, Budget(1, 0, 0, 1)))),
    [Auto(Story({"m1"}, One, Budget(1, 0, 0, 0))) EXCEPT !.zone = [s \in Servers |-> IF s = "s4" THEN "z2" ELSE "z1"]],
    [Auto(Story({"m1"}, One, Budget(1, 0, 0, 0))) EXCEPT !.drops = {"p1"}],
    \* requests of operators
    By(Auto(Story({"m1"}, One, Budget(1, 0, 0, 0))), "recover"),
    By(Returns(Story({"m1"}, One, Budget(1, 0, 0, 0))), "recover"),
    By(Returns(Story({"m1"}, One, Budget(1, 1, 0, 0))), "removeMeta"),
    By(Auto(Story({"m1"}, One, Budget(1, 0, 0, 0))), "clear"),
    By(Story({"m1"}, One, Budget(1, 1, 0, 0)), "addReplica"),
    By(Returns(Story({"m1"}, One, Budget(1, 0, 0, 0))), "dropReplica")
  >>

----------------------------------------------------------------------------
(* Requests on the indexes of a space with two partitions.                 *)

Plain == [v |-> "vector", a |-> "integer", b |-> "integer"]
Ix(n, t, on) == [name |-> <<n>>, type |-> t, on |-> on]
Inline(f, n, t) == [field |-> f, name |-> n, type |-> t]
AddIx(ixs) == [op |-> "add", indexes |-> ixs]
RemoveIx(n) == [op |-> "remove", name |-> n]
Member == [op |-> "member"]
Update(fields, inline) == [op |-> "update", new |-> [fields |-> fields, inline |-> inline]]

Vector == {Inline("v", "", "HNSW")}
A == Ix("ia", "INVERTED", <<"a">>)
AB == Ix("cab", "COMPOSITE", <<"a", "b">>)

\* copies: replicas of the first partition, the second has one; m: mishaps
Plan(inline, given, requests, copies, m) ==
    [fields |-> Plain, inline |-> inline, given |-> given, requests |-> requests, copies |-> <<copies, 1>>,
     mishaps |-> [faults |-> m[1], restarts |-> m[2], snapshots |-> m[3]]]

MCPlans == <<
    Plan(Vector, {}, <<RemoveIx(MakeAutoIndexName("v"))>>, 1, <<1, 1, 0>>),
    Plan(Vector, {}, <<RemoveIx(MakeAutoIndexName("v")), AddIx({A})>>, 1, <<0, 1, 0>>),
    Plan(Vector, {}, <<AddIx({A, AB})>>, 1, <<1, 0, 0>>),
    Plan({Inline("v", "h", "HNSW"), Inline("a", "", "INVERTED")}, {}, <<RemoveIx(MakeAutoIndexName("a")), Member>>, 1, <<1, 1, 0>>),
    Plan(Vector, {A}, <<AddIx({A}), RemoveIx(<<"ia">>)>>, 1, <<1, 0, 0>>),
    Plan(Vector, {A}, <<AddIx({Ix("i2", "BITMAP", <<"a">>)}), RemoveIx(<<"ia">>), RemoveIx(<<"ia">>)>>, 1, <<0, 0, 0>>),
    Plan(Vector, {A}, <<Update([v |-> "vector", c |-> "integer"], Vector), Update([a |-> "string"], {})>>, 1, <<1, 1, 0>>),
    Plan(Vector, {}, <<AddIx({A})>>, 2, <<1, 0, 1>>),
    Plan(Vector, {A}, <<RemoveIx(<<"ia">>)>>, 2, <<0, 1, 1>>),
    Plan(Vector, {}, <<AddIx({Ix("u", "unknown", <<"a">>)}), Update(Plain, Vector \cup {Inline("a", "", "BITMAP")})>>, 1, <<0, 1, 0>>)
  >>

----------------------------------------------------------------------------
MCInit ==
    /\ CatalogInit /\ LifeInit /\ IndexInit
    /\ \/ about = "catalog" /\ story = MCStories[1] /\ plan = MCPlans[1]
       \/ about = "servers" /\ scene = MCScenes[1] /\ plan = MCPlans[1]
       \/ about = "indexes" /\ scene = MCScenes[1] /\ story = MCStories[1]

OfCatalog(action) == about = "catalog" /\ action /\ UNCHANGED <<about, lifeVars, indexVars>>
OfServers(action) == about = "servers" /\ action /\ UNCHANGED <<about, catalogVars, indexVars>>
OfIndexes(action) == about = "indexes" /\ action /\ UNCHANGED <<about, catalogVars, lifeVars>>

MCNext == OfCatalog(CatalogNext) \/ OfServers(LifeNext) \/ OfIndexes(IndexNext)

mcvars == <<about, catalogVars, lifeVars, indexVars>>

(* A request goes on and a lease runs out; so do the jobs of a server and  *)
(* of a master, a request of an operator and the registration of replicas; *)
(* calls are answered, logs applied and tasks of an engine run. Nothing    *)
(* makes a failure, a stop, a return or a timeout happen.                  *)
MCSpec ==
    /\ MCInit /\ [][MCNext]_mcvars
    /\ WF_mcvars(OfCatalog(\E c \in Callers : Step(c)))
    /\ WF_mcvars(OfCatalog(\E l \in locks : LockExpires(l)))
    /\ WF_mcvars(OfServers(\E s \in Servers : ServerStep(s))) /\ WF_mcvars(OfServers(\E s \in Servers : Age(s)))
    /\ WF_mcvars(OfServers(\E m \in story.masters : WatchStep(m)))
    /\ WF_mcvars(OfServers(\E m \in story.masters : ScanStep(m)))
    /\ WF_mcvars(OfServers(\E r \in lagging : RegisterPartition(r)))
    /\ WF_mcvars(OfServers(ScanLockExpires)) /\ WF_mcvars(OfServers(OperStep))
    /\ WF_mcvars(OfIndexes(\E q \in Reqs : RequestStep(q)))
    /\ WF_mcvars(OfIndexes(\E f \in flights : Submit(f) \/ Response(f)))
    /\ WF_mcvars(OfIndexes(\E p \in Partitions : \E n \in Replicas(p) : Apply(p, n)))
    /\ WF_mcvars(OfIndexes(\E p \in Partitions : \E n \in Replicas(p) : IndexMaintenanceLoop(p, n)))

(* Every request is answered and no lock is left, also when others hold    *)
(* the locks it needs, a lock is not released or etcd fails; a replica on  *)
(* a server that stays down is moved, if the failure is recorded, a        *)
(* recovery loop runs, the group has a leader and a server is empty; and   *)
(* every change of indexes ends and reaches every replica.                 *)
MasterSettles ==
    <>[](CASE about = "catalog" -> AllServed [] about = "servers" -> Recovered [] about = "indexes" -> IndexesSettled)
=============================================================================
